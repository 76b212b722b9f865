------------------------ MODULE ResponseActionsProofs ------------------------
(***************************************************************************)
(* Theorems about the response to incidents, for any workers, analysts,    *)
(* incidents, targets, playbooks, limit and number of manual operations:   *)
(*                                                                         *)
(*   - OrphansComeFromRaces and ProtectedTargetsNeedAHuman: Sound, of the  *)
(*     committed database and of the draft, and of every analyst's task    *)
(*     that nothing has crossed that what it has seen still fits the       *)
(*     database (TasksFit), whose rows only ever follow one another in a   *)
(*     certain way (Succeeds);                                             *)
(*   - LimitIsNeverExceeded: what the guardrails have counted is still at  *)
(*     least what there is when the action is carried out                  *)
(*     (DecisionStands), because the worker that evaluates has the ledger  *)
(*     to itself (HolderEvaluates);                                        *)
(*   - ModeIsStillAuto, from the same two.                                 *)
(***************************************************************************)
EXTENDS ResponseActions, FiniteSetTheorems, TLAPS

\* A database whose table of actions has the keys D.
DatabaseOf(D) ==
    [actions  : [D -> ActionRow],
     enforced : [Enforceable -> [active : BOOLEAN, action : Key \cup {<< >>}]],
     incident : [Incident -> IncidentStatus]]

IsDatabase(d) ==
    /\ DOMAIN d.actions \subseteq Key /\ IsFiniteSet(DOMAIN d.actions)
    /\ d \in DatabaseOf(DOMAIN d.actions)

\* A row belongs to an action that was executed and neither rolled back nor
\* expired since.
Live(d, x) ==
    /\ d.enforced[x].action \in DOMAIN d.actions
    /\ d.enforced[x].action[2] = x
    /\ d.actions[d.enforced[x].action].status \in {"SUCCEEDED", "DENIED"}

\* OrphanBlockIsARace and AutomationInBounds, of a database that need not be
\* committed, where the targets r have been raced for.
Sound(d, r) ==
    \A x \in Enforceable :
        /\ d.enforced[x] # NoRow =>
              /\ d.enforced[x].action \in DOMAIN d.actions
              /\ d.enforced[x].action[2] = x
              /\ x \in Allowlisted \cup Sensitive =>
                    d.actions[d.enforced[x].action].executedBy = "human"
        /\ x \notin r /\ d.enforced[x].active => Live(d, x)

\* What a committed database e keeps of the one before, d, where no approval,
\* rollback or expiry but of the targets T was committed: a row stays a row, and
\* those that are not about T are as before, or of an action that is new; the
\* actions that are not about T keep their status or are denied.
Succeeds(d, e, T) ==
    /\ DOMAIN d.actions \subseteq DOMAIN e.actions
    /\ \A k \in DOMAIN d.actions : k[2] \in Enforceable \ T =>
          e.actions[k].status \in {d.actions[k].status, "DENIED"}
    /\ \A x \in Enforceable : d.enforced[x] # NoRow => e.enforced[x] # NoRow
    /\ \A x \in Enforceable \ T :
          \/ e.enforced[x] = d.enforced[x]
          \/ e.enforced[x].active /\ Live(e, x) /\ e.enforced[x].action \notin DOMAIN d.actions

\* What a task has seen still fits the database, unless it was crossed.
Fits(t, d) ==
    t # NoTask =>
        /\ t.op \in {"approve", "deny", "rollback"}
        /\ t.at = "read" => t.op = "approve"
        /\ t.key \in DOMAIN d.actions
        /\ t.key[2] \in Enforceable /\ t.row # NoRow => d.enforced[t.key[2]] # NoRow
        /\ ~t.crossed /\ t.key[2] \in Enforceable =>
              /\ t.op = "approve" =>
                    \/ d.enforced[t.key[2]] = t.row
                    \/ d.enforced[t.key[2]].active /\ Live(d, t.key[2])
              /\ t.op = "approve" /\ t.status = "SUCCEEDED" =>
                    d.actions[t.key].status \in {"SUCCEEDED", "DENIED"}
              /\ t.op = "rollback" /\ ~t.locks =>
                    \/ d.enforced[t.key[2]] = NoRow
                    \/ /\ d.enforced[t.key[2]].active /\ Live(d, t.key[2])
                       /\ d.enforced[t.key[2]].action # t.key

TasksFit == \A a \in Analyst : Fits(task[a], db)

\* The actions that the limit is about, and those that are counted for it.
Automatic(d, o) ==
    {k \in DOMAIN d.actions : /\ d.actions[k].status = "SUCCEEDED"
                              /\ d.actions[k].executedBy = "guardrails"
                              /\ k \notin o}

InWindow(d, o) == {k \in DOMAIN d.actions : d.actions[k].status = "SUCCEEDED" /\ k \notin o}

WithinLimit(d, o) == Cardinality(Automatic(d, o)) <= MaxAuto

\* The transaction that has the ledger is that of the worker that evaluates; it
\* only adds actions to those that are committed.
HolderEvaluates ==
    /\ \A w \in Worker : pc[w] \in {"evaluating", "decided"} <=> holder = w
    /\ holder = NoOne => draft = db
    /\ Succeeds(db, draft, {})

\* What the guardrails have said of an action is still so when it is carried out.
DecisionStands ==
    \A w \in Worker : pc[w] = "decided" =>
        /\ todo[w] # << >>
        /\ decision[w] \in {"skip", "deny", "ask", "auto"}
        /\ decision[w] # "skip" => NextKey(w) \notin DOMAIN draft.actions
        /\ decision[w] = "auto" =>
              /\ mode = "auto"
              /\ NextKey(w)[2] \notin Allowlisted \cup Sensitive
              /\ Cardinality(InWindow(draft, old)) < MaxAuto

ControlTypes ==
    /\ mode \in AutonomyMode
    /\ holder \in Worker \cup {NoOne}
    /\ pc \in [Worker -> {"idle", "found", "evaluating", "decided"}]
    /\ highScore \in [Worker -> BOOLEAN]
    /\ todo \in [Worker -> Seq(Key)]
    /\ decision \in [Worker -> {"none", "skip", "deny", "ask", "auto"}]
    /\ task \in [Analyst -> Task]
    /\ raced \subseteq Enforceable
    /\ manual \in 0 .. MaxManual

TimeTypes ==
    /\ lapsed \subseteq old /\ old \subseteq DOMAIN db.actions
    /\ expiring \subseteq DOMAIN db.actions

DatabasesSound ==
    \A d \in {db, draft} : IsDatabase(d) /\ Sound(d, raced) /\ WithinLimit(d, old)

IInv ==
    /\ ControlTypes /\ TimeTypes
    /\ DatabasesSound
    /\ HolderEvaluates /\ DecisionStands /\ AutomaticOnlyInAuto
    /\ TasksFit

-----------------------------------------------------------------------------
\* Lemmas: what each rewriting of a database makes of its tables

LEMMA RowOfAction ==
    ASSUME NEW d, IsDatabase(d), NEW k \in DOMAIN d.actions
    PROVE  k \in Key /\ d.actions[k] \in ActionRow
BY DEF IsDatabase, DatabaseOf

LEMMA KeyTarget ==
    ASSUME NEW k \in Key
    PROVE  k[1] \in Incident /\ k[2] \in Target /\ k # << >>
BY DEF Key

\* A row is none exactly if it belongs to no action.
LEMMA RowsHaveOwners ==
    ASSUME NEW d, IsDatabase(d), NEW r, Sound(d, r), NEW x \in Enforceable
    PROVE  /\ d.enforced[x] \in [active : BOOLEAN, action : Key \cup {<< >>}]
           /\ d.enforced[x] # NoRow <=> d.enforced[x].action # << >>
           /\ d.enforced[x].active => d.enforced[x] # NoRow
  <1>1. d.enforced[x] \in [active : BOOLEAN, action : Key \cup {<< >>}]
    BY DEF IsDatabase, DatabaseOf
  <1>2. d.enforced[x] # NoRow => d.enforced[x].action \in Key
    BY DEF Sound, IsDatabase
  <1> QED
    BY <1>1, <1>2, KeyTarget DEF NoRow

LEMMA PutActionRows ==
    ASSUME NEW d, IsDatabase(d), NEW key \in Key, NEW row \in ActionRow
    PROVE  LET after == PutAction(d, key, row)
           IN  /\ IsDatabase(after)
               /\ DOMAIN after.actions = DOMAIN d.actions \cup {key}
               /\ after.actions[key] = row
               /\ \A k \in DOMAIN d.actions : k # key => after.actions[k] = d.actions[k]
               /\ after.enforced = d.enforced
  <1> DEFINE after == PutAction(d, key, row)
             D == DOMAIN d.actions \cup {key}
             rows == [k \in D |-> IF k = key THEN row ELSE d.actions[k]]
  <1>1. rows \in [D -> ActionRow]
    BY DEF IsDatabase, DatabaseOf
  <1>2. /\ after = [d EXCEPT !.actions = rows]
        /\ after.actions = rows /\ after.enforced = d.enforced
        /\ after \in DatabaseOf(D)
    <2>1. after = [d EXCEPT !.actions = rows]
      BY DEF PutAction
    <2> HIDE DEF rows, D, after
    <2> QED
      BY <1>1, <2>1 DEF IsDatabase, DatabaseOf
  <1>3. IsFiniteSet(D) /\ D \subseteq Key
    BY FS_AddElement DEF IsDatabase
  <1>4. IsDatabase(after)
    <2> HIDE DEF after
    <2> QED
      BY <1>2, <1>3 DEF IsDatabase
  <1>5. DOMAIN rows = D /\ rows[key] = row /\ \A k \in DOMAIN d.actions : k # key => rows[k] = d.actions[k]
    OBVIOUS
  <1> HIDE DEF rows, after
  <1> QED
    BY <1>2, <1>4, <1>5 DEF after

LEMMA EnforceRows ==
    ASSUME NEW d, IsDatabase(d), NEW key \in Key
    PROVE  LET after == Enforce(d, key)
           IN  /\ IsDatabase(after)
               /\ after.actions = d.actions
               /\ \A t \in Enforceable : t # key[2] => after.enforced[t] = d.enforced[t]
               /\ key[2] \in Enforceable =>
                     after.enforced[key[2]] = [active |-> TRUE, action |-> key]
  <1> DEFINE after == Enforce(d, key)
             rows == [t \in Enforceable |->
                        IF t = key[2] THEN [active |-> TRUE, action |-> key] ELSE d.enforced[t]]
  <1>1. rows \in [Enforceable -> [active : BOOLEAN, action : Key \cup {<< >>}]]
    BY DEF IsDatabase, DatabaseOf
  <1>2. after = [d EXCEPT !.enforced = rows]
    BY DEF Enforce
  <1>3. /\ \A t \in Enforceable : t # key[2] => rows[t] = d.enforced[t]
        /\ key[2] \in Enforceable => rows[key[2]] = [active |-> TRUE, action |-> key]
    OBVIOUS
  <1> HIDE DEF rows, after
  <1>4. IsDatabase(after) /\ after.actions = d.actions /\ after.enforced = rows
    BY <1>1, <1>2 DEF IsDatabase, DatabaseOf
  <1> QED
    BY <1>3, <1>4 DEF after

LEMMA LiftRows ==
    ASSUME NEW d, IsDatabase(d), NEW keys
    PROVE  LET after == Lift(d, keys)
           IN  /\ IsDatabase(after)
               /\ after.actions = d.actions
               /\ \A x \in Enforceable :
                     /\ after.enforced[x].action = d.enforced[x].action
                     /\ after.enforced[x] # NoRow => d.enforced[x] # NoRow
                     /\ after.enforced[x].active =>
                           after.enforced[x] = d.enforced[x] /\ \A k \in keys : k[2] # x
                     /\ (\A k \in keys : k[2] # x) => after.enforced[x] = d.enforced[x]
  <1> DEFINE after == Lift(d, keys)
             rows == [t \in Enforceable |->
                        IF \E k \in keys : k[2] = t THEN [active |-> FALSE, action |-> d.enforced[t].action]
                                                    ELSE d.enforced[t]]
  <1>1. rows \in [Enforceable -> [active : BOOLEAN, action : Key \cup {<< >>}]]
    BY DEF IsDatabase, DatabaseOf
  <1>2. after = [d EXCEPT !.enforced = rows]
    BY DEF Lift
  <1>3. ASSUME NEW x \in Enforceable
        PROVE  /\ rows[x].action = d.enforced[x].action
               /\ rows[x] # NoRow => d.enforced[x] # NoRow
               /\ rows[x].active => rows[x] = d.enforced[x] /\ \A k \in keys : k[2] # x
               /\ (\A k \in keys : k[2] # x) => rows[x] = d.enforced[x]
    <2>1. d.enforced[x] \in [active : BOOLEAN, action : Key \cup {<< >>}]
      BY DEF IsDatabase, DatabaseOf
    <2>2. CASE \E k \in keys : k[2] = x
      <3> DEFINE row == d.enforced[x]
      <3>1. rows[x] = [active |-> FALSE, action |-> row.action]
        BY <2>2
      <3>2. rows[x].action = row.action /\ ~rows[x].active
        BY <2>1, <3>1
      <3>3. row = NoRow => rows[x] = NoRow
        BY <3>1 DEF NoRow
      <3> QED
        BY <2>2, <3>2, <3>3
    <2>3. CASE \A k \in keys : k[2] # x
      <3>1. rows[x] = d.enforced[x]
        BY <2>3
      <3> QED
        BY <2>3, <3>1
    <2> QED
      BY <2>2, <2>3
  <1> HIDE DEF rows, after
  <1>4. IsDatabase(after) /\ after.actions = d.actions /\ after.enforced = rows
    BY <1>1, <1>2 DEF IsDatabase, DatabaseOf
  <1> QED
    BY <1>3, <1>4 DEF after

LEMMA SetIncidentRows ==
    ASSUME NEW d, IsDatabase(d), NEW i \in Incident, NEW status \in IncidentStatus
    PROVE  LET after == SetIncident(d, i, status)
           IN  /\ IsDatabase(after)
               /\ after.actions = d.actions /\ after.enforced = d.enforced
  <1> DEFINE after == SetIncident(d, i, status)
             rows == [d.incident EXCEPT ![i] = status]
  <1>1. rows \in [Incident -> IncidentStatus]
    BY DEF IsDatabase, DatabaseOf
  <1>2. after = [d EXCEPT !.incident = rows]
    BY DEF SetIncident
  <1> HIDE DEF rows, after
  <1>3. IsDatabase(after) /\ after.actions = d.actions /\ after.enforced = d.enforced
    BY <1>1, <1>2 DEF IsDatabase, DatabaseOf
  <1> QED
    BY <1>3 DEF after

\* The first half of ExpireListed, for any set of actions.
MarkExpired(d, keys) ==
    [d EXCEPT !.actions = [k \in DOMAIN @ |->
        IF k \in keys THEN [@[k] EXCEPT !.status = "EXPIRED"] ELSE @[k]]]

LEMMA MarkExpiredRows ==
    ASSUME NEW d, IsDatabase(d), NEW keys
    PROVE  LET after == MarkExpired(d, keys)
           IN  /\ IsDatabase(after)
               /\ DOMAIN after.actions = DOMAIN d.actions
               /\ \A k \in DOMAIN d.actions :
                     /\ after.actions[k].executedBy = d.actions[k].executedBy
                     /\ IF k \in keys THEN after.actions[k].status = "EXPIRED"
                                      ELSE after.actions[k] = d.actions[k]
               /\ after.enforced = d.enforced
  <1> DEFINE after == MarkExpired(d, keys)
             rows == [k \in DOMAIN d.actions |->
                IF k \in keys THEN [d.actions[k] EXCEPT !.status = "EXPIRED"] ELSE d.actions[k]]
  <1>1. ASSUME NEW k \in DOMAIN d.actions
        PROVE  /\ rows[k] \in ActionRow
               /\ rows[k].executedBy = d.actions[k].executedBy
               /\ IF k \in keys THEN rows[k].status = "EXPIRED" ELSE rows[k] = d.actions[k]
    BY RowOfAction DEF ActionRow, ActionStatus
  <1>2. rows \in [DOMAIN d.actions -> ActionRow] /\ DOMAIN rows = DOMAIN d.actions
    BY <1>1
  <1>3. after = [d EXCEPT !.actions = rows]
    BY DEF MarkExpired
  <1> HIDE DEF rows, after
  <1>4. IsDatabase(after) /\ after.actions = rows /\ after.enforced = d.enforced
    BY <1>2, <1>3 DEF IsDatabase, DatabaseOf
  <1> QED
    BY <1>1, <1>2, <1>4 DEF after

-----------------------------------------------------------------------------
\* Lemmas: which rewritings make no orphan of an active block

\* Executed, step by step.
LEMMA ExecutedRows ==
    ASSUME NEW d, IsDatabase(d), NEW key \in Key, NEW row \in ActionRow
    PROVE  LET after == Executed(d, key, row)
           IN  /\ IsDatabase(after)
               /\ DOMAIN after.actions = DOMAIN d.actions \cup {key}
               /\ after.actions[key] = row
               /\ \A k \in DOMAIN d.actions : k # key => after.actions[k] = d.actions[k]
               /\ \A t \in Enforceable : t # key[2] => after.enforced[t] = d.enforced[t]
               /\ key[2] \in Enforceable =>
                     after.enforced[key[2]] = [active |-> TRUE, action |-> key]
  <1> DEFINE put == PutAction(d, key, row)
             blocked == Enforce(put, key)
             after == Executed(d, key, row)
  <1>1. /\ IsDatabase(put)
        /\ DOMAIN put.actions = DOMAIN d.actions \cup {key}
        /\ put.actions[key] = row
        /\ \A k \in DOMAIN d.actions : k # key => put.actions[k] = d.actions[k]
        /\ put.enforced = d.enforced
    BY PutActionRows
  <1> HIDE DEF put
  <1>2. /\ IsDatabase(blocked)
        /\ blocked.actions = put.actions
        /\ \A t \in Enforceable : t # key[2] => blocked.enforced[t] = put.enforced[t]
        /\ key[2] \in Enforceable =>
              blocked.enforced[key[2]] = [active |-> TRUE, action |-> key]
    BY <1>1, EnforceRows
  <1>3. after = IF key[2] \in Channel THEN blocked ELSE SetIncident(blocked, key[1], "CONTAINED")
    BY Zenon DEF Executed, put
  <1> HIDE DEF blocked, after
  <1>4. key[1] \in Incident /\ "CONTAINED" \in IncidentStatus
    BY KeyTarget DEF IncidentStatus
  <1>5. IsDatabase(after) /\ after.actions = blocked.actions /\ after.enforced = blocked.enforced
    BY <1>2, <1>3, <1>4, SetIncidentRows
  <1>6. /\ IsDatabase(after)
        /\ DOMAIN after.actions = DOMAIN d.actions \cup {key}
        /\ after.actions[key] = row
        /\ \A k \in DOMAIN d.actions : k # key => after.actions[k] = d.actions[k]
        /\ \A t \in Enforceable : t # key[2] => after.enforced[t] = d.enforced[t]
        /\ key[2] \in Enforceable => after.enforced[key[2]] = [active |-> TRUE, action |-> key]
    BY <1>1, <1>2, <1>5
  <1> QED
    BY <1>6 DEF after

\* An action is executed: the rows of the other targets belong to other actions.
LEMMA ExecutedSound ==
    ASSUME NEW d, IsDatabase(d), NEW r, Sound(d, r), NEW key \in Key, NEW row \in ActionRow,
           row.status = "SUCCEEDED",
           key[2] \in Allowlisted \cup Sensitive => row.executedBy = "human"
    PROVE  Sound(Executed(d, key, row), r)
  <1> DEFINE after == Executed(d, key, row)
  <1>1. /\ DOMAIN after.actions = DOMAIN d.actions \cup {key}
        /\ after.actions[key] = row
        /\ \A k \in DOMAIN d.actions : k # key => after.actions[k] = d.actions[k]
        /\ \A x \in Enforceable : x # key[2] => after.enforced[x] = d.enforced[x]
        /\ key[2] \in Enforceable => after.enforced[key[2]] = [active |-> TRUE, action |-> key]
    BY ExecutedRows
  <1> HIDE DEF after
  <1> SUFFICES ASSUME NEW x \in Enforceable
               PROVE  /\ after.enforced[x] # NoRow =>
                            /\ after.enforced[x].action \in DOMAIN after.actions
                            /\ after.enforced[x].action[2] = x
                            /\ x \in Allowlisted \cup Sensitive =>
                                  after.actions[after.enforced[x].action].executedBy = "human"
                      /\ x \notin r /\ after.enforced[x].active => Live(after, x)
    BY DEF Sound, after
  <1>2. CASE x = key[2]
    BY <1>1, <1>2 DEF Live
  <1>3. CASE x # key[2]
    <2>1. after.enforced[x] = d.enforced[x]
      BY <1>1, <1>3
    <2>2. ASSUME d.enforced[x] # NoRow PROVE d.enforced[x].action # key
      BY <1>3, <2>2 DEF Sound
    <2>3. d.enforced[x].active => d.enforced[x] # NoRow
      BY DEF NoRow
    <2> QED
      BY <1>1, <2>1, <2>2, <2>3 DEF Sound, Live
  <1> QED
    BY <1>2, <1>3

\* A row is put that is new, or that changes an action's status where it does not
\* matter.
LEMMA PutActionSound ==
    ASSUME NEW d, IsDatabase(d), NEW r, Sound(d, r), NEW key \in Key, NEW row \in ActionRow,
           key \in DOMAIN d.actions =>
               /\ row.executedBy \in {d.actions[key].executedBy, "human"}
               /\ \/ row.status \in {d.actions[key].status, "DENIED"}
                  \/ \A x \in Enforceable \ r : d.enforced[x].active => d.enforced[x].action # key
    PROVE  Sound(PutAction(d, key, row), r)
  <1> DEFINE after == PutAction(d, key, row)
  <1>1. /\ DOMAIN after.actions = DOMAIN d.actions \cup {key}
        /\ after.actions[key] = row
        /\ \A k \in DOMAIN d.actions : k # key => after.actions[k] = d.actions[k]
        /\ after.enforced = d.enforced
    BY PutActionRows
  <1> HIDE DEF after
  <1>2. ASSUME NEW x \in Enforceable
        PROVE  /\ after.enforced[x] # NoRow =>
                     /\ after.enforced[x].action \in DOMAIN after.actions
                     /\ after.enforced[x].action[2] = x
                     /\ x \in Allowlisted \cup Sensitive =>
                           after.actions[after.enforced[x].action].executedBy = "human"
               /\ x \notin r /\ after.enforced[x].active => Live(after, x)
    BY <1>1 DEF Sound, Live
  <1>3. Sound(after, r)
    BY <1>2 DEF Sound
  <1> QED
    BY <1>3 DEF after

\* Rows change, and the blocks of their targets are lifted with them.
LEMMA LiftSound ==
    ASSUME NEW d, NEW r, Sound(d, r), NEW put, IsDatabase(put), NEW keys \in SUBSET Key, NEW q,
           put.enforced = d.enforced,
           DOMAIN d.actions \subseteq DOMAIN put.actions,
           \A k \in DOMAIN d.actions : put.actions[k].executedBy = d.actions[k].executedBy,
           \A k \in DOMAIN d.actions \ keys : put.actions[k] = d.actions[k],
           \A x \in Enforceable \ q : x \notin r \/ \E k \in keys : k[2] = x
    PROVE  Sound(Lift(put, keys), q)
  <1> DEFINE after == Lift(put, keys)
  <1>1. /\ after.actions = put.actions
        /\ \A x \in Enforceable :
              /\ after.enforced[x].action = put.enforced[x].action
              /\ after.enforced[x] # NoRow => put.enforced[x] # NoRow
              /\ after.enforced[x].active =>
                    after.enforced[x] = put.enforced[x] /\ \A k \in keys : k[2] # x
    BY LiftRows
  <1> HIDE DEF after
  <1>2. ASSUME NEW x \in Enforceable, after.enforced[x] # NoRow
        PROVE  /\ after.enforced[x].action \in DOMAIN after.actions
               /\ after.enforced[x].action[2] = x
               /\ x \in Allowlisted \cup Sensitive =>
                     after.actions[after.enforced[x].action].executedBy = "human"
    BY <1>1, <1>2 DEF Sound
  <1>3. ASSUME NEW x \in Enforceable \ q, after.enforced[x].active PROVE Live(after, x)
    <2>1. /\ after.enforced[x] = d.enforced[x] /\ x \notin r /\ \A k \in keys : k[2] # x
      BY <1>1, <1>3
    <2>2. Live(d, x)
      BY <1>3, <2>1 DEF Sound
    <2> QED
      BY <1>1, <2>1, <2>2 DEF Live
  <1> QED
    BY <1>2, <1>3 DEF Sound, after

LEMMA SameTablesSound ==
    ASSUME NEW d, NEW r, Sound(d, r), NEW after,
           after.actions = d.actions, after.enforced = d.enforced
    PROVE  Sound(after, r)
BY DEF Sound, Live

LEMMA SoundElsewhere ==
    ASSUME NEW d, NEW r, Sound(d, r), NEW q,
           \A x \in Enforceable \ q : x \in r /\ d.enforced[x].active => Live(d, x)
    PROVE  Sound(d, q)
BY DEF Sound

-----------------------------------------------------------------------------
\* Lemmas: what has been seen of a database goes on to fit the ones that follow

LEMMA SucceedsItself ==
    ASSUME NEW d, NEW T
    PROVE  Succeeds(d, d, T)
BY DEF Succeeds

LEMMA SucceedsInTurn ==
    ASSUME NEW c, NEW d, NEW e, Succeeds(c, d, {}), Succeeds(d, e, {})
    PROVE  Succeeds(c, e, {})
  <1>1. \A k \in DOMAIN c.actions : k[2] \in Enforceable =>
            e.actions[k].status \in {c.actions[k].status, "DENIED"}
    BY DEF Succeeds
  <1>2. ASSUME NEW x \in Enforceable
        PROVE  \/ e.enforced[x] = c.enforced[x]
               \/ /\ e.enforced[x].active /\ Live(e, x)
                  /\ e.enforced[x].action \notin DOMAIN c.actions
    <2>1. CASE e.enforced[x] # d.enforced[x]
      BY <2>1 DEF Succeeds
    <2>2. CASE e.enforced[x] = d.enforced[x] /\ d.enforced[x] # c.enforced[x]
      <3>1. /\ d.enforced[x].active /\ Live(d, x)
            /\ d.enforced[x].action \notin DOMAIN c.actions
        BY <2>2 DEF Succeeds
      <3>2. e.actions[d.enforced[x].action].status \in {"SUCCEEDED", "DENIED"}
        BY <3>1 DEF Succeeds, Live
      <3> QED
        BY <2>2, <3>1, <3>2 DEF Succeeds, Live
    <2> QED
      BY <2>1, <2>2
  <1> QED
    BY <1>1, <1>2 DEF Succeeds

LEMMA FitsKept ==
    ASSUME NEW t \in Task, NEW d, NEW e, NEW T, Fits(t, d), Succeeds(d, e, T),
           t.crossed \/ Rewritten(t) \cap T = {}
    PROVE  Fits(t, e)
  <1> SUFFICES ASSUME t # NoTask PROVE Fits(t, e)
    BY DEF Fits
  <1> DEFINE x == t.key[2]
  <1>1. /\ t.op \in {"approve", "deny", "rollback"} /\ t.key \in DOMAIN e.actions
        /\ t.at = "read" => t.op = "approve"
        /\ x \in Enforceable /\ t.row # NoRow => e.enforced[x] # NoRow
    BY DEF Fits, Succeeds
  <1>2. ASSUME ~t.crossed, x \in Enforceable, t.op # "deny"
        PROVE  /\ d.enforced[x].active /\ Live(d, x) => e.enforced[x].active /\ Live(e, x)
               /\ d.actions[t.key].status \in {"SUCCEEDED", "DENIED"} =>
                     e.actions[t.key].status \in {"SUCCEEDED", "DENIED"}
               /\ \/ e.enforced[x] = d.enforced[x]
                  \/ e.enforced[x].active /\ Live(e, x) /\ e.enforced[x].action # t.key
    <2>1. x \in Enforceable \ T
      BY <1>1, <1>2 DEF Rewritten
    <2>2. /\ t.key \in DOMAIN d.actions
          /\ e.actions[t.key].status \in {d.actions[t.key].status, "DENIED"}
      BY <2>1 DEF Fits, Succeeds
    <2>3. \/ e.enforced[x] = d.enforced[x]
          \/ e.enforced[x].active /\ Live(e, x) /\ e.enforced[x].action \notin DOMAIN d.actions
      BY <2>1 DEF Succeeds
    <2>4. Live(d, x) /\ e.enforced[x] = d.enforced[x] => Live(e, x)
      BY <2>1 DEF Succeeds, Live
    <2> QED
      BY <2>2, <2>3, <2>4
  <1>3. ASSUME ~t.crossed, x \in Enforceable
        PROVE  /\ t.op = "approve" =>
                     \/ e.enforced[x] = t.row
                     \/ e.enforced[x].active /\ Live(e, x)
               /\ t.op = "approve" /\ t.status = "SUCCEEDED" =>
                     e.actions[t.key].status \in {"SUCCEEDED", "DENIED"}
               /\ t.op = "rollback" /\ ~t.locks =>
                     \/ e.enforced[x] = NoRow
                     \/ /\ e.enforced[x].active /\ Live(e, x)
                        /\ e.enforced[x].action # t.key
    BY <1>2, <1>3 DEF Fits
  <1> QED
    BY <1>1, <1>3 DEF Fits

LEMMA CrossedFits ==
    ASSUME NEW tasks \in [Analyst -> Task], NEW T, NEW d, NEW e, Succeeds(d, e, T),
           NEW a \in Analyst, Fits(tasks[a], d)
    PROVE  /\ Cross(tasks, T)[a] \in Task
           /\ Fits(Cross(tasks, T)[a], e)
  <1> DEFINE t == tasks[a]
             u == [t EXCEPT !.crossed = TRUE]
  <1>1. t \in Task
    OBVIOUS
  <1>2. CASE Rewritten(t) \cap T = {}
    BY <1>1, <1>2, FitsKept DEF Cross
  <1>3. CASE Rewritten(t) \cap T # {}
    <2>1. Cross(tasks, T)[a] = u
      BY <1>3 DEF Cross
    <2>2. u \in Task /\ u.crossed
      BY <1>1 DEF Task
    <2>3. /\ u.op = t.op /\ u.key = t.key /\ u.at = t.at /\ u.row = t.row
      BY <1>1 DEF Task
    <2>4. t # NoTask
      BY <1>3 DEF Rewritten, NoTask
    <2> HIDE DEF u, t
    <2>5. Fits(u, d)
      BY <2>2, <2>3, <2>4 DEF Fits, t
    <2>6. Fits(u, e)
      BY <2>2, <2>5, FitsKept
    <2> QED
      BY <2>1, <2>2, <2>6
  <1> QED
    BY <1>2, <1>3

LEMMA NothingCrossed ==
    ASSUME NEW tasks \in [Analyst -> Task]
    PROVE  Cross(tasks, {}) = tasks
BY DEF Cross

-----------------------------------------------------------------------------
\* Lemmas: the limit

LEMMA CountedIsFinite ==
    ASSUME NEW d, IsDatabase(d), NEW o
    PROVE  /\ IsFiniteSet(Automatic(d, o)) /\ IsFiniteSet(InWindow(d, o))
           /\ Automatic(d, o) \subseteq InWindow(d, o)
           /\ Cardinality(Automatic(d, o)) \in Nat /\ Cardinality(InWindow(d, o)) \in Nat
  <1>1. IsFiniteSet(DOMAIN d.actions)
    BY DEF IsDatabase
  <1>2. /\ Automatic(d, o) \subseteq DOMAIN d.actions
        /\ InWindow(d, o) \subseteq DOMAIN d.actions
        /\ Automatic(d, o) \subseteq InWindow(d, o)
    BY DEF Automatic, InWindow
  <1> QED
    BY <1>1, <1>2, FS_Subset, FS_CardinalityType

\* No action has been executed automatically since.
LEMMA LimitKept ==
    ASSUME NEW d, IsDatabase(d), NEW o, WithinLimit(d, o), NEW after, NEW p,
           Automatic(after, p) \subseteq Automatic(d, o)
    PROVE  WithinLimit(after, p)
  <1>1. /\ IsFiniteSet(Automatic(d, o))
        /\ Cardinality(Automatic(d, o)) \in Nat
    BY CountedIsFinite
  <1>2. /\ Cardinality(Automatic(after, p)) <= Cardinality(Automatic(d, o))
        /\ IsFiniteSet(Automatic(after, p))
    BY <1>1, FS_Subset
  <1>3. Cardinality(Automatic(after, p)) \in Nat
    BY <1>2, FS_CardinalityType
  <1> QED
    BY <1>1, <1>2, <1>3, MaxAutoAssumption DEF WithinLimit

\* One more action, where the guardrails have counted less than the limit.
LEMMA LimitReached ==
    ASSUME NEW d, IsDatabase(d), NEW o, Cardinality(InWindow(d, o)) < MaxAuto, NEW after, NEW key,
           Automatic(after, o) \subseteq Automatic(d, o) \cup {key}
    PROVE  WithinLimit(after, o)
  <1> DEFINE more == InWindow(d, o) \cup {key}
  <1>1. /\ IsFiniteSet(InWindow(d, o)) /\ Cardinality(InWindow(d, o)) \in Nat
        /\ Automatic(d, o) \subseteq InWindow(d, o)
    BY CountedIsFinite
  <1>2. /\ IsFiniteSet(more)
        /\ \/ Cardinality(more) = Cardinality(InWindow(d, o))
           \/ Cardinality(more) = Cardinality(InWindow(d, o)) + 1
    BY <1>1, FS_AddElement
  <1>3. Automatic(after, o) \subseteq more
    BY <1>1
  <1> HIDE DEF more
  <1>4. /\ IsFiniteSet(Automatic(after, o))
        /\ Cardinality(Automatic(after, o)) <= Cardinality(more)
    BY <1>2, <1>3, FS_Subset
  <1>5. Cardinality(Automatic(after, o)) \in Nat
    BY <1>4, FS_CardinalityType
  <1> QED
    BY <1>1, <1>2, <1>4, <1>5, MaxAutoAssumption DEF WithinLimit

\* The guardrails count what the limit is about.
LEMMA WindowIsCounted ==
    ASSUME NEW d
    PROVE  ActionsInWindow(d) = Cardinality(InWindow(d, old))
BY DEF ActionsInWindow, InWindow

-----------------------------------------------------------------------------
\* What evaluate_incident makes of a decision that stands.

LEMMA CarriedIsSound ==
    ASSUME NEW d, IsDatabase(d), NEW r, Sound(d, r), WithinLimit(d, old), NEW key \in Key,
           NEW outcome \in {"skip", "deny", "ask", "auto", "fail"},
           outcome # "skip" => key \notin DOMAIN d.actions,
           outcome = "auto" => /\ key[2] \notin Allowlisted \cup Sensitive
                               /\ Cardinality(InWindow(d, old)) < MaxAuto
    PROVE  LET after == Carried(d, key, outcome)
           IN  /\ IsDatabase(after) /\ Sound(after, r) /\ WithinLimit(after, old)
               /\ DOMAIN d.actions \subseteq DOMAIN after.actions
               /\ \A k \in DOMAIN d.actions : after.actions[k] = d.actions[k]
               /\ outcome # "auto" => \A k \in DOMAIN after.actions \ DOMAIN d.actions :
                                         after.actions[k].executedBy # "guardrails"
               /\ Succeeds(d, after, {})
  <1> DEFINE after == Carried(d, key, outcome)
             Good(e) == /\ IsDatabase(e) /\ Sound(e, r) /\ WithinLimit(e, old)
                        /\ DOMAIN d.actions \subseteq DOMAIN e.actions
                        /\ \A k \in DOMAIN d.actions : e.actions[k] = d.actions[k]
                        /\ outcome # "auto" => \A k \in DOMAIN e.actions \ DOMAIN d.actions :
                                                  e.actions[k].executedBy # "guardrails"
                        /\ Succeeds(d, e, {})
  <1>1. HasTtl(key) \in BOOLEAN
    BY DEF HasTtl
  <1>2. CASE outcome = "skip"
    <2>1. after = d
      BY <1>2 DEF Carried
    <2> HIDE DEF after
    <2>2. Good(after)
      BY <1>2, <2>1, SucceedsItself
    <2> QED
      BY <2>2 DEF after
  <1>3. ASSUME NEW row \in ActionRow, row.executedBy = "nobody", outcome # "skip"
        PROVE  Good(PutAction(d, key, row))
    <2> DEFINE put == PutAction(d, key, row)
    <2>1. /\ IsDatabase(put)
          /\ DOMAIN put.actions = DOMAIN d.actions \cup {key}
          /\ put.actions[key] = row
          /\ \A k \in DOMAIN d.actions : k # key => put.actions[k] = d.actions[k]
          /\ put.enforced = d.enforced
      BY PutActionRows
    <2>2. Sound(put, r)
      BY <1>3, PutActionSound
    <2> HIDE DEF put
    <2>3. Automatic(put, old) \subseteq Automatic(d, old)
      BY <1>3, <2>1 DEF Automatic
    <2>4. WithinLimit(put, old)
      BY <2>3, LimitKept
    <2>5. Succeeds(d, put, {})
      BY <1>3, <2>1 DEF Succeeds
    <2>6. Good(put)
      BY <1>3, <2>1, <2>2, <2>4, <2>5
    <2> QED
      BY <2>6 DEF put
  <1>4. CASE outcome = "deny"
    <2> DEFINE row == [status |-> "DENIED", ttl |-> FALSE, executedBy |-> "nobody"]
    <2>1. row \in ActionRow /\ row.executedBy = "nobody"
      BY DEF ActionRow, ActionStatus
    <2>2. after = PutAction(d, key, row)
      BY <1>4 DEF Carried
    <2> HIDE DEF row, after, Good
    <2>3. Good(after)
      BY <1>3, <1>4, <2>1, <2>2
    <2> QED
      BY <2>3 DEF Good, after
  <1>5. CASE outcome = "ask"
    <2> DEFINE row == [status |-> "AWAITING_APPROVAL", ttl |-> HasTtl(key), executedBy |-> "nobody"]
               put == PutAction(d, key, row)
    <2>1. row \in ActionRow /\ row.executedBy = "nobody"
      BY <1>1 DEF ActionRow, ActionStatus
    <2>2. after = SetIncident(put, key[1], "AWAITING_APPROVAL")
      BY <1>5 DEF Carried
    <2>3. Good(put)
      <3> HIDE DEF row, Good
      <3> QED
        BY <1>3, <1>5, <2>1
    <2> HIDE DEF put, after
    <2>4. key[1] \in Incident /\ "AWAITING_APPROVAL" \in IncidentStatus
      BY KeyTarget DEF IncidentStatus
    <2>5. IsDatabase(after) /\ after.actions = put.actions /\ after.enforced = put.enforced
      BY <2>2, <2>3, <2>4, SetIncidentRows
    <2>6. Sound(after, r) /\ Automatic(after, old) = Automatic(put, old)
      BY <2>3, <2>5, SameTablesSound DEF Automatic
    <2>7. Succeeds(d, after, {})
      BY <2>3, <2>5 DEF Succeeds, Live
    <2>8. Good(after)
      BY <2>3, <2>5, <2>6, <2>7 DEF WithinLimit
    <2> QED
      BY <2>8 DEF after
  <1>6. CASE outcome = "auto"
    <2> DEFINE row == [status |-> "SUCCEEDED", ttl |-> HasTtl(key), executedBy |-> "guardrails"]
    <2>1. row \in ActionRow /\ row.status = "SUCCEEDED"
      BY <1>1 DEF ActionRow, ActionStatus
    <2>2. after = Executed(d, key, row)
      BY <1>6 DEF Carried
    <2> HIDE DEF row, after
    <2> DEFINE executed == Executed(d, key, row)
    <2>3. /\ IsDatabase(executed)
          /\ DOMAIN executed.actions = DOMAIN d.actions \cup {key}
          /\ executed.actions[key] = row
          /\ \A k \in DOMAIN d.actions : k # key => executed.actions[k] = d.actions[k]
          /\ \A t \in Enforceable : t # key[2] => executed.enforced[t] = d.enforced[t]
          /\ key[2] \in Enforceable =>
                executed.enforced[key[2]] = [active |-> TRUE, action |-> key]
      BY <2>1, ExecutedRows
    <2> HIDE DEF executed
    <2>4. Sound(after, r)
      BY <1>6, <2>1, <2>2, ExecutedSound
    <2>5. Automatic(after, old) \subseteq Automatic(d, old) \cup {key}
      BY <2>2, <2>3 DEF Automatic, executed
    <2>6. WithinLimit(after, old)
      BY <1>6, <2>5, LimitReached
    <2>7. Succeeds(d, after, {})
      <3>1. key \notin DOMAIN d.actions
        BY <1>6
      <3>2. key[2] \in Enforceable => Live(executed, key[2])
        BY <2>1, <2>3 DEF Live
      <3> QED
        BY <2>2, <2>3, <3>1, <3>2 DEF executed, Succeeds, NoRow
    <2>8. Good(after)
      BY <1>6, <2>2, <2>3, <2>4, <2>6, <2>7 DEF executed
    <2> QED
      BY <2>8 DEF after
  <1>7. CASE outcome = "fail"
    <2> DEFINE row == [status |-> "FAILED", ttl |-> HasTtl(key), executedBy |-> "nobody"]
    <2>1. row \in ActionRow /\ row.executedBy = "nobody"
      BY <1>1 DEF ActionRow, ActionStatus
    <2>2. after = PutAction(d, key, row)
      BY <1>7 DEF Carried
    <2> HIDE DEF row, after, Good
    <2>3. Good(after)
      BY <1>3, <1>7, <2>1, <2>2
    <2> QED
      BY <2>3 DEF Good, after
  <1> QED
    BY <1>2, <1>4, <1>5, <1>6, <1>7

-----------------------------------------------------------------------------
\* The inductive invariant: the initial states

LEMMA InitDatabase ==
    ASSUME Init
    PROVE  IsDatabase(db) /\ Sound(db, raced) /\ WithinLimit(db, old) /\ DOMAIN db.actions = {}
  <1> DEFINE rows == [k \in {} |-> 0]
             unblocked == [t \in Enforceable |-> NoRow]
             opened == [i \in Incident |-> "OPEN"]
  <1>1. rows \in [{} -> ActionRow] /\ DOMAIN rows = {}
    OBVIOUS
  <1>2. /\ unblocked \in [Enforceable -> [active : BOOLEAN, action : Key \cup {<< >>}]]
        /\ \A t \in Enforceable : unblocked[t] = NoRow /\ ~unblocked[t].active
    BY DEF NoRow
  <1>3. opened \in [Incident -> IncidentStatus]
    BY DEF IncidentStatus
  <1>4. db = [actions |-> rows, enforced |-> unblocked, incident |-> opened]
    BY DEF Init
  <1> HIDE DEF rows, unblocked, opened
  <1>5. /\ db.actions = rows /\ db.enforced = unblocked
        /\ db \in DatabaseOf({})
    BY <1>1, <1>2, <1>3, <1>4 DEF DatabaseOf
  <1>6. IsDatabase(db)
    BY <1>1, <1>5, FS_EmptySet DEF IsDatabase
  <1>7. Sound(db, raced)
    BY <1>1, <1>2, <1>5 DEF Sound, NoRow, Init
  <1>8. Automatic(db, old) = {}
    BY <1>1, <1>5 DEF Automatic
  <1>9. WithinLimit(db, old)
    BY <1>8, FS_EmptySet, MaxAutoAssumption DEF WithinLimit
  <1> QED
    BY <1>1, <1>5, <1>6, <1>7, <1>9

LEMMA IInvInit == Init => IInv
  <1> SUFFICES ASSUME Init PROVE IInv
    OBVIOUS
  <1>1. IsDatabase(db) /\ Sound(db, raced) /\ WithinLimit(db, old) /\ DOMAIN db.actions = {} /\ draft = db
    BY InitDatabase DEF Init
  <1>2. ControlTypes
    <2>1. NoTask \in Task
      BY DEF NoTask, NoRow, Task
    <2> QED
      BY <2>1, DefaultModeAssumption, MaxManualAssumption DEF Init, ControlTypes
  <1>3. TimeTypes
    BY DEF Init, TimeTypes
  <1>4. HolderEvaluates
    BY <1>1, WorkerAssumption, SucceedsItself DEF Init, HolderEvaluates
  <1>5. DecisionStands
    BY DEF Init, DecisionStands
  <1>6. AutomaticOnlyInAuto
    BY <1>1 DEF AutomaticOnlyInAuto, UncommittedAutomatic
  <1>7. TasksFit
    BY DEF Init, TasksFit, Fits
  <1> QED
    BY <1>1, <1>2, <1>3, <1>4, <1>5, <1>6, <1>7 DEF IInv, DatabasesSound

-----------------------------------------------------------------------------
\* The inductive invariant: the operations that append last

\* What raced is after a task is committed.
RacedAfter(t) == IF t.crossed THEN raced \cup Rewritten(t) ELSE raced \ Rewritten(t)

LEMMA WriteKeepsIInv ==
    ASSUME IInv, NEW d, Write(d),
           IsDatabase(d), Sound(d, raced'), WithinLimit(d, old),
           NEW T, Succeeds(db, d, T),
           NEW tasks \in [Analyst -> Task], \A a \in Analyst : Fits(tasks[a], db),
           task' = Cross(tasks, T), raced' \subseteq Enforceable,
           mode' \in AutonomyMode, manual' \in 0 .. MaxManual,
           expiring' \subseteq DOMAIN d.actions
    PROVE  IInv'
  <1>1. /\ holder = NoOne /\ db' = d /\ draft' = d
        /\ UNCHANGED <<holder, pc, highScore, todo, decision, old, lapsed>>
    BY DEF Write, timeVars
  <1>2. \A w \in Worker : pc[w] \notin {"evaluating", "decided"}
    BY <1>1, WorkerAssumption DEF IInv, HolderEvaluates
  <1>3. ControlTypes'
    <2>1. \A a \in Analyst : Cross(tasks, T)[a] \in Task
      BY CrossedFits
    <2>2. Cross(tasks, T) \in [Analyst -> Task]
      BY <2>1 DEF Cross
    <2> QED
      BY <1>1, <2>2 DEF IInv, ControlTypes
  <1>4. TimeTypes'
    <2>1. DOMAIN db.actions \subseteq DOMAIN d.actions
      BY DEF Succeeds
    <2> QED
      BY <1>1, <2>1 DEF IInv, TimeTypes
  <1>5. DatabasesSound'
    BY <1>1 DEF DatabasesSound
  <1>6. HolderEvaluates'
    BY <1>1, SucceedsItself DEF IInv, HolderEvaluates
  <1>7. DecisionStands'
    BY <1>1, <1>2 DEF DecisionStands
  <1>8. AutomaticOnlyInAuto'
    BY <1>1 DEF AutomaticOnlyInAuto, UncommittedAutomatic
  <1>9. TasksFit'
    BY <1>1, CrossedFits DEF TasksFit
  <1> QED
    BY <1>3, <1>4, <1>5, <1>6, <1>7, <1>8, <1>9 DEF IInv

LEMMA ManualWriteKeepsIInv ==
    ASSUME IInv, NEW d, ManualWrite(d),
           IsDatabase(d), Sound(d, raced), WithinLimit(d, old), Succeeds(db, d, {}),
           mode' \in AutonomyMode
    PROVE  IInv'
  <1>1. Write(d) /\ UNCHANGED <<expiring, task, raced>>
    BY DEF ManualWrite
  <1>2. manual' \in 0 .. MaxManual
    BY MaxManualAssumption DEF ManualWrite, IInv, ControlTypes
  <1>3. expiring' \subseteq DOMAIN d.actions
    BY <1>1 DEF IInv, TimeTypes, Succeeds
  <1>4. /\ task \in [Analyst -> Task] /\ raced \subseteq Enforceable
        /\ \A a \in Analyst : Fits(task[a], db)
    BY DEF IInv, ControlTypes, TasksFit
  <1>5. task' = Cross(task, {})
    BY <1>1, <1>4, NothingCrossed
  <1> QED
    BY <1>1, <1>2, <1>3, <1>4, <1>5, WriteKeepsIInv

\* What is known of the committed database.
LEMMA CommittedIsSound ==
    ASSUME IInv
    PROVE  /\ IsDatabase(db) /\ Sound(db, raced) /\ WithinLimit(db, old)
           /\ mode \in AutonomyMode
BY DEF IInv, DatabasesSound, ControlTypes

LEMMA SetAutonomyModeKeepsIInv ==
    ASSUME IInv, NEW m \in AutonomyMode, SetAutonomyMode(m)
    PROVE  IInv'
BY CommittedIsSound, SucceedsItself, ManualWriteKeepsIInv DEF SetAutonomyMode

LEMMA ConcludeKeepsIInv ==
    ASSUME IInv, NEW i \in Incident, Conclude(i)
    PROVE  IInv'
  <1> DEFINE d == SetIncident(db, i, "CONCLUDED")
  <1>1. ManualWrite(d) /\ UNCHANGED mode
    BY DEF Conclude
  <1>2. IsDatabase(db) /\ Sound(db, raced) /\ WithinLimit(db, old) /\ mode \in AutonomyMode
    BY CommittedIsSound
  <1>3. IsDatabase(d) /\ d.actions = db.actions /\ d.enforced = db.enforced
    BY <1>2, SetIncidentRows DEF IncidentStatus
  <1> HIDE DEF d
  <1>4. Sound(d, raced) /\ Automatic(d, old) = Automatic(db, old) /\ Succeeds(db, d, {})
    BY <1>2, <1>3, SameTablesSound DEF Automatic, Succeeds
  <1>5. WithinLimit(d, old)
    BY <1>2, <1>4 DEF WithinLimit
  <1> QED
    BY <1>1, <1>2, <1>3, <1>4, <1>5, ManualWriteKeepsIInv

-----------------------------------------------------------------------------
\* The inductive invariant: what the tasks of the analysts commit

LEMMA UpdatedRow ==
    ASSUME IInv, NEW t \in Task, t.key \in DOMAIN db.actions, NEW status \in ActionStatus
    PROVE  /\ Updated(t, status) \in ActionRow
           /\ Updated(t, status).status =
                 IF t.status = status THEN db.actions[t.key].status ELSE status
           /\ Updated(t, status).executedBy =
                 IF t.op = "approve" THEN "human" ELSE db.actions[t.key].executedBy
           /\ t.key \in Key
  <1>1. t.key \in Key /\ db.actions[t.key] \in ActionRow
    BY CommittedIsSound, RowOfAction
  <1> QED
    BY <1>1 DEF Updated, ActionRow

\* The actions, once the one of a task is put.
LEMMA PutOfTask ==
    ASSUME IInv, NEW t \in Task, t.key \in DOMAIN db.actions, NEW status \in ActionStatus,
           status = "SUCCEEDED" => t.op = "approve"
    PROVE  LET put == PutAction(db, t.key, Updated(t, status))
           IN  /\ IsDatabase(put)
               /\ DOMAIN put.actions = DOMAIN db.actions
               /\ put.actions[t.key] = Updated(t, status)
               /\ \A k \in DOMAIN db.actions : k # t.key => put.actions[k] = db.actions[k]
               /\ put.enforced = db.enforced
               /\ Automatic(put, old) \subseteq Automatic(db, old)
  <1> DEFINE row == Updated(t, status)
             put == PutAction(db, t.key, row)
  <1>1. /\ row \in ActionRow /\ t.key \in Key
        /\ row.status = IF t.status = status THEN db.actions[t.key].status ELSE status
        /\ row.executedBy = IF t.op = "approve" THEN "human" ELSE db.actions[t.key].executedBy
    BY UpdatedRow
  <1> HIDE DEF row
  <1>2. /\ IsDatabase(put)
        /\ DOMAIN put.actions = DOMAIN db.actions \cup {t.key}
        /\ put.actions[t.key] = row
        /\ \A k \in DOMAIN db.actions : k # t.key => put.actions[k] = db.actions[k]
        /\ put.enforced = db.enforced
    BY <1>1, CommittedIsSound, PutActionRows
  <1>3. DOMAIN put.actions = DOMAIN db.actions
    BY <1>2
  <1> HIDE DEF put
  <1>4. Automatic(put, old) \subseteq Automatic(db, old)
    BY <1>1, <1>2, <1>3 DEF Automatic
  <1> QED
    BY <1>2, <1>3, <1>4 DEF row, put

LEMMA DeniedIsSound ==
    ASSUME IInv, NEW t \in Task, t # NoTask, t.op = "deny", Fits(t, db)
    PROVE  LET e == Denied(t)
           IN  /\ IsDatabase(e) /\ Sound(e, RacedAfter(t)) /\ WithinLimit(e, old)
               /\ Succeeds(db, e, Rewritten(t))
  <1> DEFINE row == Updated(t, "DENIED")
             e == PutAction(db, t.key, row)
  <1>1. /\ row \in ActionRow /\ t.key \in Key /\ t.key \in DOMAIN db.actions
        /\ row.status \in {db.actions[t.key].status, "DENIED"}
        /\ row.executedBy = db.actions[t.key].executedBy
    BY UpdatedRow DEF ActionStatus, Fits
  <1>2. /\ IsDatabase(e) /\ DOMAIN e.actions = DOMAIN db.actions /\ e.actions[t.key] = row
        /\ \A k \in DOMAIN db.actions : k # t.key => e.actions[k] = db.actions[k]
        /\ e.enforced = db.enforced
        /\ Automatic(e, old) \subseteq Automatic(db, old)
    BY <1>1, PutOfTask DEF ActionStatus
  <1> HIDE DEF row
  <1>3. RacedAfter(t) = raced
    BY DEF RacedAfter, Rewritten
  <1>4. Sound(e, raced)
    BY <1>1, CommittedIsSound, PutActionSound
  <1> HIDE DEF e
  <1>5. WithinLimit(e, old) /\ Succeeds(db, e, Rewritten(t))
    <2>1. \A k \in DOMAIN db.actions : e.actions[k].status \in {db.actions[k].status, "DENIED"}
      BY <1>1, <1>2
    <2>2. Succeeds(db, e, Rewritten(t))
      BY <1>2, <2>1 DEF Succeeds
    <2> QED
      BY <1>2, <2>2, CommittedIsSound, LimitKept
  <1> QED
    BY <1>2, <1>3, <1>4, <1>5 DEF e, row, Denied

LEMMA RolledBackIsSound ==
    ASSUME IInv, NEW t \in Task, t # NoTask, t.op = "rollback", Fits(t, db)
    PROVE  LET e == RolledBack(t)
           IN  /\ IsDatabase(e) /\ Sound(e, RacedAfter(t)) /\ WithinLimit(e, old)
               /\ Succeeds(db, e, Rewritten(t))
  <1> DEFINE row == Updated(t, "ROLLED_BACK")
             put == PutAction(db, t.key, row)
             lifted == IF t.locks THEN {t.key} ELSE {}
             e == Lift(put, lifted)
             q == RacedAfter(t)
  <1>1. /\ row \in ActionRow /\ t.key \in Key /\ t.key \in DOMAIN db.actions
        /\ row.executedBy = db.actions[t.key].executedBy
    BY UpdatedRow DEF ActionStatus, Fits
  <1>2. /\ IsDatabase(put) /\ DOMAIN put.actions = DOMAIN db.actions /\ put.actions[t.key] = row
        /\ \A k \in DOMAIN db.actions : k # t.key => put.actions[k] = db.actions[k]
        /\ put.enforced = db.enforced
        /\ Automatic(put, old) \subseteq Automatic(db, old)
    BY <1>1, PutOfTask DEF ActionStatus
  <1> HIDE DEF row
  <1>3. IsDatabase(db) /\ Sound(db, raced) /\ WithinLimit(db, old)
    BY CommittedIsSound
  <1>4. Rewritten(t) = {t.key[2]} \cap Enforceable
    BY DEF Rewritten
  <1>5. CASE t.locks
    <2>1. \A x \in Enforceable \ q : x \notin raced \/ t.key[2] = x
      BY <1>4 DEF RacedAfter
    <2>2. lifted = {t.key}
      BY <1>5
    <2> HIDE DEF put, q, lifted
    <2>3. Sound(e, q)
      BY <1>1, <1>2, <1>3, <2>1, <2>2, LiftSound
    <2>4. /\ IsDatabase(e) /\ e.actions = put.actions
          /\ \A x \in Enforceable :
                /\ e.enforced[x].action = put.enforced[x].action
                /\ (\A k \in lifted : k[2] # x) => e.enforced[x] = put.enforced[x]
      BY <1>2, LiftRows
    <2> HIDE DEF e
    <2>5. Succeeds(db, e, Rewritten(t))
      <3>1. \A x \in Enforceable : db.enforced[x] # NoRow => e.enforced[x] # NoRow
        BY <1>2, <1>3, <2>4, RowsHaveOwners DEF NoRow
      <3>2. \A k \in DOMAIN db.actions : k[2] \in Enforceable \ Rewritten(t) => k # t.key
        BY <1>4
      <3>3. \A x \in Enforceable \ Rewritten(t) : e.enforced[x] = db.enforced[x]
        BY <1>2, <1>4, <2>2, <2>4
      <3> QED
        BY <1>2, <2>4, <3>1, <3>2, <3>3 DEF Succeeds
    <2>6. WithinLimit(e, old)
      <3>1. Automatic(e, old) \subseteq Automatic(db, old)
        BY <1>2, <2>4 DEF Automatic
      <3> QED
        BY <1>3, <3>1, LimitKept
    <2> QED
      BY <2>3, <2>4, <2>5, <2>6 DEF e, put, row, lifted, q, RolledBack
  <1>6. CASE ~t.locks
    <2>1. ASSUME NEW x \in Enforceable \ q, db.enforced[x].active
          PROVE  Live(db, x) /\ db.enforced[x].action # t.key
      <3>1. CASE x = t.key[2]
        <4>1. ~t.crossed
          BY <1>4, <2>1, <3>1 DEF RacedAfter
        <4>2. db.enforced[x] # NoRow
          BY <2>1 DEF NoRow
        <4> QED
          BY <1>6, <3>1, <4>1, <4>2 DEF Fits
      <3>2. CASE x # t.key[2]
        <4>1. x \notin raced
          BY <1>4, <2>1, <3>2 DEF RacedAfter
        <4> QED
          BY <1>3, <2>1, <3>2, <4>1 DEF Sound, Live
      <3> QED
        BY <3>1, <3>2
    <2> HIDE DEF q
    <2>2. Sound(db, q)
      BY <1>3, <2>1, SoundElsewhere
    <2>3. Sound(put, q)
      BY <1>1, <1>3, <2>1, <2>2, PutActionSound
    <2>4. lifted = {}
      BY <1>6
    <2> HIDE DEF put, lifted
    <2>5. /\ IsDatabase(e) /\ e.actions = put.actions
          /\ \A x \in Enforceable : e.enforced[x] = put.enforced[x]
      BY <1>2, <2>4, LiftRows
    <2> HIDE DEF e
    <2>6. Sound(e, q)
      BY <2>3, <2>5 DEF Sound, Live
    <2>7. Succeeds(db, e, Rewritten(t))
      BY <1>2, <1>4, <2>5 DEF Succeeds
    <2>8. WithinLimit(e, old)
      <3>1. Automatic(e, old) \subseteq Automatic(db, old)
        BY <1>2, <2>5 DEF Automatic
      <3> QED
        BY <1>3, <3>1, LimitKept
    <2> QED
      BY <2>5, <2>6, <2>7, <2>8 DEF e, put, row, lifted, q, RolledBack
  <1> QED
    BY <1>5, <1>6

\* The tables, once an approval is committed.
LEMMA ApprovedRows ==
    ASSUME IInv, NEW t \in Task, t.key \in DOMAIN db.actions, t.op = "approve"
    PROVE  LET e == Approved(t)
           IN  /\ IsDatabase(e) /\ DOMAIN e.actions = DOMAIN db.actions
               /\ e.actions[t.key] = Updated(t, "SUCCEEDED")
               /\ \A k \in DOMAIN db.actions : k # t.key => e.actions[k] = db.actions[k]
               /\ Automatic(e, old) \subseteq Automatic(db, old)
               /\ \A x \in Enforceable :
                     IF x = t.key[2]
                     THEN /\ e.enforced[x].active = (~t.row.active \/ db.enforced[x].active)
                          /\ e.enforced[x].action =
                                IF t.row.action = t.key THEN db.enforced[x].action ELSE t.key
                     ELSE e.enforced[x] = db.enforced[x]
  <1> DEFINE row == Updated(t, "SUCCEEDED")
             put == PutAction(db, t.key, row)
             rows == [x \in Enforceable |->
                        IF x = t.key[2]
                        THEN [active |-> ~t.row.active \/ put.enforced[x].active,
                              action |-> IF t.row.action = t.key THEN put.enforced[x].action
                                                                 ELSE t.key]
                        ELSE put.enforced[x]]
             enforced == [put EXCEPT !.enforced = rows]
             e == Approved(t)
  <1>1. t.key \in Key /\ "SUCCEEDED" \in ActionStatus
    BY UpdatedRow DEF ActionStatus
  <1>2. /\ IsDatabase(put) /\ DOMAIN put.actions = DOMAIN db.actions /\ put.actions[t.key] = row
        /\ \A k \in DOMAIN db.actions : k # t.key => put.actions[k] = db.actions[k]
        /\ put.enforced = db.enforced
        /\ Automatic(put, old) \subseteq Automatic(db, old)
    BY <1>1, PutOfTask
  <1>3. e = IF Contains(t) /\ ~t.contained THEN SetIncident(enforced, t.key[1], "CONTAINED")
                                           ELSE enforced
    BY DEF Approved
  <1> HIDE DEF row, put, e
  <1>4. rows \in [Enforceable -> [active : BOOLEAN, action : Key \cup {<< >>}]]
    <2>1. \A x \in Enforceable :
              put.enforced[x] \in [active : BOOLEAN, action : Key \cup {<< >>}]
      BY <1>2 DEF IsDatabase, DatabaseOf
    <2>2. ASSUME NEW x \in Enforceable
          PROVE  rows[x] \in [active : BOOLEAN, action : Key \cup {<< >>}]
      <3>1. CASE x = t.key[2]
        <4>1. (~t.row.active \/ put.enforced[x].active) \in BOOLEAN
          OBVIOUS
        <4>2. (IF t.row.action = t.key THEN put.enforced[x].action ELSE t.key) \in Key \cup {<< >>}
          BY <1>1, <2>1
        <4> QED
          BY <3>1, <4>1, <4>2
      <3>2. CASE x # t.key[2]
        BY <2>1, <3>2
      <3> QED
        BY <3>1, <3>2
    <2> QED
      BY <2>2
  <1>5. ASSUME NEW x \in Enforceable
        PROVE  IF x = t.key[2]
               THEN /\ rows[x].active = (~t.row.active \/ db.enforced[x].active)
                    /\ rows[x].action =
                          IF t.row.action = t.key THEN db.enforced[x].action ELSE t.key
               ELSE rows[x] = db.enforced[x]
    BY <1>2
  <1> HIDE DEF rows
  <1>6. /\ IsDatabase(enforced) /\ enforced.actions = put.actions /\ enforced.enforced = rows
    BY <1>2, <1>4 DEF IsDatabase, DatabaseOf
  <1> HIDE DEF enforced
  <1>7. IsDatabase(e) /\ e.actions = put.actions /\ e.enforced = rows
    <2>1. t.key[1] \in Incident /\ "CONTAINED" \in IncidentStatus
      BY <1>1, KeyTarget DEF IncidentStatus
    <2> QED
      BY <1>3, <1>6, <2>1, SetIncidentRows
  <1>8. Automatic(e, old) \subseteq Automatic(db, old)
    BY <1>2, <1>7 DEF Automatic
  <1> QED
    BY <1>2, <1>5, <1>7, <1>8 DEF row, e

LEMMA ApprovedIsSound ==
    ASSUME IInv, NEW t \in Task, t # NoTask, t.op = "approve", Fits(t, db)
    PROVE  LET e == Approved(t)
           IN  /\ IsDatabase(e) /\ Sound(e, RacedAfter(t)) /\ WithinLimit(e, old)
               /\ Succeeds(db, e, Rewritten(t))
  <1> DEFINE e == Approved(t)
             row == Updated(t, "SUCCEEDED")
             q == RacedAfter(t)
  <1>1. /\ t.key \in Key /\ t.key \in DOMAIN db.actions
        /\ row.status = IF t.status = "SUCCEEDED" THEN db.actions[t.key].status ELSE "SUCCEEDED"
        /\ row.executedBy = "human"
    BY UpdatedRow DEF ActionStatus, Fits
  <1> HIDE DEF row
  <1>2. /\ IsDatabase(e) /\ DOMAIN e.actions = DOMAIN db.actions /\ e.actions[t.key] = row
        /\ \A k \in DOMAIN db.actions : k # t.key => e.actions[k] = db.actions[k]
        /\ Automatic(e, old) \subseteq Automatic(db, old)
        /\ \A x \in Enforceable :
              IF x = t.key[2]
              THEN /\ e.enforced[x].active = (~t.row.active \/ db.enforced[x].active)
                   /\ e.enforced[x].action =
                         IF t.row.action = t.key THEN db.enforced[x].action ELSE t.key
              ELSE e.enforced[x] = db.enforced[x]
    BY <1>1, ApprovedRows DEF row
  <1> HIDE DEF e
  <1>3. IsDatabase(db) /\ Sound(db, raced) /\ WithinLimit(db, old)
    BY CommittedIsSound
  <1>4. Rewritten(t) = {t.key[2]} \cap Enforceable
    BY DEF Rewritten
  <1>5. ASSUME NEW x \in Enforceable, x # t.key[2]
        PROVE  /\ e.enforced[x] = db.enforced[x]
               /\ x \notin q => x \notin raced
               /\ e.enforced[x] # NoRow =>
                     /\ e.enforced[x].action \in DOMAIN db.actions
                     /\ e.enforced[x].action[2] = x
                     /\ e.actions[e.enforced[x].action] = db.actions[e.enforced[x].action]
    <2>1. e.enforced[x] = db.enforced[x] /\ (x \notin q => x \notin raced)
      BY <1>2, <1>4, <1>5 DEF RacedAfter
    <2> HIDE DEF q
    <2> QED
      BY <1>2, <1>3, <1>5, <2>1 DEF Sound
  <1>6. ASSUME NEW x \in Enforceable, x = t.key[2]
        PROVE  /\ e.enforced[x].action \in DOMAIN db.actions
               /\ e.enforced[x].action[2] = x
               /\ x \in Allowlisted \cup Sensitive =>
                     e.actions[e.enforced[x].action].executedBy = "human"
    <2>1. CASE e.enforced[x].action = t.key
      BY <1>1, <1>2, <1>6, <2>1
    <2>2. CASE e.enforced[x].action # t.key
      <3>1. t.row.action = t.key /\ e.enforced[x].action = db.enforced[x].action
        BY <1>2, <1>6, <2>2
      <3>2. t.row # NoRow
        BY <1>1, <3>1, KeyTarget DEF NoRow
      <3>3. db.enforced[x] # NoRow
        BY <1>6, <3>2 DEF Fits
      <3> QED
        BY <1>2, <1>3, <2>2, <3>1, <3>3 DEF Sound
    <2> QED
      BY <2>1, <2>2
  <1>7. ASSUME NEW x \in Enforceable, x = t.key[2], x \notin q, e.enforced[x].active
        PROVE  e.actions[e.enforced[x].action].status \in {"SUCCEEDED", "DENIED"}
    <2>1. ~t.crossed
      BY <1>4, <1>7 DEF RacedAfter
    <2> HIDE DEF q
    <2>2. CASE e.enforced[x].action = t.key
      <3>1. t.status = "SUCCEEDED" => db.actions[t.key].status \in {"SUCCEEDED", "DENIED"}
        BY <1>7, <2>1 DEF Fits
      <3> QED
        BY <1>1, <1>2, <2>2, <3>1
    <2>3. CASE e.enforced[x].action # t.key
      <3>1. t.row.action = t.key /\ e.enforced[x].action = db.enforced[x].action
        BY <1>2, <1>7, <2>3
      <3>2. Live(db, x)
        BY <1>7, <2>1, <2>3, <3>1 DEF Fits
      <3> QED
        BY <1>2, <2>3, <3>1, <3>2 DEF Live
    <2> QED
      BY <2>2, <2>3
  <1> HIDE DEF q
  <1>8. Sound(e, q)
    <2>1. ASSUME NEW x \in Enforceable
          PROVE  /\ e.enforced[x] # NoRow =>
                       /\ e.enforced[x].action \in DOMAIN e.actions
                       /\ e.enforced[x].action[2] = x
                       /\ x \in Allowlisted \cup Sensitive =>
                             e.actions[e.enforced[x].action].executedBy = "human"
                 /\ x \notin q /\ e.enforced[x].active => Live(e, x)
      <3>1. CASE x = t.key[2]
        BY <1>2, <1>6, <1>7, <3>1 DEF Live
      <3>2. CASE x # t.key[2]
        <4>1. e.enforced[x].active => e.enforced[x] # NoRow
          BY DEF NoRow
        <4> QED
          BY <1>2, <1>3, <1>5, <3>2, <4>1 DEF Sound, Live
      <3> QED
        BY <3>1, <3>2
    <2> QED
      BY <2>1 DEF Sound
  <1>9. Succeeds(db, e, Rewritten(t))
    <2>1. ASSUME NEW x \in Enforceable, db.enforced[x] # NoRow PROVE e.enforced[x] # NoRow
      <3>1. CASE x = t.key[2]
        <4>1. e.enforced[x].action \in Key
          BY <1>3, <1>6, <3>1 DEF IsDatabase
        <4> QED
          BY <4>1, KeyTarget DEF NoRow
      <3>2. CASE x # t.key[2]
        BY <1>5, <2>1, <3>2
      <3> QED
        BY <3>1, <3>2
    <2>2. \A k \in DOMAIN db.actions : k[2] \in Enforceable \ Rewritten(t) => k # t.key
      BY <1>4
    <2>3. \A x \in Enforceable \ Rewritten(t) : e.enforced[x] = db.enforced[x]
      BY <1>2, <1>4
    <2> QED
      BY <1>2, <2>1, <2>2, <2>3 DEF Succeeds
  <1>10. WithinLimit(e, old)
    BY <1>2, <1>3, LimitKept
  <1> QED
    BY <1>2, <1>8, <1>9, <1>10 DEF e, q

LEMMA CommitTaskKeepsIInv ==
    ASSUME IInv, NEW a \in Analyst, CommitTask(a)
    PROVE  IInv'
  <1> DEFINE t == task[a]
             d == CASE t.op = "approve" -> Approved(t)
                    [] t.op = "deny" -> Denied(t)
                    [] t.op = "rollback" -> RolledBack(t)
             tasks == [task EXCEPT ![a] = NoTask]
  <1>1. /\ t.at \in {"found", "written"}
        /\ Write(d)
        /\ task' = Cross(tasks, Rewritten(t))
        /\ raced' = RacedAfter(t)
        /\ UNCHANGED <<mode, expiring, manual>>
    BY DEF CommitTask, RacedAfter
  <1>2. /\ t \in Task /\ Fits(t, db) /\ raced \subseteq Enforceable
        /\ \A b \in Analyst : Fits(task[b], db)
    BY DEF IInv, ControlTypes, TasksFit
  <1>3. t # NoTask /\ t.op \in {"approve", "deny", "rollback"}
    BY <1>1, <1>2 DEF NoTask, Fits
  <1>4. /\ IsDatabase(d) /\ Sound(d, RacedAfter(t)) /\ WithinLimit(d, old)
        /\ Succeeds(db, d, Rewritten(t))
    <2> HIDE DEF t
    <2>1. CASE t.op = "approve"
      <3>1. d = Approved(t)
        BY <2>1
      <3> HIDE DEF d
      <3> QED
        BY <1>2, <1>3, <2>1, <3>1, ApprovedIsSound
    <2>2. CASE t.op = "deny"
      <3>1. d = Denied(t)
        BY <2>2
      <3> HIDE DEF d
      <3> QED
        BY <1>2, <1>3, <2>2, <3>1, DeniedIsSound
    <2>3. CASE t.op = "rollback"
      <3>1. d = RolledBack(t)
        BY <2>3
      <3> HIDE DEF d
      <3> QED
        BY <1>2, <1>3, <2>3, <3>1, RolledBackIsSound
    <2> QED
      BY <1>3, <2>1, <2>2, <2>3
  <1> HIDE DEF d
  <1>5. /\ tasks \in [Analyst -> Task]
        /\ \A b \in Analyst : Fits(tasks[b], db)
    <2>1. NoTask \in Task
      BY DEF NoTask, NoRow, Task
    <2>2. task \in [Analyst -> Task]
      BY DEF IInv, ControlTypes
    <2> QED
      BY <1>2, <2>1, <2>2 DEF Fits
  <1> HIDE DEF tasks
  <1>6. RacedAfter(t) \subseteq Enforceable
    BY <1>2 DEF RacedAfter, Rewritten
  <1>7. /\ mode' \in AutonomyMode /\ manual' \in 0 .. MaxManual
        /\ expiring' \subseteq DOMAIN d.actions
    BY <1>1, <1>4 DEF IInv, ControlTypes, TimeTypes, Succeeds
  <1> HIDE DEF t
  <1> QED
    BY <1>1, <1>4, <1>5, <1>6, <1>7, WriteKeepsIInv

LEMMA ExpireListedKeepsIInv ==
    ASSUME IInv, ExpireListed
    PROVE  IInv'
  <1> DEFINE put == MarkExpired(db, expiring)
             d == Lift(put, expiring)
             T == {k[2] : k \in expiring}
  <1>1. /\ Write(d) /\ expiring' = {} /\ UNCHANGED <<mode, manual>>
        /\ task' = Cross(task, T) /\ raced' = raced \ T
    BY DEF ExpireListed, MarkExpired
  <1>2. IsDatabase(db) /\ Sound(db, raced) /\ WithinLimit(db, old) /\ mode \in AutonomyMode
    BY CommittedIsSound
  <1>3. /\ IsDatabase(put)
        /\ DOMAIN put.actions = DOMAIN db.actions
        /\ \A k \in DOMAIN db.actions :
              /\ put.actions[k].executedBy = db.actions[k].executedBy
              /\ IF k \in expiring THEN put.actions[k].status = "EXPIRED"
                                   ELSE put.actions[k] = db.actions[k]
        /\ put.enforced = db.enforced
    BY <1>2, MarkExpiredRows
  <1> HIDE DEF put
  <1>4. /\ IsDatabase(d) /\ d.actions = put.actions
        /\ \A x \in Enforceable :
              /\ d.enforced[x].action = put.enforced[x].action
              /\ (\A k \in expiring : k[2] # x) => d.enforced[x] = put.enforced[x]
    BY <1>3, LiftRows
  <1>5. expiring \in SUBSET Key /\ manual' \in 0 .. MaxManual
    BY <1>1, <1>2 DEF IInv, TimeTypes, ControlTypes, IsDatabase
  <1>6. \A x \in Enforceable \ (raced \ T) : x \notin raced \/ \E k \in expiring : k[2] = x
    OBVIOUS
  <1>7. Sound(d, raced \ T)
    BY <1>2, <1>3, <1>5, <1>6, LiftSound
  <1> HIDE DEF d
  <1>8. WithinLimit(d, old)
    <2>1. Automatic(d, old) \subseteq Automatic(db, old)
      BY <1>3, <1>4 DEF Automatic
    <2> QED
      BY <1>2, <2>1, LimitKept
  <1>9. Succeeds(db, d, T)
    <2>1. \A x \in Enforceable : db.enforced[x] # NoRow => d.enforced[x] # NoRow
      BY <1>2, <1>3, <1>4, RowsHaveOwners DEF NoRow
    <2>2. \A k \in DOMAIN db.actions : k[2] \in Enforceable \ T => k \notin expiring
      OBVIOUS
    <2>3. \A x \in Enforceable \ T : d.enforced[x] = db.enforced[x]
      BY <1>3, <1>4
    <2> QED
      BY <1>3, <1>4, <2>1, <2>2, <2>3 DEF Succeeds
  <1>10. /\ mode' \in AutonomyMode /\ expiring' \subseteq DOMAIN d.actions
         /\ raced' \subseteq Enforceable /\ task \in [Analyst -> Task]
         /\ \A a \in Analyst : Fits(task[a], db)
    BY <1>1, <1>2 DEF IInv, ControlTypes, TasksFit
  <1> HIDE DEF T
  <1> QED
    BY <1>1, <1>4, <1>5, <1>7, <1>8, <1>9, <1>10, WriteKeepsIInv

-----------------------------------------------------------------------------
\* The inductive invariant: the steps of the tasks before that

LEMMA TasksKeepIInv ==
    ASSUME IInv, UNCHANGED <<db, mode, workerVars, timeVars, expiring, raced>>,
           task' \in [Analyst -> Task], manual' \in 0 .. MaxManual,
           \A a \in Analyst : Fits(task'[a], db)
    PROVE  IInv'
  <1>1. UNCHANGED <<db, mode, draft, holder, pc, highScore, todo, decision, old, lapsed, expiring,
                    raced>>
    BY DEF workerVars, timeVars
  <1>2. ControlTypes' /\ TimeTypes'
    BY <1>1 DEF IInv, ControlTypes, TimeTypes
  <1>3. DatabasesSound' /\ HolderEvaluates'
    BY <1>1 DEF IInv, DatabasesSound, HolderEvaluates
  <1>4. DecisionStands' /\ AutomaticOnlyInAuto'
    BY <1>1 DEF IInv, DecisionStands, NextKey, AutomaticOnlyInAuto, UncommittedAutomatic
  <1>5. TasksFit'
    BY <1>1 DEF TasksFit
  <1> QED
    BY <1>2, <1>3, <1>4, <1>5 DEF IInv

LEMMA BeginKeepsIInv ==
    ASSUME IInv, NEW a \in Analyst, NEW t \in Task, Begin(a, t), Fits(t, db)
    PROVE  IInv'
  <1>1. /\ task' = [task EXCEPT ![a] = t]
        /\ UNCHANGED <<db, mode, workerVars, timeVars, expiring, raced>>
    BY DEF Begin
  <1>2. manual' \in 0 .. MaxManual
    BY MaxManualAssumption DEF Begin, IInv, ControlTypes
  <1>3. task \in [Analyst -> Task] /\ \A b \in Analyst : Fits(task[b], db)
    BY DEF IInv, ControlTypes, TasksFit
  <1>4. task' \in [Analyst -> Task] /\ \A b \in Analyst : Fits(task'[b], db)
    BY <1>1, <1>3
  <1> QED
    BY <1>1, <1>2, <1>4, TasksKeepIInv

\* What the first SELECTs of a task return.
LEMMA SeenTypes ==
    ASSUME IInv, NEW key \in DOMAIN db.actions
    PROVE  /\ key \in Key /\ db.actions[key].status \in ActionStatus
           /\ key[2] \in Enforceable =>
                 db.enforced[key[2]] \in [active : BOOLEAN, action : Key \cup {<< >>}]
  <1>1. IsDatabase(db)
    BY CommittedIsSound
  <1> QED
    BY <1>1, RowOfAction DEF ActionRow, IsDatabase, DatabaseOf

LEMMA ApproveKeepsIInv ==
    ASSUME IInv, NEW a \in Analyst, NEW key \in Key, Approve(a, key)
    PROVE  IInv'
  <1> DEFINE read == [NoTask EXCEPT !.op = "approve", !.key = key, !.at = "read",
                                    !.row = db.enforced[key[2]]]
             written == [NoTask EXCEPT !.op = "approve", !.key = key, !.at = "written",
                                       !.status = db.actions[key].status]
  <1>1. /\ key \in DOMAIN db.actions
        /\ Begin(a, IF key[2] \in Enforceable THEN read ELSE written)
    BY DEF Approve
  <1>2. CASE key[2] \in Enforceable
    <2>1. read \in Task
      BY <1>1, <1>2, SeenTypes DEF NoTask, NoRow, Task
    <2>2. Fits(read, db)
      BY <1>1 DEF NoTask, Fits
    <2> HIDE DEF read, written
    <2> QED
      BY <1>1, <1>2, <2>1, <2>2, BeginKeepsIInv
  <1>3. CASE key[2] \notin Enforceable
    <2>1. written \in Task
      BY <1>1, SeenTypes DEF NoTask, NoRow, Task
    <2>2. Fits(written, db)
      BY <1>1, <1>3 DEF NoTask, Fits
    <2> HIDE DEF read, written
    <2> QED
      BY <1>1, <1>3, <2>1, <2>2, BeginKeepsIInv
  <1> QED
    BY <1>2, <1>3

LEMMA DenyKeepsIInv ==
    ASSUME IInv, NEW a \in Analyst, NEW key \in Key, Deny(a, key)
    PROVE  IInv'
  <1> DEFINE t == [NoTask EXCEPT !.op = "deny", !.key = key, !.at = "written",
                                 !.status = db.actions[key].status]
  <1>1. key \in DOMAIN db.actions /\ Begin(a, t)
    BY DEF Deny
  <1>2. t \in Task
    BY <1>1, SeenTypes DEF NoTask, NoRow, Task
  <1>3. Fits(t, db)
    BY <1>1 DEF NoTask, Fits
  <1> HIDE DEF t
  <1> QED
    BY <1>1, <1>2, <1>3, BeginKeepsIInv

LEMMA RollbackKeepsIInv ==
    ASSUME IInv, NEW a \in Analyst, NEW key \in Key, Rollback(a, key)
    PROVE  IInv'
  <1> DEFINE locks == key[2] \in Enforceable /\ db.enforced[key[2]] # NoRow
             t == [NoTask EXCEPT !.op = "rollback", !.key = key, !.at = "written",
                                 !.locks = locks, !.status = db.actions[key].status]
  <1>1. key \in DOMAIN db.actions /\ Begin(a, t)
    BY DEF Rollback
  <1>2. t \in Task
    BY <1>1, SeenTypes DEF NoTask, NoRow, Task
  <1>3. Fits(t, db)
    BY <1>1 DEF NoTask, Fits
  <1> HIDE DEF t
  <1> QED
    BY <1>1, <1>2, <1>3, BeginKeepsIInv

\* A task goes on, or is given up.
LEMMA TaskKeepsIInv ==
    ASSUME IInv, NEW a \in Analyst, NEW t \in Task, Fits(t, db), task' = [task EXCEPT ![a] = t],
           UNCHANGED <<db, mode, workerVars, timeVars, expiring, raced, manual>>
    PROVE  IInv'
  <1>1. /\ task \in [Analyst -> Task] /\ manual \in 0 .. MaxManual
        /\ \A b \in Analyst : Fits(task[b], db)
    BY DEF IInv, ControlTypes, TasksFit
  <1>2. task' \in [Analyst -> Task] /\ \A b \in Analyst : Fits(task'[b], db)
    BY <1>1
  <1> QED
    BY <1>1, <1>2, TasksKeepIInv

LEMMA WriteRowKeepsIInv ==
    ASSUME IInv, NEW a \in Analyst, WriteRow(a)
    PROVE  IInv'
  <1> DEFINE t == task[a]
             writes == \/ t.row # [active |-> TRUE, action |-> t.key]
                       \/ t.key[2] \in Ip /\ db.actions[t.key].ttl
             u == [t EXCEPT !.at = "written", !.locks = writes,
                            !.status = db.actions[t.key].status]
  <1>1. /\ t.at = "read" /\ task' = [task EXCEPT ![a] = u]
        /\ UNCHANGED <<db, mode, workerVars, timeVars, expiring, raced, manual>>
    BY DEF WriteRow
  <1>2. t \in Task /\ Fits(t, db)
    BY DEF IInv, ControlTypes, TasksFit
  <1>3. t # NoTask
    BY <1>1 DEF NoTask
  <1>4. t.op = "approve" /\ t.key \in DOMAIN db.actions
    BY <1>1, <1>2, <1>3 DEF Fits
  <1>5. db.actions[t.key].status \in ActionStatus
    BY <1>4, SeenTypes
  <1>6. writes \in BOOLEAN
    OBVIOUS
  <1> HIDE DEF writes, t
  <1>7. u \in Task
    BY <1>2, <1>5, <1>6 DEF Task
  <1>8. /\ u.op = t.op /\ u.key = t.key /\ u.row = t.row /\ u.crossed = t.crossed
        /\ u.status = db.actions[t.key].status
    BY <1>2 DEF Task
  <1> HIDE DEF u
  <1>9. Fits(u, db)
    BY <1>2, <1>3, <1>4, <1>8 DEF Fits
  <1> QED
    BY <1>1, <1>7, <1>9, TaskKeepsIInv

LEMMA ReadIncidentKeepsIInv ==
    ASSUME IInv, NEW a \in Analyst, ReadIncident(a)
    PROVE  IInv'
  <1> DEFINE t == task[a]
             contained == db.incident[t.key[1]] = "CONTAINED"
             u == [t EXCEPT !.at = "found", !.contained = contained]
  <1>1. /\ t.at = "written" /\ task' = [task EXCEPT ![a] = u]
        /\ UNCHANGED <<db, mode, workerVars, timeVars, expiring, raced, manual>>
    BY DEF ReadIncident
  <1>2. t \in Task /\ Fits(t, db)
    BY DEF IInv, ControlTypes, TasksFit
  <1>3. t # NoTask
    BY <1>1 DEF NoTask
  <1>4. contained \in BOOLEAN
    OBVIOUS
  <1> HIDE DEF contained, t
  <1>5. /\ u \in Task
        /\ u.op = t.op /\ u.key = t.key /\ u.row = t.row /\ u.crossed = t.crossed
        /\ u.status = t.status /\ u.locks = t.locks /\ u.at = "found"
    BY <1>2, <1>4 DEF Task
  <1> HIDE DEF u
  <1>6. Fits(u, db)
    BY <1>2, <1>3, <1>5 DEF Fits
  <1> QED
    BY <1>1, <1>5, <1>6, TaskKeepsIInv

LEMMA FailTaskKeepsIInv ==
    ASSUME IInv, NEW a \in Analyst, FailTask(a)
    PROVE  IInv'
  <1>1. NoTask \in Task /\ Fits(NoTask, db)
    BY DEF NoTask, NoRow, Task, Fits
  <1> QED
    BY <1>1, TaskKeepsIInv DEF FailTask

-----------------------------------------------------------------------------
\* The inductive invariant: time, and the listing of the expiry worker

LEMMA ListExpiredKeepsIInv ==
    ASSUME IInv, ListExpired
    PROVE  IInv'
  <1>1. UNCHANGED <<db, mode, draft, holder, pc, highScore, todo, decision, old, lapsed, task, raced,
                    manual>>
    BY DEF ListExpired, workerVars, timeVars, manualVars
  <1>2. TimeTypes'
    BY <1>1 DEF IInv, TimeTypes, ListExpired, LapsedActions
  <1> QED
    BY <1>1, <1>2 DEF IInv, ControlTypes, DatabasesSound, HolderEvaluates, DecisionStands,
                      AutomaticOnlyInAuto, UncommittedAutomatic, NextKey, TasksFit

\* A step that lets some actions leave the window.
LEMMA TimeKeepsIInv ==
    ASSUME IInv, UNCHANGED <<db, mode, workerVars, expiring, manualVars>>,
           old \subseteq old', lapsed' \subseteq old', old' \subseteq DOMAIN db.actions
    PROVE  IInv'
  <1>1. UNCHANGED <<db, mode, draft, holder, pc, highScore, todo, decision, expiring, task, raced,
                    manual>>
    BY DEF workerVars, manualVars
  <1>2. ASSUME NEW d, IsDatabase(d)
        PROVE  /\ WithinLimit(d, old) => WithinLimit(d, old')
               /\ Cardinality(InWindow(d, old)) < MaxAuto =>
                     Cardinality(InWindow(d, old')) < MaxAuto
    <2>1. Automatic(d, old') \subseteq Automatic(d, old)
      BY DEF Automatic
    <2>2. WithinLimit(d, old) => WithinLimit(d, old')
      BY <1>2, <2>1, LimitKept
    <2>3. InWindow(d, old') \subseteq InWindow(d, old)
      BY DEF InWindow
    <2>4. /\ IsFiniteSet(InWindow(d, old))
          /\ Cardinality(InWindow(d, old)) \in Nat /\ Cardinality(InWindow(d, old')) \in Nat
      BY <1>2, CountedIsFinite
    <2>5. Cardinality(InWindow(d, old')) <= Cardinality(InWindow(d, old))
      BY <2>3, <2>4, FS_Subset
    <2>6. Cardinality(InWindow(d, old)) < MaxAuto => Cardinality(InWindow(d, old')) < MaxAuto
      BY <2>4, <2>5, MaxAutoAssumption
    <2> QED
      BY <2>2, <2>6
  <1>3. DatabasesSound'
    BY <1>1, <1>2 DEF IInv, DatabasesSound
  <1>4. DecisionStands'
    BY <1>1, <1>2 DEF IInv, DatabasesSound, DecisionStands, NextKey
  <1>5. TimeTypes'
    BY <1>1 DEF IInv, TimeTypes
  <1> QED
    BY <1>1, <1>3, <1>4, <1>5 DEF IInv, ControlTypes, HolderEvaluates, TasksFit,
                                  AutomaticOnlyInAuto, UncommittedAutomatic

LEMMA LeaveWindowKeepsIInv ==
    ASSUME IInv, NEW key \in Key, LeaveWindow(key)
    PROVE  IInv'
BY TimeKeepsIInv DEF LeaveWindow, IInv, TimeTypes

LEMMA LapseKeepsIInv ==
    ASSUME IInv, NEW key \in Key, Lapse(key)
    PROVE  IInv'
BY TimeKeepsIInv DEF Lapse, IInv, TimeTypes

-----------------------------------------------------------------------------
\* The inductive invariant: the workers

LEMMA FindIncidentKeepsIInv ==
    ASSUME IInv, NEW w \in Worker, NEW i \in Incident, FindIncident(w, i)
    PROVE  IInv'
  <1> DEFINE keys == [n \in DOMAIN Proposals[i] |-> <<i, Proposals[i][n]>>]
  <1>1. /\ pc[w] = "idle"
        /\ todo' = [todo EXCEPT ![w] = keys]
        /\ pc' = [pc EXCEPT ![w] = "found"]
        /\ UNCHANGED <<db, mode, draft, holder, highScore, decision, old, lapsed, expiring, task,
                    raced, manual>>
    BY DEF FindIncident, timeVars, manualVars
  <1>2. keys \in Seq(Key)
    <2>1. Proposals[i] \in Seq(Target)
      BY ProposalsAssumption
    <2>2. DOMAIN Proposals[i] = 1 .. Len(Proposals[i]) /\ Len(Proposals[i]) \in Nat
      BY <2>1
    <2>3. \A n \in DOMAIN Proposals[i] : <<i, Proposals[i][n]>> \in Key
      BY <2>1 DEF Key
    <2> QED
      BY <2>2, <2>3
  <1> HIDE DEF keys
  <1>3. ControlTypes'
    BY <1>1, <1>2 DEF IInv, ControlTypes
  <1>4. HolderEvaluates'
    BY <1>1 DEF IInv, ControlTypes, HolderEvaluates
  <1>5. DecisionStands'
    <2> SUFFICES ASSUME NEW v \in Worker, pc'[v] = "decided"
                 PROVE  pc[v] = "decided" /\ todo'[v] = todo[v]
      BY <1>1 DEF IInv, DecisionStands, NextKey
    <2> QED
      BY <1>1 DEF IInv, ControlTypes
  <1> QED
    BY <1>1, <1>3, <1>4, <1>5 DEF IInv, TimeTypes, DatabasesSound, AutomaticOnlyInAuto,
                                  UncommittedAutomatic, TasksFit

LEMMA CorrelateKeepsIInv ==
    ASSUME IInv, NEW w \in Worker, NEW high \in BOOLEAN, Correlate(w, high)
    PROVE  IInv'
  <1>1. /\ pc[w] = "found" /\ holder = NoOne /\ holder' = w /\ draft' = db
        /\ highScore' = [highScore EXCEPT ![w] = high]
        /\ pc' = [pc EXCEPT ![w] = "evaluating"]
        /\ UNCHANGED <<db, mode, todo, decision, old, lapsed, expiring, task,
                    raced, manual>>
    BY DEF Correlate, timeVars, manualVars
  <1>2. ControlTypes'
    BY <1>1 DEF IInv, ControlTypes
  <1>3. HolderEvaluates'
    BY <1>1, WorkerAssumption, SucceedsItself DEF IInv, ControlTypes, HolderEvaluates
  <1>4. DecisionStands'
    BY <1>1, WorkerAssumption DEF IInv, ControlTypes, HolderEvaluates, DecisionStands
  <1>5. DatabasesSound'
    BY <1>1 DEF IInv, DatabasesSound
  <1>6. AutomaticOnlyInAuto'
    BY <1>1 DEF AutomaticOnlyInAuto, UncommittedAutomatic
  <1> QED
    BY <1>1, <1>2, <1>3, <1>4, <1>5, <1>6 DEF IInv, TimeTypes, TasksFit

\* A worker that evaluates looks at what it has rewritten itself.
LEMMA HolderSeesDraft ==
    ASSUME IInv, NEW w \in Worker, pc[w] \in {"evaluating", "decided"}
    PROVE  holder = w /\ Visible(w) = draft
BY DEF IInv, HolderEvaluates, Visible

\* What the guardrails answer, and when they answer "auto".
LEMMA GuardrailsAnswer ==
    ASSUME NEW d, NEW t, NEW high
    PROVE  /\ Guardrails(d, t, high) \in {"deny", "ask", "auto"}
           /\ Guardrails(d, t, high) = "auto" =>
                 /\ mode \notin {"off", "approval_required", "recommend_only"}
                 /\ t \notin Allowlisted \cup Sensitive
                 /\ ~(ActionsInWindow(d) >= MaxAuto)
BY DEF Guardrails

LEMMA DecideKeepsIInv ==
    ASSUME IInv, NEW w \in Worker, Decide(w)
    PROVE  IInv'
  <1> DEFINE answer == IF NextKey(w) \in DOMAIN draft.actions THEN "skip"
                       ELSE Guardrails(draft, NextKey(w)[2], highScore[w])
  <1>1. /\ pc[w] = "evaluating" /\ todo[w] # << >>
        /\ pc' = [pc EXCEPT ![w] = "decided"]
        /\ UNCHANGED <<db, mode, draft, holder, highScore, todo, old, lapsed, expiring, task,
                    raced, manual>>
    BY DEF Decide, timeVars, manualVars
  <1>2. holder = w /\ Visible(w) = draft
    BY <1>1, HolderSeesDraft
  <1>3. decision' = [decision EXCEPT ![w] = answer]
    BY <1>2 DEF Decide
  <1>4. /\ answer \in {"skip", "deny", "ask", "auto"}
        /\ answer # "skip" => NextKey(w) \notin DOMAIN draft.actions
        /\ answer = "auto" => /\ mode = "auto"
                             /\ NextKey(w)[2] \notin Allowlisted \cup Sensitive
                             /\ Cardinality(InWindow(draft, old)) < MaxAuto
    <2> DEFINE said == Guardrails(draft, NextKey(w)[2], highScore[w])
    <2>1. /\ said \in {"deny", "ask", "auto"}
          /\ said = "auto" =>
                /\ mode \notin {"off", "approval_required", "recommend_only"}
                /\ NextKey(w)[2] \notin Allowlisted \cup Sensitive
                /\ ~(ActionsInWindow(draft) >= MaxAuto)
      BY GuardrailsAnswer
    <2>2. mode \in AutonomyMode /\ IsDatabase(draft)
      BY DEF IInv, ControlTypes, DatabasesSound
    <2>3. ActionsInWindow(draft) = Cardinality(InWindow(draft, old))
      BY WindowIsCounted
    <2>4. Cardinality(InWindow(draft, old)) \in Nat
      BY <2>2, CountedIsFinite
    <2>5. ~(Cardinality(InWindow(draft, old)) >= MaxAuto) =>
              Cardinality(InWindow(draft, old)) < MaxAuto
      BY <2>4, MaxAutoAssumption
    <2> HIDE DEF said
    <2>6. answer = IF NextKey(w) \in DOMAIN draft.actions THEN "skip" ELSE said
      BY DEF said
    <2> HIDE DEF answer
    <2> QED
      BY <2>1, <2>2, <2>3, <2>5, <2>6 DEF AutonomyMode
  <1> HIDE DEF answer
  <1>5. ControlTypes'
    BY <1>1, <1>3, <1>4 DEF IInv, ControlTypes
  <1>6. HolderEvaluates'
    BY <1>1, <1>2 DEF IInv, ControlTypes, HolderEvaluates
  <1>7. DecisionStands'
    <2> SUFFICES ASSUME NEW v \in Worker, pc'[v] = "decided"
                 PROVE  v = w /\ decision'[v] = answer
      BY <1>1, <1>4 DEF DecisionStands, NextKey
    <2> QED
      BY <1>1, <1>2, <1>3 DEF IInv, ControlTypes, HolderEvaluates
  <1> QED
    BY <1>1, <1>5, <1>6, <1>7 DEF IInv, TimeTypes, DatabasesSound, AutomaticOnlyInAuto,
                                  UncommittedAutomatic, TasksFit

LEMMA CarryOutKeepsIInv ==
    ASSUME IInv, NEW w \in Worker, CarryOut(w)
    PROVE  IInv'
  <1> DEFINE key == NextKey(w)
  <1>1. /\ pc[w] = "decided" /\ holder' = w
        /\ todo' = [todo EXCEPT ![w] = Tail(todo[w])]
        /\ decision' = [decision EXCEPT ![w] = "none"]
        /\ pc' = [pc EXCEPT ![w] = "evaluating"]
        /\ UNCHANGED <<db, mode, highScore, old, lapsed, expiring, task,
                    raced, manual>>
    BY DEF CarryOut, timeVars, manualVars
  <1>2. holder = w /\ Visible(w) = draft
    BY <1>1, HolderSeesDraft
  <1>3. PICK outcome \in {decision[w]} \cup (IF decision[w] = "auto" THEN {"fail"} ELSE {}) :
            draft' = Carried(draft, key, outcome)
    BY <1>2 DEF CarryOut
  <1>4. /\ todo[w] # << >> /\ todo[w] \in Seq(Key)
        /\ decision[w] \in {"skip", "deny", "ask", "auto"}
        /\ decision[w] # "skip" => key \notin DOMAIN draft.actions
        /\ decision[w] = "auto" => /\ mode = "auto"
                                  /\ key[2] \notin Allowlisted \cup Sensitive
                                  /\ Cardinality(InWindow(draft, old)) < MaxAuto
    BY <1>1 DEF IInv, ControlTypes, DecisionStands
  <1>5. key \in Key /\ Tail(todo[w]) \in Seq(Key)
    BY <1>4 DEF NextKey
  <1> HIDE DEF key
  <1>6. /\ outcome \in {"skip", "deny", "ask", "auto", "fail"}
        /\ outcome # "skip" => key \notin DOMAIN draft.actions
        /\ outcome = "auto" => /\ mode = "auto"
                              /\ key[2] \notin Allowlisted \cup Sensitive
                              /\ Cardinality(InWindow(draft, old)) < MaxAuto
    BY <1>3, <1>4
  <1>7. IsDatabase(draft) /\ Sound(draft, raced) /\ WithinLimit(draft, old)
    BY DEF IInv, DatabasesSound
  <1>8. /\ IsDatabase(draft') /\ Sound(draft', raced) /\ WithinLimit(draft', old)
        /\ DOMAIN draft.actions \subseteq DOMAIN draft'.actions
        /\ \A k \in DOMAIN draft.actions : draft'.actions[k] = draft.actions[k]
        /\ outcome # "auto" => \A k \in DOMAIN draft'.actions \ DOMAIN draft.actions :
                                  draft'.actions[k].executedBy # "guardrails"
        /\ Succeeds(draft, draft', {})
    <2> DEFINE after == Carried(draft, key, outcome)
    <2>1. /\ IsDatabase(after) /\ Sound(after, raced) /\ WithinLimit(after, old)
          /\ DOMAIN draft.actions \subseteq DOMAIN after.actions
          /\ \A k \in DOMAIN draft.actions : after.actions[k] = draft.actions[k]
          /\ outcome # "auto" => \A k \in DOMAIN after.actions \ DOMAIN draft.actions :
                                    after.actions[k].executedBy # "guardrails"
          /\ Succeeds(draft, after, {})
      BY <1>5, <1>6, <1>7, CarriedIsSound
    <2> HIDE DEF after
    <2> QED
      BY <1>3, <2>1 DEF after
  <1>9. ControlTypes'
    BY <1>1, <1>5 DEF IInv, ControlTypes
  <1>10. HolderEvaluates'
    <2>1. Succeeds(db, draft, {})
      BY DEF IInv, HolderEvaluates
    <2>2. Succeeds(db, draft', {})
      BY <1>8, <2>1, SucceedsInTurn
    <2> QED
      BY <1>1, <1>2, <2>2, WorkerAssumption DEF IInv, ControlTypes, HolderEvaluates
  <1>11. DecisionStands'
    BY <1>1, <1>2 DEF IInv, ControlTypes, HolderEvaluates, DecisionStands
  <1>12. DatabasesSound'
    BY <1>1, <1>8 DEF IInv, DatabasesSound
  <1>13. AutomaticOnlyInAuto'
    BY <1>1, <1>6, <1>8 DEF IInv, AutomaticOnlyInAuto, UncommittedAutomatic
  <1> QED
    BY <1>1, <1>9, <1>10, <1>11, <1>12, <1>13 DEF IInv, TimeTypes, TasksFit

\* The end of a transaction: the draft is committed, or forgotten.
LEMMA EndOfTransactionKeepsIInv ==
    ASSUME IInv, NEW w \in Worker, Idle(w),
           \/ /\ db' = Visible(w) /\ draft' = IF holder = w THEN db' ELSE draft
           \/ /\ draft' = (IF holder = w THEN db ELSE draft) /\ UNCHANGED db
    PROVE  IInv'
  <1>1. /\ holder' = IF holder = w THEN NoOne ELSE holder
        /\ pc' = [pc EXCEPT ![w] = "idle"]
        /\ highScore' = [highScore EXCEPT ![w] = FALSE]
        /\ todo' = [todo EXCEPT ![w] = << >>]
        /\ decision' = [decision EXCEPT ![w] = "none"]
        /\ UNCHANGED <<mode, old, lapsed, expiring, task, raced, manual>>
    BY DEF Idle, timeVars, manualVars
  <1>2. /\ db' \in {db, draft} /\ draft' \in {db, draft}
        /\ holder = w => draft' = db'
        /\ holder # w => db' = db /\ draft' = draft
        /\ Succeeds(db, db', {}) /\ DOMAIN db.actions \subseteq DOMAIN db'.actions
    BY SucceedsItself DEF Visible, IInv, HolderEvaluates, Succeeds
  <1>3. ControlTypes'
    BY <1>1 DEF IInv, ControlTypes
  <1>4. TimeTypes'
    BY <1>1, <1>2 DEF IInv, TimeTypes
  <1>5. DatabasesSound'
    BY <1>1, <1>2 DEF IInv, DatabasesSound
  <1>6. HolderEvaluates'
    BY <1>1, <1>2, WorkerAssumption, SucceedsItself DEF IInv, ControlTypes, HolderEvaluates
  <1>7. DecisionStands'
    <2> SUFFICES ASSUME NEW v \in Worker, pc'[v] = "decided"
                 PROVE  /\ pc[v] = "decided" /\ todo'[v] = todo[v] /\ decision'[v] = decision[v]
                        /\ draft' = draft
      BY <1>1 DEF IInv, DecisionStands, NextKey
    <2>1. v # w /\ pc[v] = "decided"
      BY <1>1 DEF IInv, ControlTypes
    <2>2. holder # w
      BY <2>1 DEF IInv, HolderEvaluates
    <2> QED
      BY <1>1, <1>2, <2>1, <2>2 DEF IInv, ControlTypes
  <1>8. AutomaticOnlyInAuto'
    BY <1>1, <1>2 DEF IInv, AutomaticOnlyInAuto, UncommittedAutomatic
  <1>9. TasksFit'
    <2>1. \A a \in Analyst : task[a] \in Task /\ Fits(task[a], db)
      BY DEF IInv, ControlTypes, TasksFit
    <2> QED
      BY <1>1, <1>2, <2>1, FitsKept DEF TasksFit
  <1> QED
    BY <1>3, <1>4, <1>5, <1>6, <1>7, <1>8, <1>9 DEF IInv

LEMMA IInvStutter ==
    ASSUME IInv, UNCHANGED vars
    PROVE  IInv'
BY DEF vars, workerVars, timeVars, manualVars, IInv, ControlTypes, TimeTypes, DatabasesSound,
       HolderEvaluates, DecisionStands, NextKey, AutomaticOnlyInAuto, UncommittedAutomatic,
       TasksFit

LEMMA IInvNext == IInv /\ [Next]_vars => IInv'
  <1> SUFFICES ASSUME IInv, [Next]_vars PROVE IInv'
    OBVIOUS
  <1>1. ASSUME NEW w \in Worker, NEW i \in Incident, FindIncident(w, i) PROVE IInv'
    BY <1>1, FindIncidentKeepsIInv
  <1>2. ASSUME NEW w \in Worker, NEW high \in BOOLEAN, Correlate(w, high) PROVE IInv'
    BY <1>2, CorrelateKeepsIInv
  <1>3. ASSUME NEW w \in Worker, Decide(w) PROVE IInv'
    BY <1>3, DecideKeepsIInv
  <1>4. ASSUME NEW w \in Worker, CarryOut(w) PROVE IInv'
    BY <1>4, CarryOutKeepsIInv
  <1>5. ASSUME NEW w \in Worker, CommitEvaluation(w) PROVE IInv'
    BY <1>5, EndOfTransactionKeepsIInv DEF CommitEvaluation
  <1>6. ASSUME NEW w \in Worker, Abandon(w) PROVE IInv'
    BY <1>6, EndOfTransactionKeepsIInv DEF Abandon
  <1>7. ASSUME NEW m \in AutonomyMode \ {mode}, SetAutonomyMode(m) PROVE IInv'
    BY <1>7, SetAutonomyModeKeepsIInv
  <1>8. ASSUME NEW a \in Analyst, NEW key \in Key, Approve(a, key) PROVE IInv'
    BY <1>8, ApproveKeepsIInv
  <1>9. ASSUME NEW a \in Analyst, NEW key \in Key, Deny(a, key) PROVE IInv'
    BY <1>9, DenyKeepsIInv
  <1>10. ASSUME NEW a \in Analyst, NEW key \in Key, Rollback(a, key) PROVE IInv'
    BY <1>10, RollbackKeepsIInv
  <1>11. ASSUME NEW a \in Analyst, TaskStep(a) PROVE IInv'
    BY <1>11, WriteRowKeepsIInv, ReadIncidentKeepsIInv, CommitTaskKeepsIInv, FailTaskKeepsIInv
       DEF TaskStep
  <1>12. ASSUME NEW key \in Key, LeaveWindow(key) PROVE IInv'
    BY <1>12, LeaveWindowKeepsIInv
  <1>13. ASSUME NEW key \in Key, Lapse(key) PROVE IInv'
    BY <1>13, LapseKeepsIInv
  <1>14. ASSUME NEW i \in Incident, Conclude(i) PROVE IInv'
    BY <1>14, ConcludeKeepsIInv
  <1>15. CASE ListExpired
    BY <1>15, ListExpiredKeepsIInv
  <1>16. CASE ExpireListed
    BY <1>16, ExpireListedKeepsIInv
  <1>17. CASE UNCHANGED vars
    BY <1>17, IInvStutter
  <1> QED
    BY <1>1, <1>2, <1>3, <1>4, <1>5, <1>6, <1>7, <1>8, <1>9, <1>10, <1>11, <1>12, <1>13,
       <1>14, <1>15, <1>16, <1>17 DEF Next, EvaluationStep

\* The inductive invariant holds of every state that is reached.
THEOREM Invariance == Spec => []IInv
BY IInvInit, IInvNext, PTL DEF Spec

-----------------------------------------------------------------------------
\* The theorems

\* What the tables and the workers hold stays of its type: actions of known
\* keys and statuses, ids of actions in the rows that are active, and only
\* committed actions among those that leave the window, lapse or are listed.
THEOREM TypeCorrectness == Spec => []TypeOK
  <1> DEFINE Types(d) ==
          /\ DOMAIN d.actions \subseteq Key
          /\ \A k \in DOMAIN d.actions : d.actions[k] \in ActionRow
          /\ DOMAIN d.enforced = Enforceable
          /\ \A t \in Enforceable :
                /\ d.enforced[t].active \in BOOLEAN
                /\ d.enforced[t].active => d.enforced[t].action \in Key
          /\ d.incident \in [Incident -> IncidentStatus]
  <1>1. ASSUME NEW d, IsDatabase(d), Sound(d, raced) PROVE Types(d)
    <2>1. \A x \in Enforceable : d.enforced[x].active => d.enforced[x].action \in Key
      BY <1>1, RowsHaveOwners
    <2> QED
      BY <1>1, <2>1 DEF IsDatabase, DatabaseOf
  <1>2. IInv => \A d \in {db, draft} : Types(d)
    <2> HIDE DEF Types
    <2> QED
      BY <1>1 DEF IInv, DatabasesSound
  <1>3. IInv => TypeOK
    BY <1>2 DEF IInv, ControlTypes, TimeTypes, HolderEvaluates, TypeOK
  <1> QED
    BY <1>3, Invariance, PTL

\* However evaluations, approvals, denials, rollbacks and expiries of several
\* incidents that share a target follow each other or overlap, an active block
\* belongs to an action about that target that was executed and neither rolled
\* back nor expired since - but for a target whose last approval or rollback
\* overlapped another one or an expiry, which are the only orphans there are.
THEOREM OrphansComeFromRaces == Spec => []OrphanBlockIsARace
  <1>1. IInv => OrphanBlockIsARace
    BY DEF IInv, DatabasesSound, Sound, Live, OrphanBlockIsARace
  <1> QED
    BY <1>1, Invariance, PTL

\* No allowlisted address and no protected or critical host is blocked or isolated
\* but by an action that a human has approved.
THEOREM ProtectedTargetsNeedAHuman == Spec => []AutomationInBounds
  <1>1. Allowlisted \cup Sensitive \subseteq Enforceable
    BY TargetAssumption DEF Enforceable
  <1>2. ASSUME IInv, NEW x \in Allowlisted \cup Sensitive, db.enforced[x].active
        PROVE  db.actions[db.enforced[x].action].executedBy = "human"
    <2>1. x \in Enforceable /\ Sound(db, raced)
      BY <1>1, <1>2, CommittedIsSound
    <2>2. db.enforced[x] # NoRow
      BY <1>2 DEF NoRow
    <2> QED
      BY <1>2, <2>1, <2>2 DEF Sound
  <1>3. IInv => AutomationInBounds
    BY <1>2 DEF AutomationInBounds
  <1> QED
    BY <1>3, Invariance, PTL

\* The autonomy mode is read once, before the action is executed, yet no
\* evaluation under way has an automatic action to commit once another mode is
\* committed.
THEOREM ModeIsStillAuto == Spec => []AutomaticOnlyInAuto
  <1>1. IInv => AutomaticOnlyInAuto
    BY DEF IInv
  <1> QED
    BY <1>1, Invariance, PTL

\* Workers that count the actions of the last hour at the same time do not
\* execute more of them than the limit, whatever it is.
THEOREM LimitIsNeverExceeded == Spec => []RateLimitHolds
  <1>1. IInv => RateLimitHolds
    BY DEF IInv, DatabasesSound, WithinLimit, Automatic, RateLimitHolds
  <1> QED
    BY <1>1, Invariance, PTL

=============================================================================
