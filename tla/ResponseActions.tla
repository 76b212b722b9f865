--------------------------- MODULE ResponseActions ---------------------------
(***************************************************************************)
(* Automated and manual response: backend/app/services/response            *)
(* (orchestrator, guardrails, expiry service), the repository of response  *)
(* actions, the simulated enforcement connectors and the autonomy mode.    *)
(*                                                                         *)
(* Every operation is one database transaction, and every operation that   *)
(* writes also appends to the audit ledger.  HashLedger shows that only    *)
(* one open transaction at a time can have appended (OneUncommittedWriter),*)
(* so its first append gives a session the ledger to itself until it       *)
(* commits; a session that had read the ledger before fails and is rolled  *)
(* back.  `holder' is the session that has the ledger.  A detection worker *)
(* appends when it correlates the alert, before the guardrails look at     *)
(* anything; the manual operations and the expiry scan append last, so     *)
(* they are committed in a step that needs the ledger to be free.  A       *)
(* message with several alerts is as many evaluations in a row: nothing    *)
(* comes in between either way.                                            *)
(*                                                                         *)
(* What approves, denies and rolls back is a task of an analyst.  An       *)
(* approval SELECTs the row of the target and UPDATEs it later, and of     *)
(* every row SQLAlchemy updates only the columns whose value differs from  *)
(* the one SELECTed, so a task keeps what it has seen.  The row of the     *)
(* target is locked from the UPDATE to the end of the transaction.  The    *)
(* locks on actions and incidents are left out: who waits for one goes on  *)
(* later or is rolled back, and both are steps here.  The expiry scan      *)
(* updates, marks and appends for one action after the other; before its   *)
(* first append nothing it does can be seen, and after it nothing else     *)
(* commits, so it is one step.                                             *)
(*                                                                         *)
(* Kept of an action: its type follows from its target (an address is      *)
(* blocked, a host isolated, an account disabled, a channel notified), so  *)
(* an idempotency key is <<incident, target>>.  RESTRICT_ACCESS, which     *)
(* shares the row of an account with DISABLE_USER, is left out: two        *)
(* incidents share the row of an address in the same way.                  *)
(***************************************************************************)
EXTENDS Integers, Sequences, FiniteSets

CONSTANTS
    Worker,         \* detection workers
    Analyst,        \* who may have an approval, a denial or a rollback under way
    Incident,
    Ip,             \* targets of BLOCK_IP
    Host,           \* targets of ISOLATE_HOST and DISABLE_USER
    Channel,        \* targets of NOTIFY
    Allowlisted,    \* the addresses of allowlisted_ip_list
    Sensitive,      \* of Host: protected, or of criticality 4 and more
    Proposals,      \* the targets that the playbooks propose for each incident
    DefaultMode,    \* default_autonomy_mode
    MaxAuto,        \* max_auto_actions_per_hour_global
    MaxManual,      \* bound on the operations of analysts and administrators
    MaxOld          \* bound on the actions that get older than the hour

Enforceable == Ip \cup Host
Target == Enforceable \cup Channel
Key == Incident \X Target

ASSUME TargetAssumption ==
    /\ Ip \cap Host = {} /\ Enforceable \cap Channel = {}
    /\ Allowlisted \subseteq Ip /\ Sensitive \subseteq Host
ASSUME ProposalsAssumption == Proposals \in [Incident -> Seq(Target)]
ASSUME MaxAutoAssumption == MaxAuto \in Nat
ASSUME MaxManualAssumption == MaxManual \in Nat
ASSUME MaxOldAssumption == MaxOld \in Nat

AutonomyMode == {"off", "recommend_only", "approval_required", "auto"}

ASSUME DefaultModeAssumption == DefaultMode \in AutonomyMode

ActionStatus == {"DENIED", "AWAITING_APPROVAL", "SUCCEEDED", "FAILED", "ROLLED_BACK", "EXPIRED"}

\* CONCLUDED: RESOLVED, CLOSED or FALSE_POSITIVE, which correlation passes over.
\* OPEN: the others that no action sets.
IncidentStatus == {"OPEN", "AWAITING_APPROVAL", "CONTAINED", "CONCLUDED"}

\* A row of response_actions; ttl: expires_at is set; executedBy: who had it
\* executed last.
ActionRow == [status : ActionStatus, ttl : BOOLEAN,
              executedBy : {"nobody", "guardrails", "human"}]

VARIABLES
    db,         \* committed: actions by key, enforced rows by target, incident statuses
    mode,       \* committed: system_settings, autonomy_mode
    draft,      \* db as the holder of the ledger has rewritten it so far
    holder,     \* the worker whose open transaction has appended, or NoOne
    pc,         \* where each worker is
    highScore,  \* the incident's score, as correlated, reaches the playbooks' minimum
    todo,       \* the proposed actions, by key, it has still to go through
    decision,   \* what the guardrails said of the first of them
    old,        \* actions created more than an hour ago
    lapsed,     \* actions whose expires_at has passed
    expiring,   \* what list_expired_actions returned to the expiry worker
    task,       \* what each analyst has under way, and what it has seen
    raced,      \* targets whose last approval or rollback overlapped another (history)
    manual      \* how many manual operations there were

timeVars == <<old, lapsed>>
workerVars == <<draft, holder, pc, highScore, todo, decision>>
manualVars == <<task, raced, manual>>
vars == <<db, mode, workerVars, timeVars, expiring, manualVars>>

NoOne == "no one"

ASSUME WorkerAssumption == NoOne \notin Worker

\* A target that was never enforced has no row.
NoRow == [active |-> FALSE, action |-> << >>]

\* at: "read" once the row of the target is SELECTed, "written" once it is
\* UPDATEd and the action SELECTed, "found" once the incident is.  row, status,
\* contained: what those SELECTs returned.  crossed: another approval, rollback or
\* expiry about the target was committed in the meantime (history).
Task == [op : {"none", "approve", "deny", "rollback"}, key : Key \cup {<< >>},
         at : {"idle", "read", "written", "found"},
         row : [active : BOOLEAN, action : Key \cup {<< >>}], locks : BOOLEAN,
         status : ActionStatus \cup {"none"}, contained : BOOLEAN, crossed : BOOLEAN]

NoTask == [op |-> "none", key |-> << >>, at |-> "idle", row |-> NoRow, locks |-> FALSE,
           status |-> "none", contained |-> FALSE, crossed |-> FALSE]

-----------------------------------------------------------------------------
\* Reading and rewriting the database

PutAction(d, key, row) ==
    [d EXCEPT !.actions = [k \in DOMAIN @ \cup {key} |-> IF k = key THEN row ELSE @[k]]]

SetIncident(d, i, status) == [d EXCEPT !.incident[i] = status]

\* Connector.execute of a worker, which has the ledger: the row of the target is
\* inserted, or taken over; a notification has none.
Enforce(d, key) ==
    [d EXCEPT !.enforced = [t \in Enforceable |->
        IF t = key[2] THEN [active |-> TRUE, action |-> key] ELSE @[t]]]

\* Connector.rollback, for a set of actions: the rows of their targets, whichever
\* action they belong to.
Lift(d, keys) ==
    [d EXCEPT !.enforced = [t \in Enforceable |->
        IF \E k \in keys : k[2] = t THEN [active |-> FALSE, action |-> @[t].action]
                                      ELSE @[t]]]

\* An action that was executed: its row, its effect, and the incident contained.
Executed(d, key, row) ==
    LET enforced == Enforce(PutAction(d, key, row), key)
    IN  IF key[2] \in Channel THEN enforced ELSE SetIncident(enforced, key[1], "CONTAINED")

\* count_actions_in_window
ActionsInWindow(d) ==
    Cardinality({k \in DOMAIN d.actions : d.actions[k].status = "SUCCEEDED" /\ k \notin old})

\* Defect: one action too many before the limit holds.
GuardrailsLimitOffByOne(d, t, high) ==
    IF mode = "off" \/ t \in Allowlisted \/ ~high THEN "deny"
    ELSE IF \/ mode \in {"approval_required", "recommend_only"}
            \/ t \in Sensitive
            \/ ActionsInWindow(d) > MaxAuto THEN "ask"
    ELSE "auto"

\* Defect: criticality and protection are not looked at.
GuardrailsNoEscalation(d, t, high) ==
    IF mode = "off" \/ t \in Allowlisted \/ ~high THEN "deny"
    ELSE IF \/ mode \in {"approval_required", "recommend_only"}
            \/ ActionsInWindow(d) >= MaxAuto THEN "ask"
    ELSE "auto"

\* Defect: the allowlist is not consulted.
GuardrailsNoAllowlist(d, t, high) ==
    IF mode = "off" \/ ~high THEN "deny"
    ELSE IF \/ mode \in {"approval_required", "recommend_only"}
            \/ t \in Sensitive
            \/ ActionsInWindow(d) >= MaxAuto THEN "ask"
    ELSE "auto"

\* GuardrailChecker.evaluate
Guardrails(d, t, high) ==
    IF mode = "off" \/ t \in Allowlisted \/ ~high THEN "deny"
    ELSE IF \/ mode \in {"approval_required", "recommend_only"}
            \/ t \in Sensitive
            \/ ActionsInWindow(d) >= MaxAuto THEN "ask"
    ELSE "auto"

-----------------------------------------------------------------------------

Init ==
    /\ db = [actions |-> [k \in {} |-> 0],
             enforced |-> [t \in Enforceable |-> NoRow],
             incident |-> [i \in Incident |-> "OPEN"]]
    /\ mode = DefaultMode
    /\ draft = db
    /\ holder = NoOne
    /\ pc = [w \in Worker |-> "idle"]
    /\ highScore = [w \in Worker |-> FALSE]
    /\ todo = [w \in Worker |-> << >>]
    /\ decision = [w \in Worker |-> "none"]
    /\ old = {}
    /\ lapsed = {}
    /\ expiring = {}
    /\ task = [a \in Analyst |-> NoTask]
    /\ raced = {}
    /\ manual = 0

\* find_open_incident_by_correlation_key, in correlate_alert.
FindIncident(w, i) ==
    /\ pc[w] = "idle"
    /\ db.incident[i] # "CONCLUDED"
    /\ todo' = [todo EXCEPT ![w] = [n \in DOMAIN Proposals[i] |-> <<i, Proposals[i][n]>>]]
    /\ pc' = [pc EXCEPT ![w] = "found"]
    /\ UNCHANGED <<db, mode, draft, holder, highScore, decision, timeVars, expiring, manualVars>>

\* Defect: the correlation of the alert is not written to the ledger.
CorrelateUnlogged(w, high) ==
    /\ pc[w] = "found"
    /\ highScore' = [highScore EXCEPT ![w] = high]
    /\ pc' = [pc EXCEPT ![w] = "evaluating"]
    /\ UNCHANGED <<db, mode, draft, holder, todo, decision, timeVars, expiring, manualVars>>

\* The rest of correlate_alert: the incident is scored, the ledger appended to.
Correlate(w, high) ==
    /\ pc[w] = "found"
    /\ holder = NoOne
    /\ holder' = w
    /\ draft' = db
    /\ highScore' = [highScore EXCEPT ![w] = high]
    /\ pc' = [pc EXCEPT ![w] = "evaluating"]
    /\ UNCHANGED <<db, mode, todo, decision, timeVars, expiring, manualVars>>

\* An uncommitted UPDATE or INSERT of an analyst's task locks the row of its target.
LockedByTask(t) == \E a \in Analyst : task[a].locks /\ task[a].key[2] = t

\* What a worker sees: its own writes over the committed ones.
Visible(w) == IF holder = w THEN draft ELSE db

NextKey(w) == Head(todo[w])

\* The lookup of the idempotency key, and the guardrails if it is new.
Decide(w) ==
    /\ pc[w] = "evaluating"
    /\ todo[w] # << >>
    /\ decision' = [decision EXCEPT ![w] =
                      IF NextKey(w) \in DOMAIN Visible(w).actions THEN "skip"
                      ELSE Guardrails(Visible(w), NextKey(w)[2], highScore[w])]
    /\ pc' = [pc EXCEPT ![w] = "decided"]
    /\ UNCHANGED <<db, mode, draft, holder, highScore, todo, timeVars, expiring, manualVars>>

\* Every action of the playbooks but a notification has ttl_seconds.
HasTtl(key) == key[2] \notin Channel

\* What evaluate_incident makes of a decision; "fail" is an automatic action
\* whose connector raises an error.
Carried(d, key, outcome) ==
    CASE outcome = "skip" -> d
      [] outcome = "deny" ->
            PutAction(d, key, [status |-> "DENIED", ttl |-> FALSE, executedBy |-> "nobody"])
      [] outcome = "ask" ->
            SetIncident(PutAction(d, key, [status |-> "AWAITING_APPROVAL", ttl |-> HasTtl(key),
                                           executedBy |-> "nobody"]),
                        key[1], "AWAITING_APPROVAL")
      [] outcome = "auto" ->
            Executed(d, key, [status |-> "SUCCEEDED", ttl |-> HasTtl(key),
                              executedBy |-> "guardrails"])
      [] outcome = "fail" ->
            PutAction(d, key, [status |-> "FAILED", ttl |-> HasTtl(key), executedBy |-> "nobody"])

\* The branch of evaluate_incident for the decision, with its ledger entry.  A
\* worker that has to wait for the row of an approval or rollback, which waits for
\* the ledger, is in a deadlock with it: one of the two is rolled back.
CarryOut(w) ==
    /\ pc[w] = "decided"
    /\ holder \in {NoOne, w}
    /\ holder' = w
    /\ \E outcome \in {decision[w]} \cup (IF decision[w] = "auto" THEN {"fail"} ELSE {}) :
          /\ outcome = "auto" => ~LockedByTask(NextKey(w)[2])
          /\ draft' = Carried(Visible(w), NextKey(w), outcome)
    /\ todo' = [todo EXCEPT ![w] = Tail(@)]
    /\ decision' = [decision EXCEPT ![w] = "none"]
    /\ pc' = [pc EXCEPT ![w] = "evaluating"]
    /\ UNCHANGED <<db, mode, highScore, timeVars, expiring, manualVars>>

Idle(w) ==
    /\ holder' = IF holder = w THEN NoOne ELSE holder
    /\ pc' = [pc EXCEPT ![w] = "idle"]
    /\ highScore' = [highScore EXCEPT ![w] = FALSE]
    /\ todo' = [todo EXCEPT ![w] = << >>]
    /\ decision' = [decision EXCEPT ![w] = "none"]
    /\ UNCHANGED <<mode, timeVars, expiring, manualVars>>

\* session.commit() at the end of the message.
CommitEvaluation(w) ==
    /\ pc[w] = "evaluating"
    /\ todo[w] = << >>
    /\ db' = Visible(w)
    /\ draft' = IF holder = w THEN db' ELSE draft
    /\ Idle(w)

\* Defect: the session is used again without a rollback.
AbandonKeepingDraft(w) ==
    /\ pc[w] # "idle"
    /\ Idle(w)
    /\ UNCHANGED <<db, draft>>

\* The transaction is rolled back: a ledger or key conflict, any other error, a
\* lost process.
Abandon(w) ==
    /\ pc[w] # "idle"
    /\ Idle(w)
    /\ draft' = IF holder = w THEN db ELSE draft
    /\ UNCHANGED db

-----------------------------------------------------------------------------
\* Analysts

\* No open transaction, of an analyst or of the holder, has rewritten the row.
RowFree(t) == ~LockedByTask(t) /\ draft.enforced[t] = db.enforced[t]

\* A request about an action begins.
Begin(a, t) ==
    /\ task[a] = NoTask
    /\ manual < MaxManual
    /\ manual' = manual + 1
    /\ task' = [task EXCEPT ![a] = t]
    /\ UNCHANGED <<db, mode, workerVars, timeVars, expiring, raced>>

\* approve_action as far as the SELECT of connector.execute, or of update_status
\* where there is nothing to enforce: nothing is asked of the action's status, nor
\* of the incident's.
Approve(a, key) ==
    /\ key \in DOMAIN db.actions
    /\ Begin(a, IF key[2] \in Enforceable
                THEN [NoTask EXCEPT !.op = "approve", !.key = key, !.at = "read",
                                    !.row = db.enforced[key[2]]]
                ELSE [NoTask EXCEPT !.op = "approve", !.key = key, !.at = "written",
                                    !.status = db.actions[key].status])

\* deny_action as far as the SELECT of update_status.
Deny(a, key) ==
    /\ key \in DOMAIN db.actions
    /\ Begin(a, [NoTask EXCEPT !.op = "deny", !.key = key, !.at = "written",
                               !.status = db.actions[key].status])

\* rollback_action as far as the SELECT of update_status: connector.rollback has
\* UPDATEd the row of the target, whichever action it belongs to, if there is one.
Rollback(a, key) ==
    /\ key \in DOMAIN db.actions
    /\ key[2] \in Enforceable /\ db.enforced[key[2]] # NoRow => RowFree(key[2])
    /\ Begin(a, [NoTask EXCEPT
                   !.op = "rollback", !.key = key, !.at = "written",
                   !.locks = key[2] \in Enforceable /\ db.enforced[key[2]] # NoRow,
                   !.status = db.actions[key].status])

\* The rest of connector.execute, and the SELECT of update_status.  An INSERT fails
\* if there is a row by now; the UPDATE is left out where no column has changed,
\* but the expires_at of an address moves with every approval.
WriteRow(a) ==
    LET t == task[a]
        writes == \/ t.row # [active |-> TRUE, action |-> t.key]
                  \/ t.key[2] \in Ip /\ db.actions[t.key].ttl
    IN  /\ t.at = "read"
        /\ writes => RowFree(t.key[2])
        /\ t.row = NoRow => db.enforced[t.key[2]] = NoRow
        /\ task' = [task EXCEPT ![a] = [t EXCEPT !.at = "written", !.locks = writes,
                                                 !.status = db.actions[t.key].status]]
        /\ UNCHANGED <<db, mode, workerVars, timeVars, expiring, raced, manual>>

\* Whether the incident is set to CONTAINED.
Contains(t) == t.op = "approve" /\ t.key[2] \in Enforceable

\* The UPDATE of the action, and the SELECT of update_incident.
ReadIncident(a) ==
    LET t == task[a]
    IN  /\ t.at = "written" /\ Contains(t)
        /\ task' = [task EXCEPT ![a] = [t EXCEPT !.at = "found",
                          !.contained = db.incident[t.key[1]] = "CONTAINED"]]
        /\ UNCHANGED <<db, mode, workerVars, timeVars, expiring, raced, manual>>

\* The columns that a task has written: of the action, ...
Updated(t, status) ==
    LET row == db.actions[t.key]
    IN  [row EXCEPT !.status = IF t.status = status THEN @ ELSE status,
                    !.executedBy = IF t.op = "approve" THEN "human" ELSE @]

\* ... and of the row of the target, which may have changed since it was SELECTed.
Approved(t) ==
    LET put == PutAction(db, t.key, Updated(t, "SUCCEEDED"))
        enforced == [put EXCEPT !.enforced = [x \in Enforceable |->
                        IF x = t.key[2]
                        THEN [active |-> ~t.row.active \/ @[x].active,
                              action |-> IF t.row.action = t.key THEN @[x].action ELSE t.key]
                        ELSE @[x]]]
    IN  IF Contains(t) /\ ~t.contained
        THEN SetIncident(enforced, t.key[1], "CONTAINED") ELSE enforced

Denied(t) == PutAction(db, t.key, Updated(t, "DENIED"))

\* Defect: the action says so, but the connector is not called.
RolledBackRowOnly(t) == PutAction(db, t.key, Updated(t, "ROLLED_BACK"))

RolledBack(t) ==
    Lift(PutAction(db, t.key, Updated(t, "ROLLED_BACK")), IF t.locks THEN {t.key} ELSE {})

\* The targets whose rows an approval or a rollback is about.
Rewritten(t) == IF t.op \in {"approve", "rollback"} THEN {t.key[2]} \cap Enforceable ELSE {}

\* History: the tasks, once the rows of some targets are committed.
Cross(tasks, targets) ==
    [a \in Analyst |-> IF Rewritten(tasks[a]) \cap targets # {}
                       THEN [tasks[a] EXCEPT !.crossed = TRUE] ELSE tasks[a]]

\* One whole transaction, which appends to the ledger at its end.
Write(d) ==
    /\ holder = NoOne
    /\ db' = d
    /\ draft' = d
    /\ UNCHANGED <<holder, pc, highScore, todo, decision, timeVars>>

\* The ledger entry and session.commit() at the end of the request.
CommitTask(a) ==
    LET t == task[a]
    IN  /\ t.at = IF Contains(t) THEN "found" ELSE "written"
        /\ Write(CASE t.op = "approve" -> Approved(t)
                   [] t.op = "deny" -> Denied(t)
                   [] t.op = "rollback" -> RolledBack(t))
        /\ task' = Cross([task EXCEPT ![a] = NoTask], Rewritten(t))
        /\ raced' = IF t.crossed THEN raced \cup Rewritten(t) ELSE raced \ Rewritten(t)
        /\ UNCHANGED <<mode, expiring, manual>>

\* The request fails and is rolled back: a key or ledger conflict, a deadlock, any
\* other error, a lost process.
FailTask(a) ==
    /\ task[a] # NoTask
    /\ task' = [task EXCEPT ![a] = NoTask]
    /\ UNCHANGED <<db, mode, workerVars, timeVars, expiring, raced, manual>>

-----------------------------------------------------------------------------
\* Administrators, other requests, the expiry worker, time

\* A request in one step: what it reads decides nothing that it writes.
ManualWrite(d) ==
    /\ manual < MaxManual
    /\ manual' = manual + 1
    /\ Write(d)
    /\ UNCHANGED <<expiring, task, raced>>

\* PUT /settings/autonomy-mode
SetAutonomyMode(m) ==
    /\ mode' = m
    /\ ManualWrite(db)

\* transition_incident, as far as one of the concluded statuses.
Conclude(i) ==
    /\ db.incident[i] # "CONCLUDED"
    /\ ManualWrite(SetIncident(db, i, "CONCLUDED"))
    /\ UNCHANGED mode

\* Defect: an action whose incident is over is taken to be over too.
LapsedActionsOpenOnly ==
    {k \in DOMAIN db.actions : /\ db.actions[k].status = "SUCCEEDED"
                               /\ db.actions[k].ttl /\ k \in lapsed
                               /\ db.incident[k[1]] # "CONCLUDED"}

\* list_expired_actions
LapsedActions ==
    {k \in DOMAIN db.actions : /\ db.actions[k].status = "SUCCEEDED"
                               /\ db.actions[k].ttl /\ k \in lapsed}

\* A scan of the expiry worker begins.  A scan that fails changes nothing, and
\* the next one lists again.
ListExpired ==
    /\ LapsedActions # {}
    /\ expiring' = LapsedActions
    /\ UNCHANGED <<db, mode, workerVars, timeVars, manualVars>>

\* The rest of process_expired_actions, for all it has listed, whatever has
\* become of them since.
ExpireListed ==
    /\ expiring # {}
    /\ \A k \in expiring : ~LockedByTask(k[2])
    /\ Write(Lift([db EXCEPT !.actions = [k \in DOMAIN @ |->
              IF k \in expiring THEN [@[k] EXCEPT !.status = "EXPIRED"] ELSE @[k]]], expiring))
    /\ expiring' = {}
    /\ task' = Cross(task, {k[2] : k \in expiring})
    /\ raced' = raced \ {k[2] : k \in expiring}
    /\ UNCHANGED <<mode, manual>>

\* An hour passes since the action was created.
LeaveWindow(key) ==
    /\ key \in DOMAIN db.actions \ old
    /\ Cardinality(old) < MaxOld
    /\ old' = old \cup {key}
    /\ UNCHANGED <<db, mode, workerVars, lapsed, expiring, manualVars>>

\* Its time to live passes; no playbook gives less than the hour.
Lapse(key) ==
    /\ key \in (DOMAIN db.actions \cap old) \ lapsed
    /\ db.actions[key].ttl
    /\ lapsed' = lapsed \cup {key}
    /\ UNCHANGED <<db, mode, workerVars, old, expiring, manualVars>>

EvaluationStep(w) == Decide(w) \/ CarryOut(w) \/ CommitEvaluation(w)

TaskStep(a) == FailTask(a) \/ WriteRow(a) \/ ReadIncident(a) \/ CommitTask(a)

Next ==
    \/ \E w \in Worker :
          \/ \E i \in Incident : FindIncident(w, i)
          \/ \E high \in BOOLEAN : Correlate(w, high)
          \/ EvaluationStep(w)
          \/ Abandon(w)
    \/ \E a \in Analyst :
          \/ \E key \in Key : Approve(a, key) \/ Deny(a, key) \/ Rollback(a, key)
          \/ TaskStep(a)
    \/ \E m \in AutonomyMode \ {mode} : SetAutonomyMode(m)
    \/ \E i \in Incident : Conclude(i)
    \/ \E key \in Key : LeaveWindow(key) \/ Lapse(key)
    \/ ListExpired
    \/ ExpireListed

Spec == Init /\ [][Next]_vars

\* The transaction that has the ledger goes on to its end, a request ends, one way
\* or the other (PostgreSQL sees to it that it does not wait for ever), the expiry
\* worker scans again and again, and now and then one of its scans gets the rows and
\* the ledger.
HolderStep == \E w \in Worker : holder = w /\ EvaluationStep(w)

Fairness ==
    /\ WF_vars(HolderStep)
    /\ \A a \in Analyst : WF_vars(TaskStep(a))
    /\ WF_vars(ListExpired)
    /\ SF_vars(ExpireListed)

FairSpec == Spec /\ Fairness

\* The hour and the time to live pass, too.
TimePasses == \E key \in Key : LeaveWindow(key) \/ Lapse(key)

TimedSpec == FairSpec /\ WF_vars(TimePasses)

-----------------------------------------------------------------------------
\* Properties

TypeOK ==
    /\ \A d \in {db, draft} :
          /\ DOMAIN d.actions \subseteq Key
          /\ \A k \in DOMAIN d.actions : d.actions[k] \in ActionRow
          /\ DOMAIN d.enforced = Enforceable
          /\ \A t \in Enforceable :
                /\ d.enforced[t].active \in BOOLEAN
                /\ d.enforced[t].active => d.enforced[t].action \in Key
          /\ d.incident \in [Incident -> IncidentStatus]
    /\ mode \in AutonomyMode
    /\ holder \in Worker \cup {NoOne}
    /\ holder = NoOne => draft = db
    /\ pc \in [Worker -> {"idle", "found", "evaluating", "decided"}]
    /\ highScore \in [Worker -> BOOLEAN]
    /\ todo \in [Worker -> Seq(Key)]
    /\ decision \in [Worker -> {"none", "skip", "deny", "ask", "auto"}]
    /\ lapsed \subseteq old /\ old \subseteq DOMAIN db.actions
    /\ expiring \subseteq DOMAIN db.actions
    /\ task \in [Analyst -> Task]
    /\ raced \subseteq Enforceable
    /\ manual \in 0 .. MaxManual

\* An active block belongs to an action about its target that was executed and has
\* been neither rolled back nor expired since, so that an analyst finds the action
\* by which to lift it and the expiry worker comes to it - unless the last approval
\* or rollback of the target overlapped another one or an expiry.  Evaluations,
\* denials and tasks that follow each other, on actions of several incidents, do
\* not leave an orphan; two that overlap may, for want of a lock between the SELECT
\* and the UPDATE.
OrphanBlockIsARace ==
    \A t \in Enforceable \ raced : db.enforced[t].active =>
        /\ db.enforced[t].action \in DOMAIN db.actions
        /\ db.enforced[t].action[2] = t
        /\ db.actions[db.enforced[t].action].status \in {"SUCCEEDED", "DENIED"}

\* Allowlisted addresses are never blocked, and protected or critical hosts
\* never isolated, except on the word of a human - also when the row is taken
\* over from one action by another.
AutomationInBounds ==
    \A t \in Allowlisted \cup Sensitive : db.enforced[t].active =>
        db.actions[db.enforced[t].action].executedBy = "human"

\* The actions that the holder of the ledger has executed on its own.
UncommittedAutomatic ==
    {k \in DOMAIN draft.actions \ DOMAIN db.actions :
        draft.actions[k].executedBy = "guardrails"}

\* The autonomy mode is read before an action is executed and committed, and it
\* cannot change in between: once another mode is committed, no evaluation
\* under way has an automatic action still to commit.
AutomaticOnlyInAuto == mode # "auto" => UncommittedAutomatic = {}

\* The hourly limit is counted before an action is created, and yet workers that
\* evaluate at the same time do not overshoot it.
RateLimitHolds ==
    Cardinality({k \in DOMAIN db.actions :
        /\ db.actions[k].status = "SUCCEEDED"
        /\ db.actions[k].executedBy = "guardrails"
        /\ k \notin old}) <= MaxAuto

\* The actions that there may ever be.
Proposed == {key \in Key : \E n \in DOMAIN Proposals[key[1]] : Proposals[key[1]][n] = key[2]}

Overdue(key) ==
    /\ key \in DOMAIN db.actions /\ key \in lapsed
    /\ db.actions[key].status = "SUCCEEDED" /\ db.actions[key].ttl

\* An executed action whose time has passed does not stay executed: the expiry
\* worker gets to it, however many evaluations and approvals compete.
LapsedIsExpired == \A key \in Proposed : Overdue(key) ~> ~Overdue(key)

\* README.md:103, "All temporary network/account blocks automatically expire
\* unless renewed."
BlocksExpire ==
    \A t \in Enforceable : db.enforced[t].active ~> ~db.enforced[t].active

=============================================================================
