------------------------------ MODULE Incidents ------------------------------
(***************************************************************************)
(* Incidents: the correlation of alerts, their scores, what the playbooks  *)
(* make of them, and the lifecycle in the hands of analysts                *)
(* (backend/app/services/incident_correlation_service.py,                  *)
(* incident_lifecycle_service.py, domain/incident_state_machine.py,        *)
(* repositories/incident_repository.py, services/response).                *)
(*                                                                         *)
(* Every operation is one database transaction.  It reads first, each read *)
(* seeing what is committed at the time, and from its first append to the  *)
(* audit ledger on it has the ledger to itself (HashLedger,                *)
(* OneUncommittedWriter); all operations that write append.  What an       *)
(* operation does from there to its commit is one step, therefore, and the *)
(* reads before it are steps of their own.  The row it has updated before  *)
(* it appends is locked for others, the reference id it has inserted too:  *)
(* that it waits, or fails, shows as a step that is not taken, or Abort.   *)
(*                                                                         *)
(* A column is updated if its value differs from the one that              *)
(* update_incident selected a moment before; a value that another          *)
(* transaction has written in between then stays, or is written over.      *)
(*                                                                         *)
(* The ledger is kept by incident, as its order within one is what counts  *)
(* here; a timeline entry goes with each ledger entry (but SCORE_CHANGED)  *)
(* and is not kept.  Of a response action only the first decision is kept, *)
(* which settles its idempotency key; what becomes of it is in             *)
(* ResponseActions.  Roles are those of an analyst, and notes are given    *)
(* where they are required.                                                *)
(***************************************************************************)
EXTENDS RiskScoring, Sequences, FiniteSets

CONSTANTS
    Alert,          \* alerts, each raised by one message
    KeyOf,          \* of each alert: group_by_key
    SeverityOf,     \* of each alert: the severity and the confidence of its rule, in
    ConfidenceOf,   \* thousandths
    Dotted,         \* of the keys: those with a "." in them
    Allowlisted,    \* of the keys: those of allowlisted_ip_list
    Playbooks,      \* in the order of their files: minimum score and actions
    Worker,         \* processes that correlate alerts, a session at a time
    Analyst,        \* users, a request at a time
    Postures,       \* what the autonomy mode and the hourly limit may come down to
    MaxManual,      \* bound on what users do
    MaxFaults,      \* bound on the transactions that are rolled back
    MaxAged         \* bound on the incidents that leave the window

Key == {KeyOf[a] : a \in Alert}

NoOne == "none"

ActionType == {"BLOCK_IP", "ISOLATE_HOST", "DISABLE_USER", "RESTRICT_ACCESS", "NOTIFY"}

Containment == {"BLOCK_IP", "ISOLATE_HOST", "DISABLE_USER"}

IncidentStatus == {"NEW", "TRIAGED", "AWAITING_APPROVAL", "CONTAINED", "INVESTIGATING",
                   "RESOLVED", "CLOSED", "FALSE_POSITIVE"}

Concluded == {"RESOLVED", "CLOSED", "FALSE_POSITIVE"}

\* The statuses with no transition from them.
Terminal == {"CLOSED", "FALSE_POSITIVE"}

ASSUME AlertAssumption ==
    {SeverityOf, ConfidenceOf} \subseteq [Alert -> 0 .. 1000]
ASSUME KeyAssumption ==
    /\ Dotted \subseteq Key /\ Allowlisted \subseteq Dotted
    /\ NoOne \notin Key \cup DOMAIN Assets
ASSUME SessionAssumption ==
    Worker \cap Analyst = {} /\ Postures \subseteq {"off", "ask", "auto"}
ASSUME BoundAssumption == MaxManual \in Nat /\ MaxFaults \in Nat /\ MaxAged \in Nat
\* A criticality of 6 stands for none given.
ASSUME PlaybookAssumption ==
    Playbooks \in Seq([minScore : 0 .. 1000,
                      actions : Seq([type : ActionType, askAtCriticality : 1 .. 6,
                                     askIfProtected : BOOLEAN])])

VARIABLES
    incidents,      \* committed: the incidents in the order of their creation
    linked,         \* committed: of each alert its incident, 0 for none
    decisions,      \* committed: what was decided of the actions <<incident, type>>
    ledger,         \* committed: of each incident its audit entries
    handled,        \* alerts whose session is over, and those under way
    session,        \* of each worker and analyst
    aged,           \* incidents created longer ago than the correlation window
    manual,         \* how many requests of users there were
    faults          \* how many transactions were rolled back, refused ones aside

vars == <<incidents, linked, decisions, ledger, handled, session, aged, manual, faults>>

Idle == [pc |-> "idle"]

Init ==
    /\ incidents = << >>
    /\ linked = [a \in Alert |-> 0]
    /\ decisions = [k \in {} |-> NoOne]
    /\ ledger = << >>
    /\ handled = {}
    /\ session = [s \in Worker \cup Analyst |-> Idle]
    /\ aged = {}
    /\ manual = 0
    /\ faults = 0

-----------------------------------------------------------------------------
\* Correlation: correlate_alert

\* Whatever has a dot in it is a source address, a fully qualified host name too.
SrcIp(key) == IF key \in Dotted THEN key ELSE NoOne

\* No rule groups by user name, and a key `user:...' does not come up.
Host(key) == IF key \in Dotted THEN NoOne ELSE key

\* The reputation is looked up for an address only.
IntelOf(key) == IF SrcIp(key) = NoOne THEN 100 ELSE IpReputation(SrcIp(key))

ContextFactors(key, severity, confidence, additional) ==
    LET asset == AssetContext(Host(key))
    IN  Factors(severity, confidence, asset.criticality, Exposure(asset), IntelOf(key), additional)

\* The score of an alert on its own, as the first of an incident.
AlertScores(a) == Scores(ContextFactors(KeyOf[a], SeverityOf[a], ConfidenceOf[a], 0))

Higher(m, n) == IF m > n THEN m ELSE n

\* Defect: the severity of the new alert is left out.
RescoresOldSeverity(a, oldScore, alerts) ==
    Scores(ContextFactors(KeyOf[a], oldScore, Higher(ConfidenceOf[a], 700), alerts - 1))

\* The score after an alert was attached: the old score, a hundredth of it, stands
\* in for the severity of the alerts before.
Rescores(a, oldScore, alerts) ==
    Scores(ContextFactors(KeyOf[a], Higher(SeverityOf[a], oldScore),
                          Higher(ConfidenceOf[a], 700), alerts - 1))

Open(status) == status \notin Concluded

\* find_open_incident_by_correlation_key: the latest.
OpenIncidents(key) ==
    {n \in DOMAIN incidents : /\ incidents[n].key = key
                              /\ Open(incidents[n].status)
                              /\ n \notin aged}

Find(w, a) ==
    /\ session[w] = Idle
    /\ a \notin handled
    /\ handled' = handled \cup {a}
    /\ \/ /\ OpenIncidents(KeyOf[a]) = {}
          /\ session' = [session EXCEPT ![w] = [pc |-> "none found", alert |-> a]]
       \/ \E n \in OpenIncidents(KeyOf[a]) :
             /\ \A m \in OpenIncidents(KeyOf[a]) : m <= n
             /\ session' = [session EXCEPT ![w] =
                   [pc |-> "found", alert |-> a, incident |-> n, score |-> incidents[n].score]]
    /\ UNCHANGED <<incidents, linked, decisions, ledger, aged, manual, faults>>

\* generate_reference_id, in create; the year that the id begins with is left out.
GenerateReferenceId(w) ==
    /\ session[w].pc = "none found"
    /\ session' = [session EXCEPT ![w] =
          [pc |-> "create", alert |-> @.alert, ref |-> Len(incidents) + 1]]
    /\ UNCHANGED <<incidents, linked, decisions, ledger, handled, aged, manual, faults>>

\* The alert is linked, the alerts of the incident are listed and it is rescored;
\* update_incident selects it again.
Rescore(w) ==
    /\ session[w].pc = "found"
    /\ LET n == session[w].incident
           a == session[w].alert
           alerts == Cardinality({b \in Alert : linked[b] = n}) + 1
       IN  \E score \in Rescores(a, session[w].score, alerts) :
              session' = [session EXCEPT ![w] =
                  [pc |-> "attach", alert |-> a, incident |-> n, score |-> score,
                   row |-> [score |-> incidents[n].score, priority |-> incidents[n].priority,
                            latest |-> incidents[n].latest]]]
    /\ UNCHANGED <<incidents, linked, decisions, ledger, handled, aged, manual, faults>>

-----------------------------------------------------------------------------
\* Response: evaluate_incident.  A draft is what a transaction makes of the status of
\* an incident, of what was decided of its actions, and of its part of the ledger:
\* [status, decided, log]; and, for the properties, how long that was when the session
\* that assigned a status last had selected the incident: since.

\* _resolve_target: what an action of the type is aimed at, if anything.
TargetOf(type, key) ==
    CASE type = "BLOCK_IP" -> SrcIp(key)
      [] type = "ISOLATE_HOST" -> Host(key)
      [] type \in {"DISABLE_USER", "RESTRICT_ACCESS"} -> NoOne
      [] type = "NOTIFY" -> "webhook"

\* What the guardrails say.  The autonomy mode and the actions of the last hour,
\* which ResponseActions follows, come down to a posture: "off", "ask" (approval
\* required, recommend only, or the hourly limit reached) or "auto".
Guardrails(posture, minScore, action, key, score) ==
    LET known == Host(key) \in DOMAIN Assets
        asset == AssetContext(Host(key))
        escalates ==
            \/ known /\ asset.isProtected /\ action.type \in {"ISOLATE_HOST", "DISABLE_USER"}
            \/ known /\ asset.criticality >= 4 /\ action.type = "ISOLATE_HOST"
            \/ known /\ asset.criticality >= action.askAtCriticality
            \/ known /\ asset.isProtected /\ action.askIfProtected
    IN  IF \/ posture = "off"
           \/ action.type = "BLOCK_IP" /\ TargetOf(action.type, key) \in Allowlisted
           \/ score < minScore
          THEN "deny"
        ELSE IF posture = "ask" \/ escalates THEN "ask"
        ELSE "auto"

\* A ledger entry, or the timeline entry that goes with it, and what it is about: an
\* alert, the type of an action, or the new status.
Entry(type, about) == [type |-> type, about |-> about]

SameStatus == "as before"

\* The status that the session of an entry has assigned, if any: no entry but those of
\* transitions says it.
StatusOf(entry) ==
    CASE entry.type = "INCIDENT_CREATED" -> "TRIAGED"
      [] entry.type = "ACTION_PROPOSED" -> "AWAITING_APPROVAL"
      [] entry.type \in {"ACTION_EXECUTED", "ACTION_APPROVED"} /\ entry.about \in Containment ->
            "CONTAINED"
      [] entry.type = "STATE_TRANSITION" -> entry.about
      [] OTHER -> SameStatus

\* One action, unless it has no target or there was one of its type before.  The
\* simulated connectors fail with the database only, and the session with it.
Respond(row, draft, posture, minScore, action) ==
    LET decision == Guardrails(posture, minScore, action, row.key, row.score)
        decided == [t \in DOMAIN draft.decided \cup {action.type} |->
                       IF t = action.type THEN decision ELSE draft.decided[t]]
        Logged(entry) == [draft EXCEPT !.decided = decided, !.log = Append(@, entry)]
        Assigned(status, type) ==
            [Logged(Entry(type, action.type)) EXCEPT !.status = status, !.since = Len(draft.log)]
    IN  IF TargetOf(action.type, row.key) = NoOne \/ action.type \in DOMAIN draft.decided
          THEN draft
        ELSE CASE decision = "deny" -> Logged(Entry("ACTION_DENIED", action.type))
               [] decision = "ask" -> Assigned("AWAITING_APPROVAL", "ACTION_PROPOSED")
               [] decision = "auto" /\ action.type \in Containment ->
                     Assigned("CONTAINED", "ACTION_EXECUTED")
               [] decision = "auto" /\ action.type \notin Containment ->
                     Logged(Entry("ACTION_EXECUTED", action.type))

\* All playbooks, whatever their category, with all their actions.
PlaybookActions ==
    LET upTo[p \in 0 .. Len(Playbooks)] ==
            IF p = 0 THEN << >>
            ELSE upTo[p - 1] \o [n \in DOMAIN Playbooks[p].actions |->
                                    [minScore |-> Playbooks[p].minScore,
                                     action |-> Playbooks[p].actions[n]]]
    IN  upTo[Len(Playbooks)]

Evaluated(row, draft, posture) ==
    LET after[n \in 0 .. Len(PlaybookActions)] ==
            IF n = 0 THEN draft
            ELSE Respond(row, after[n - 1], posture, PlaybookActions[n].minScore,
                         PlaybookActions[n].action)
    IN  after[Len(PlaybookActions)]

Decided(n) ==
    [t \in {t \in ActionType : <<n, t>> \in DOMAIN decisions} |-> decisions[<<n, t>>]]

\* Defect: what is appended for a new incident does not carry its id.
StoreUnattributed(n, row, draft) ==
    /\ LET stored == [row EXCEPT !.status = draft.status, !.since = draft.since]
       IN  incidents' = IF n > Len(incidents) THEN Append(incidents, stored)
                        ELSE [incidents EXCEPT ![n] = stored]
    /\ ledger' = IF n > Len(ledger) THEN ledger ELSE [ledger EXCEPT ![n] = draft.log]
    /\ decisions' = [k \in DOMAIN decisions \cup {<<n, t>> : t \in DOMAIN draft.decided} |->
                        IF k[1] = n THEN draft.decided[k[2]] ELSE decisions[k]]

\* The commit of what a transaction has made of incident n.
Store(n, row, draft) ==
    /\ LET stored == [row EXCEPT !.status = draft.status, !.since = draft.since]
       IN  incidents' = IF n > Len(incidents) THEN Append(incidents, stored)
                        ELSE [incidents EXCEPT ![n] = stored]
    /\ ledger' = IF n > Len(ledger) THEN Append(ledger, draft.log)
                 ELSE [ledger EXCEPT ![n] = draft.log]
    /\ decisions' = [k \in DOMAIN decisions \cup {<<n, t>> : t \in DOMAIN draft.decided} |->
                        IF k[1] = n THEN draft.decided[k[2]] ELSE decisions[k]]

\* Defect: the reference id need not be unique.
RefTakenNever(ref) == FALSE

\* The unique constraint of reference_id; who is refused is rolled back.
RefTaken(ref) == \E n \in DOMAIN incidents : incidents[n].ref = ref

\* A new incident; the link, the ledger entry, the playbooks and the commit.  Three
\* fields of a row are history, for the properties: the alert attached last, whether
\* an attachment ever found the row changed since it had selected it, and since.
CreateIncident(w) ==
    /\ session[w].pc = "create"
    /\ ~RefTaken(session[w].ref)
    /\ LET a == session[w].alert
           n == Len(incidents) + 1
       IN  \E score \in AlertScores(a), posture \in Postures :
              /\ LET row == [key |-> KeyOf[a], ref |-> session[w].ref, status |-> "TRIAGED",
                             score |-> score, priority |-> DeterminePriority(score),
                             latest |-> a, contended |-> FALSE, since |-> 0]
                     draft == [status |-> row.status, decided |-> Decided(n), since |-> 0,
                               log |-> <<Entry("INCIDENT_CREATED", a)>>]
                 IN  Store(n, row, Evaluated(row, draft, posture))
              /\ linked' = [linked EXCEPT ![a] = n]
    /\ session' = [session EXCEPT ![w] = Idle]
    /\ UNCHANGED <<handled, aged, manual, faults>>

\* What an UPDATE leaves in a column that was selected as old and is assigned new.
Column(current, old, new) == IF new = old THEN current ELSE new

\* The incident's score is written, ALERT_ATTACHED and SCORE_CHANGED are appended,
\* the playbooks follow and the commit.
AttachAlert(w) ==
    LET s == session[w]
        n == s.incident
        row == [incidents[n] EXCEPT
                    !.score = Column(@, s.row.score, s.score),
                    !.priority = Column(@, s.row.priority, DeterminePriority(s.score)),
                    !.latest = s.alert,
                    !.contended = @ \/ s.row.latest # incidents[n].latest]
        draft == [status |-> row.status, decided |-> Decided(n), since |-> row.since,
                  log |-> ledger[n] \o <<Entry("ALERT_ATTACHED", s.alert),
                                         Entry("SCORE_CHANGED", s.alert)>>]
    IN  /\ s.pc = "attach"
        /\ \E posture \in Postures : Store(n, row, Evaluated(row, draft, posture))
        /\ linked' = [linked EXCEPT ![s.alert] = n]
        /\ session' = [session EXCEPT ![w] = Idle]
        /\ UNCHANGED <<handled, aged, manual, faults>>

-----------------------------------------------------------------------------
\* Analysts

\* Defect: a false positive can be reopened like a resolved incident.
TransitionsReopenFalsePositive ==
    [NEW |-> {"TRIAGED", "FALSE_POSITIVE"},
     TRIAGED |-> {"CONTAINED", "AWAITING_APPROVAL", "INVESTIGATING", "FALSE_POSITIVE"},
     AWAITING_APPROVAL |-> {"CONTAINED", "INVESTIGATING", "FALSE_POSITIVE"},
     CONTAINED |-> {"INVESTIGATING", "RESOLVED"},
     INVESTIGATING |-> {"CONTAINED", "RESOLVED", "FALSE_POSITIVE"},
     RESOLVED |-> {"CLOSED", "INVESTIGATING"},
     CLOSED |-> {},
     FALSE_POSITIVE |-> {"INVESTIGATING"}]

\* VALID_TRANSITIONS
ValidTransitions ==
    [NEW |-> {"TRIAGED", "FALSE_POSITIVE"},
     TRIAGED |-> {"CONTAINED", "AWAITING_APPROVAL", "INVESTIGATING", "FALSE_POSITIVE"},
     AWAITING_APPROVAL |-> {"CONTAINED", "INVESTIGATING", "FALSE_POSITIVE"},
     CONTAINED |-> {"INVESTIGATING", "RESOLVED"},
     INVESTIGATING |-> {"CONTAINED", "RESOLVED", "FALSE_POSITIVE"},
     RESOLVED |-> {"CLOSED", "INVESTIGATING"},
     CLOSED |-> {},
     FALSE_POSITIVE |-> {}]

Begin(u, state) ==
    /\ session[u] = Idle
    /\ manual < MaxManual
    /\ manual' = manual + 1
    /\ session' = [session EXCEPT ![u] = state]
    /\ UNCHANGED <<incidents, linked, decisions, ledger, handled, aged, faults>>

\* transition_incident reads the incident and validates the request against it.
RequestTransition(u, n) ==
    \E target \in ValidTransitions[incidents[n].status] :
        Begin(u, [pc |-> "validated", incident |-> n, seen |-> incidents[n].status,
                  target |-> target])

\* update_incident selects the incident again.
LoadForTransition(u) ==
    /\ session[u].pc = "validated"
    /\ session' = [session EXCEPT ![u] =
          [pc |-> "transition", incident |-> @.incident, seen |-> @.seen, target |-> @.target,
           loaded |-> incidents[@.incident].status, since |-> Len(ledger[@.incident])]]
    /\ UNCHANGED <<incidents, linked, decisions, ledger, handled, aged, manual, faults>>

\* The rest of transition_incident, and its commit.  (The entry also names the status
\* that the request was validated against.)
CommitTransition(u) ==
    LET s == session[u]
        n == s.incident
    IN  /\ s.pc = "transition"
        /\ Store(n, incidents[n],
                 [status |-> Column(incidents[n].status, s.loaded, s.target),
                  decided |-> Decided(n), since |-> s.since,
                  log |-> Append(ledger[n], Entry("STATE_TRANSITION", s.target))])
        /\ session' = [session EXCEPT ![u] = Idle]
        /\ UNCHANGED <<linked, handled, aged, manual, faults>>

\* approve_action executes an action, whatever became of it before; for a
\* containment action update_incident selects the incident,
RequestApproval(u, n) ==
    \E type \in DOMAIN Decided(n) :
        Begin(u, [pc |-> "approve", incident |-> n, action |-> type,
                  loaded |-> incidents[n].status, since |-> Len(ledger[n])])

\* Defect: a status that the lifecycle does not lead from is left, with the entry made.
ContainedIfValid(s, row) ==
    IF s.action \in Containment /\ "CONTAINED" \in ValidTransitions[row.status]
      THEN Column(row.status, s.loaded, "CONTAINED")
      ELSE row.status

\* and sets it to CONTAINED, whatever it was.
Contained(s, row) ==
    IF s.action \in Containment THEN Column(row.status, s.loaded, "CONTAINED") ELSE row.status

CommitApproval(u) ==
    LET s == session[u]
        n == s.incident
    IN  /\ s.pc = "approve"
        /\ Store(n, incidents[n],
                 [status |-> Contained(s, incidents[n]), decided |-> Decided(n),
                  since |-> IF s.action \in Containment THEN s.since ELSE incidents[n].since,
                  log |-> Append(ledger[n], Entry("ACTION_APPROVED", s.action))])
        /\ session' = [session EXCEPT ![u] = Idle]
        /\ UNCHANGED <<linked, handled, aged, manual, faults>>

\* add_analyst_note, or deny_action or rollback_action of one of its actions: an
\* entry that assigns no status.
AddRemark(u, n) ==
    /\ session[u] = Idle
    /\ manual < MaxManual
    /\ manual' = manual + 1
    /\ ledger' = [ledger EXCEPT ![n] = Append(@, Entry("REMARK", NoOne))]
    /\ UNCHANGED <<incidents, linked, decisions, handled, session, aged, faults>>

-----------------------------------------------------------------------------

\* The transaction is rolled back.  The alert goes with it, as its message is not
\* read again.
RollBack(s) ==
    /\ session[s] # Idle
    /\ session' = [session EXCEPT ![s] = Idle]
    /\ UNCHANGED <<incidents, linked, decisions, ledger, handled, aged, manual>>

\* The insert of an incident whose reference id is taken.
Refuse(w) == session[w].pc = "create" /\ RefTaken(session[w].ref) /\ RollBack(w) /\ UNCHANGED faults

\* Any other error, a deadlock or a crash.  An analyst's request that is rolled back
\* is as if it had not been made, and is left out.
Abort(w) == faults < MaxFaults /\ faults' = faults + 1 /\ RollBack(w)

\* An incident leaves the correlation window, which matters to alerts to come.
Age(n) ==
    /\ handled # Alert
    /\ n \in DOMAIN incidents \ aged
    /\ Cardinality(aged) < MaxAged
    /\ aged' = aged \cup {n}
    /\ UNCHANGED <<incidents, linked, decisions, ledger, handled, session, manual, faults>>

AlertStep(w) ==
    \/ \E a \in Alert : Find(w, a)
    \/ GenerateReferenceId(w) \/ CreateIncident(w) \/ Refuse(w)
    \/ Rescore(w) \/ AttachAlert(w)
    \/ Abort(w)

AnalystStep(u) ==
    \/ \E n \in DOMAIN incidents :
          RequestTransition(u, n) \/ RequestApproval(u, n) \/ AddRemark(u, n)
    \/ LoadForTransition(u) \/ CommitTransition(u) \/ CommitApproval(u)

Next ==
    \/ \E w \in Worker : AlertStep(w)
    \/ \E u \in Analyst : AnalystStep(u)
    \/ \E n \in DOMAIN incidents : Age(n)

Spec == Init /\ [][Next]_vars

-----------------------------------------------------------------------------
\* Properties

RowType ==
    [key : Key, ref : Nat, status : IncidentStatus, score : 0 .. 1000, priority : 1 .. 4,
     latest : Alert, contended : BOOLEAN, since : Nat]

\* Every incident has its part of the ledger, every alert that is attached an
\* incident, and a session under way works on an incident there is.
TypeOK ==
    /\ \A n \in DOMAIN incidents : incidents[n] \in RowType
    /\ DOMAIN ledger = DOMAIN incidents
    /\ linked \in [Alert -> 0 .. Len(incidents)]
    /\ DOMAIN decisions \subseteq (DOMAIN incidents) \X ActionType
    /\ \A a \in Alert : linked[a] # 0 => a \in handled
    /\ \A s \in Worker \cup Analyst :
          session[s].pc \in {"found", "attach", "validated", "transition", "approve"}
              => session[s].incident \in DOMAIN incidents

\* Reference ids are consecutive, although they are counted before anything is
\* locked: the unique constraint turns away whoever counted too early
\* (IncidentRepository.generate_reference_id, create).
ReferenceIdsAreConsecutive ==
    \A n \in DOMAIN incidents : incidents[n].ref = n

\* The entries of an incident that assign a status.
Assigning(n) == {i \in DOMAIN ledger[n] : StatusOf(ledger[n][i]) # SameStatus}

\* The status of an incident can be told from its audit trail.  It is the one that the
\* last entry to assign one has assigned; or, as update_incident writes nothing where
\* it has selected the status it is to assign, one that another session has assigned
\* after that, with an entry that comes before.
LedgerExplainsStatus ==
    \A n \in DOMAIN incidents :
        \E i \in Assigning(n) :
            /\ \A j \in Assigning(n) : j <= i
            /\ \/ incidents[n].status = StatusOf(ledger[n][i])
               \/ \E j \in Assigning(n) :
                     /\ incidents[n].since < j /\ j < i
                     /\ incidents[n].status = StatusOf(ledger[n][j])

\* An incident is scored no lower than the alert attached last would be on its own,
\* and has the priority of its score, unless two attachments to it have overlapped
\* (correlate_alert; each of the two columns may then be from another attachment).
ScoreCoversLatestAlert ==
    \A n \in DOMAIN incidents : ~incidents[n].contended =>
        /\ \E score \in AlertScores(incidents[n].latest) : incidents[n].score >= score
        /\ incidents[n].priority = DeterminePriority(incidents[n].score)

\* The commit of an approval of one of the actions of the incident.
ApprovalOf(n) ==
    \E u \in Analyst :
        /\ session[u] # Idle /\ session'[u] = Idle
        /\ session[u].pc = "approve" /\ session[u].incident = n

\* No alert reopens an incident that is closed or a false positive, although one may
\* have found it open: what the playbooks had to say was decided with the first (the
\* idempotency key).  Nor does a transition, but one that was validated before the
\* incident was concluded (transition_incident reads the status once to validate the
\* request and once more to write it).  Approvals do: see TerminalIsFinal.
AlertsAndTransitionsKeepTerminal ==
    [][\A n \in DOMAIN incidents :
          /\ incidents[n].status \in Terminal /\ ~ApprovalOf(n)
          /\ incidents'[n].status # incidents[n].status
          => \E u \in Analyst :
                /\ session[u] # Idle /\ session'[u] = Idle
                /\ session[u].pc = "transition" /\ session[u].incident = n
                /\ session[u].seen \notin Terminal]_vars

\* incident_state_machine.py:41-42, "Terminal state": an incident that an analyst has
\* moved to a status with no transition from it is in such a status still, whatever
\* alerts are attached and actions approved.
TerminalIsFinal ==
    \A n \in DOMAIN incidents :
        (\E i \in DOMAIN ledger[n] : /\ ledger[n][i].type = "STATE_TRANSITION"
                                     /\ ledger[n][i].about \in Terminal)
            => incidents[n].status \in Terminal

=============================================================================
