--------------------------- MODULE IncidentsProofs ---------------------------
(***************************************************************************)
(* Theorems about the incidents and their reports, for any alerts, rules   *)
(* of scoring, playbooks and numbers of sessions.  The invariant has three *)
(* parts, each of which uses those before it:                              *)
(*                                                                         *)
(*   - IInv, the rows: incidents are never removed, so that whoever        *)
(*     counted before another insert has a reference id that is taken by   *)
(*     then (CountedInThePast);                                            *)
(*   - PutSomewhere, the files: a session that goes on to the commit of a  *)
(*     report has put the file somewhere;                                  *)
(*   - BInv, the books: of every incident the row, the audit entries, the  *)
(*     decided actions and the alerts go together (Books); what a session  *)
(*     has read still stands in the entries, or is told from the alert     *)
(*     that it saw attached last (SessionsOK); and so is what the reports  *)
(*     say (ReportsOK).                                                    *)
(*                                                                         *)
(* What the playbooks make of an incident is a function defined on the     *)
(* number of their actions.  That there is such a function, and what holds *)
(* of its value for the last of them, is shown from the least number for   *)
(* which it would fail (LeastElement).                                     *)
(***************************************************************************)
EXTENDS IncidentReports, FiniteSetTheorems, WellFoundedInduction, TLAPS

\* What is in the table, whatever its columns hold.
Rows(keys, refs, statuses, scores, priorities, alerts, marks, lengths) ==
    [key : keys, ref : refs, status : statuses, score : scores, priority : priorities,
     latest : alerts, contended : marks, since : lengths]

IsRow(r) ==
    r \in Rows({r.key}, {r.ref}, {r.status}, {r.score}, {r.priority}, {r.latest},
               {r.contended}, {r.since})

IsTable(rows) ==
    /\ \E S : rows \in Seq(S)
    /\ \A n \in 1 .. Len(rows) : IsRow(rows[n])

\* The sessions that are about an incident are about one that there is.
OfIncident == {"found", "attach", "validated", "transition", "approve"}

SessionsAreAboutIncidents ==
    \A s \in DOMAIN session : session[s].pc \in OfIncident => session[s].incident \in DOMAIN incidents

\* A session that is to insert an incident has counted as many as there are, or less.
CountedInThePast ==
    \A s \in DOMAIN session :
        session[s].pc = "create" => session[s].ref \in 1 .. Len(incidents) + 1

IInv ==
    /\ DOMAIN session = Worker \cup Analyst
    /\ IsTable(incidents) /\ ReferenceIdsAreConsecutive
    /\ SessionsAreAboutIncidents /\ CountedInThePast

-----------------------------------------------------------------------------
\* Lemmas about the table

LEMMA TableAppend ==
    ASSUME NEW rows, IsTable(rows), NEW r, IsRow(r)
    PROVE  /\ IsTable(Append(rows, r)) /\ Len(rows) \in Nat
           /\ Len(Append(rows, r)) = Len(rows) + 1
           /\ Append(rows, r)[Len(rows) + 1] = r
           /\ \A n \in 1 .. Len(rows) : Append(rows, r)[n] = rows[n]
  <1>1. PICK S : rows \in Seq(S)
    BY DEF IsTable
  <1> DEFINE T == S \cup {r}
  <1>2. rows \in Seq(T)
    BY <1>1
  <1>3. r \in T
    OBVIOUS
  <1> HIDE DEF T
  <1>4. /\ Append(rows, r) \in Seq(T) /\ Len(rows) \in Nat
        /\ Len(Append(rows, r)) = Len(rows) + 1
        /\ Append(rows, r)[Len(rows) + 1] = r
        /\ \A n \in 1 .. Len(rows) : Append(rows, r)[n] = rows[n]
    BY <1>2, <1>3
  <1>5. \A n \in 1 .. Len(Append(rows, r)) : IsRow(Append(rows, r)[n])
    <2> SUFFICES ASSUME NEW n \in 1 .. Len(rows) + 1 PROVE IsRow(Append(rows, r)[n])
      BY <1>4
    <2>1. CASE n \in 1 .. Len(rows)
      BY <1>4, <2>1 DEF IsTable
    <2>2. CASE n = Len(rows) + 1
      BY <1>4, <2>2
    <2> QED
      BY <1>4, <2>1, <2>2
  <1>6. IsTable(Append(rows, r))
    BY <1>4, <1>5 DEF IsTable
  <1> QED
    BY <1>4, <1>6

LEMMA TableUpdate ==
    ASSUME NEW rows, IsTable(rows), NEW n \in 1 .. Len(rows), NEW r, IsRow(r)
    PROVE  LET after == [rows EXCEPT ![n] = r]
           IN  /\ IsTable(after) /\ Len(after) = Len(rows) /\ Len(rows) \in Nat
               /\ after[n] = r
               /\ \A m \in 1 .. Len(rows) : m # n => after[m] = rows[m]
  <1>1. PICK S : rows \in Seq(S)
    BY DEF IsTable
  <1> DEFINE T == S \cup {r}
             after == [rows EXCEPT ![n] = r]
  <1>2. rows \in Seq(T)
    BY <1>1
  <1>3. r \in T
    OBVIOUS
  <1> HIDE DEF T
  <1>4. /\ after \in Seq(T) /\ Len(after) = Len(rows) /\ Len(rows) \in Nat
        /\ after[n] = r
        /\ \A m \in 1 .. Len(rows) : m # n => after[m] = rows[m]
    BY <1>2, <1>3
  <1> HIDE DEF after
  <1>5. ASSUME NEW m \in 1 .. Len(after) PROVE IsRow(after[m])
    BY <1>4 DEF IsTable
  <1>6. IsTable(after)
    BY <1>4, <1>5 DEF IsTable
  <1> QED
    BY <1>4, <1>6 DEF after

\* The domain of the table.
LEMMA TableDomain ==
    ASSUME NEW rows, IsTable(rows)
    PROVE  DOMAIN rows = 1 .. Len(rows) /\ Len(rows) \in Nat
BY DEF IsTable

LEMMA RowOfColumns ==
    ASSUME NEW keys, NEW refs, NEW statuses, NEW scores, NEW priorities, NEW alerts, NEW marks,
           NEW lengths,
           NEW r \in Rows(keys, refs, statuses, scores, priorities, alerts, marks, lengths)
    PROVE  IsRow(r)
BY DEF Rows, IsRow

\* The updates of a row leave the reference id alone.
WithStatus(r, status, since) == [r EXCEPT !.status = status, !.since = since]

Attached(r, score, priority, alert, mark) ==
    [r EXCEPT !.score = score, !.priority = priority, !.latest = alert, !.contended = mark]

LEMMA RowWithStatus ==
    ASSUME NEW r, IsRow(r), NEW status, NEW since
    PROVE  LET t == WithStatus(r, status, since)
           IN  IsRow(t) /\ t.ref = r.ref
  <1> DEFINE t == WithStatus(r, status, since)
  <1>1. r \in Rows({r.key}, {r.ref}, {r.status, status}, {r.score}, {r.priority},
                   {r.latest}, {r.contended}, {r.since, since})
    BY DEF Rows, IsRow
  <1>2. t \in Rows({r.key}, {r.ref}, {r.status, status}, {r.score}, {r.priority},
                   {r.latest}, {r.contended}, {r.since, since})
    BY <1>1 DEF Rows, WithStatus
  <1>3. t.ref = r.ref
    BY <1>1 DEF Rows, WithStatus
  <1> QED
    BY <1>2, <1>3, RowOfColumns

LEMMA RowAttached ==
    ASSUME NEW r, IsRow(r), NEW score, NEW priority, NEW alert, NEW mark
    PROVE  LET t == Attached(r, score, priority, alert, mark)
           IN  IsRow(t) /\ t.ref = r.ref
  <1> DEFINE t == Attached(r, score, priority, alert, mark)
             S == Rows({r.key}, {r.ref}, {r.status}, {r.score, score}, {r.priority, priority},
                       {r.latest, alert}, {r.contended, mark}, {r.since})
  <1>1. r \in S
    BY DEF Rows, IsRow
  <1>2. t \in S
    BY <1>1 DEF Rows, Attached
  <1>3. t.ref = r.ref
    BY <1>1 DEF Rows, Attached
  <1> QED
    BY <1>2, <1>3, RowOfColumns

-----------------------------------------------------------------------------
\* The steps of Incidents

Table == IsTable(incidents) /\ ReferenceIdsAreConsecutive

\* What is stored is a new row with the next reference id, or a row with the one it
\* had.
LEMMA StoreStep ==
    ASSUME Table, NEW n \in 1 .. Len(incidents) + 1,
           NEW row, IsRow(row), row.ref = n, NEW draft, Store(n, row, draft)
    PROVE  /\ Table' /\ Len(incidents) \in Nat
           /\ Len(incidents') \in Nat /\ Len(incidents) <= Len(incidents')
  <1> DEFINE stored == WithStatus(row, draft.status, draft.since)
  <1>1. incidents' = IF n > Len(incidents) THEN Append(incidents, stored)
                     ELSE [incidents EXCEPT ![n] = stored]
    BY Zenon DEF Store, WithStatus
  <1>2. IsRow(stored) /\ stored.ref = n
    BY RowWithStatus
  <1> HIDE DEF stored
  <1>3. /\ IsTable(incidents) /\ DOMAIN incidents = 1 .. Len(incidents) /\ Len(incidents) \in Nat
        /\ \A m \in 1 .. Len(incidents) : incidents[m].ref = m
    BY TableDomain DEF Table, ReferenceIdsAreConsecutive
  <1>4. CASE n = Len(incidents) + 1
    <2>1. incidents' = Append(incidents, stored)
      <3>1. n > Len(incidents)
        BY <1>3, <1>4
      <3> QED
        BY <1>1, <3>1, Zenon
    <2>2. /\ IsTable(incidents')
          /\ Len(incidents') = Len(incidents) + 1
          /\ incidents'[Len(incidents) + 1] = stored
          /\ \A m \in 1 .. Len(incidents) : incidents'[m] = incidents[m]
      BY <1>2, <1>3, <2>1, TableAppend
    <2>3. DOMAIN incidents' = 1 .. Len(incidents')
      BY <2>2, TableDomain
    <2>4. \A m \in 1 .. Len(incidents') : incidents'[m].ref = m
      BY <1>2, <1>3, <1>4, <2>2
    <2> QED
      BY <1>3, <2>2, <2>3, <2>4 DEF Table, ReferenceIdsAreConsecutive
  <1>5. CASE n \in 1 .. Len(incidents)
    <2>1. incidents' = [incidents EXCEPT ![n] = stored]
      <3>1. ~(n > Len(incidents))
        BY <1>3, <1>5
      <3> QED
        BY <1>1, <3>1, Zenon
    <2>2. /\ IsTable(incidents') /\ Len(incidents') = Len(incidents)
          /\ incidents'[n] = stored
          /\ \A m \in 1 .. Len(incidents) : m # n => incidents'[m] = incidents[m]
      BY <1>2, <1>3, <1>5, <2>1, TableUpdate
    <2>3. DOMAIN incidents' = 1 .. Len(incidents')
      BY <2>2, TableDomain
    <2>4. \A m \in 1 .. Len(incidents') : incidents'[m].ref = m
      BY <1>2, <1>3, <2>2
    <2> QED
      BY <1>3, <2>2, <2>3, <2>4 DEF Table, ReferenceIdsAreConsecutive
  <1> QED
    BY <1>3, <1>4, <1>5

\* A step of one session, beside a table that at most grows.
LEMMA SessionStep ==
    ASSUME IInv, IsTable(incidents'), Len(incidents) <= Len(incidents'),
           NEW s \in DOMAIN session, NEW new, session' = [session EXCEPT ![s] = new],
           new.pc \in OfIncident => new.incident \in 1 .. Len(incidents'),
           new.pc = "create" => new.ref \in 1 .. Len(incidents') + 1
    PROVE  /\ DOMAIN session' = Worker \cup Analyst
           /\ SessionsAreAboutIncidents' /\ CountedInThePast'
  <1>1. /\ DOMAIN incidents = 1 .. Len(incidents) /\ Len(incidents) \in Nat
        /\ DOMAIN incidents' = 1 .. Len(incidents') /\ Len(incidents') \in Nat
    BY TableDomain DEF IInv
  <1>2. /\ DOMAIN session' = DOMAIN session /\ session'[s] = new
        /\ \A t \in DOMAIN session : t # s => session'[t] = session[t]
    OBVIOUS
  <1>3. ASSUME NEW t \in DOMAIN session, session'[t].pc \in OfIncident
        PROVE  session'[t].incident \in 1 .. Len(incidents')
    <2>1. CASE t = s
      BY <1>2, <1>3, <2>1
    <2>2. CASE t # s
      BY <1>1, <1>2, <1>3, <2>2 DEF IInv, SessionsAreAboutIncidents
    <2> QED
      BY <2>1, <2>2
  <1>4. ASSUME NEW t \in DOMAIN session, session'[t].pc = "create"
        PROVE  session'[t].ref \in 1 .. Len(incidents') + 1
    <2>1. CASE t = s
      BY <1>2, <1>4, <2>1
    <2>2. CASE t # s
      <3>1. session'[t].ref \in 1 .. Len(incidents) + 1
        BY <1>2, <1>4, <2>2 DEF IInv, CountedInThePast
      <3> QED
        BY <1>1, <3>1
    <2> QED
      BY <2>1, <2>2
  <1> QED
    BY <1>1, <1>2, <1>3, <1>4 DEF IInv, SessionsAreAboutIncidents, CountedInThePast

\* A step of one session that leaves the table as it is.
LEMMA ReadingStep ==
    ASSUME IInv, UNCHANGED incidents,
           NEW s \in DOMAIN session, NEW new, session' = [session EXCEPT ![s] = new],
           new.pc \in OfIncident => new.incident \in DOMAIN incidents,
           new.pc = "create" => new.ref \in 1 .. Len(incidents) + 1
    PROVE  IInv'
  <1>1. DOMAIN incidents = 1 .. Len(incidents) /\ Len(incidents) \in Nat /\ IsTable(incidents)
    BY TableDomain DEF IInv
  <1>2. /\ DOMAIN session' = Worker \cup Analyst
        /\ SessionsAreAboutIncidents' /\ CountedInThePast'
    <2>1. /\ IsTable(incidents') /\ Len(incidents) <= Len(incidents')
          /\ new.pc \in OfIncident => new.incident \in 1 .. Len(incidents')
          /\ new.pc = "create" => new.ref \in 1 .. Len(incidents') + 1
      BY <1>1
    <2> QED
      BY <2>1, SessionStep
  <1> QED
    BY <1>2 DEF IInv, ReferenceIdsAreConsecutive

\* The commit of a session.
LEMMA StoringStep ==
    ASSUME IInv, NEW s \in DOMAIN session, session' = [session EXCEPT ![s] = Idle],
           NEW n \in 1 .. Len(incidents) + 1,
           NEW row, IsRow(row), row.ref = n, NEW draft, Store(n, row, draft)
    PROVE  IInv'
  <1>1. Table' /\ Len(incidents) <= Len(incidents')
    BY StoreStep DEF IInv, Table
  <1>2. Idle.pc \notin OfIncident /\ Idle.pc # "create"
    BY DEF Idle, OfIncident
  <1>3. /\ DOMAIN session' = Worker \cup Analyst
        /\ SessionsAreAboutIncidents' /\ CountedInThePast'
    BY <1>1, <1>2, SessionStep DEF Table
  <1> QED
    BY <1>1, <1>3 DEF IInv, Table

LEMMA AlertSteps ==
    ASSUME IInv, NEW w \in Worker, AlertStep(w)
    PROVE  IInv'
  <1>1. w \in DOMAIN session /\ DOMAIN incidents = 1 .. Len(incidents) /\ Len(incidents) \in Nat
    BY TableDomain DEF IInv
  <1>2. ASSUME NEW a \in Alert, Find(w, a)
        PROVE  IInv'
    <2>1. incidents' = incidents
      BY <1>2 DEF Find
    <2>2. CASE session' = [session EXCEPT ![w] = [pc |-> "none found", alert |-> a]]
      <3> DEFINE new == [pc |-> "none found", alert |-> a]
      <3>1. new.pc \notin OfIncident /\ new.pc # "create"
        BY DEF OfIncident
      <3> HIDE DEF new
      <3>2. session' = [session EXCEPT ![w] = new]
        BY <2>2 DEF new
      <3> QED
        BY <1>1, <2>1, <3>1, <3>2, ReadingStep
    <2>3. ASSUME NEW n \in OpenIncidents(KeyOf[a]),
                 session' = [session EXCEPT ![w] =
                     [pc |-> "found", alert |-> a, incident |-> n, score |-> incidents[n].score]]
          PROVE  IInv'
      <3> DEFINE new ==
              [pc |-> "found", alert |-> a, incident |-> n, score |-> incidents[n].score]
      <3>1. new.incident \in DOMAIN incidents /\ new.pc # "create"
        BY DEF OpenIncidents
      <3>2. session' = [session EXCEPT ![w] = new]
        BY <2>3
      <3> HIDE DEF new
      <3> QED
        BY <1>1, <2>1, <3>1, <3>2, ReadingStep
    <2> QED
      BY <1>2, <2>2, <2>3 DEF Find
  <1>3. CASE GenerateReferenceId(w)
    <2> DEFINE new == [pc |-> "create", alert |-> session[w].alert, ref |-> Len(incidents) + 1]
    <2>1. session' = [session EXCEPT ![w] = new] /\ incidents' = incidents
      BY <1>3 DEF GenerateReferenceId
    <2>2. new.pc \notin OfIncident /\ new.ref \in 1 .. Len(incidents) + 1
      BY <1>1 DEF OfIncident
    <2> HIDE DEF new
    <2> QED
      BY <1>1, <2>1, <2>2, ReadingStep
  <1>4. CASE Rescore(w)
    <2> DEFINE n == session[w].incident
               row == [score |-> incidents[n].score, priority |-> incidents[n].priority,
                       latest |-> incidents[n].latest]
               new(score) == [pc |-> "attach", alert |-> session[w].alert, incident |-> n,
                              score |-> score, row |-> row]
    <2>1. n \in DOMAIN incidents
      BY <1>1, <1>4 DEF Rescore, IInv, SessionsAreAboutIncidents, OfIncident
    <2>2. PICK score : session' = [session EXCEPT ![w] = new(score)]
      BY <1>4, Zenon DEF Rescore
    <2>3. incidents' = incidents
      BY <1>4 DEF Rescore
    <2>4. new(score).incident \in DOMAIN incidents /\ new(score).pc # "create"
      BY <2>1
    <2> HIDE DEF new, n, row
    <2> QED
      BY <1>1, <2>2, <2>3, <2>4, ReadingStep
  <1>5. CASE CreateIncident(w)
    <2> DEFINE a == session[w].alert
               n == Len(incidents) + 1
               ref == session[w].ref
    <2>1. PICK score, posture :
            LET row == [key |-> KeyOf[a], ref |-> ref, status |-> "TRIAGED",
                        score |-> score, priority |-> DeterminePriority(score),
                        latest |-> a, contended |-> FALSE, since |-> 0]
                draft == [status |-> row.status, decided |-> Decided(n), since |-> 0,
                          log |-> <<Entry("INCIDENT_CREATED", a)>>]
            IN  Store(n, row, Evaluated(row, draft, posture))
      BY <1>5, Zenon DEF CreateIncident
    <2> DEFINE row == [key |-> KeyOf[a], ref |-> ref, status |-> "TRIAGED",
                       score |-> score, priority |-> DeterminePriority(score),
                       latest |-> a, contended |-> FALSE, since |-> 0]
               draft == Evaluated(row, [status |-> row.status, decided |-> Decided(n),
                                        since |-> 0,
                                        log |-> <<Entry("INCIDENT_CREATED", a)>>], posture)
    <2>2. Store(n, row, draft)
      BY <2>1
    <2>3. session' = [session EXCEPT ![w] = Idle] /\ session[w].pc = "create" /\ ~RefTaken(ref)
      BY <1>5 DEF CreateIncident
    <2>4. ref = n
      <3>1. ref \in 1 .. Len(incidents) + 1
        BY <1>1, <2>3 DEF IInv, CountedInThePast
      <3>2. \A m \in 1 .. Len(incidents) : ref # m
        BY <1>1, <2>3 DEF IInv, ReferenceIdsAreConsecutive, RefTaken
      <3> HIDE DEF ref
      <3> QED
        BY <1>1, <3>1, <3>2
    <2>5. IsRow(row) /\ row.ref = ref
      BY DEF IsRow, Rows
    <2> HIDE DEF draft, row, ref, a
    <2>6. n \in 1 .. Len(incidents) + 1
      BY <1>1
    <2> QED
      BY <1>1, <2>2, <2>3, <2>4, <2>5, <2>6, StoringStep
  <1>6. CASE AttachAlert(w)
    <2> DEFINE s == session[w]
               n == s.incident
               row == Attached(incidents[n],
                               Column(incidents[n].score, s.row.score, s.score),
                               Column(incidents[n].priority, s.row.priority,
                                      DeterminePriority(s.score)),
                               s.alert,
                               incidents[n].contended \/ s.row.latest # incidents[n].latest)
               draft == [status |-> row.status, decided |-> Decided(n), since |-> row.since,
                         log |-> ledger[n] \o <<Entry("ALERT_ATTACHED", s.alert),
                                                Entry("SCORE_CHANGED", s.alert)>>]
    <2>1. PICK posture : Store(n, row, Evaluated(row, draft, posture))
      BY <1>6, Zenon DEF AttachAlert, Attached
    <2>2. session' = [session EXCEPT ![w] = Idle] /\ s.pc = "attach"
      BY <1>6 DEF AttachAlert
    <2>3. n \in 1 .. Len(incidents)
      BY <1>1, <2>2 DEF IInv, SessionsAreAboutIncidents, OfIncident
    <2>4. IsRow(incidents[n]) /\ incidents[n].ref = n
      BY <1>1, <2>3 DEF IInv, IsTable, ReferenceIdsAreConsecutive
    <2>5. IsRow(row) /\ row.ref = n
      BY <2>4, RowAttached
    <2> HIDE DEF row, draft, n, s
    <2>6. n \in 1 .. Len(incidents) + 1
      BY <1>1, <2>3
    <2> QED
      BY <1>1, <2>1, <2>2, <2>5, <2>6, StoringStep
  <1>7. CASE Refuse(w) \/ Abort(w)
    <2>1. session' = [session EXCEPT ![w] = Idle] /\ incidents' = incidents
      BY <1>7 DEF Refuse, Abort, RollBack
    <2>2. Idle.pc \notin OfIncident /\ Idle.pc # "create"
      BY DEF Idle, OfIncident
    <2> QED
      BY <1>1, <2>1, <2>2, ReadingStep
  <1> QED
    BY <1>2, <1>3, <1>4, <1>5, <1>6, <1>7 DEF AlertStep

LEMMA AnalystSteps ==
    ASSUME IInv, NEW u \in Analyst, AnalystStep(u)
    PROVE  IInv'
  <1>1. u \in DOMAIN session /\ DOMAIN incidents = 1 .. Len(incidents) /\ Len(incidents) \in Nat
    BY TableDomain DEF IInv
  <1>2. ASSUME NEW n \in DOMAIN incidents, RequestTransition(u, n)
        PROVE  IInv'
    <2>1. PICK target \in ValidTransitions[incidents[n].status] :
              Begin(u, [pc |-> "validated", incident |-> n, seen |-> incidents[n].status,
                        target |-> target])
      BY <1>2 DEF RequestTransition
    <2> DEFINE new == [pc |-> "validated", incident |-> n, seen |-> incidents[n].status,
                       target |-> target]
    <2>2. session' = [session EXCEPT ![u] = new] /\ incidents' = incidents
      BY <2>1 DEF Begin
    <2>3. new.incident \in DOMAIN incidents /\ new.pc # "create"
      OBVIOUS
    <2> HIDE DEF new
    <2> QED
      BY <1>1, <2>2, <2>3, ReadingStep
  <1>3. ASSUME NEW n \in DOMAIN incidents, RequestApproval(u, n)
        PROVE  IInv'
    <2>1. PICK type \in DOMAIN Decided(n) :
              Begin(u, [pc |-> "approve", incident |-> n, action |-> type,
                        loaded |-> incidents[n].status, since |-> Len(ledger[n])])
      BY <1>3 DEF RequestApproval
    <2> DEFINE new == [pc |-> "approve", incident |-> n, action |-> type,
                       loaded |-> incidents[n].status, since |-> Len(ledger[n])]
    <2>2. session' = [session EXCEPT ![u] = new] /\ incidents' = incidents
      BY <2>1 DEF Begin
    <2>3. new.incident \in DOMAIN incidents /\ new.pc # "create"
      OBVIOUS
    <2> HIDE DEF new
    <2> QED
      BY <1>1, <2>2, <2>3, ReadingStep
  <1>4. ASSUME NEW n \in DOMAIN incidents, AddRemark(u, n)
        PROVE  IInv'
    BY <1>4 DEF AddRemark, IInv, ReferenceIdsAreConsecutive, SessionsAreAboutIncidents,
                CountedInThePast
  <1>5. CASE LoadForTransition(u)
    <2> DEFINE s == session[u]
               new == [pc |-> "transition", incident |-> s.incident, seen |-> s.seen,
                       target |-> s.target, loaded |-> incidents[s.incident].status,
                       since |-> Len(ledger[s.incident])]
    <2>1. session' = [session EXCEPT ![u] = new] /\ incidents' = incidents /\ s.pc = "validated"
      BY <1>5 DEF LoadForTransition
    <2>2. s.incident \in DOMAIN incidents
      BY <1>1, <2>1 DEF IInv, SessionsAreAboutIncidents, OfIncident
    <2>3. new.incident \in DOMAIN incidents /\ new.pc # "create"
      BY <2>2
    <2> HIDE DEF new
    <2> QED
      BY <1>1, <2>1, <2>3, ReadingStep
  <1>6. CASE CommitTransition(u) \/ CommitApproval(u)
    <2> DEFINE n == session[u].incident
    <2>1. /\ session' = [session EXCEPT ![u] = Idle]
          /\ session[u].pc \in {"transition", "approve"}
      BY <1>6 DEF CommitTransition, CommitApproval
    <2>2. PICK draft : Store(n, incidents[n], draft)
      BY <1>6, Zenon DEF CommitTransition, CommitApproval
    <2>3. n \in 1 .. Len(incidents)
      BY <1>1, <2>1 DEF IInv, SessionsAreAboutIncidents, OfIncident
    <2>4. IsRow(incidents[n]) /\ incidents[n].ref = n
      BY <1>1, <2>3 DEF IInv, IsTable, ReferenceIdsAreConsecutive
    <2> HIDE DEF n
    <2>5. n \in 1 .. Len(incidents) + 1
      BY <1>1, <2>3
    <2> QED
      BY <1>1, <2>1, <2>2, <2>4, <2>5, StoringStep
  <1> QED
    BY <1>2, <1>3, <1>4, <1>5, <1>6 DEF AnalystStep

-----------------------------------------------------------------------------
\* The steps of the reports

Reporting == {"report", "put"}

\* A session that puts a report together.
IsReporting(s) ==
    s \in [pc : Reporting, report : Report, incident : {s.incident}, section : {s.section},
           says : {s.says}]

\* A report is stored somewhere before its row is.
PutSomewhere ==
    /\ DOMAIN objects = Report
    /\ \A s \in DOMAIN session : session[s].pc \in Reporting => IsReporting(session[s])
    /\ \A s \in DOMAIN session :
          session[s].pc = "put" => objects[session[s].report] \in PutOutcomes
    /\ \A r \in DOMAIN reports : r \in Report /\ objects[r] \in PutOutcomes

\* The steps of Incidents begin no report and leave those under way alone.
LEMMA IncidentStepsLeaveReports ==
    ASSUME IInv, Next
    PROVE  /\ DOMAIN session' = DOMAIN session
           /\ \A t \in DOMAIN session : session'[t].pc \in Reporting => session'[t] = session[t]
  <1>1. ASSUME NEW s \in DOMAIN session, NEW new, new.pc \notin Reporting,
               session' = [session EXCEPT ![s] = new]
        PROVE  /\ DOMAIN session' = DOMAIN session
               /\ \A t \in DOMAIN session :
                     session'[t].pc \in Reporting => session'[t] = session[t]
    BY <1>1
  <1>2. Idle.pc \notin Reporting
    BY DEF Idle, Reporting
  <1>3. ASSUME NEW w \in Worker, AlertStep(w)
        PROVE  \/ UNCHANGED session
               \/ \E new : new.pc \notin Reporting /\ session' = [session EXCEPT ![w] = new]
    <2>1. ASSUME NEW a \in Alert, Find(w, a)
          PROVE  \E new : new.pc \notin Reporting /\ session' = [session EXCEPT ![w] = new]
      <3>1. CASE session' = [session EXCEPT ![w] = [pc |-> "none found", alert |-> a]]
        BY <3>1 DEF Reporting
      <3>2. ASSUME NEW n \in OpenIncidents(KeyOf[a]),
                   session' = [session EXCEPT ![w] =
                      [pc |-> "found", alert |-> a, incident |-> n, score |-> incidents[n].score]]
            PROVE  \E new : new.pc \notin Reporting /\ session' = [session EXCEPT ![w] = new]
        BY <3>2 DEF Reporting
      <3> QED
        BY <2>1, <3>1, <3>2 DEF Find
    <2>2. ASSUME GenerateReferenceId(w)
          PROVE  \E new : new.pc \notin Reporting /\ session' = [session EXCEPT ![w] = new]
      BY <2>2 DEF GenerateReferenceId, Reporting
    <2>3. ASSUME Rescore(w)
          PROVE  \E new : new.pc \notin Reporting /\ session' = [session EXCEPT ![w] = new]
      <3>1. PICK new : new.pc = "attach" /\ session' = [session EXCEPT ![w] = new]
        BY <2>3 DEF Rescore
      <3> QED
        BY <3>1 DEF Reporting
    <2>4. ASSUME CreateIncident(w) \/ AttachAlert(w) \/ Refuse(w) \/ Abort(w)
          PROVE  session' = [session EXCEPT ![w] = Idle]
      BY <2>4 DEF CreateIncident, AttachAlert, Refuse, Abort, RollBack
    <2> QED
      BY <1>2, <1>3, <2>1, <2>2, <2>3, <2>4 DEF AlertStep
  <1>4. ASSUME NEW u \in Analyst, AnalystStep(u)
        PROVE  \/ UNCHANGED session
               \/ \E new : new.pc \notin Reporting /\ session' = [session EXCEPT ![u] = new]
    <2>1. ASSUME NEW n \in DOMAIN incidents, RequestTransition(u, n)
          PROVE  \E new : new.pc \notin Reporting /\ session' = [session EXCEPT ![u] = new]
      <3>1. PICK target :
              session' = [session EXCEPT ![u] =
                  [pc |-> "validated", incident |-> n, seen |-> incidents[n].status,
                   target |-> target]]
        BY <2>1 DEF RequestTransition, Begin
      <3> QED
        BY <3>1 DEF Reporting
    <2>2. ASSUME NEW n \in DOMAIN incidents, RequestApproval(u, n)
          PROVE  \E new : new.pc \notin Reporting /\ session' = [session EXCEPT ![u] = new]
      <3>1. PICK type :
              session' = [session EXCEPT ![u] =
                  [pc |-> "approve", incident |-> n, action |-> type,
                   loaded |-> incidents[n].status, since |-> Len(ledger[n])]]
        BY <2>2, Zenon DEF RequestApproval, Begin
      <3> QED
        BY <3>1 DEF Reporting
    <2>3. ASSUME LoadForTransition(u)
          PROVE  \E new : new.pc \notin Reporting /\ session' = [session EXCEPT ![u] = new]
      BY <2>3 DEF LoadForTransition, Reporting
    <2>4. ASSUME CommitTransition(u) \/ CommitApproval(u)
          PROVE  session' = [session EXCEPT ![u] = Idle]
      BY <2>4 DEF CommitTransition, CommitApproval
    <2>5. ASSUME NEW n \in DOMAIN incidents, AddRemark(u, n)
          PROVE  UNCHANGED session
      BY <2>5 DEF AddRemark
    <2> QED
      BY <1>2, <1>4, <2>1, <2>2, <2>3, <2>4, <2>5 DEF AnalystStep
  <1>5. ASSUME NEW n \in DOMAIN incidents, Age(n)
        PROVE  UNCHANGED session
    BY <1>5 DEF Age
  <1>6. Worker \cup Analyst = DOMAIN session
    BY DEF IInv
  <1> QED
    BY <1>1, <1>3, <1>4, <1>5, <1>6 DEF Next

\* The steps of Incidents preserve both invariants.
LEMMA IncidentSteps ==
    ASSUME IInv, PutSomewhere, Next, UNCHANGED reportVars
    PROVE  IInv' /\ PutSomewhere'
  <1>1. IInv'
    <2>1. ASSUME NEW n \in DOMAIN incidents, Age(n)
          PROVE  IInv'
      BY <2>1 DEF Age, IInv, ReferenceIdsAreConsecutive, SessionsAreAboutIncidents,
                  CountedInThePast
    <2> QED
      BY <2>1, AlertSteps, AnalystSteps DEF Next
  <1>2. /\ DOMAIN session' = DOMAIN session
        /\ \A t \in DOMAIN session : session'[t].pc \in Reporting => session'[t] = session[t]
    BY IncidentStepsLeaveReports
  <1>3. objects' = objects /\ reports' = reports
    BY DEF reportVars
  <1>4. ASSUME NEW t \in DOMAIN session', session'[t].pc \in Reporting
        PROVE  /\ IsReporting(session'[t])
               /\ session'[t].pc = "put" => objects'[session'[t].report] \in PutOutcomes
    <2>1. session'[t] = session[t] /\ session[t].pc \in Reporting /\ t \in DOMAIN session
      BY <1>2, <1>4
    <2> QED
      BY <1>3, <2>1, Zenon DEF PutSomewhere
  <1>5. "put" \in Reporting
    BY DEF Reporting
  <1> QED
    BY <1>1, <1>3, <1>4, <1>5 DEF PutSomewhere

\* A report step of a session that is not about to insert an incident.
LEMMA ReportingSession ==
    ASSUME IInv, PutSomewhere, NEW u \in DOMAIN session, NEW new,
           session' = [session EXCEPT ![u] = new],
           new.pc \in Reporting => IsReporting(new),
           DOMAIN objects' = Report,
           \A r \in Report : objects[r] \in PutOutcomes => objects'[r] \in PutOutcomes,
           new.pc = "put" => objects'[new.report] \in PutOutcomes,
           \A r \in DOMAIN reports' : r \in Report /\ objects'[r] \in PutOutcomes
    PROVE  PutSomewhere'
  <1>1. /\ DOMAIN session' = DOMAIN session /\ session'[u] = new
        /\ \A t \in DOMAIN session : t # u => session'[t] = session[t]
    OBVIOUS
  <1>2. ASSUME NEW t \in DOMAIN session, session'[t].pc \in Reporting
        PROVE  IsReporting(session'[t])
    <2>1. CASE t = u
      BY <1>1, <1>2, <2>1
    <2>2. CASE t # u
      <3>1. session'[t] = session[t]
        BY <1>1, <2>2
      <3>2. session[t].pc \in Reporting
        BY <1>2, <3>1
      <3>3. IsReporting(session[t])
        BY <3>2 DEF PutSomewhere
      <3> QED
        BY <3>1, <3>3, Zenon
    <2> QED
      BY <2>1, <2>2
  <1>3. ASSUME NEW t \in DOMAIN session, session'[t].pc = "put"
        PROVE  objects'[session'[t].report] \in PutOutcomes
    <2>1. CASE t = u
      BY <1>1, <1>3, <2>1
    <2>2. CASE t # u
      <3>1. session'[t] = session[t] /\ session[t].pc = "put"
        BY <1>1, <1>3, <2>2
      <3>2. IsReporting(session[t]) /\ objects[session[t].report] \in PutOutcomes
        BY <3>1 DEF PutSomewhere, Reporting
      <3>3. session[t].report \in Report
        BY <3>2 DEF IsReporting
      <3> QED
        BY <3>1, <3>2, <3>3
    <2> QED
      BY <2>1, <2>2
  <1> QED
    BY <1>1, <1>2, <1>3 DEF PutSomewhere

LEMMA ReportSteps ==
    ASSUME IInv, PutSomewhere, NEW u \in Analyst, ReportStep(u)
    PROVE  IInv' /\ PutSomewhere'
  <1>1. u \in DOMAIN session
    BY DEF IInv
  <1>2. Idle.pc \notin Reporting \cup OfIncident \cup {"create", "put"}
    BY DEF Idle, Reporting, OfIncident
  <1>3. \A pc \in Reporting : pc \notin OfIncident /\ pc # "create"
    BY DEF Reporting, OfIncident
  <1>4. /\ DOMAIN objects = Report
        /\ \A r \in DOMAIN reports : r \in Report /\ objects[r] \in PutOutcomes
    BY DEF PutSomewhere
  <1>5. ASSUME NEW n \in DOMAIN incidents, NEW r \in Report, BeginReport(u, n, r)
        PROVE  IInv' /\ PutSomewhere'
    <2> DEFINE new == [pc |-> "report", report |-> r, incident |-> n,
                       section |-> NextSection.row, says |-> [status |-> incidents[n].status]]
    <2>1. /\ session' = [session EXCEPT ![u] = new] /\ incidents' = incidents
          /\ objects' = objects /\ reports' = reports
      BY <1>5 DEF BeginReport, Begin, reportVars
    <2>2. new.pc \in Reporting /\ IsReporting(new) /\ new.pc # "put"
      BY DEF IsReporting, Reporting
    <2> HIDE DEF new
    <2>3. IInv'
      BY <1>1, <1>3, <2>1, <2>2, ReadingStep
    <2>4. PutSomewhere'
      BY <1>1, <1>4, <2>1, <2>2, ReportingSession
    <2> QED
      BY <2>3, <2>4
  <1>6. CASE ReadSection(u)
    <2> DEFINE s == session[u]
               says == [x \in DOMAIN s.says \cup {s.section} |->
                           IF x = s.section THEN Section(s.incident, s.section)
                           ELSE s.says[x]]
               section == NextSection[s.section]
               new == [s EXCEPT !.section = section, !.says = says]
    <2>1. /\ session' = [session EXCEPT ![u].section = section, ![u].says = says]
          /\ incidents' = incidents /\ objects' = objects /\ reports' = reports
          /\ s.pc = "report"
      BY <1>6, Zenon DEF ReadSection, reportVars
    <2>2. IsReporting(s)
      BY <1>1, <2>1 DEF PutSomewhere, Reporting
    <2> HIDE DEF s, says, section
    <2>3. session' = [session EXCEPT ![u] = new]
      BY <1>1, <2>1 DEF s
    <2>4. /\ new \in [pc : Reporting, report : Report, incident : {s.incident},
                      section : {section}, says : {says}]
          /\ new.pc = "report"
      BY <2>1, <2>2 DEF IsReporting
    <2> HIDE DEF new
    <2>5. new.pc \in Reporting /\ IsReporting(new) /\ new.pc # "put"
      BY <2>4 DEF IsReporting, Reporting
    <2>6. IInv'
      BY <1>1, <1>3, <2>1, <2>3, <2>5, ReadingStep
    <2>7. PutSomewhere'
      BY <1>1, <1>4, <2>1, <2>3, <2>5, ReportingSession
    <2> QED
      BY <2>6, <2>7
  <1>7. CASE PutObject(u)
    <2> DEFINE s == session[u]
               new == [s EXCEPT !.pc = "put"]
    <2>1. /\ session' = [session EXCEPT ![u].pc = "put"]
          /\ incidents' = incidents /\ reports' = reports /\ s.pc = "report"
      BY <1>7, Zenon DEF PutObject
    <2>2. PICK places \in PutOutcomes : objects' = [objects EXCEPT ![s.report] = places]
      BY <1>7, Zenon DEF PutObject
    <2>3. IsReporting(s)
      BY <1>1, <2>1 DEF PutSomewhere, Reporting
    <2>4. session' = [session EXCEPT ![u] = new]
      BY <1>1, <2>1
    <2> HIDE DEF s
    <2>5. new \in [pc : {"put"}, report : {s.report}, incident : {s.incident},
                   section : {s.section}, says : {s.says}]
      BY <2>3 DEF IsReporting
    <2>6. s.report \in Report
      BY <2>3 DEF IsReporting
    <2> HIDE DEF new
    <2>7. new.pc \in Reporting /\ IsReporting(new) /\ new.report = s.report
      BY <2>5, <2>6 DEF IsReporting, Reporting
    <2>8. /\ DOMAIN objects' = Report /\ objects'[s.report] = places
          /\ \A r \in Report : r # s.report => objects'[r] = objects[r]
      BY <1>4, <2>2, <2>6
    <2>9. /\ \A r \in Report : objects[r] \in PutOutcomes => objects'[r] \in PutOutcomes
          /\ \A r \in DOMAIN reports' : r \in Report /\ objects'[r] \in PutOutcomes
      <3> HIDE DEF PutOutcomes
      <3> QED
        BY <1>4, <2>1, <2>8
    <2>10. IInv'
      BY <1>1, <1>3, <2>1, <2>4, <2>7, ReadingStep
    <2>11. PutSomewhere'
      BY <1>1, <2>4, <2>7, <2>8, <2>9, ReportingSession
    <2> QED
      BY <2>10, <2>11
  <1>8. CASE CommitReport(u)
    <2> DEFINE s == session[u]
    <2>1. /\ session' = [session EXCEPT ![u] = Idle] /\ s.pc = "put"
          /\ incidents' = incidents /\ objects' = objects
          /\ DOMAIN reports' = DOMAIN reports \cup {s.report}
      BY <1>8 DEF CommitReport
    <2>2. s.report \in Report /\ objects[s.report] \in PutOutcomes
      BY <1>1, <2>1 DEF PutSomewhere, Reporting, IsReporting
    <2>3. \A r \in DOMAIN reports' : r \in Report /\ objects'[r] \in PutOutcomes
      BY <1>4, <2>1, <2>2
    <2>4. IInv'
      BY <1>1, <1>2, <2>1, ReadingStep
    <2>5. PutSomewhere'
      BY <1>1, <1>2, <1>4, <2>1, <2>3, ReportingSession
    <2> QED
      BY <2>4, <2>5
  <1>9. CASE FailReport(u)
    <2>1. /\ session' = [session EXCEPT ![u] = Idle] /\ incidents' = incidents
          /\ objects' = objects /\ reports' = reports
      BY <1>9 DEF FailReport, RollBack, reportVars
    <2>2. IInv'
      BY <1>1, <1>2, <2>1, ReadingStep
    <2>3. PutSomewhere'
      BY <1>1, <1>2, <1>4, <2>1, ReportingSession
    <2> QED
      BY <2>2, <2>3
  <1> QED
    BY <1>5, <1>6, <1>7, <1>8, <1>9 DEF ReportStep

-----------------------------------------------------------------------------
\* The rows and the files, always

LEMMA Initially ==
    ASSUME InitReports
    PROVE  IInv /\ PutSomewhere
  <1>1. IInv
    <2>1. IsTable(<< >>)
      <3>1. << >> \in Seq({}) /\ Len(<< >>) = 0
        OBVIOUS
      <3> QED
        BY <3>1 DEF IsTable
    <2>2. Idle.pc \notin OfIncident /\ Idle.pc # "create"
      BY DEF Idle, OfIncident
    <2>3. DOMAIN << >> = {}
      OBVIOUS
    <2> QED
      BY <2>1, <2>2, <2>3 DEF InitReports, Init, IInv, ReferenceIdsAreConsecutive,
          SessionsAreAboutIncidents, CountedInThePast
  <1>2. PutSomewhere
    <2>1. Idle.pc \notin Reporting /\ Idle.pc # "put"
      BY DEF Idle, Reporting
    <2> QED
      BY <2>1 DEF InitReports, Init, PutSomewhere
  <1> QED
    BY <1>1, <1>2

LEMMA EveryStep ==
    ASSUME IInv, PutSomewhere, [NextWithReports]_allVars
    PROVE  IInv' /\ PutSomewhere'
  <1>1. CASE UNCHANGED allVars
    BY <1>1 DEF allVars, vars, reportVars, IInv, ReferenceIdsAreConsecutive,
        SessionsAreAboutIncidents, CountedInThePast, PutSomewhere
  <1>2. CASE NextWithReports
    BY <1>2, IncidentSteps, ReportSteps DEF NextWithReports
  <1> QED
    BY <1>1, <1>2

-----------------------------------------------------------------------------
\* Lemmas about scores

LEMMA ClampMonotone ==
    ASSUME NEW v \in Int, NEW w \in Int, v <= w, NEW low \in Int, NEW high \in Int, low <= high
    PROVE  Clamp(v, low, high) <= Clamp(w, low, high)
BY DEF Clamp

LEMMA CappedSum ==
    ASSUME NEW m \in Int, NEW n \in Int, m <= n
    PROVE  /\ Clamp(m, 0, 100000) \in Int
           /\ 0 <= Clamp(m, 0, 100000) /\ Clamp(m, 0, 100000) <= 100000
           /\ Clamp(n, 0, 100000) \in Int
           /\ Clamp(m, 0, 100000) <= Clamp(n, 0, 100000)
BY SMT DEF Clamp

LEMMA ProductMonotone ==
    ASSUME NEW m \in Nat, NEW x \in Int, NEW y \in Int, x <= y
    PROVE  m * x <= m * y /\ m * x \in Int /\ m * y \in Int
  OBVIOUS

\* A score is of the scale, and where the sum is higher, so is the score, or one of the two.
LEMMA RoundedFacts ==
    ASSUME NEW sum \in Int, NEW r \in Rounded(sum)
    PROVE  r \in Int /\ 100 * r - sum <= 50 /\ -50 <= 100 * r - sum
BY DEF Rounded

LEMMA RoundedBounds ==
    ASSUME NEW sum \in Int, 0 <= sum, sum <= 100000, NEW r \in Rounded(sum)
    PROVE  r \in Int /\ 0 <= r /\ r <= 1000
BY RoundedFacts

LEMMA RoundedMonotone ==
    ASSUME NEW m \in Int, NEW n \in Int, m <= n, NEW r \in Rounded(n)
    PROVE  \E q \in Rounded(m) : r >= q
  <1> DEFINE d == m \div 100
  <1>1. d \in Int /\ 100 * d <= m /\ m < 100 * d + 100
    OBVIOUS
  <1>2. r \in Int /\ n - 100 * r <= 50
    BY DEF Rounded
  <1> HIDE DEF d
  <1>3. CASE m - 100 * d <= 50
    <2>1. d \in Rounded(m)
      BY <1>1, <1>3 DEF Rounded, d
    <2>2. CASE d <= r
      BY <1>1, <1>2, <2>1, <2>2
    <2>3. CASE d > r
      BY <1>1, <1>2, <2>3, <1>3
    <2> QED
      BY <1>1, <1>2, <2>2, <2>3
  <1>4. CASE m - 100 * d >= 50
    <2>1. d + 1 \in Rounded(m)
      BY <1>1, <1>4 DEF Rounded, d
    <2>2. CASE d + 1 <= r
      BY <1>1, <1>2, <2>1, <2>2
    <2>3. CASE d + 1 > r
      <3>1. r = d /\ m = 100 * d + 50
        BY <1>1, <1>2, <1>4, <2>3
      <3>2. d \in Rounded(m)
        BY <1>1, <3>1 DEF Rounded, d
      <3> QED
        BY <1>1, <3>1, <3>2
    <2> QED
      BY <1>1, <1>2, <2>2, <2>3
  <1> QED
    BY <1>1, <1>3, <1>4

-----------------------------------------------------------------------------
\* The score of an alert

IsFactors(f) ==
    f \in [severity : Int, confidence : Int, asset : Int, exposure : Int, intel : Int, bonus : Int]

LEMMA FactorsTypes ==
    ASSUME NEW severity \in Int, NEW confidence \in Int, NEW criticality \in Int,
           NEW exposure \in Int, NEW intel \in Int, NEW additional \in Int
    PROVE  IsFactors(Factors(severity, confidence, criticality, exposure, intel, additional))
  <1>1. /\ Clamp(severity, 0, 1000) \in Int
        /\ Clamp(confidence, 0, 1000) \in Int
        /\ Clamp(200 * criticality, 200, 1000) \in Int
        /\ Clamp(exposure, 200, 1000) \in Int
        /\ Clamp(intel, 0, 1000) \in Int
        /\ Clamp(5000 * additional, 0, 15000) \in Int
    BY SMT DEF Clamp
  <1> QED
    BY <1>1, SMT DEF Factors, CorrelationBonus, IsFactors

LEMMA WeightTypes ==
    {WSeverity, WConfidence, WAsset, WExposure, WIntel} \subseteq Nat
BY WeightAssumption DEF Weights

LEMMA RawSumType ==
    ASSUME NEW f, IsFactors(f)
    PROVE  RawSum(f) \in Int
  <1>1. /\ f.severity \in Int /\ f.confidence \in Int /\ f.asset \in Int
        /\ f.exposure \in Int /\ f.intel \in Int /\ f.bonus \in Int
    BY DEF IsFactors
  <1> QED
    BY <1>1, WeightTypes DEF RawSum

\* More of a factor does not lower the sum.
LEMMA RawSumMonotone ==
    ASSUME NEW f, IsFactors(f), NEW g, IsFactors(g),
           f.severity <= g.severity, f.confidence <= g.confidence, f.asset = g.asset,
           f.exposure = g.exposure, f.intel = g.intel, f.bonus <= g.bonus
    PROVE  RawSum(f) <= RawSum(g)
  <1>1. /\ f.severity \in Int /\ f.confidence \in Int /\ f.asset \in Int
        /\ f.exposure \in Int /\ f.intel \in Int /\ f.bonus \in Int
        /\ g.severity \in Int /\ g.confidence \in Int /\ g.bonus \in Int
    BY DEF IsFactors
  <1> DEFINE rest == WAsset * f.asset + WExposure * f.exposure + WIntel * f.intel
             s == WSeverity * f.severity
             c == WConfidence * f.confidence
             t == WSeverity * g.severity
             d == WConfidence * g.confidence
  <1>2. s <= t /\ s \in Int /\ t \in Int
    BY <1>1, WeightTypes, ProductMonotone
  <1>3. c <= d /\ c \in Int /\ d \in Int
    BY <1>1, WeightTypes, ProductMonotone
  <1>4. rest \in Int
    BY <1>1, WeightTypes
  <1>5. RawSum(f) = s + c + rest + f.bonus
    BY <1>1, WeightTypes DEF RawSum
  <1>6. RawSum(g) = t + d + rest + g.bonus
    BY <1>1, WeightTypes DEF RawSum
  <1> HIDE DEF s, c, t, d, rest
  <1> QED
    BY <1>1, <1>2, <1>3, <1>4, <1>5, <1>6

LEMMA ScoresBounds ==
    ASSUME NEW f, IsFactors(f), NEW r \in Scores(f)
    PROVE  r \in Int /\ 0 <= r /\ r <= 1000
  <1> DEFINE sum == Clamp(RawSum(f), 0, 100000)
  <1>1. RawSum(f) \in Int /\ RawSum(f) <= RawSum(f)
    BY RawSumType, SMT
  <1>2. sum \in Int /\ 0 <= sum /\ sum <= 100000
    BY <1>1, CappedSum, SMT
  <1>3. r \in Rounded(sum)
    BY DEF Scores
  <1> HIDE DEF sum
  <1> QED
    BY <1>2, <1>3, RoundedBounds, SMT

LEMMA ScoresMonotone ==
    ASSUME NEW f, IsFactors(f), NEW g, IsFactors(g), RawSum(f) <= RawSum(g), NEW r \in Scores(g)
    PROVE  \E q \in Scores(f) : r >= q
  <1> DEFINE m == Clamp(RawSum(f), 0, 100000)
             n == Clamp(RawSum(g), 0, 100000)
  <1>1. RawSum(f) \in Int /\ RawSum(g) \in Int
    BY RawSumType, SMT
  <1>2. m \in Int /\ n \in Int /\ m <= n
    BY <1>1, CappedSum, SMT
  <1>3. r \in Rounded(n) /\ Scores(f) = Rounded(m)
    BY DEF Scores
  <1> HIDE DEF m, n
  <1> QED
    BY <1>2, <1>3, RoundedMonotone

\* What the factors of an alert are taken from.
LEMMA ContextTypes ==
    ASSUME NEW key
    PROVE  /\ AssetContext(Host(key)).criticality \in Int
           /\ Exposure(AssetContext(Host(key))) \in Int
           /\ IntelOf(key) \in Int
  <1>1. AssetContext(Host(key)).criticality \in Int
    BY AssetAssumption DEF AssetContext, UnknownAsset
  <1>2. Exposure(AssetContext(Host(key))) \in Int
    BY DEF Exposure
  <1>3. IntelOf(key) \in Int
    BY ReputationAssumption DEF IntelOf, IpReputation
  <1> QED
    BY <1>1, <1>2, <1>3

Covers(score, a) == \E least \in AlertScores(a) : score >= least

LEMMA HigherIsHigher ==
    ASSUME NEW m \in Int, NEW n \in Int
    PROVE  Higher(m, n) \in Int /\ m <= Higher(m, n)
BY DEF Higher

LEMMA AlertTypes ==
    ASSUME NEW a \in Alert
    PROVE  SeverityOf[a] \in Int /\ ConfidenceOf[a] \in Int
  <1> DEFINE Scale == 0 .. 1000
  <1>1. Scale \subseteq Int
    OBVIOUS
  <1>2. {SeverityOf, ConfidenceOf} \subseteq [Alert -> Scale]
    BY AlertAssumption
  <1> HIDE DEF Scale
  <1>3. SeverityOf \in [Alert -> Scale] /\ ConfidenceOf \in [Alert -> Scale]
    BY <1>2
  <1> QED
    BY <1>1, <1>3

LEMMA AlertScoresBounds ==
    ASSUME NEW a \in Alert, NEW score \in AlertScores(a)
    PROVE  score \in Int /\ 0 <= score /\ score <= 1000 /\ Covers(score, a)
  <1>1. SeverityOf[a] \in Int /\ ConfidenceOf[a] \in Int
    BY AlertTypes
  <1>2. IsFactors(ContextFactors(KeyOf[a], SeverityOf[a], ConfidenceOf[a], 0))
    BY <1>1, ContextTypes, FactorsTypes DEF ContextFactors
  <1>3. score \in Int /\ 0 <= score /\ score <= 1000
    BY <1>2, ScoresBounds DEF AlertScores
  <1> QED
    BY <1>3 DEF Covers

\* An alert that is attached leaves no lower score than it would have by itself.
LEMMA RescoresCover ==
    ASSUME NEW a \in Alert, NEW old \in Int, NEW alerts \in Nat \ {0},
           NEW score \in Rescores(a, old, alerts)
    PROVE  score \in Int /\ 0 <= score /\ score <= 1000 /\ Covers(score, a)
  <1> DEFINE asset == AssetContext(Host(KeyOf[a]))
             severity == Higher(SeverityOf[a], old)
             confidence == Higher(ConfidenceOf[a], 700)
             f == Factors(SeverityOf[a], ConfidenceOf[a], asset.criticality, Exposure(asset),
                          IntelOf(KeyOf[a]), 0)
             g == Factors(severity, confidence, asset.criticality, Exposure(asset),
                          IntelOf(KeyOf[a]), alerts - 1)
  <1>1. SeverityOf[a] \in Int /\ ConfidenceOf[a] \in Int
    <2> HIDE DEF f, g, asset, severity, confidence
    <2> QED
      BY AlertTypes
  <1>2. /\ severity \in Int /\ confidence \in Int
        /\ SeverityOf[a] <= severity /\ ConfidenceOf[a] <= confidence
    <2> HIDE DEF f, g, asset
    <2> QED
      BY <1>1 DEF Higher
  <1>3. asset.criticality \in Int /\ Exposure(asset) \in Int /\ IntelOf(KeyOf[a]) \in Int
    BY ContextTypes
  <1>4. 0 \in Int /\ alerts - 1 \in Int /\ 0 <= alerts - 1
    OBVIOUS
  <1>5. score \in Scores(g)
    BY DEF Rescores, ContextFactors
  <1>6. AlertScores(a) = Scores(f)
    BY DEF AlertScores, ContextFactors
  <1> HIDE DEF severity, confidence, asset
  <1>7. IsFactors(f)
    BY <1>1, <1>3, <1>4, FactorsTypes
  <1>8. IsFactors(g)
    BY <1>2, <1>3, <1>4, FactorsTypes
  <1>9. f.severity <= g.severity /\ f.confidence <= g.confidence
    <2>1. 0 \in Int /\ 1000 \in Int /\ 0 <= 1000
      OBVIOUS
    <2>2. Clamp(SeverityOf[a], 0, 1000) <= Clamp(severity, 0, 1000)
      BY <1>1, <1>2, <2>1, ClampMonotone
    <2>3. Clamp(ConfidenceOf[a], 0, 1000) <= Clamp(confidence, 0, 1000)
      BY <1>1, <1>2, <2>1, ClampMonotone
    <2> QED
      BY <2>2, <2>3 DEF Factors
  <1>11. f.bonus <= g.bonus
    <2>1. /\ 5000 * 0 <= 5000 * (alerts - 1)
          /\ 5000 * 0 \in Int /\ 5000 * (alerts - 1) \in Int
          /\ 0 \in Int /\ 15000 \in Int /\ 0 <= 15000
      OBVIOUS
    <2>2. Clamp(5000 * 0, 0, 15000) <= Clamp(5000 * (alerts - 1), 0, 15000)
      BY <2>1, ClampMonotone
    <2> QED
      BY <2>2 DEF Factors, CorrelationBonus
  <1>12. f.asset = g.asset /\ f.exposure = g.exposure /\ f.intel = g.intel
    BY DEF Factors
  <1> HIDE DEF f, g
  <1>13. RawSum(f) <= RawSum(g)
    BY <1>7, <1>8, <1>9, <1>11, <1>12, RawSumMonotone
  <1> QED
    BY <1>5, <1>6, <1>7, <1>8, <1>13, ScoresBounds, ScoresMonotone DEF Covers

-----------------------------------------------------------------------------
\* Lemmas about lists

\* The natural numbers are well ordered: what fails somewhere fails somewhere first.
LEMMA LeastElement ==
    ASSUME NEW S, S \subseteq Nat, S # {}
    PROVE  \E x \in S : \A y \in S : x <= y
  <1> DEFINE R == OpToRel(<, Nat)
  <1>1. IsWellFoundedOn(R, Nat)
    BY NatLessThanWellFounded
  <1>2. \A x, y \in Nat : y < x => <<y, x>> \in R
    BY Zenon DEF OpToRel
  <1> HIDE DEF R
  <1>3. PICK x \in S : \A y \in S : ~(<<y, x>> \in R)
    BY <1>1, WFMin
  <1>4. ASSUME NEW y \in S PROVE x <= y
    <2>1. x \in Nat /\ y \in Nat
      OBVIOUS
    <2>2. ~(y < x)
      BY <1>2, <1>3, <2>1
    <2> QED
      BY <2>1, <2>2
  <1> QED
    BY <1>4

\* A sequence, whatever its elements.
IsList(s) == \E S : s \in Seq(S)

LEMMA ListFacts ==
    ASSUME NEW s, IsList(s)
    PROVE  Len(s) \in Nat /\ DOMAIN s = 1 .. Len(s)
BY DEF IsList

LEMMA ListAppend ==
    ASSUME NEW s, IsList(s), NEW x
    PROVE  /\ IsList(Append(s, x)) /\ Len(Append(s, x)) = Len(s) + 1
           /\ Append(s, x)[Len(s) + 1] = x
           /\ \A i \in 1 .. Len(s) : Append(s, x)[i] = s[i]
  <1>1. PICK S : s \in Seq(S)
    BY DEF IsList
  <1> DEFINE T == S \cup {x}
  <1>2. s \in Seq(T) /\ x \in T
    BY <1>1
  <1> HIDE DEF T
  <1>3. Append(s, x) \in Seq(T)
    BY <1>2
  <1> QED
    BY <1>2, <1>3 DEF IsList

LEMMA ListConcat ==
    ASSUME NEW s, IsList(s), NEW t, IsList(t)
    PROVE  /\ IsList(s \o t) /\ Len(s \o t) = Len(s) + Len(t)
           /\ \A i \in 1 .. Len(s) + Len(t) :
                 (s \o t)[i] = IF i <= Len(s) THEN s[i] ELSE t[i - Len(s)]
  <1>1. PICK S : s \in Seq(S)
    BY DEF IsList
  <1>2. PICK T : t \in Seq(T)
    BY DEF IsList
  <1> DEFINE U == S \cup T
  <1>3. s \in Seq(U) /\ t \in Seq(U)
    BY <1>1, <1>2
  <1> HIDE DEF U
  <1>4. s \o t \in Seq(U)
    BY <1>3
  <1> QED
    BY <1>3, <1>4 DEF IsList

LEMMA ListOfFunction ==
    ASSUME NEW n \in Nat, NEW f, DOMAIN f = 1 .. n, f = [i \in 1 .. n |-> f[i]]
    PROVE  IsList(f) /\ Len(f) = n
  <1> DEFINE S == {f[i] : i \in 1 .. n}
  <1>1. f \in [1 .. n -> S]
    OBVIOUS
  <1>2. f \in Seq(S) /\ Len(f) = n
    <2> HIDE DEF S
    <2> QED
      BY <1>1
  <1> QED
    BY <1>2 DEF IsList

-----------------------------------------------------------------------------
\* What the audit entries of an incident account for

\* A log that goes on from another.
Continues(new, log) ==
    Len(log) <= Len(new) /\ \A i \in 1 .. Len(log) : new[i] = log[i]

\* LedgerExplainsStatus, of one log.
Explains(log, status, since) ==
    \E i \in 1 .. Len(log) :
        /\ StatusOf(log[i]) # SameStatus
        /\ \A j \in 1 .. Len(log) : StatusOf(log[j]) # SameStatus => j <= i
        /\ \/ status = StatusOf(log[i])
           \/ \E j \in 1 .. Len(log) :
                 /\ StatusOf(log[j]) # SameStatus /\ since < j /\ j < i
                 /\ status = StatusOf(log[j])

DecisionEntry == {"ACTION_DENIED", "ACTION_PROPOSED", "ACTION_EXECUTED"}
AlertEntry == {"INCIDENT_CREATED", "ALERT_ATTACHED"}

\* There is an entry of one of the types about x, up to the m-th.
Tells(log, m, types, x) ==
    \E i \in 1 .. m : log[i].type \in types /\ log[i].about = x

Assigned(log, m, status) == \E i \in 1 .. m : StatusOf(log[i]) = status

\* The same, from the entry after the m-th on.
AssignedSince(log, m, status) ==
    \E i \in 1 .. Len(log) : m < i /\ StatusOf(log[i]) # SameStatus /\ StatusOf(log[i]) = status

\* The log of an incident with a status, and actions decided.
Accounts(log, status, since, decided) ==
    /\ IsList(log)
    /\ Explains(log, status, since)
    /\ Assigned(log, Len(log), status)
    /\ \A t \in decided : Tells(log, Len(log), DecisionEntry, t)

\* What an entry says of the status that its session leaves.
Records(log, e, before, sinceBefore, status, since) ==
    \/ StatusOf(e) = SameStatus /\ status = before /\ since = sinceBefore
    \/ StatusOf(e) # SameStatus /\ status = StatusOf(e)
    \/ StatusOf(e) # SameStatus /\ status = before /\ AssignedSince(log, since, before)

LEMMA AppendAccounts ==
    ASSUME NEW log, NEW before, NEW sinceBefore, NEW decided,
           Accounts(log, before, sinceBefore, decided),
           NEW e, NEW status, NEW since, Records(log, e, before, sinceBefore, status, since),
           NEW types, \A t \in types : t \in decided \/ (e.type \in DecisionEntry /\ e.about = t)
    PROVE  Accounts(Append(log, e), status, since, types) /\ Continues(Append(log, e), log)
  <1> DEFINE m == Len(log)
             new == Append(log, e)
  <1>1. /\ m \in Nat /\ IsList(new) /\ Len(new) = m + 1 /\ new[m + 1] = e
        /\ \A i \in 1 .. m : new[i] = log[i]
    BY ListFacts, ListAppend DEF Accounts
  <1>2. Continues(new, log)
    <2> HIDE DEF new
    <2> QED
      BY <1>1 DEF Continues
  <1>3. /\ Explains(log, before, sinceBefore) /\ Assigned(log, m, before)
        /\ \A t \in decided : Tells(log, m, DecisionEntry, t)
    BY DEF Accounts
  <1> HIDE DEF new, m
  <1>4. Explains(new, status, since)
    <2>1. CASE StatusOf(e) = SameStatus /\ status = before /\ since = sinceBefore
      <3>1. PICK i \in 1 .. m :
                /\ StatusOf(log[i]) # SameStatus
                /\ \A j \in 1 .. m : StatusOf(log[j]) # SameStatus => j <= i
                /\ \/ before = StatusOf(log[i])
                   \/ \E j \in 1 .. m :
                         /\ StatusOf(log[j]) # SameStatus /\ sinceBefore < j /\ j < i
                         /\ before = StatusOf(log[j])
        BY <1>3 DEF Explains, m
      <3>2. i \in 1 .. Len(new) /\ new[i] = log[i]
        BY <1>1
      <3>3. \A j \in 1 .. Len(new) : StatusOf(new[j]) # SameStatus => j <= i
        BY <1>1, <2>1, <3>1
      <3>4. \A j \in 1 .. m : j \in 1 .. Len(new) /\ new[j] = log[j]
        BY <1>1
      <3> QED
        BY <2>1, <3>1, <3>2, <3>3, <3>4 DEF Explains
    <2>2. CASE StatusOf(e) # SameStatus
      <3>1. m + 1 \in 1 .. Len(new) /\ \A j \in 1 .. Len(new) : j <= m + 1
        BY <1>1
      <3>2. CASE status = StatusOf(e)
        BY <1>1, <2>2, <3>1, <3>2 DEF Explains
      <3>3. CASE status = before /\ AssignedSince(log, since, before)
        <4>1. PICK j \in 1 .. m : /\ since < j /\ StatusOf(log[j]) # SameStatus
                                  /\ StatusOf(log[j]) = before
          BY <3>3 DEF AssignedSince, m
        <4>2. j \in 1 .. Len(new) /\ new[j] = log[j] /\ j < m + 1
          BY <1>1
        <4> QED
          BY <1>1, <2>2, <3>1, <3>3, <4>1, <4>2 DEF Explains
      <3> QED
        BY <2>2, <3>2, <3>3 DEF Records
    <2> QED
      BY <2>1, <2>2 DEF Records
  <1>5. Assigned(new, Len(new), status)
    <2>1. CASE status = before
      <3>1. PICK i \in 1 .. m : StatusOf(log[i]) = before
        BY <1>3 DEF Assigned
      <3>2. i \in 1 .. Len(new) /\ new[i] = log[i]
        BY <1>1
      <3> QED
        BY <2>1, <3>1, <3>2 DEF Assigned
    <2>2. CASE status = StatusOf(e)
      <3>1. m + 1 \in 1 .. Len(new)
        BY <1>1
      <3> QED
        BY <1>1, <2>2, <3>1 DEF Assigned
    <2> QED
      BY <2>1, <2>2 DEF Records
  <1>6. ASSUME NEW t \in types PROVE Tells(new, Len(new), DecisionEntry, t)
    <2>1. CASE t \in decided
      <3>1. PICK i \in 1 .. m : log[i].type \in DecisionEntry /\ log[i].about = t
        BY <1>3, <2>1 DEF Tells
      <3>2. i \in 1 .. Len(new) /\ new[i] = log[i]
        BY <1>1
      <3> QED
        BY <3>1, <3>2 DEF Tells
    <2>2. CASE e.type \in DecisionEntry /\ e.about = t
      <3>1. m + 1 \in 1 .. Len(new)
        BY <1>1
      <3> QED
        BY <1>1, <2>2, <3>1 DEF Tells
    <2> QED
      BY <1>6, <2>1, <2>2
  <1> QED
    BY <1>1, <1>2, <1>4, <1>5, <1>6 DEF Accounts, new

LEMMA ContinuesTransitive ==
    ASSUME NEW a, NEW b, NEW c, IsList(a), IsList(b), IsList(c), Continues(b, a), Continues(c, b)
    PROVE  Continues(c, a)
BY ListFacts DEF Continues

-----------------------------------------------------------------------------
\* The evaluation of the playbooks

\* A draft that accounts for what it has decided.
SoundDraft(d) ==
    /\ d = [status |-> d.status, decided |-> d.decided, since |-> d.since, log |-> d.log]
    /\ d.status \in IncidentStatus /\ d.since \in Nat /\ DOMAIN d.decided \subseteq ActionType
    /\ Accounts(d.log, d.status, d.since, DOMAIN d.decided)

\* A draft that goes on from another.
Follows(d, before) ==
    Continues(d.log, before.log) /\ DOMAIN before.decided \subseteq DOMAIN d.decided

LEMMA DraftFields ==
    ASSUME NEW status, NEW decided, NEW since, NEW log
    PROVE  LET d == [status |-> status, decided |-> decided, since |-> since, log |-> log]
           IN  /\ d = [status |-> d.status, decided |-> d.decided, since |-> d.since,
                       log |-> d.log]
               /\ d.status = status /\ d.decided = decided /\ d.since = since /\ d.log = log
OBVIOUS

LEMMA Statuses ==
    /\ SameStatus \notin IncidentStatus
    /\ {"TRIAGED", "AWAITING_APPROVAL", "CONTAINED"} \subseteq IncidentStatus
BY DEF SameStatus, IncidentStatus

\* What the entries say of a status.
LEMMA StatusOfEntries ==
    ASSUME NEW x
    PROVE  /\ StatusOf(Entry("INCIDENT_CREATED", x)) = "TRIAGED"
           /\ StatusOf(Entry("ACTION_PROPOSED", x)) = "AWAITING_APPROVAL"
           /\ StatusOf(Entry("STATE_TRANSITION", x)) = x
           /\ x \in Containment => /\ StatusOf(Entry("ACTION_EXECUTED", x)) = "CONTAINED"
                                   /\ StatusOf(Entry("ACTION_APPROVED", x)) = "CONTAINED"
           /\ x \notin Containment => /\ StatusOf(Entry("ACTION_EXECUTED", x)) = SameStatus
                                      /\ StatusOf(Entry("ACTION_APPROVED", x)) = SameStatus
           /\ \A type \in {"ACTION_DENIED", "ALERT_ATTACHED", "SCORE_CHANGED", "REMARK",
                           "REPORT_GENERATED"} : StatusOf(Entry(type, x)) = SameStatus
BY DEF StatusOf, Entry

LEMMA EntryFields ==
    ASSUME NEW type, NEW x
    PROVE  Entry(type, x).type = type /\ Entry(type, x).about = x
BY DEF Entry

LEMMA GuardrailsDecide ==
    ASSUME NEW posture, NEW minScore, NEW action, NEW key, NEW score
    PROVE  Guardrails(posture, minScore, action, key, score) \in {"deny", "ask", "auto"}
BY DEF Guardrails

\* There is nothing to decide.
NothingToDecide(row, d, action) ==
    TargetOf(action.type, row.key) = NoOne \/ action.type \in DOMAIN d.decided

LEMMA RespondNothing ==
    ASSUME NEW row, NEW d, NEW posture, NEW minScore, NEW action, NothingToDecide(row, d, action)
    PROVE  Respond(row, d, posture, minScore, action) = d
BY DEF Respond, NothingToDecide

\* The draft after one more decision, and one more entry.
Extended(d, status, since, decided, e) ==
    [status |-> status, decided |-> decided, since |-> since, log |-> Append(d.log, e)]

Logged(d, decided, e) == [d EXCEPT !.decided = decided, !.log = Append(@, e)]

LoggedAs(d, decided, e, status, since) ==
    [Logged(d, decided, e) EXCEPT !.status = status, !.since = since]

LEMMA ExtendedRecord ==
    ASSUME NEW s, NEW t, NEW n, NEW l,
           NEW d, d = [status |-> s, decided |-> t, since |-> n, log |-> l],
           NEW decided, NEW e, NEW status, NEW since
    PROVE  /\ Logged(d, decided, e) = Extended(d, s, n, decided, e)
           /\ LoggedAs(d, decided, e, status, since) = Extended(d, status, since, decided, e)
  <1> DEFINE Row(x, y) == [status : {x}, decided : {decided}, since : {y}, log : {Append(l, e)}]
  <1>1. d \in [status : {s}, decided : {t}, since : {n}, log : {l}] /\ d.log = l
    OBVIOUS
  <1>2. Logged(d, decided, e) \in Row(s, n)
    BY <1>1 DEF Logged
  <1>3. LoggedAs(d, decided, e, status, since) \in Row(status, since)
    BY <1>2 DEF LoggedAs
  <1>4. ASSUME NEW x, NEW y, NEW r \in Row(x, y)
        PROVE  r = [status |-> x, decided |-> decided, since |-> y, log |-> Append(l, e)]
    BY <1>4
  <1>5. ASSUME NEW x, NEW y
        PROVE  Extended(d, x, y, decided, e)
                   = [status |-> x, decided |-> decided, since |-> y, log |-> Append(l, e)]
    BY <1>1, Zenon DEF Extended
  <1> HIDE DEF Row
  <1> QED
    BY <1>2, <1>3, <1>4, <1>5, Zenon

\* A new decision is one entry.
IsDecision(r, d, type) ==
    \E status, since, decided, e :
        /\ status \in IncidentStatus /\ since \in Nat
        /\ r = Extended(d, status, since, decided, e)
        /\ DOMAIN decided = DOMAIN d.decided \cup {type}
        /\ Records(d.log, e, d.status, d.since, status, since)
        /\ e.type \in DecisionEntry /\ e.about = type

LEMMA RespondEntry ==
    ASSUME NEW row, NEW d, SoundDraft(d), NEW posture, NEW minScore, NEW action,
           ~NothingToDecide(row, d, action)
    PROVE  IsDecision(Respond(row, d, posture, minScore, action), d, action.type)
  <1> DEFINE decision == Guardrails(posture, minScore, action, row.key, row.score)
             decided == [t \in DOMAIN d.decided \cup {action.type} |->
                            IF t = action.type THEN decision ELSE d.decided[t]]
             r == Respond(row, d, posture, minScore, action)
             Assigns(status, e) == r = LoggedAs(d, decided, e, status, Len(d.log))
  <1>0. DOMAIN decided = DOMAIN d.decided \cup {action.type}
    OBVIOUS
  <1>1. decision \in {"deny", "ask", "auto"}
    BY GuardrailsDecide
  <1>2. \/ r = Logged(d, decided, Entry("ACTION_DENIED", action.type))
        \/ Assigns("AWAITING_APPROVAL", Entry("ACTION_PROPOSED", action.type))
        \/ /\ action.type \in Containment
           /\ Assigns("CONTAINED", Entry("ACTION_EXECUTED", action.type))
        \/ /\ action.type \notin Containment
           /\ r = Logged(d, decided, Entry("ACTION_EXECUTED", action.type))
    BY <1>1 DEF Respond, NothingToDecide, Logged, LoggedAs
  <1> HIDE DEF decided, decision, r
  <1> SUFFICES IsDecision(r, d, action.type)
    BY DEF r
  <1>3. /\ d = [status |-> d.status, decided |-> d.decided, since |-> d.since, log |-> d.log]
        /\ d.status \in IncidentStatus /\ d.since \in Nat /\ Len(d.log) \in Nat
    BY ListFacts DEF SoundDraft, Accounts
  <1>4. ASSUME NEW e, NEW status, NEW since
        PROVE  /\ Logged(d, decided, e) = Extended(d, d.status, d.since, decided, e)
               /\ LoggedAs(d, decided, e, status, since) = Extended(d, status, since, decided, e)
    <2>1. PICK s, t, n, l : /\ d = [status |-> s, decided |-> t, since |-> n, log |-> l]
                            /\ s = d.status /\ n = d.since
      BY <1>3
    <2>2. /\ Logged(d, decided, e) = Extended(d, s, n, decided, e)
          /\ LoggedAs(d, decided, e, status, since) = Extended(d, status, since, decided, e)
      BY <2>1, ExtendedRecord
    <2> QED
      BY <2>1, <2>2, Zenon
  <1>5. ASSUME NEW e, e.type \in DecisionEntry, e.about = action.type,
               NEW status \in IncidentStatus, NEW since \in Nat,
               Records(d.log, e, d.status, d.since, status, since),
               r = Extended(d, status, since, decided, e)
        PROVE  IsDecision(r, d, action.type)
    BY <1>0, <1>5, Zenon DEF IsDecision
  <1>6. ASSUME NEW e, e.type \in DecisionEntry, e.about = action.type, StatusOf(e) = SameStatus,
               r = Logged(d, decided, e)
        PROVE  IsDecision(r, d, action.type)
    <2>1. Records(d.log, e, d.status, d.since, d.status, d.since)
      BY <1>6 DEF Records
    <2>2. r = Extended(d, d.status, d.since, decided, e)
      BY <1>4, <1>6, Zenon
    <2> QED
      BY <1>3, <1>5, <1>6, <2>1, <2>2
  <1>7. ASSUME NEW e, e.type \in DecisionEntry, e.about = action.type,
               NEW status \in IncidentStatus, StatusOf(e) = status, Assigns(status, e)
        PROVE  IsDecision(r, d, action.type)
    <2>1. Records(d.log, e, d.status, d.since, status, Len(d.log))
      BY <1>7, Statuses DEF Records
    <2>2. r = Extended(d, status, Len(d.log), decided, e)
      BY <1>4, <1>7, Zenon
    <2> QED
      BY <1>3, <1>5, <1>7, <2>1, <2>2
  <1>8. {"ACTION_DENIED", "ACTION_PROPOSED", "ACTION_EXECUTED"} \subseteq DecisionEntry
    BY DEF DecisionEntry
  <1> HIDE DEF Assigns
  <1>9. CASE r = Logged(d, decided, Entry("ACTION_DENIED", action.type))
    BY <1>6, <1>8, <1>9, EntryFields, StatusOfEntries
  <1>10. CASE /\ action.type \notin Containment
              /\ r = Logged(d, decided, Entry("ACTION_EXECUTED", action.type))
    BY <1>6, <1>8, <1>10, EntryFields, StatusOfEntries
  <1>11. CASE Assigns("AWAITING_APPROVAL", Entry("ACTION_PROPOSED", action.type))
    BY <1>7, <1>8, <1>11, EntryFields, StatusOfEntries, Statuses
  <1>12. CASE /\ action.type \in Containment
              /\ Assigns("CONTAINED", Entry("ACTION_EXECUTED", action.type))
    BY <1>7, <1>8, <1>12, EntryFields, StatusOfEntries, Statuses
  <1> QED
    BY <1>2, <1>9, <1>10, <1>11, <1>12

LEMMA RespondStep ==
    ASSUME NEW row, NEW d, SoundDraft(d), NEW posture, NEW minScore, NEW action,
           action.type \in ActionType
    PROVE  LET r == Respond(row, d, posture, minScore, action)
           IN  SoundDraft(r) /\ Follows(r, d) /\ NothingToDecide(row, r, action)
  <1> DEFINE r == Respond(row, d, posture, minScore, action)
  <1>1. CASE NothingToDecide(row, d, action)
    <2>1. r = d
      BY <1>1, RespondNothing
    <2>2. IsList(d.log)
      BY DEF SoundDraft, Accounts
    <2>3. Continues(d.log, d.log)
      BY <2>2, ListFacts DEF Continues
    <2> QED
      BY <1>1, <2>1, <2>3 DEF Follows
  <1>2. CASE ~NothingToDecide(row, d, action)
    <2>0. IsDecision(r, d, action.type)
      BY <1>2, RespondEntry
    <2> HIDE DEF r
    <2>1. PICK status, since, decided, e :
              /\ status \in IncidentStatus /\ since \in Nat
              /\ r = Extended(d, status, since, decided, e)
              /\ DOMAIN decided = DOMAIN d.decided \cup {action.type}
              /\ Records(d.log, e, d.status, d.since, status, since)
              /\ e.type \in DecisionEntry /\ e.about = action.type
      BY <2>0 DEF IsDecision
    <2>2. /\ r = [status |-> r.status, decided |-> r.decided, since |-> r.since, log |-> r.log]
          /\ r.status = status /\ r.decided = decided /\ r.since = since
          /\ r.log = Append(d.log, e)
      BY <2>1 DEF Extended
    <2>3. /\ Accounts(d.log, d.status, d.since, DOMAIN d.decided)
          /\ DOMAIN d.decided \subseteq ActionType
      BY DEF SoundDraft
    <2>4. \A t \in DOMAIN decided : t \in DOMAIN d.decided
                                      \/ (e.type \in DecisionEntry /\ e.about = t)
      BY <2>1
    <2>5. /\ Accounts(Append(d.log, e), status, since, DOMAIN decided)
          /\ Continues(Append(d.log, e), d.log)
      BY <2>1, <2>3, <2>4, AppendAccounts
    <2>6. SoundDraft(r)
      BY <2>1, <2>2, <2>3, <2>5 DEF SoundDraft
    <2>7. Follows(r, d) /\ NothingToDecide(row, r, action)
      BY <2>1, <2>2, <2>5 DEF Follows, NothingToDecide
    <2> QED
      BY <2>6, <2>7 DEF r
  <1> QED
    BY <1>1, <1>2

-----------------------------------------------------------------------------
\* The actions of the playbooks, one after the other

\* The actions of the p-th playbook.
ActionsOf(p) ==
    [n \in DOMAIN Playbooks[p].actions |->
        [minScore |-> Playbooks[p].minScore, action |-> Playbooks[p].actions[n]]]

\* Those of the playbooks up to the n-th.
Adding(actions, p) == actions \o ActionsOf(p)

IsUpTo(upTo, none, n) ==
    upTo = [p \in 0 .. n |-> IF p = 0 THEN none ELSE Adding(upTo[p - 1], p)]

LEMMA UpToExists ==
    ASSUME NEW none, NEW n \in Nat
    PROVE  \E f : IsUpTo(f, none, n)
  <1> DEFINE Missing == {m \in Nat : ~ \E f : IsUpTo(f, none, m)}
  <1>1. ASSUME Missing # {} PROVE FALSE
    <2>1. Missing \subseteq Nat
      OBVIOUS
    <2>2. PICK m \in Missing : \A k \in Missing : m <= k
      <3> HIDE DEF Missing
      <3> QED
        BY <1>1, <2>1, LeastElement
    <2>3. m \in Nat
      OBVIOUS
    <2>4. m # 0
      <3>1. IsUpTo([p \in 0 .. 0 |-> none], none, 0)
        BY Z3 DEF IsUpTo
      <3> QED
        BY <2>2, <3>1
    <2>5. PICK f : IsUpTo(f, none, m - 1)
      <3>1. m - 1 \in Nat /\ m - 1 \notin Missing
        <4> HIDE DEF Missing
        <4> QED
          BY <2>2, <2>3, <2>4
      <3> QED
        BY <3>1
    <2> DEFINE g == [p \in 0 .. m |-> IF p = 0 THEN none ELSE Adding(f[p - 1], p)]
    <2>6. \A p \in 0 .. m - 1 : f[p] = g[p]
      BY <2>3, <2>5 DEF IsUpTo
    <2>7. \A p \in 0 .. m : p # 0 => f[p - 1] = g[p - 1]
      <3> HIDE DEF g
      <3> QED
        BY <2>3, <2>6
    <2>8. IsUpTo(g, none, m)
      BY <2>3, <2>7 DEF IsUpTo
    <2> QED
      BY <2>2, <2>8
  <1> QED
    BY <1>1

\* What is evaluated is a list of actions of the types there are.
IsActions(s) == IsList(s) /\ \A n \in 1 .. Len(s) : s[n].action.type \in ActionType

LEMMA ActionsOfPlaybook ==
    ASSUME NEW p \in 1 .. Len(Playbooks)
    PROVE  IsActions(ActionsOf(p))
  <1> DEFINE Action == [type : ActionType, askAtCriticality : 1 .. 6, askIfProtected : BOOLEAN]
             Playbook == [minScore : 0 .. 1000, actions : Seq(Action)]
             s == Playbooks[p].actions
  <1>1. Playbooks \in Seq(Playbook)
    BY PlaybookAssumption
  <1> HIDE DEF Playbook
  <1>2. Playbooks[p] \in Playbook
    BY <1>1
  <1>3. s \in Seq(Action)
    BY <1>2 DEF Playbook
  <1>4. \A a \in Action : a.type \in ActionType
    OBVIOUS
  <1> HIDE DEF Action
  <1>5. Len(s) \in Nat /\ DOMAIN s = 1 .. Len(s) /\ \A n \in 1 .. Len(s) : s[n] \in Action
    BY <1>3
  <1>6. ActionsOf(p) = [n \in 1 .. Len(s) |->
                           [minScore |-> Playbooks[p].minScore, action |-> s[n]]]
    BY <1>5 DEF ActionsOf
  <1> HIDE DEF s
  <1>7. /\ DOMAIN ActionsOf(p) = 1 .. Len(s)
        /\ ActionsOf(p) = [n \in 1 .. Len(s) |-> ActionsOf(p)[n]]
        /\ \A n \in 1 .. Len(s) : ActionsOf(p)[n].action = s[n]
    BY <1>6
  <1>8. IsList(ActionsOf(p)) /\ Len(ActionsOf(p)) = Len(s)
    BY <1>5, <1>7, ListOfFunction
  <1> QED
    BY <1>4, <1>5, <1>7, <1>8 DEF IsActions

LEMMA ConcatActions ==
    ASSUME NEW s, IsActions(s), NEW t, IsActions(t)
    PROVE  IsActions(s \o t)
  <1>1. /\ IsList(s \o t) /\ Len(s \o t) = Len(s) + Len(t)
        /\ \A i \in 1 .. Len(s) + Len(t) :
              (s \o t)[i] = IF i <= Len(s) THEN s[i] ELSE t[i - Len(s)]
        /\ Len(s) \in Nat /\ Len(t) \in Nat
    BY ListConcat, ListFacts DEF IsActions
  <1>2. ASSUME NEW i \in 1 .. Len(s) + Len(t) PROVE (s \o t)[i].action.type \in ActionType
    <2>1. CASE i <= Len(s)
      BY <1>1, <2>1 DEF IsActions
    <2>2. CASE i > Len(s)
      <3>1. i - Len(s) \in 1 .. Len(t) /\ ~(i <= Len(s))
        BY <1>1, <2>2
      <3> QED
        BY <1>1, <3>1 DEF IsActions
    <2> QED
      BY <1>1, <2>1, <2>2
  <1> QED
    BY <1>1, <1>2 DEF IsActions

LEMMA PlaybookActionsAreActions == IsActions(PlaybookActions)
  <1> DEFINE N == Len(Playbooks)
             upTo == CHOOSE f : IsUpTo(f, << >>, N)
             Bad == {p \in 0 .. N : ~IsActions(upTo[p])}
  <1>0. N \in Nat
    BY PlaybookAssumption
  <1>1. IsUpTo(upTo, << >>, N)
    BY <1>0, UpToExists
  <1>2. PlaybookActions = upTo[N]
    BY DEF PlaybookActions, IsUpTo, ActionsOf, Adding
  <1> HIDE DEF upTo
  <1>3. upTo[0] = << >> /\ \A p \in 1 .. N : upTo[p] = Adding(upTo[p - 1], p)
    BY <1>0, <1>1 DEF IsUpTo
  <1>4. IsActions(<< >>)
    <2>1. << >> \in Seq({}) /\ Len(<< >>) = 0
      OBVIOUS
    <2> QED
      BY <2>1 DEF IsActions, IsList
  <1> HIDE DEF N
  <1>5. ASSUME Bad # {} PROVE FALSE
    <2>1. Bad \subseteq Nat
      BY <1>0
    <2>2. PICK p \in Bad : \A q \in Bad : p <= q
      <3> HIDE DEF Bad
      <3> QED
        BY <1>5, <2>1, LeastElement
    <2>3. p \in 0 .. N /\ ~IsActions(upTo[p])
      OBVIOUS
    <2>4. p # 0
      BY <1>3, <1>4, <2>3
    <2>5. p \in 1 .. N /\ p - 1 \in 0 .. N /\ ~(p <= p - 1)
      BY <1>0, <2>3, <2>4
    <2>6. IsActions(upTo[p - 1])
      BY <2>2, <2>5
    <2> QED
      BY <1>3, <2>3, <2>5, <2>6, ActionsOfPlaybook, ConcatActions DEF N, Adding
  <1> QED
    BY <1>0, <1>2, <1>5

-----------------------------------------------------------------------------
\* The draft after the first n actions

IsAfter(after, row, draft, posture, n) ==
    after = [m \in 0 .. n |->
                IF m = 0 THEN draft
                ELSE Respond(row, after[m - 1], posture, PlaybookActions[m].minScore,
                             PlaybookActions[m].action)]

LEMMA AfterExists ==
    ASSUME NEW row, NEW draft, NEW posture, NEW n \in Nat
    PROVE  \E f : IsAfter(f, row, draft, posture, n)
  <1> DEFINE IsSo(f, m) == IsAfter(f, row, draft, posture, m)
             Missing == {m \in Nat : ~ \E f : IsSo(f, m)}
  <1>1. ASSUME Missing # {} PROVE FALSE
    <2>1. Missing \subseteq Nat
      OBVIOUS
    <2>2. PICK m \in Missing : \A k \in Missing : m <= k
      <3> HIDE DEF Missing
      <3> QED
        BY <1>1, <2>1, LeastElement
    <2>3. m \in Nat
      OBVIOUS
    <2>4. m # 0
      <3>1. IsSo([k \in 0 .. 0 |-> draft], 0)
        BY Z3 DEF IsAfter
      <3> HIDE DEF IsSo
      <3> QED
        BY <2>2, <3>1
    <2>5. PICK f : IsSo(f, m - 1)
      <3>1. m - 1 \in Nat /\ m - 1 \notin Missing
        <4> HIDE DEF Missing
        <4> QED
          BY <2>2, <2>3, <2>4
      <3> HIDE DEF IsSo
      <3> QED
        BY <3>1
    <2> DEFINE g == [k \in 0 .. m |->
                        IF k = 0 THEN draft
                        ELSE Respond(row, f[k - 1], posture, PlaybookActions[k].minScore,
                                     PlaybookActions[k].action)]
    <2>6. \A k \in 0 .. m - 1 : f[k] = g[k]
      BY <2>3, <2>5 DEF IsAfter
    <2>7. \A k \in 0 .. m : k # 0 => f[k - 1] = g[k - 1]
      <3> HIDE DEF g
      <3> QED
        BY <2>3, <2>6
    <2>8. IsSo(g, m)
      BY <2>3, <2>7 DEF IsAfter
    <2> HIDE DEF g, IsSo
    <2> QED
      BY <2>2, <2>8
  <1>2. n \notin Missing
    <2> HIDE DEF Missing
    <2> QED
      BY <1>1
  <1> QED
    BY <1>2

LEMMA FollowsTransitive ==
    ASSUME NEW a, SoundDraft(a), NEW b, SoundDraft(b), NEW c, SoundDraft(c),
           Follows(b, a), Follows(c, b)
    PROVE  Follows(c, a)
  <1>1. IsList(a.log) /\ IsList(b.log) /\ IsList(c.log)
    BY DEF SoundDraft, Accounts
  <1>2. Continues(c.log, a.log)
    BY <1>1, ContinuesTransitive DEF Follows
  <1> QED
    BY <1>2 DEF Follows

\* What the playbooks do accounts for what was decided, and leaves nothing to decide.
AllDecided(row, d) ==
    \A n \in 1 .. Len(PlaybookActions) : NothingToDecide(row, d, PlaybookActions[n].action)

LEMMA EvaluatedFacts ==
    ASSUME NEW row, NEW draft, SoundDraft(draft), NEW posture
    PROVE  LET d == Evaluated(row, draft, posture)
           IN  SoundDraft(d) /\ Follows(d, draft) /\ AllDecided(row, d)
  <1> DEFINE N == Len(PlaybookActions)
             after == CHOOSE f : IsAfter(f, row, draft, posture, N)
             Fine(m) ==
                 /\ SoundDraft(after[m]) /\ Follows(after[m], draft)
                 /\ \A n \in 1 .. m : NothingToDecide(row, after[m], PlaybookActions[n].action)
             Bad == {m \in 0 .. N : ~Fine(m)}
  <1>0. N \in Nat /\ \A n \in 1 .. N : PlaybookActions[n].action.type \in ActionType
    BY PlaybookActionsAreActions, ListFacts DEF IsActions
  <1>1. IsAfter(after, row, draft, posture, N)
    BY <1>0, AfterExists
  <1>2. Evaluated(row, draft, posture) = after[N]
    BY DEF Evaluated, IsAfter
  <1> HIDE DEF after
  <1>3. /\ after[0] = draft
        /\ \A m \in 1 .. N :
              after[m] = Respond(row, after[m - 1], posture, PlaybookActions[m].minScore,
                                 PlaybookActions[m].action)
    BY <1>0, <1>1 DEF IsAfter
  <1>4. Fine(0)
    <2>1. IsList(draft.log)
      BY DEF SoundDraft, Accounts
    <2>2. Continues(draft.log, draft.log)
      BY <2>1, ListFacts DEF Continues
    <2> QED
      BY <1>3, <2>2 DEF Follows
  <1>5. ASSUME NEW m \in 1 .. N, Fine(m - 1) PROVE Fine(m)
    <2> DEFINE action == PlaybookActions[m].action
    <2>1. /\ SoundDraft(after[m]) /\ Follows(after[m], after[m - 1])
          /\ NothingToDecide(row, after[m], action)
      BY <1>0, <1>3, <1>5, RespondStep
    <2>2. Follows(after[m], draft)
      BY <1>5, <2>1, FollowsTransitive
    <2>3. ASSUME NEW n \in 1 .. m
          PROVE  NothingToDecide(row, after[m], PlaybookActions[n].action)
      <3>1. CASE n = m
        BY <2>1, <3>1
      <3>2. CASE n # m
        <4>1. n \in 1 .. m - 1
          BY <1>0, <3>2
        <4>2. NothingToDecide(row, after[m - 1], PlaybookActions[n].action)
          BY <1>5, <4>1
        <4> QED
          BY <2>1, <4>2 DEF Follows, NothingToDecide
      <3> QED
        BY <3>1, <3>2
    <2> QED
      BY <2>1, <2>2, <2>3
  <1> HIDE DEF N
  <1>6. ASSUME Bad # {} PROVE FALSE
    <2>1. Bad \subseteq Nat
      BY <1>0
    <2>2. PICK m \in Bad : \A k \in Bad : m <= k
      <3> HIDE DEF Bad
      <3> QED
        BY <1>6, <2>1, LeastElement
    <2>3. m \in 0 .. N /\ ~Fine(m)
      <3> HIDE DEF Fine
      <3> QED
        OBVIOUS
    <2> HIDE DEF Fine
    <2>4. m # 0
      BY <1>4, <2>3
    <2>5. m \in 1 .. N /\ m - 1 \in 0 .. N /\ ~(m <= m - 1)
      BY <1>0, <2>3, <2>4
    <2>6. Fine(m - 1)
      BY <2>2, <2>5
    <2> QED
      BY <1>5, <2>3, <2>5, <2>6
  <1>7. N \in 0 .. N
    BY <1>0
  <1>8. Fine(N)
    <2> HIDE DEF Fine
    <2> QED
      BY <1>6, <1>7
  <1> QED
    BY <1>2, <1>8 DEF AllDecided, N

\* Where nothing is left to decide, the playbooks leave things as they are.
LEMMA EvaluatedSettled ==
    ASSUME NEW row, NEW draft, AllDecided(row, draft), NEW posture
    PROVE  Evaluated(row, draft, posture) = draft
  <1> DEFINE N == Len(PlaybookActions)
             after == CHOOSE f : IsAfter(f, row, draft, posture, N)
             Bad == {m \in 0 .. N : after[m] # draft}
  <1>0. N \in Nat
    BY PlaybookActionsAreActions, ListFacts DEF IsActions
  <1>1. IsAfter(after, row, draft, posture, N)
    BY <1>0, AfterExists
  <1>2. Evaluated(row, draft, posture) = after[N]
    BY DEF Evaluated, IsAfter
  <1> HIDE DEF after
  <1>3. /\ after[0] = draft
        /\ \A m \in 1 .. N :
              after[m] = Respond(row, after[m - 1], posture, PlaybookActions[m].minScore,
                                 PlaybookActions[m].action)
    BY <1>0, <1>1 DEF IsAfter
  <1>4. ASSUME NEW m \in 1 .. N, after[m - 1] = draft PROVE after[m] = draft
    BY <1>3, <1>4, RespondNothing DEF AllDecided
  <1> HIDE DEF N
  <1>5. ASSUME Bad # {} PROVE FALSE
    <2>1. Bad \subseteq Nat
      BY <1>0
    <2>2. PICK m \in Bad : \A k \in Bad : m <= k
      <3> HIDE DEF Bad
      <3> QED
        BY <1>5, <2>1, LeastElement
    <2>3. m \in 0 .. N /\ after[m] # draft
      OBVIOUS
    <2>4. m # 0
      BY <1>3, <2>3
    <2>5. m \in 1 .. N /\ m - 1 \in 0 .. N /\ ~(m <= m - 1)
      BY <1>0, <2>3, <2>4
    <2>6. after[m - 1] = draft
      BY <2>2, <2>5
    <2> QED
      BY <1>4, <2>3, <2>5, <2>6
  <1>6. N \in 0 .. N
    BY <1>0
  <1> QED
    BY <1>2, <1>5, <1>6

-----------------------------------------------------------------------------
\* What is committed

DecidedTypes(n) == {t \in ActionType : <<n, t>> \in DOMAIN decisions}

\* Of an incident, its row, its audit entries, what was decided of its actions and
\* the alerts that are attached to it go together.
BooksOf(n) ==
    /\ incidents[n] \in RowType
    /\ Accounts(ledger[n], incidents[n].status, incidents[n].since, DecidedTypes(n))
    /\ \A i \in 1 .. Len(PlaybookActions) :
          \/ TargetOf(PlaybookActions[i].action.type, incidents[n].key) = NoOne
          \/ PlaybookActions[i].action.type \in DecidedTypes(n)
    /\ linked[incidents[n].latest] = n
    /\ ~incidents[n].contended =>
          /\ Covers(incidents[n].score, incidents[n].latest)
          /\ incidents[n].priority = DeterminePriority(incidents[n].score)
    /\ \A a \in Alert : linked[a] = n => Tells(ledger[n], Len(ledger[n]), AlertEntry, a)

Books ==
    /\ IsList(ledger) /\ DOMAIN ledger = DOMAIN incidents
    /\ linked \in [Alert -> 0 .. Len(incidents)]
    /\ IsFiniteSet({a \in Alert : linked[a] # 0})
    /\ \A a \in Alert : linked[a] # 0 => a \in handled
    /\ DOMAIN decisions \subseteq (DOMAIN incidents) \X ActionType
    /\ \A n \in DOMAIN incidents : BooksOf(n)

-----------------------------------------------------------------------------
\* What is under way

Correlating == {"none found", "found", "create", "attach"}

\* The alert of a session is its own until it is attached.
Correlates(s) ==
    session[s].pc \in Correlating =>
        /\ session[s].alert \in Alert /\ session[s].alert \in handled
        /\ linked[session[s].alert] = 0

AlertsDiffer ==
    \A s, t \in DOMAIN session :
        s # t /\ session[s].pc \in Correlating /\ session[t].pc \in Correlating
            => session[s].alert # session[t].alert

\* Who finds the alert attached last still there finds the score and the priority
\* still there.
Attaches(s) ==
    /\ session[s].pc = "found" => session[s].score \in Int
    /\ session[s].pc = "attach" =>
        /\ session[s].score \in 0 .. 1000 /\ Covers(session[s].score, session[s].alert)
        /\ session[s].row.latest \in Alert
        /\ linked[session[s].row.latest] = session[s].incident
        /\ session[s].row.latest = incidents[session[s].incident].latest =>
              /\ session[s].row.score = incidents[session[s].incident].score
              /\ session[s].row.priority = incidents[session[s].incident].priority

\* A request was valid for the status that was seen, and one that has changed since it
\* was loaded was assigned by an entry that was made since.
Transits(s) ==
    /\ session[s].pc \in {"validated", "transition"} =>
          session[s].target \in IncidentStatus /\ session[s].seen \notin Terminal
    /\ session[s].pc \in {"transition", "approve"} =>
          /\ session[s].since \in 0 .. Len(ledger[session[s].incident])
          /\ \/ incidents[session[s].incident].status = session[s].loaded
             \/ AssignedSince(ledger[session[s].incident], session[s].since,
                              incidents[session[s].incident].status)

\* The first m entries account for the sections that were read before the one named.
Attests(log, m, says, section) ==
    /\ Assigned(log, m, says.status)
    /\ section # "alerts" => \A a \in says.alerts : Tells(log, m, AlertEntry, a)
    /\ section \in {"attestation", "none"} =>
          \A t \in says.actions : Tells(log, m, DecisionEntry, t)

SectionsBefore ==
    [alerts |-> {"status"}, actions |-> {"status", "alerts"},
     attestation |-> {"status", "alerts", "actions"},
     none |-> {"status", "alerts", "actions", "attestation"}]

\* What a session has read of the incident, it can show by entries that are there.
Reads(s) ==
    session[s].pc \in Reporting =>
        /\ session[s].incident \in DOMAIN incidents
        /\ session[s].section \in DOMAIN SectionsBefore
        /\ DOMAIN session[s].says = SectionsBefore[session[s].section]
        /\ session[s].pc = "put" => session[s].section = "none"
        /\ session[s].section # "none" =>
              Attests(ledger[session[s].incident], Len(ledger[session[s].incident]),
                      session[s].says, session[s].section)
        /\ session[s].section = "none" =>
              /\ session[s].says.attestation \in 0 .. Len(ledger[session[s].incident])
              /\ Attests(ledger[session[s].incident], session[s].says.attestation,
                         session[s].says, "none")

SessionOK(s) == Correlates(s) /\ Attaches(s) /\ Transits(s) /\ Reads(s)

SessionsOK == AlertsDiffer /\ \A s \in DOMAIN session : SessionOK(s)

ReportOK(r) ==
    /\ reports[r].incident \in DOMAIN incidents
    /\ reports[r].says.attestation \in 0 .. Len(ledger[reports[r].incident])
    /\ Attests(ledger[reports[r].incident], reports[r].says.attestation, reports[r].says, "none")

ReportsOK == \A r \in DOMAIN reports : ReportOK(r)

BInv == Books /\ SessionsOK /\ ReportsOK

-----------------------------------------------------------------------------
\* Lemmas about the audit entries of an incident

LEMMA ListUpdate ==
    ASSUME NEW s, IsList(s), NEW n \in 1 .. Len(s), NEW x, NEW after, after = [s EXCEPT ![n] = x]
    PROVE  /\ IsList(after) /\ DOMAIN after = DOMAIN s /\ after[n] = x
           /\ \A m \in 1 .. Len(s) : m # n => after[m] = s[m]
  <1>1. PICK S : s \in Seq(S)
    BY DEF IsList
  <1> DEFINE T == S \cup {x}
  <1>2. s \in Seq(T) /\ x \in T
    BY <1>1
  <1> HIDE DEF T
  <1>3. after \in Seq(T) /\ Len(after) = Len(s)
    BY <1>2
  <1> QED
    BY <1>2, <1>3 DEF IsList

LEMMA SameLength ==
    ASSUME NEW m \in Nat, NEW n \in Nat, 1 .. m = 1 .. n
    PROVE  m = n
  <1>1. CASE m < n
    <2>1. n \in 1 .. n /\ n \notin 1 .. m
      BY <1>1
    <2> QED
      BY <2>1
  <1>2. CASE n < m
    <2>1. m \in 1 .. m /\ m \notin 1 .. n
      BY <1>2
    <2> QED
      BY <2>1
  <1> QED
    BY <1>1, <1>2

LEMMA TellsContinued ==
    ASSUME NEW log, IsList(log), NEW new, IsList(new), Continues(new, log),
           NEW m \in 0 .. Len(log), NEW k \in m .. Len(new),
           NEW types, NEW x, Tells(log, m, types, x)
    PROVE  Tells(new, k, types, x)
  <1>1. PICK i \in 1 .. m : log[i].type \in types /\ log[i].about = x
    BY DEF Tells
  <1>2. i \in 1 .. Len(log) /\ i \in 1 .. k
    BY ListFacts
  <1>3. new[i] = log[i]
    BY <1>2 DEF Continues
  <1> QED
    BY <1>1, <1>2, <1>3 DEF Tells

LEMMA AssignedContinued ==
    ASSUME NEW log, IsList(log), NEW new, IsList(new), Continues(new, log),
           NEW m \in 0 .. Len(log), NEW k \in m .. Len(new),
           NEW status, Assigned(log, m, status)
    PROVE  Assigned(new, k, status)
  <1>1. PICK i \in 1 .. m : StatusOf(log[i]) = status
    BY DEF Assigned
  <1>2. i \in 1 .. Len(log) /\ i \in 1 .. k
    BY ListFacts
  <1>3. new[i] = log[i]
    BY <1>2 DEF Continues
  <1> QED
    BY <1>1, <1>2, <1>3 DEF Assigned

LEMMA AssignedSinceContinued ==
    ASSUME NEW log, IsList(log), NEW new, IsList(new), Continues(new, log),
           NEW m, NEW status, AssignedSince(log, m, status)
    PROVE  AssignedSince(new, m, status)
  <1>1. PICK i \in 1 .. Len(log) :
            m < i /\ StatusOf(log[i]) # SameStatus /\ StatusOf(log[i]) = status
    BY DEF AssignedSince
  <1>2. i \in 1 .. Len(new) /\ new[i] = log[i]
    BY ListFacts DEF Continues
  <1> QED
    BY <1>1, <1>2 DEF AssignedSince

LEMMA AttestsContinued ==
    ASSUME NEW log, IsList(log), NEW new, IsList(new), Continues(new, log),
           NEW m \in 0 .. Len(log), NEW k \in m .. Len(new),
           NEW says, NEW section, Attests(log, m, says, section)
    PROVE  Attests(new, k, says, section)
  <1>1. Assigned(new, k, says.status)
    BY AssignedContinued DEF Attests
  <1>2. ASSUME section # "alerts", NEW a \in says.alerts PROVE Tells(new, k, AlertEntry, a)
    BY <1>2, TellsContinued DEF Attests
  <1>3. ASSUME section \in {"attestation", "none"}, NEW t \in says.actions
        PROVE  Tells(new, k, DecisionEntry, t)
    BY <1>3, TellsContinued DEF Attests
  <1> QED
    BY <1>1, <1>2, <1>3 DEF Attests

\* Remarks leave what the log accounts for as it is.
LEMMA RemarksAccount ==
    ASSUME NEW log, NEW status, NEW since, NEW decided, Accounts(log, status, since, decided),
           NEW new, IsList(new), Continues(new, log),
           \A i \in 1 .. Len(new) : i > Len(log) => StatusOf(new[i]) = SameStatus
    PROVE  Accounts(new, status, since, decided)
  <1>1. /\ IsList(log) /\ Len(log) \in Nat /\ Len(new) \in Nat /\ Len(log) <= Len(new)
        /\ \A i \in 1 .. Len(log) : new[i] = log[i]
    BY ListFacts DEF Accounts, Continues
  <1>2. Len(log) \in 0 .. Len(log) /\ Len(new) \in Len(log) .. Len(new)
    BY <1>1
  <1>3. Assigned(new, Len(new), status)
    BY <1>1, <1>2, AssignedContinued DEF Accounts
  <1>4. \A t \in decided : Tells(new, Len(new), DecisionEntry, t)
    BY <1>1, <1>2, TellsContinued DEF Accounts
  <1>5. PICK i \in 1 .. Len(log) :
            /\ StatusOf(log[i]) # SameStatus
            /\ \A j \in 1 .. Len(log) : StatusOf(log[j]) # SameStatus => j <= i
            /\ \/ status = StatusOf(log[i])
               \/ \E j \in 1 .. Len(log) :
                     /\ StatusOf(log[j]) # SameStatus /\ since < j /\ j < i
                     /\ status = StatusOf(log[j])
    BY DEF Accounts, Explains
  <1>6. \A j \in 1 .. Len(log) : j \in 1 .. Len(new) /\ new[j] = log[j]
    BY <1>1
  <1>7. ASSUME NEW j \in 1 .. Len(new), StatusOf(new[j]) # SameStatus PROVE j <= i
    <2>1. ~(j > Len(log))
      BY <1>7
    <2>2. j \in 1 .. Len(log) /\ new[j] = log[j]
      BY <1>1, <2>1
    <2> QED
      BY <1>5, <1>7, <2>2
  <1>8. Explains(new, status, since)
    BY <1>5, <1>6, <1>7 DEF Explains
  <1> QED
    BY <1>1, <1>3, <1>4, <1>8 DEF Accounts

\* One more entry, with which the log goes on.
LEMMA AppendContinues ==
    ASSUME NEW log, IsList(log), NEW e
    PROVE  IsList(Append(log, e)) /\ Continues(Append(log, e), log)
  <1> DEFINE new == Append(log, e)
  <1>1. /\ IsList(new) /\ Len(new) = Len(log) + 1 /\ Len(log) \in Nat
        /\ \A i \in 1 .. Len(log) : new[i] = log[i]
    BY ListAppend, ListFacts
  <1> HIDE DEF new
  <1>2. Continues(new, log)
    BY <1>1 DEF Continues
  <1> QED
    BY <1>1, <1>2 DEF new

LEMMA RemarkAccounts ==
    ASSUME NEW log, NEW status, NEW since, NEW decided, Accounts(log, status, since, decided),
           NEW e, StatusOf(e) = SameStatus
    PROVE  Accounts(Append(log, e), status, since, decided)
  <1> DEFINE new == Append(log, e)
  <1>1. /\ IsList(new) /\ Len(new) = Len(log) + 1 /\ Len(log) \in Nat /\ new[Len(log) + 1] = e
        /\ Continues(new, log)
    BY ListAppend, ListFacts, AppendContinues DEF Accounts
  <1> HIDE DEF new
  <1>2. ASSUME NEW i \in 1 .. Len(new), i > Len(log) PROVE StatusOf(new[i]) = SameStatus
    <2>1. i = Len(log) + 1
      BY <1>1, <1>2
    <2> QED
      BY <1>1, <2>1
  <1> QED
    BY <1>1, <1>2, RemarksAccount DEF new

-----------------------------------------------------------------------------
\* What a step writes

\* At most the n-th incident is written, or appended.
Writes(n) ==
    /\ DOMAIN incidents' = DOMAIN incidents \cup {n}
    /\ Len(incidents') \in Nat /\ Len(incidents) <= Len(incidents')
    /\ IsList(ledger') /\ DOMAIN ledger' = DOMAIN incidents'
    /\ \A m \in DOMAIN incidents : m # n =>
          /\ incidents'[m] = incidents[m] /\ ledger'[m] = ledger[m]
          /\ DecidedTypes(m)' = DecidedTypes(m)
    /\ DOMAIN decisions' \subseteq (DOMAIN incidents') \X ActionType

LEMMA TableLength ==
    ASSUME IInv, Books
    PROVE  /\ DOMAIN incidents = 1 .. Len(incidents) /\ Len(incidents) \in Nat
           /\ DOMAIN ledger = 1 .. Len(ledger) /\ Len(ledger) = Len(incidents)
  <1>1. DOMAIN incidents = 1 .. Len(incidents) /\ Len(incidents) \in Nat
    BY TableDomain DEF IInv
  <1>2. DOMAIN ledger = 1 .. Len(ledger) /\ Len(ledger) \in Nat /\ DOMAIN ledger = DOMAIN incidents
    BY ListFacts DEF Books
  <1> QED
    BY <1>1, <1>2, SameLength

LEMMA DecisionsStored ==
    ASSUME Books, NEW n, NEW decided, DOMAIN decided \subseteq ActionType,
           decisions' = [k \in DOMAIN decisions \cup {<<n, t>> : t \in DOMAIN decided} |->
                            IF k[1] = n THEN decided[k[2]] ELSE decisions[k]],
           DecidedTypes(n) \subseteq DOMAIN decided
    PROVE  /\ DecidedTypes(n)' = DOMAIN decided
           /\ \A m : m # n => DecidedTypes(m)' = DecidedTypes(m)
           /\ DOMAIN decisions' \subseteq (DOMAIN incidents \cup {n}) \X ActionType
  <1>1. DOMAIN decisions' = DOMAIN decisions \cup {<<n, t>> : t \in DOMAIN decided}
    OBVIOUS
  <1>2. DOMAIN decisions \subseteq (DOMAIN incidents) \X ActionType
    BY DEF Books
  <1>3. \A t \in ActionType : <<n, t>> \in DOMAIN decisions => t \in DOMAIN decided
    BY DEF DecidedTypes
  <1>4. \A t \in ActionType : <<n, t>> \in DOMAIN decisions' <=> t \in DOMAIN decided
    BY <1>1, <1>3
  <1>5. \A m, t : m # n => (<<m, t>> \in DOMAIN decisions' <=> <<m, t>> \in DOMAIN decisions)
    BY <1>1
  <1>6. DecidedTypes(n)' = DOMAIN decided
    BY <1>4 DEF DecidedTypes
  <1>7. ASSUME NEW m, m # n PROVE DecidedTypes(m)' = DecidedTypes(m)
    BY <1>5, <1>7 DEF DecidedTypes
  <1>8. DOMAIN decisions' \subseteq (DOMAIN incidents \cup {n}) \X ActionType
    BY <1>1, <1>2
  <1> QED
    BY <1>6, <1>7, <1>8

LEMMA StoreWrites ==
    ASSUME IInv, Books, NEW n \in 1 .. Len(incidents) + 1, NEW row, IsRow(row), NEW draft,
           DOMAIN draft.decided \subseteq ActionType, DecidedTypes(n) \subseteq DOMAIN draft.decided,
           Store(n, row, draft)
    PROVE  /\ Writes(n)
           /\ incidents'[n] = WithStatus(row, draft.status, draft.since)
           /\ ledger'[n] = draft.log /\ DecidedTypes(n)' = DOMAIN draft.decided
  <1> DEFINE stored == WithStatus(row, draft.status, draft.since)
             N == Len(incidents)
  <1>1. incidents' = IF n > Len(incidents) THEN Append(incidents, stored)
                     ELSE [incidents EXCEPT ![n] = stored]
    BY Zenon DEF Store, WithStatus
  <1>2. ledger' = IF n > Len(ledger) THEN Append(ledger, draft.log)
                  ELSE [ledger EXCEPT ![n] = draft.log]
    BY Zenon DEF Store
  <1>3. IsRow(stored)
    BY RowWithStatus
  <1>4. /\ DecidedTypes(n)' = DOMAIN draft.decided
        /\ \A m : m # n => DecidedTypes(m)' = DecidedTypes(m)
        /\ DOMAIN decisions' \subseteq (DOMAIN incidents \cup {n}) \X ActionType
    BY DecisionsStored DEF Store
  <1>5. /\ IsTable(incidents) /\ DOMAIN incidents = 1 .. N /\ N \in Nat
        /\ IsList(ledger) /\ DOMAIN ledger = 1 .. N /\ Len(ledger) = N
    BY TableLength DEF IInv, Books
  <1> HIDE DEF stored
  <1> SUFFICES /\ Writes(n) /\ incidents'[n] = stored /\ ledger'[n] = draft.log
               /\ DecidedTypes(n)' = DOMAIN draft.decided
    BY DEF stored
  <1>6. CASE n = N + 1
    <2>1. incidents' = Append(incidents, stored) /\ ledger' = Append(ledger, draft.log)
      <3>1. n > N
        BY <1>5, <1>6
      <3> QED
        BY <1>1, <1>2, <1>5, <3>1, Zenon
    <2>2. /\ IsTable(incidents') /\ Len(incidents') = N + 1 /\ incidents'[n] = stored
          /\ \A m \in 1 .. N : incidents'[m] = incidents[m]
      BY <1>3, <1>5, <1>6, <2>1, TableAppend
    <2>3. /\ IsList(ledger') /\ Len(ledger') = N + 1 /\ ledger'[n] = draft.log
          /\ \A m \in 1 .. N : ledger'[m] = ledger[m]
      BY <1>5, <1>6, <2>1, ListAppend
    <2>4. DOMAIN incidents' = 1 .. N + 1 /\ DOMAIN ledger' = 1 .. N + 1
      BY <2>2, <2>3, TableDomain, ListFacts
    <2>5. DOMAIN incidents' = DOMAIN incidents \cup {n}
      BY <1>5, <1>6, <2>4
    <2>6. Len(incidents') \in Nat /\ Len(incidents) <= Len(incidents')
      BY <1>5, <2>2
    <2>7. DOMAIN decisions' \subseteq (DOMAIN incidents') \X ActionType
      BY <1>4, <2>5
    <2>8. Writes(n)
      BY <1>4, <1>5, <2>2, <2>3, <2>4, <2>5, <2>6, <2>7 DEF Writes
    <2> QED
      BY <1>4, <2>2, <2>3, <2>8
  <1>7. CASE n \in 1 .. N
    <2>1. incidents' = [incidents EXCEPT ![n] = stored] /\ ledger' = [ledger EXCEPT ![n] = draft.log]
      <3>1. ~(n > N)
        BY <1>5, <1>7
      <3> QED
        BY <1>1, <1>2, <1>5, <3>1, Zenon
    <2>0. n \in 1 .. Len(incidents)
      BY <1>7
    <2>2. /\ IsTable(incidents') /\ Len(incidents') = N /\ incidents'[n] = stored
          /\ \A m \in 1 .. N : m # n => incidents'[m] = incidents[m]
      <3>1. ASSUME NEW r, IsRow(r), incidents' = [incidents EXCEPT ![n] = r]
            PROVE  /\ IsTable(incidents') /\ Len(incidents') = Len(incidents) /\ incidents'[n] = r
                   /\ \A m \in 1 .. Len(incidents) : m # n => incidents'[m] = incidents[m]
        <4>1. IsTable(incidents')
          BY <1>5, <2>0, <3>1, TableUpdate
        <4>4. Len(incidents') = Len(incidents)
          BY <1>5, <2>0, <3>1, TableUpdate
        <4>2. incidents'[n] = r
          BY <1>5, <2>0, <3>1
        <4>3. \A m \in 1 .. Len(incidents) : m # n => incidents'[m] = incidents[m]
          BY <1>5, <3>1
        <4> QED
          BY <4>1, <4>2, <4>3, <4>4
      <3> QED
        BY <1>3, <2>1, <3>1
    <2>3. /\ IsList(ledger') /\ DOMAIN ledger' = 1 .. N /\ ledger'[n] = draft.log
          /\ \A m \in 1 .. N : m # n => ledger'[m] = ledger[m]
      BY <1>5, <1>7, <2>1, ListUpdate
    <2>4. DOMAIN incidents' = 1 .. N
      BY <2>2, TableDomain
    <2>5. DOMAIN incidents' = DOMAIN incidents \cup {n}
      BY <1>5, <1>7, <2>4
    <2>6. Len(incidents') \in Nat /\ Len(incidents) <= Len(incidents')
      BY <1>5, <2>2
    <2>7. DOMAIN decisions' \subseteq (DOMAIN incidents') \X ActionType
      BY <1>4, <2>5
    <2>8. Writes(n)
      BY <1>4, <1>5, <2>2, <2>3, <2>4, <2>5, <2>6, <2>7 DEF Writes
    <2> QED
      BY <1>4, <2>2, <2>3, <2>8
  <1> QED
    BY <1>5, <1>6, <1>7

LEMMA LedgerUpdate ==
    ASSUME IsList(ledger), NEW n, n \in 1 .. Len(ledger), NEW x, ledger' = [ledger EXCEPT ![n] = x]
    PROVE  /\ IsList(ledger') /\ DOMAIN ledger' = DOMAIN ledger /\ ledger'[n] = x
           /\ \A m \in 1 .. Len(ledger) : m # n => ledger'[m] = ledger[m]
  <1>1. IsList(ledger')
    BY ListUpdate
  <1>2. DOMAIN ledger' = DOMAIN ledger
    OBVIOUS
  <1>3. ledger'[n] = x
    BY ListFacts
  <1>4. \A m \in 1 .. Len(ledger) : m # n => ledger'[m] = ledger[m]
    BY ListFacts
  <1> QED
    BY <1>1, <1>2, <1>3, <1>4

\* An entry by itself.
LEMMA EntryWrites ==
    ASSUME IInv, Books, NEW n \in DOMAIN incidents, NEW e,
           ledger' = [ledger EXCEPT ![n] = Append(@, e)], UNCHANGED <<incidents, decisions>>
    PROVE  /\ Writes(n) /\ incidents'[n] = incidents[n]
           /\ ledger'[n] = Append(ledger[n], e) /\ DecidedTypes(n)' = DecidedTypes(n)
  <1>1. /\ DOMAIN incidents = 1 .. Len(incidents) /\ Len(incidents) \in Nat
        /\ IsList(ledger) /\ DOMAIN ledger = 1 .. Len(ledger) /\ Len(ledger) = Len(incidents)
    BY TableLength DEF Books
  <1>2. ledger' = [ledger EXCEPT ![n] = Append(ledger[n], e)] /\ n \in 1 .. Len(ledger)
    BY <1>1
  <1>3. /\ IsList(ledger') /\ DOMAIN ledger' = DOMAIN ledger
        /\ ledger'[n] = Append(ledger[n], e)
        /\ \A m \in 1 .. Len(ledger) : m # n => ledger'[m] = ledger[m]
    BY <1>1, <1>2, LedgerUpdate
  <1>4. \A m : DecidedTypes(m)' = DecidedTypes(m)
    BY DEF DecidedTypes
  <1>5. DOMAIN decisions' \subseteq (DOMAIN incidents') \X ActionType
    BY DEF Books
  <1> QED
    BY <1>1, <1>3, <1>4, <1>5 DEF Writes

-----------------------------------------------------------------------------
\* What a step leaves to the others

\* What a step may do while others are under way: entries are appended, alerts stay
\* where they are attached, a score changes with the alert attached last only, and a
\* status with an entry that has assigned it.
Onward ==
    /\ handled \subseteq handled'
    /\ DOMAIN incidents \subseteq DOMAIN incidents'
    /\ \A m \in DOMAIN incidents :
          /\ IsList(ledger'[m]) /\ Continues(ledger'[m], ledger[m])
          /\ \/ /\ incidents'[m].latest = incidents[m].latest
                /\ incidents'[m].score = incidents[m].score
                /\ incidents'[m].priority = incidents[m].priority
             \/ linked[incidents'[m].latest] = 0
          /\ \/ incidents'[m].status = incidents[m].status
             \/ AssignedSince(ledger'[m], Len(ledger[m]), incidents'[m].status)
    /\ \A a \in Alert : linked[a] # 0 => linked'[a] = linked[a]

LEMMA LogsAreLists ==
    ASSUME Books, NEW n \in DOMAIN incidents
    PROVE  IsList(ledger[n])
BY DEF Books, BooksOf, Accounts

LEMMA ContinuesItself ==
    ASSUME NEW log, IsList(log)
    PROVE  Continues(log, log)
BY ListFacts DEF Continues

LEMMA ContinuesLonger ==
    ASSUME NEW log, IsList(log), NEW new, IsList(new), Continues(new, log), NEW m \in 0 .. Len(log)
    PROVE  /\ m \in 0 .. Len(new) /\ m \in m .. Len(new)
           /\ Len(log) \in 0 .. Len(log) /\ Len(new) \in Len(log) .. Len(new)
BY ListFacts DEF Continues

\* What was loaded, and when, still tells what was assigned since.
LEMMA LoadedEarlier ==
    ASSUME IInv, Books, Onward, NEW n \in DOMAIN incidents, NEW since \in 0 .. Len(ledger[n]),
           NEW loaded, incidents[n].status = loaded
                           \/ AssignedSince(ledger[n], since, incidents[n].status)
    PROVE  /\ since \in 0 .. Len(ledger'[n])
           /\ incidents'[n].status = loaded
                 \/ AssignedSince(ledger'[n], since, incidents'[n].status)
  <1>1. /\ IsList(ledger[n]) /\ IsList(ledger'[n]) /\ Continues(ledger'[n], ledger[n])
        /\ \/ incidents'[n].status = incidents[n].status
           \/ AssignedSince(ledger'[n], Len(ledger[n]), incidents'[n].status)
    BY LogsAreLists DEF Onward
  <1>2. since \in 0 .. Len(ledger'[n])
    BY <1>1, ContinuesLonger
  <1>3. ASSUME AssignedSince(ledger'[n], Len(ledger[n]), incidents'[n].status)
        PROVE  AssignedSince(ledger'[n], since, incidents'[n].status)
    BY <1>1, <1>3, ListFacts DEF AssignedSince
  <1>4. ASSUME AssignedSince(ledger[n], since, incidents[n].status)
        PROVE  AssignedSince(ledger'[n], since, incidents[n].status)
    BY <1>1, <1>4, AssignedSinceContinued
  <1> QED
    BY <1>1, <1>2, <1>3, <1>4

LEMMA OtherSession ==
    ASSUME IInv, Books, NEW t \in DOMAIN session, SessionOK(t), Onward, session'[t] = session[t],
           session[t].pc \in Correlating => linked'[session[t].alert] = 0
    PROVE  SessionOK(t)'
  <1>1. Correlates(t)'
    BY DEF SessionOK, Correlates, Onward
  <1>2. Attaches(t)'
    <2> DEFINE n == session[t].incident
    <2>1. ASSUME session[t].pc = "attach"
          PROVE  /\ linked'[session[t].row.latest] = n
                 /\ session[t].row.latest = incidents'[n].latest =>
                       /\ session[t].row.score = incidents'[n].score
                       /\ session[t].row.priority = incidents'[n].priority
      <3>1. n \in DOMAIN incidents /\ n # 0
        BY <2>1, TableLength DEF IInv, SessionsAreAboutIncidents, OfIncident
      <3>2. /\ session[t].row.latest \in Alert /\ linked[session[t].row.latest] = n
            /\ session[t].row.latest = incidents[n].latest =>
                  /\ session[t].row.score = incidents[n].score
                  /\ session[t].row.priority = incidents[n].priority
        BY <2>1 DEF SessionOK, Attaches
      <3> HIDE DEF n
      <3> QED
        BY <3>1, <3>2 DEF Onward
    <2> QED
      BY <2>1 DEF SessionOK, Attaches
  <1>3. Transits(t)'
    <2> DEFINE n == session[t].incident
    <2>1. ASSUME session[t].pc \in {"transition", "approve"}
          PROVE  /\ session[t].since \in 0 .. Len(ledger'[n])
                 /\ \/ incidents'[n].status = session[t].loaded
                    \/ AssignedSince(ledger'[n], session[t].since, incidents'[n].status)
      <3>1. n \in DOMAIN incidents
        BY <2>1 DEF IInv, SessionsAreAboutIncidents, OfIncident
      <3>2. /\ session[t].since \in 0 .. Len(ledger[n])
            /\ \/ incidents[n].status = session[t].loaded
               \/ AssignedSince(ledger[n], session[t].since, incidents[n].status)
        BY <2>1 DEF SessionOK, Transits
      <3> HIDE DEF n
      <3> QED
        BY <3>1, <3>2, LoadedEarlier
    <2>2. session[t].pc \in {"validated", "transition"} =>
              session[t].target \in IncidentStatus /\ session[t].seen \notin Terminal
      BY DEF SessionOK, Transits
    <2> QED
      BY <2>1, <2>2, Zenon DEF Transits
  <1>4. Reads(t)'
    <2> DEFINE n == session[t].incident
               says == session[t].says
    <2>1. CASE session[t].pc \in Reporting
      <3>1. /\ n \in DOMAIN incidents
            /\ session[t].section \in DOMAIN SectionsBefore
            /\ DOMAIN says = SectionsBefore[session[t].section]
            /\ session[t].pc = "put" => session[t].section = "none"
            /\ session[t].section # "none" =>
                  Attests(ledger[n], Len(ledger[n]), says, session[t].section)
            /\ session[t].section = "none" =>
                  /\ says.attestation \in 0 .. Len(ledger[n])
                  /\ Attests(ledger[n], says.attestation, says, "none")
        BY <2>1 DEF SessionOK, Reads
      <3> HIDE DEF n, says
      <3>2. /\ n \in DOMAIN incidents' /\ IsList(ledger[n])
            /\ IsList(ledger'[n]) /\ Continues(ledger'[n], ledger[n])
        BY <3>1, LogsAreLists DEF Onward
      <3>3. session[t].section # "none" =>
                Attests(ledger'[n], Len(ledger'[n]), says, session[t].section)
        BY <3>1, <3>2, AttestsContinued, ContinuesLonger, ListFacts
      <3>4. session[t].section = "none" =>
                /\ says.attestation \in 0 .. Len(ledger'[n])
                /\ Attests(ledger'[n], says.attestation, says, "none")
        BY <3>1, <3>2, AttestsContinued, ContinuesLonger, ListFacts
      <3> QED
        BY <3>1, <3>2, <3>3, <3>4, Zenon DEF Reads, n, says
    <2> QED
      BY <2>1 DEF Reads
  <1> QED
    BY <1>1, <1>2, <1>3, <1>4 DEF SessionOK

LEMMA ReportsKept ==
    ASSUME Books, ReportsOK, Onward, reports' = reports
    PROVE  ReportsOK'
  <1> SUFFICES ASSUME NEW r \in DOMAIN reports PROVE ReportOK(r)'
    BY DEF ReportsOK
  <1> DEFINE n == reports[r].incident
             says == reports[r].says
  <1>1. /\ n \in DOMAIN incidents /\ says.attestation \in 0 .. Len(ledger[n])
        /\ Attests(ledger[n], says.attestation, says, "none")
    BY DEF ReportsOK, ReportOK
  <1> HIDE DEF n, says
  <1>2. /\ n \in DOMAIN incidents' /\ IsList(ledger[n])
        /\ IsList(ledger'[n]) /\ Continues(ledger'[n], ledger[n])
    BY <1>1, LogsAreLists DEF Onward
  <1>3. /\ says.attestation \in 0 .. Len(ledger'[n])
        /\ Attests(ledger'[n], says.attestation, says, "none")
    BY <1>1, <1>2, AttestsContinued, ContinuesLonger
  <1> QED
    BY <1>2, <1>3, Zenon DEF ReportOK, n, says

\* A session moves on while the others stay where they are.
LEMMA SessionMoves ==
    ASSUME IInv, Books, SessionsOK, Onward, NEW s \in DOMAIN session, NEW new,
           session' = [session EXCEPT ![s] = new], SessionOK(s)',
           new.pc \in Correlating =>
               \/ session[s].pc \in Correlating /\ new.alert = session[s].alert
               \/ new.alert \notin handled,
           \A t \in DOMAIN session :
               t # s /\ session[t].pc \in Correlating => linked'[session[t].alert] = 0
    PROVE  SessionsOK'
  <1>1. /\ DOMAIN session' = DOMAIN session /\ session'[s] = new
        /\ \A t \in DOMAIN session : t # s => session'[t] = session[t]
    OBVIOUS
  <1>2. ASSUME NEW t \in DOMAIN session PROVE SessionOK(t)'
    <2>1. CASE t # s
      <3>1. /\ SessionOK(t) /\ session'[t] = session[t]
            /\ session[t].pc \in Correlating => linked'[session[t].alert] = 0
        BY <1>1, <2>1 DEF SessionsOK
      <3> QED
        BY <3>1, OtherSession
    <2> QED
      BY <2>1
  <1>3. ASSUME NEW t \in DOMAIN session, t # s, new.pc \in Correlating,
               session[t].pc \in Correlating
        PROVE  new.alert # session[t].alert
    <2>1. session[t].alert \in handled
      BY <1>3 DEF SessionsOK, SessionOK, Correlates
    <2>2. CASE session[s].pc \in Correlating /\ new.alert = session[s].alert
      BY <1>3, <2>2 DEF SessionsOK, AlertsDiffer
    <2> QED
      BY <1>3, <2>1, <2>2
  <1>4. ASSUME NEW t \in DOMAIN session, NEW x \in DOMAIN session, t # x,
               session'[t].pc \in Correlating, session'[x].pc \in Correlating
        PROVE  session'[t].alert # session'[x].alert
    <2>1. CASE t # s /\ x # s
      BY <1>1, <1>4, <2>1 DEF SessionsOK, AlertsDiffer
    <2>2. CASE t = s
      BY <1>1, <1>3, <1>4, <2>2
    <2>3. CASE x = s
      BY <1>1, <1>3, <1>4, <2>3
    <2> QED
      BY <2>1, <2>2, <2>3
  <1>5. AlertsDiffer'
    BY <1>1, <1>4 DEF AlertsDiffer
  <1> QED
    BY <1>1, <1>2, <1>5 DEF SessionsOK

\* Of no concern to the others.
Plain(new) ==
    new.pc \notin Correlating \cup Reporting
                      \cup {"found", "attach", "validated", "transition", "approve"}

LEMMA PlainSession ==
    ASSUME NEW s \in DOMAIN session, NEW new, session' = [session EXCEPT ![s] = new], Plain(new)
    PROVE  SessionOK(s)' /\ new.pc \notin Correlating
  <1>1. session'[s] = new
    OBVIOUS
  <1>2. /\ session'[s].pc \notin Correlating /\ session'[s].pc \notin Reporting
        /\ session'[s].pc \notin {"found", "attach", "validated", "transition", "approve"}
    BY <1>1 DEF Plain
  <1>3. Correlates(s)'
    BY <1>2 DEF Correlates
  <1>4. Attaches(s)' /\ Transits(s)'
    BY <1>2 DEF Attaches, Transits
  <1>5. Reads(s)'
    BY <1>2 DEF Reads
  <1> QED
    BY <1>1, <1>2, <1>3, <1>4, <1>5 DEF SessionOK

LEMMA IdleIsPlain == Plain(Idle)
BY DEF Plain, Idle, Correlating, Reporting

-----------------------------------------------------------------------------
\* Steps that commit nothing

Quiet ==
    /\ UNCHANGED <<incidents, linked, decisions, ledger, reports>>
    /\ handled \subseteq handled'

LEMMA QuietKeeps ==
    ASSUME Books, ReportsOK, Quiet
    PROVE  Books' /\ ReportsOK' /\ Onward
  <1>1. \A n : BooksOf(n)' <=> BooksOf(n)
    BY DEF BooksOf, Quiet, DecidedTypes
  <1>2. Books'
    BY <1>1 DEF Books, Quiet
  <1>3. \A m \in DOMAIN incidents : IsList(ledger'[m]) /\ Continues(ledger'[m], ledger[m])
    BY LogsAreLists, ContinuesItself DEF Quiet
  <1>4. Onward
    BY <1>3 DEF Onward, Quiet
  <1> QED
    BY <1>2, <1>4, ReportsKept DEF Quiet

LEMMA QuietStep ==
    ASSUME IInv, BInv, Quiet, NEW s \in DOMAIN session, NEW new,
           session' = [session EXCEPT ![s] = new], SessionOK(s)',
           new.pc \in Correlating =>
               \/ session[s].pc \in Correlating /\ new.alert = session[s].alert
               \/ new.alert \notin handled
    PROVE  BInv'
  <1>1. Books' /\ ReportsOK' /\ Onward
    BY QuietKeeps DEF BInv
  <1>2. \A t \in DOMAIN session :
            t # s /\ session[t].pc \in Correlating => linked'[session[t].alert] = 0
    BY DEF BInv, SessionsOK, SessionOK, Correlates, Quiet
  <1>3. SessionsOK'
    BY <1>1, <1>2, SessionMoves DEF BInv
  <1> QED
    BY <1>1, <1>3 DEF BInv

LEMMA PlainStep ==
    ASSUME IInv, BInv, Quiet, NEW s \in DOMAIN session, NEW new,
           session' = [session EXCEPT ![s] = new], Plain(new)
    PROVE  BInv'
BY PlainSession, QuietStep

-----------------------------------------------------------------------------
\* Steps of Incidents that only read

LEMMA FindStep ==
    ASSUME IInv, BInv, NEW w \in Worker, NEW a \in Alert, Find(w, a), UNCHANGED reportVars
    PROVE  BInv'
  <1>1. w \in DOMAIN session /\ Quiet /\ a \in handled' /\ a \notin handled
    BY DEF IInv, Find, Quiet, reportVars
  <1>2. linked'[a] = 0
    BY <1>1 DEF BInv, Books, Quiet
  <1>3. CASE session' = [session EXCEPT ![w] = [pc |-> "none found", alert |-> a]]
    <2> DEFINE new == [pc |-> "none found", alert |-> a]
    <2>1. /\ new.pc = "none found" /\ new.alert = a
      OBVIOUS
    <2> HIDE DEF new
    <2>2. session' = [session EXCEPT ![w] = new] /\ session'[w] = new
      BY <1>1, <1>3 DEF new
    <2>3. SessionOK(w)'
      BY <1>1, <1>2, <2>1, <2>2 DEF SessionOK, Correlates, Attaches, Transits, Reads, Reporting
    <2> QED
      BY <1>1, <2>1, <2>2, <2>3, QuietStep
  <1>4. ASSUME NEW n \in OpenIncidents(KeyOf[a]),
               session' = [session EXCEPT ![w] =
                   [pc |-> "found", alert |-> a, incident |-> n, score |-> incidents[n].score]]
        PROVE  BInv'
    <2> DEFINE new == [pc |-> "found", alert |-> a, incident |-> n, score |-> incidents[n].score]
    <2>1. new.pc = "found" /\ new.alert = a /\ new.score = incidents[n].score
      OBVIOUS
    <2> HIDE DEF new
    <2>2. session' = [session EXCEPT ![w] = new] /\ session'[w] = new
      BY <1>1, <1>4 DEF new
    <2>3. new.score \in Int
      <3>1. n \in DOMAIN incidents
        BY DEF OpenIncidents
      <3>2. incidents[n].score \in 0 .. 1000
        <4>1. incidents[n] \in RowType
          BY <3>1 DEF BInv, Books, BooksOf
        <4> QED
          BY <4>1, Zenon DEF RowType
      <3> QED
        BY <2>1, <3>2, SMT
    <2>4. SessionOK(w)'
      BY <1>1, <1>2, <2>1, <2>2, <2>3
         DEF SessionOK, Correlates, Attaches, Transits, Reads, Reporting
    <2> QED
      BY <1>1, <2>1, <2>2, <2>4, QuietStep
  <1> QED
    BY <1>3, <1>4 DEF Find

LEMMA GenerateReferenceIdStep ==
    ASSUME IInv, BInv, NEW w \in Worker, GenerateReferenceId(w), UNCHANGED reportVars
    PROVE  BInv'
  <1> DEFINE new == [pc |-> "create", alert |-> session[w].alert, ref |-> Len(incidents) + 1]
  <1>1. w \in DOMAIN session /\ Quiet /\ session[w].pc = "none found"
    BY DEF IInv, GenerateReferenceId, Quiet, reportVars
  <1>2. session' = [session EXCEPT ![w] = new] /\ session'[w] = new
    BY <1>1 DEF GenerateReferenceId
  <1>3. new.pc = "create" /\ new.alert = session[w].alert
    OBVIOUS
  <1> HIDE DEF new
  <1>4. /\ session[w].alert \in Alert /\ session[w].alert \in handled'
        /\ linked'[session[w].alert] = 0
    BY <1>1 DEF BInv, SessionsOK, SessionOK, Correlates, Correlating, Quiet
  <1>5. SessionOK(w)'
    BY <1>2, <1>3, <1>4 DEF SessionOK, Correlates, Attaches, Transits, Reads, Reporting
  <1>6. session[w].pc \in Correlating
    BY <1>1 DEF Correlating
  <1> QED
    BY <1>1, <1>2, <1>3, <1>5, <1>6, QuietStep

\* The alerts of an incident can be counted.
LEMMA AlertsOfIncident ==
    ASSUME IInv, Books, NEW n \in DOMAIN incidents
    PROVE  Cardinality({b \in Alert : linked[b] = n}) + 1 \in Nat \ {0}
  <1>1. {b \in Alert : linked[b] = n} \subseteq {b \in Alert : linked[b] # 0}
    BY TableLength
  <1>2. IsFiniteSet({b \in Alert : linked[b] = n})
    BY <1>1, FS_Subset DEF Books
  <1>3. Cardinality({b \in Alert : linked[b] = n}) \in Nat
    BY <1>2, FS_CardinalityType
  <1> QED
    BY <1>3

LEMMA RescoreStep ==
    ASSUME IInv, BInv, NEW w \in Worker, Rescore(w), UNCHANGED reportVars
    PROVE  BInv'
  <1> DEFINE n == session[w].incident
             a == session[w].alert
             alerts == Cardinality({b \in Alert : linked[b] = n}) + 1
             row == [score |-> incidents[n].score, priority |-> incidents[n].priority,
                     latest |-> incidents[n].latest]
             new(score) == [pc |-> "attach", alert |-> a, incident |-> n, score |-> score,
                            row |-> row]
  <1>1. w \in DOMAIN session /\ Quiet /\ session[w].pc = "found"
    BY DEF IInv, Rescore, Quiet, reportVars
  <1>2. PICK score \in Rescores(a, session[w].score, alerts) :
            session' = [session EXCEPT ![w] = new(score)]
    BY Zenon DEF Rescore
  <1>3. n \in DOMAIN incidents
    BY <1>1 DEF IInv, SessionsAreAboutIncidents, OfIncident
  <1>4. /\ a \in Alert /\ a \in handled' /\ linked'[a] = 0 /\ session[w].score \in Int
    <2>1. SessionOK(w)
      BY <1>1 DEF BInv, SessionsOK
    <2>2. a \in Alert /\ a \in handled /\ linked[a] = 0
      BY <1>1, <2>1 DEF SessionOK, Correlates, Correlating
    <2>3. session[w].score \in Int
      BY <1>1, <2>1 DEF SessionOK, Attaches
    <2> HIDE DEF a
    <2> QED
      BY <1>1, <2>2, <2>3 DEF Quiet
  <1>5. alerts \in Nat \ {0}
    BY <1>3, AlertsOfIncident DEF BInv
  <1> HIDE DEF alerts
  <1>6. score \in Int /\ 0 <= score /\ score <= 1000 /\ Covers(score, a)
    BY <1>4, <1>5, RescoresCover
  <1>7. score \in 0 .. 1000
    BY <1>6, SMT
  <1>8. /\ new(score).pc = "attach" /\ new(score).alert = a /\ new(score).incident = n
        /\ new(score).score = score /\ new(score).row = row
        /\ row.latest = incidents[n].latest /\ row.score = incidents[n].score
        /\ row.priority = incidents[n].priority
    OBVIOUS
  <1>9. incidents[n].latest \in Alert /\ linked[incidents[n].latest] = n
    BY <1>3 DEF BInv, Books, BooksOf, RowType
  <1> DEFINE x == new(score)
  <1>10. session' = [session EXCEPT ![w] = x] /\ session'[w] = x
    BY <1>1, <1>2
  <1>11. /\ x.pc = "attach" /\ x.alert = a /\ x.incident = n /\ x.score = score /\ x.row = row
    BY <1>8
  <1> HIDE DEF new, row, n, a, x
  <1>12. Correlates(w)'
    BY <1>4, <1>10, <1>11 DEF Correlates
  <1>13. incidents' = incidents /\ linked' = linked
    BY <1>1 DEF Quiet
  <1>14. /\ row.latest \in Alert /\ linked'[row.latest] = n /\ row.score = incidents'[n].score
         /\ row.priority = incidents'[n].priority
    BY <1>8, <1>9, <1>13
  <1> DEFINE Scale == 0 .. 1000
  <1>15. Attaches(w)'
    <2>1. score \in Scale
      BY <1>7
    <2>2. session'[w].score \in Scale /\ Covers(session'[w].score, session'[w].alert)
      <3> HIDE DEF Scale
      <3> QED
        BY <1>6, <1>10, <1>11, <2>1
    <2>3. /\ session'[w].pc = "attach" /\ session'[w].incident = n /\ session'[w].row = row
      BY <1>10, <1>11
    <2> QED
      BY <1>14, <2>2, <2>3 DEF Attaches
  <1>16. SessionOK(w)'
    BY <1>10, <1>11, <1>12, <1>15 DEF SessionOK, Transits, Reads, Reporting
  <1>17. session[w].pc \in Correlating /\ x.alert = session[w].alert
    BY <1>1, <1>11 DEF Correlating, a
  <1> QED
    BY <1>1, <1>10, <1>16, <1>17, QuietStep

LEMMA StepsBack ==
    ASSUME IInv, BInv, NEW s \in DOMAIN session, RollBack(s), UNCHANGED reportVars
    PROVE  BInv'
  <1>1. Quiet /\ session' = [session EXCEPT ![s] = Idle]
    BY DEF RollBack, Quiet, reportVars
  <1> QED
    BY <1>1, IdleIsPlain, PlainStep

LEMMA RequestTransitionStep ==
    ASSUME IInv, BInv, NEW u \in Analyst, NEW n \in DOMAIN incidents, RequestTransition(u, n),
           UNCHANGED reportVars
    PROVE  BInv'
  <1>1. PICK target \in ValidTransitions[incidents[n].status] :
            Begin(u, [pc |-> "validated", incident |-> n, seen |-> incidents[n].status,
                      target |-> target])
    BY DEF RequestTransition
  <1> DEFINE new == [pc |-> "validated", incident |-> n, seen |-> incidents[n].status,
                     target |-> target]
  <1>2. u \in DOMAIN session /\ Quiet /\ session' = [session EXCEPT ![u] = new]
    BY <1>1 DEF IInv, Begin, Quiet, reportVars
  <1>3. incidents[n].status \in IncidentStatus
    BY DEF BInv, Books, BooksOf, RowType
  <1>4. target \in IncidentStatus /\ incidents[n].status \notin Terminal
    BY <1>1, <1>3 DEF ValidTransitions, IncidentStatus, Terminal
  <1>5. new.pc = "validated" /\ new.seen = incidents[n].status /\ new.target = target
    OBVIOUS
  <1> HIDE DEF new
  <1>6. session'[u] = new
    BY <1>2
  <1>7. SessionOK(u)'
    BY <1>4, <1>5, <1>6
       DEF SessionOK, Correlates, Attaches, Transits, Reads, Reporting, Correlating
  <1>8. new.pc \notin Correlating
    BY <1>5 DEF Correlating
  <1> QED
    BY <1>2, <1>7, <1>8, QuietStep

\* What has just been loaded.
LEMMA LoadedNow ==
    ASSUME BInv, Quiet, NEW n \in DOMAIN incidents
    PROVE  /\ Len(ledger[n]) \in 0 .. Len(ledger'[n])
           /\ incidents'[n].status = incidents[n].status
  <1>1. IsList(ledger[n])
    BY LogsAreLists DEF BInv
  <1> QED
    BY <1>1, ListFacts DEF Quiet

LEMMA LoadForTransitionStep ==
    ASSUME IInv, BInv, NEW u \in Analyst, LoadForTransition(u), UNCHANGED reportVars
    PROVE  BInv'
  <1> DEFINE s == session[u]
             n == s.incident
             new == [pc |-> "transition", incident |-> n, seen |-> s.seen, target |-> s.target,
                     loaded |-> incidents[n].status, since |-> Len(ledger[n])]
  <1>1. u \in DOMAIN session /\ Quiet /\ s.pc = "validated" /\ session' = [session EXCEPT ![u] = new]
    BY DEF IInv, LoadForTransition, Quiet, reportVars
  <1>2. s.target \in IncidentStatus /\ s.seen \notin Terminal
    BY <1>1 DEF BInv, SessionsOK, SessionOK, Transits
  <1>3. n \in DOMAIN incidents
    BY <1>1 DEF IInv, SessionsAreAboutIncidents, OfIncident
  <1>4. /\ new.pc = "transition" /\ new.incident = n /\ new.seen = s.seen /\ new.target = s.target
        /\ new.loaded = incidents[n].status /\ new.since = Len(ledger[n])
    OBVIOUS
  <1> HIDE DEF new, n
  <1>5. session'[u] = new
    BY <1>1
  <1>6. Transits(u)'
    BY <1>1, <1>2, <1>3, <1>4, <1>5, LoadedNow DEF Transits
  <1>7. SessionOK(u)'
    BY <1>4, <1>5, <1>6 DEF SessionOK, Correlates, Attaches, Reads, Reporting, Correlating
  <1>8. new.pc \notin Correlating
    BY <1>4 DEF Correlating
  <1> QED
    BY <1>1, <1>7, <1>8, QuietStep

LEMMA RequestApprovalStep ==
    ASSUME IInv, BInv, NEW u \in Analyst, NEW n \in DOMAIN incidents, RequestApproval(u, n),
           UNCHANGED reportVars
    PROVE  BInv'
  <1>1. PICK type : session' = [session EXCEPT ![u] =
            [pc |-> "approve", incident |-> n, action |-> type, loaded |-> incidents[n].status,
             since |-> Len(ledger[n])]]
    BY Zenon DEF RequestApproval, Begin
  <1> DEFINE new == [pc |-> "approve", incident |-> n, action |-> type,
                     loaded |-> incidents[n].status, since |-> Len(ledger[n])]
  <1>2. u \in DOMAIN session /\ Quiet
    BY DEF IInv, RequestApproval, Begin, Quiet, reportVars
  <1>3. /\ new.pc = "approve" /\ new.incident = n
        /\ new.loaded = incidents[n].status /\ new.since = Len(ledger[n])
    OBVIOUS
  <1> HIDE DEF new
  <1>4. session' = [session EXCEPT ![u] = new] /\ session'[u] = new
    BY <1>1, <1>2 DEF new
  <1>5. Transits(u)'
    BY <1>2, <1>3, <1>4, LoadedNow DEF Transits
  <1>6. SessionOK(u)'
    BY <1>3, <1>4, <1>5 DEF SessionOK, Correlates, Attaches, Reads, Reporting, Correlating
  <1>7. new.pc \notin Correlating
    BY <1>3 DEF Correlating
  <1> QED
    BY <1>2, <1>4, <1>6, <1>7, QuietStep

LEMMA AgeStep ==
    ASSUME IInv, BInv, NEW n \in DOMAIN incidents, Age(n), UNCHANGED reportVars
    PROVE  BInv'
  <1>1. Quiet /\ session' = session
    BY DEF Age, Quiet, reportVars
  <1>2. Books' /\ ReportsOK' /\ Onward
    BY <1>1, QuietKeeps DEF BInv
  <1>3. ASSUME NEW s \in DOMAIN session PROVE SessionOK(s)'
    <2>1. SessionOK(s) /\ session'[s] = session[s]
      BY <1>1 DEF BInv, SessionsOK
    <2>2. session[s].pc \in Correlating => linked'[session[s].alert] = 0
      BY <1>1, <2>1 DEF SessionOK, Correlates, Quiet
    <2> QED
      BY <1>2, <2>1, <2>2, OtherSession DEF BInv
  <1> QED
    BY <1>1, <1>2, <1>3 DEF BInv, SessionsOK, AlertsDiffer

-----------------------------------------------------------------------------
\* A report is put together

LEMMA BeginReportStep ==
    ASSUME IInv, BInv, NEW u \in Analyst, NEW n \in DOMAIN incidents, NEW r \in Report,
           BeginReport(u, n, r)
    PROVE  BInv'
  <1> DEFINE new == [pc |-> "report", report |-> r, incident |-> n, section |-> NextSection.row,
                     says |-> [status |-> incidents[n].status]]
  <1>1. u \in DOMAIN session /\ Quiet /\ session' = [session EXCEPT ![u] = new]
    BY DEF IInv, BeginReport, Begin, Quiet, reportVars
  <1>2. /\ new.pc = "report" /\ new.incident = n /\ new.section = "alerts"
        /\ DOMAIN new.says = {"status"} /\ new.says.status = incidents[n].status
    BY DEF NextSection
  <1> HIDE DEF new
  <1>3. session'[u] = new
    BY <1>1
  <1>4. Assigned(ledger[n], Len(ledger[n]), incidents[n].status)
    BY DEF BInv, Books, BooksOf, Accounts
  <1>5. Attests(ledger[n], Len(ledger[n]), new.says, "alerts")
    BY <1>2, <1>4 DEF Attests
  <1>6. SectionsBefore.alerts = {"status"} /\ "alerts" \in DOMAIN SectionsBefore
    BY DEF SectionsBefore
  <1>7. Reads(u)'
    BY <1>1, <1>2, <1>3, <1>5, <1>6 DEF Reads, Quiet
  <1>8. SessionOK(u)' /\ new.pc \notin Correlating
    BY <1>2, <1>3, <1>7 DEF SessionOK, Correlates, Attaches, Transits, Correlating
  <1> QED
    BY <1>1, <1>8, QuietStep

-----------------------------------------------------------------------------
\* What a report reads, section by section

LEMMA DecidedDomain ==
    ASSUME NEW n
    PROVE  DOMAIN Decided(n) = DecidedTypes(n)
BY DEF Decided, DecidedTypes

\* Section by section, what is read is accounted for.
LEMMA SectionAttested ==
    ASSUME Books, NEW n \in DOMAIN incidents, NEW section \in {"alerts", "actions", "attestation"},
           NEW says, DOMAIN says = SectionsBefore[section],
           Attests(ledger[n], Len(ledger[n]), says, section),
           NEW new, new = [x \in DOMAIN says \cup {section} |->
                              IF x = section THEN Section(n, section) ELSE says[x]]
    PROVE  /\ NextSection[section] \in {"actions", "attestation", "none"}
           /\ NextSection[section] \in DOMAIN SectionsBefore
           /\ DOMAIN new = SectionsBefore[NextSection[section]]
           /\ Attests(ledger[n], Len(ledger[n]), new, NextSection[section])
           /\ NextSection[section] = "none" => new.attestation = Len(ledger[n])
  <1> DEFINE log == ledger[n]
             m == Len(ledger[n])
  <1>1. /\ \A a \in Alert : linked[a] = n => Tells(log, m, AlertEntry, a)
        /\ \A t \in DecidedTypes(n) : Tells(log, m, DecisionEntry, t)
    BY DEF Books, BooksOf, Accounts
  <1>2. Assigned(log, m, says.status)
    BY DEF Attests
  <1> HIDE DEF log, m
  <1>3. CASE section = "alerts"
    <2>1. /\ NextSection[section] = "actions" /\ DOMAIN says = {"status"}
          /\ SectionsBefore["actions"] = {"status", "alerts"}
          /\ "actions" \in DOMAIN SectionsBefore
      BY <1>3 DEF NextSection, SectionsBefore
    <2>2. /\ DOMAIN new = {"status", "alerts"} /\ new.status = says.status
          /\ new.alerts = Section(n, "alerts")
      BY <1>3, <2>1
    <2>3. Section(n, "alerts") = {a \in Alert : linked[a] = n}
      BY DEF Section
    <2>4. Attests(log, m, new, "actions")
      BY <1>1, <1>2, <2>2, <2>3 DEF Attests
    <2> QED
      BY <2>1, <2>2, <2>4 DEF log, m
  <1>4. CASE section = "actions"
    <2>1. /\ NextSection[section] = "attestation" /\ DOMAIN says = {"status", "alerts"}
          /\ SectionsBefore["attestation"] = {"status", "alerts", "actions"}
          /\ "attestation" \in DOMAIN SectionsBefore
      BY <1>4 DEF NextSection, SectionsBefore
    <2>2. /\ DOMAIN new = {"status", "alerts", "actions"} /\ new.status = says.status
          /\ new.alerts = says.alerts /\ new.actions = Section(n, "actions")
      BY <1>4, <2>1
    <2>3. Section(n, "actions") = DecidedTypes(n)
      BY DecidedDomain DEF Section
    <2>4. \A a \in says.alerts : Tells(log, m, AlertEntry, a)
      BY <1>4 DEF Attests, log, m
    <2>5. Attests(log, m, new, "attestation")
      BY <1>1, <1>2, <2>2, <2>3, <2>4 DEF Attests
    <2> QED
      BY <2>1, <2>2, <2>5 DEF log, m
  <1>5. CASE section = "attestation"
    <2>1. /\ NextSection[section] = "none" /\ DOMAIN says = {"status", "alerts", "actions"}
          /\ SectionsBefore["none"] = {"status", "alerts", "actions", "attestation"}
          /\ "none" \in DOMAIN SectionsBefore
      BY <1>5 DEF NextSection, SectionsBefore
    <2>2. /\ DOMAIN new = {"status", "alerts", "actions", "attestation"}
          /\ new.status = says.status /\ new.alerts = says.alerts /\ new.actions = says.actions
          /\ new.attestation = Section(n, "attestation")
      BY <1>5, <2>1
    <2>3. Section(n, "attestation") = Len(ledger[n])
      BY DEF Section
    <2>4. /\ \A a \in says.alerts : Tells(log, m, AlertEntry, a)
          /\ \A t \in says.actions : Tells(log, m, DecisionEntry, t)
      BY <1>5 DEF Attests, log, m
    <2>5. Attests(log, m, new, "none")
      BY <1>2, <2>2, <2>4 DEF Attests
    <2> QED
      BY <2>1, <2>2, <2>3, <2>5 DEF log, m
  <1> QED
    BY <1>3, <1>4, <1>5

LEMMA ReadSectionStep ==
    ASSUME IInv, PutSomewhere, BInv, NEW u \in Analyst, ReadSection(u)
    PROVE  BInv'
  <1> DEFINE s == session[u]
             n == s.incident
             says == [x \in DOMAIN s.says \cup {s.section} |->
                         IF x = s.section THEN Section(s.incident, s.section) ELSE s.says[x]]
             section == NextSection[s.section]
             new == [s EXCEPT !.section = section, !.says = says]
  <1>1. /\ u \in DOMAIN session /\ Quiet /\ s.pc = "report" /\ s.section # "none"
        /\ session' = [session EXCEPT ![u].section = section, ![u].says = says]
    BY Zenon DEF IInv, ReadSection, Quiet, reportVars
  <1>2. IsReporting(s)
    BY <1>1 DEF PutSomewhere, Reporting
  <1>3. /\ n \in DOMAIN incidents /\ s.section \in DOMAIN SectionsBefore
        /\ DOMAIN s.says = SectionsBefore[s.section]
        /\ Attests(ledger[n], Len(ledger[n]), s.says, s.section)
    BY <1>1 DEF BInv, SessionsOK, SessionOK, Reads, Reporting
  <1>4. s.section \in {"alerts", "actions", "attestation"}
    BY <1>1, <1>3 DEF SectionsBefore
  <1>5. /\ section \in {"actions", "attestation", "none"} /\ section \in DOMAIN SectionsBefore
        /\ DOMAIN says = SectionsBefore[section]
        /\ Attests(ledger[n], Len(ledger[n]), says, section)
        /\ section = "none" => says.attestation = Len(ledger[n])
    BY <1>3, <1>4, SectionAttested DEF BInv
  <1> HIDE DEF says, section, s
  <1>6. session' = [session EXCEPT ![u] = new]
    BY <1>1 DEF s
  <1>7. /\ new \in [pc : Reporting, report : Report, incident : {n}, section : {section},
                    says : {says}]
        /\ new.pc = "report"
    BY <1>1, <1>2 DEF IsReporting
  <1> HIDE DEF new
  <1>8. new.pc = "report" /\ new.incident = n /\ new.section = section /\ new.says = says
    BY <1>7
  <1>9. session'[u] = new
    BY <1>1, <1>6
  <1>10. Len(ledger[n]) \in 0 .. Len(ledger[n])
    BY <1>3, LogsAreLists, ListFacts DEF BInv
  <1> HIDE DEF n
  <1>11. Reads(u)'
    BY <1>1, <1>3, <1>5, <1>8, <1>9, <1>10 DEF Reads, Quiet
  <1>12. SessionOK(u)' /\ new.pc \notin Correlating
    BY <1>8, <1>9, <1>11 DEF SessionOK, Correlates, Attaches, Transits, Correlating
  <1> QED
    BY <1>1, <1>6, <1>12, QuietStep

LEMMA PutObjectStep ==
    ASSUME IInv, PutSomewhere, BInv, NEW u \in Analyst, PutObject(u)
    PROVE  BInv'
  <1> DEFINE s == session[u]
             n == s.incident
             new == [s EXCEPT !.pc = "put"]
  <1>1. /\ u \in DOMAIN session /\ Quiet /\ s.pc = "report" /\ s.section = "none"
        /\ session' = [session EXCEPT ![u].pc = "put"]
    BY Zenon DEF IInv, PutObject, Quiet
  <1>2. IsReporting(s)
    BY <1>1 DEF PutSomewhere, Reporting
  <1>3. /\ n \in DOMAIN incidents /\ s.section \in DOMAIN SectionsBefore
        /\ DOMAIN s.says = SectionsBefore[s.section]
        /\ s.says.attestation \in 0 .. Len(ledger[n])
        /\ Attests(ledger[n], s.says.attestation, s.says, "none")
    BY <1>1 DEF BInv, SessionsOK, SessionOK, Reads, Reporting
  <1>4. session' = [session EXCEPT ![u] = new]
    BY <1>1
  <1> HIDE DEF s
  <1>5. new \in [pc : {"put"}, report : {s.report}, incident : {n}, section : {s.section},
                 says : {s.says}]
    BY <1>2 DEF IsReporting
  <1> HIDE DEF new
  <1>6. new.pc = "put" /\ new.incident = n /\ new.section = s.section /\ new.says = s.says
    BY <1>5
  <1>7. session'[u] = new
    BY <1>1, <1>4
  <1> HIDE DEF n
  <1>8. Reads(u)'
    BY <1>1, <1>3, <1>6, <1>7 DEF Reads, Quiet
  <1>9. SessionOK(u)' /\ new.pc \notin Correlating
    BY <1>6, <1>7, <1>8 DEF SessionOK, Correlates, Attaches, Transits, Correlating
  <1> QED
    BY <1>1, <1>4, <1>9, QuietStep

-----------------------------------------------------------------------------
\* Steps that commit

\* At most one alert is attached, to the incident that is written.
Links(n) ==
    \/ linked' = linked
    \/ \E a \in Alert : linked[a] = 0 /\ a \in handled /\ linked' = [linked EXCEPT ![a] = n]

LEMMA LinksFacts ==
    ASSUME Books, NEW n, Links(n)
    PROVE  /\ \A a \in Alert : linked'[a] = linked[a]
                                 \/ (linked[a] = 0 /\ linked'[a] = n /\ a \in handled)
           /\ IsFiniteSet({a \in Alert : linked'[a] # 0})
  <1>0. DOMAIN linked = Alert
    BY DEF Books
  <1>1. CASE linked' = linked
    BY <1>1 DEF Books
  <1>2. ASSUME NEW b \in Alert, linked[b] = 0, b \in handled, linked' = [linked EXCEPT ![b] = n]
        PROVE  /\ \A a \in Alert : linked'[a] = linked[a]
                                     \/ (linked[a] = 0 /\ linked'[a] = n /\ a \in handled)
               /\ IsFiniteSet({a \in Alert : linked'[a] # 0})
    <2>1. \A a \in Alert : linked'[a] = IF a = b THEN n ELSE linked[a]
      BY <1>0, <1>2
    <2> DEFINE S == {a \in Alert : linked[a] # 0}
               T == {a \in Alert : linked'[a] # 0}
    <2>2. T \subseteq S \cup {b}
      BY <2>1
    <2>3. IsFiniteSet(S)
      BY DEF Books
    <2> HIDE DEF S, T
    <2>4. IsFiniteSet(S \cup {b})
      BY <2>3, FS_AddElement
    <2>5. IsFiniteSet(T)
      BY <2>2, <2>4, FS_Subset
    <2> QED
      BY <1>2, <2>1, <2>5 DEF T
  <1> QED
    BY <1>1, <1>2 DEF Links

LEMMA OthersKept ==
    ASSUME IInv, Books, NEW n, Writes(n), Links(n), NEW m \in DOMAIN incidents, m # n
    PROVE  BooksOf(m)'
  <1>1. /\ incidents'[m] = incidents[m] /\ ledger'[m] = ledger[m]
        /\ DecidedTypes(m)' = DecidedTypes(m)
    BY DEF Writes
  <1>2. m # 0 /\ BooksOf(m)
    BY TableLength DEF Books
  <1>3. incidents[m].latest \in Alert /\ linked[incidents[m].latest] = m
    BY <1>2 DEF BooksOf, RowType
  <1>4. linked'[incidents'[m].latest] = m
    BY <1>1, <1>2, <1>3, LinksFacts
  <1>5. \A a \in Alert : linked'[a] = m => linked[a] = m
    BY <1>2, LinksFacts
  <1>6. \A a \in Alert : linked'[a] = m => Tells(ledger'[m], Len(ledger'[m]), AlertEntry, a)
    BY <1>1, <1>2, <1>5 DEF BooksOf
  <1> QED
    BY <1>1, <1>2, <1>4, <1>6 DEF BooksOf

LEMMA CommitBooks ==
    ASSUME IInv, IInv', Books, NEW n \in 1 .. Len(incidents) + 1, Writes(n), Links(n),
           handled' = handled, BooksOf(n)',
           n \in DOMAIN incidents =>
               /\ IsList(ledger'[n]) /\ Continues(ledger'[n], ledger[n])
               /\ \/ /\ incidents'[n].latest = incidents[n].latest
                     /\ incidents'[n].score = incidents[n].score
                     /\ incidents'[n].priority = incidents[n].priority
                  \/ linked[incidents'[n].latest] = 0
               /\ \/ incidents'[n].status = incidents[n].status
                  \/ AssignedSince(ledger'[n], Len(ledger[n]), incidents'[n].status)
    PROVE  Books' /\ Onward
  <1>1. /\ DOMAIN incidents = 1 .. Len(incidents) /\ Len(incidents) \in Nat
        /\ DOMAIN incidents' = DOMAIN incidents \cup {n}
        /\ Len(incidents') \in Nat /\ Len(incidents) <= Len(incidents')
    BY TableLength DEF Writes
  <1>2. DOMAIN incidents' = 1 .. Len(incidents')
    BY TableDomain DEF IInv
  <1>3. linked' \in [Alert -> 0 .. Len(incidents')]
    <2>1. linked \in [Alert -> 0 .. Len(incidents')]
      BY <1>1 DEF Books
    <2>2. n \in 0 .. Len(incidents')
      BY <1>1, <1>2
    <2> QED
      BY <2>1, <2>2 DEF Links
  <1>4. IsFiniteSet({a \in Alert : linked'[a] # 0})
    BY LinksFacts
  <1>5. \A a \in Alert : linked'[a] # 0 => a \in handled'
    BY LinksFacts DEF Books
  <1>6. ASSUME NEW m \in DOMAIN incidents' PROVE BooksOf(m)'
    <2>1. CASE m = n
      BY <2>1
    <2>2. CASE m # n
      BY <1>1, <2>2, OthersKept
    <2> QED
      BY <2>1, <2>2
  <1>7. Books'
    BY <1>3, <1>4, <1>5, <1>6 DEF Books, Writes
  <1>8. ASSUME NEW m \in DOMAIN incidents
        PROVE  /\ IsList(ledger'[m]) /\ Continues(ledger'[m], ledger[m])
               /\ \/ /\ incidents'[m].latest = incidents[m].latest
                     /\ incidents'[m].score = incidents[m].score
                     /\ incidents'[m].priority = incidents[m].priority
                  \/ linked[incidents'[m].latest] = 0
               /\ \/ incidents'[m].status = incidents[m].status
                  \/ AssignedSince(ledger'[m], Len(ledger[m]), incidents'[m].status)
    <2>1. CASE m = n
      BY <2>1
    <2>2. CASE m # n
      BY <2>2, LogsAreLists, ContinuesItself DEF Writes
    <2> QED
      BY <2>1, <2>2
  <1>9. \A a \in Alert : linked[a] # 0 => linked'[a] = linked[a]
    BY LinksFacts
  <1>10. Onward
    BY <1>1, <1>8, <1>9 DEF Onward
  <1> QED
    BY <1>7, <1>10

\* The commit of a session that goes back to rest.
LEMMA CommitStep ==
    ASSUME IInv, BInv, Books', Onward, UNCHANGED reports, NEW s \in DOMAIN session,
           session' = [session EXCEPT ![s] = Idle],
           \/ linked' = linked
           \/ session[s].pc \in Correlating /\ \E n : linked' = [linked EXCEPT ![session[s].alert] = n]
    PROVE  BInv'
  <1>1. Idle.pc \notin Correlating
    BY DEF Idle, Correlating
  <1>2. ASSUME NEW t \in DOMAIN session, t # s, session[t].pc \in Correlating
        PROVE  linked'[session[t].alert] = 0
    <2>1. session[t].alert \in Alert /\ linked[session[t].alert] = 0
      BY <1>2 DEF BInv, SessionsOK, SessionOK, Correlates
    <2>0. DOMAIN linked = Alert
      BY DEF BInv, Books
    <2>2. session[s].pc \in Correlating => session[t].alert # session[s].alert
      BY <1>2 DEF BInv, SessionsOK, AlertsDiffer
    <2>3. CASE linked' = linked
      BY <2>1, <2>3
    <2>4. ASSUME NEW n, session[s].pc \in Correlating,
                 linked' = [linked EXCEPT ![session[s].alert] = n]
          PROVE  linked'[session[t].alert] = 0
      BY <2>0, <2>1, <2>2, <2>4
    <2> QED
      BY <2>3, <2>4
  <1>3. SessionOK(s)'
    BY IdleIsPlain, PlainSession
  <1>4. SessionsOK'
    BY <1>1, <1>2, <1>3, SessionMoves DEF BInv
  <1> QED
    BY <1>4, ReportsKept DEF BInv

-----------------------------------------------------------------------------
\* The first alert of an incident

LEMMA FirstEntry ==
    ASSUME NEW a, NEW decided, DOMAIN decided = {}, NEW e, e = Entry("INCIDENT_CREATED", a)
    PROVE  /\ SoundDraft([status |-> "TRIAGED", decided |-> decided, since |-> 0, log |-> <<e>>])
           /\ Tells(<<e>>, 1, AlertEntry, a)
  <1>1. /\ IsList(<<e>>) /\ Len(<<e>>) = 1 /\ <<e>>[1] = e
    <2>1. <<e>> \in Seq({e}) /\ Len(<<e>>) = 1 /\ <<e>>[1] = e
      OBVIOUS
    <2> QED
      BY <2>1 DEF IsList
  <1>2. e.type = "INCIDENT_CREATED" /\ e.about = a /\ StatusOf(e) = "TRIAGED"
    BY EntryFields, StatusOfEntries
  <1> DEFINE log == <<e>>
  <1> HIDE DEF log
  <1>3. IsList(log) /\ Len(log) = 1 /\ log[1] = e /\ 1 \in 1 .. 1 /\ \A j \in 1 .. 1 : j <= 1
    BY <1>1 DEF log
  <1>4. Explains(log, "TRIAGED", 0)
    BY <1>2, <1>3, Statuses DEF Explains
  <1>5. Assigned(log, 1, "TRIAGED") /\ Tells(log, 1, AlertEntry, a)
    BY <1>2, <1>3 DEF Assigned, Tells, AlertEntry
  <1>6. Accounts(log, "TRIAGED", 0, {})
    BY <1>3, <1>4, <1>5 DEF Accounts
  <1> DEFINE d == [status |-> "TRIAGED", decided |-> decided, since |-> 0, log |-> log]
  <1>7. /\ d = [status |-> d.status, decided |-> d.decided, since |-> d.since, log |-> d.log]
        /\ d.status = "TRIAGED" /\ d.decided = decided /\ d.since = 0 /\ d.log = log
    BY DraftFields
  <1> HIDE DEF d
  <1>8. SoundDraft(d)
    BY <1>6, <1>7, Statuses DEF SoundDraft
  <1> QED
    BY <1>5, <1>8 DEF d, log

\* A row whose columns are of their types, and what is left of it with another status.
LEMMA RowFields ==
    ASSUME NEW r, IsRow(r), NEW status, NEW since
    PROVE  LET t == WithStatus(r, status, since)
           IN  /\ t.key = r.key /\ t.ref = r.ref /\ t.status = status /\ t.score = r.score
               /\ t.priority = r.priority /\ t.latest = r.latest /\ t.contended = r.contended
               /\ t.since = since /\ IsRow(t)
  <1> DEFINE t == WithStatus(r, status, since)
  <1>1. r \in Rows({r.key}, {r.ref}, {r.status}, {r.score}, {r.priority}, {r.latest},
                   {r.contended}, {r.since})
    BY DEF IsRow
  <1>2. t \in Rows({r.key}, {r.ref}, {status}, {r.score}, {r.priority}, {r.latest},
                   {r.contended}, {since})
    BY <1>1 DEF Rows, WithStatus
  <1> HIDE DEF t
  <1>3. /\ t.key = r.key /\ t.ref = r.ref /\ t.status = status /\ t.score = r.score
        /\ t.priority = r.priority /\ t.latest = r.latest /\ t.contended = r.contended
        /\ t.since = since
    BY <1>2 DEF Rows
  <1>4. IsRow(t)
    BY <1>2, RowOfColumns
  <1> QED
    BY <1>3, <1>4 DEF t

LEMMA AttachedFields ==
    ASSUME NEW r, IsRow(r), NEW score, NEW priority, NEW alert, NEW mark
    PROVE  LET t == Attached(r, score, priority, alert, mark)
           IN  /\ t.key = r.key /\ t.ref = r.ref /\ t.status = r.status /\ t.score = score
               /\ t.priority = priority /\ t.latest = alert /\ t.contended = mark
               /\ t.since = r.since /\ IsRow(t)
  <1> DEFINE t == Attached(r, score, priority, alert, mark)
  <1>1. r \in Rows({r.key}, {r.ref}, {r.status}, {r.score}, {r.priority}, {r.latest},
                   {r.contended}, {r.since})
    BY DEF IsRow
  <1>2. t \in Rows({r.key}, {r.ref}, {r.status}, {score}, {priority}, {alert}, {mark},
                   {r.since})
    BY <1>1 DEF Rows, Attached
  <1> HIDE DEF t
  <1>3. /\ t.key = r.key /\ t.ref = r.ref /\ t.status = r.status /\ t.score = score
        /\ t.priority = priority /\ t.latest = alert /\ t.contended = mark
        /\ t.since = r.since
    BY <1>2 DEF Rows
  <1>4. IsRow(t)
    BY <1>2, RowOfColumns
  <1> QED
    BY <1>3, <1>4 DEF t

LEMMA TypedRow ==
    ASSUME NEW r, IsRow(r), r.key \in Key, r.ref \in Nat, r.status \in IncidentStatus,
           r.score \in 0 .. 1000, r.priority \in 1 .. 4, r.latest \in Alert,
           r.contended \in BOOLEAN, r.since \in Nat
    PROVE  r \in RowType
  <1>1. r \in [key : {r.key}, ref : {r.ref}, status : {r.status}, score : {r.score},
               priority : {r.priority}, latest : {r.latest}, contended : {r.contended},
               since : {r.since}]
    BY DEF IsRow, Rows
  <1> DEFINE Score == 0 .. 1000
  <1>2. r.score \in Score
    OBVIOUS
  <1> HIDE DEF Score
  <1>3. r \in [key : Key, ref : Nat, status : IncidentStatus, score : Score,
               priority : 1 .. 4, latest : Alert, contended : BOOLEAN, since : Nat]
    BY <1>1, <1>2
  <1> QED
    BY <1>3, Zenon DEF RowType, Score

LEMMA RowTypes ==
    ASSUME NEW r \in RowType
    PROVE  /\ IsRow(r) /\ r.key \in Key /\ r.ref \in Nat /\ r.status \in IncidentStatus
           /\ r.score \in 0 .. 1000 /\ r.priority \in 1 .. 4 /\ r.latest \in Alert
           /\ r.contended \in BOOLEAN /\ r.since \in Nat
  <1> DEFINE Score == 0 .. 1000
  <1>1. r \in [key : Key, ref : Nat, status : IncidentStatus, score : Score,
               priority : 1 .. 4, latest : Alert, contended : BOOLEAN, since : Nat]
    BY Zenon DEF RowType
  <1> HIDE DEF Score
  <1>2. IsRow(r)
    BY <1>1 DEF IsRow, Rows
  <1>3. /\ r.key \in Key /\ r.ref \in Nat /\ r.status \in IncidentStatus /\ r.score \in Score
        /\ r.priority \in 1 .. 4 /\ r.latest \in Alert /\ r.contended \in BOOLEAN
        /\ r.since \in Nat
    BY <1>1
  <1> QED
    BY <1>2, <1>3 DEF Score

LEMMA PriorityType ==
    ASSUME NEW score \in Int
    PROVE  DeterminePriority(score) \in 1 .. 4
BY SMT DEF DeterminePriority

LEMMA CreateIncidentStep ==
    ASSUME IInv, IInv', BInv, NEW w \in Worker, CreateIncident(w), UNCHANGED reportVars
    PROVE  BInv' /\ \A m \in DOMAIN incidents : incidents'[m] = incidents[m]
  <1>0. PICK a, n, ref : a = session[w].alert /\ n = Len(incidents) + 1 /\ ref = session[w].ref
    OBVIOUS
  <1>1. PICK score \in AlertScores(a), posture \in Postures :
          LET row == [key |-> KeyOf[a], ref |-> ref, status |-> "TRIAGED",
                      score |-> score, priority |-> DeterminePriority(score),
                      latest |-> a, contended |-> FALSE, since |-> 0]
              draft == [status |-> row.status, decided |-> Decided(n), since |-> 0,
                        log |-> <<Entry("INCIDENT_CREATED", a)>>]
          IN  Store(n, row, Evaluated(row, draft, posture))
    BY <1>0, Zenon DEF CreateIncident
  <1> DEFINE row == [key |-> KeyOf[a], ref |-> ref, status |-> "TRIAGED",
                     score |-> score, priority |-> DeterminePriority(score),
                     latest |-> a, contended |-> FALSE, since |-> 0]
             entry == Entry("INCIDENT_CREATED", a)
             draft == [status |-> "TRIAGED", decided |-> Decided(n), since |-> 0,
                       log |-> <<entry>>]
             d == Evaluated(row, draft, posture)
  <1>2. Store(n, row, d)
    <2>1. row.status = "TRIAGED"
      OBVIOUS
    <2> QED
      BY <1>1, <2>1, Zenon
  <1>3. /\ session' = [session EXCEPT ![w] = Idle] /\ session[w].pc = "create"
        /\ linked' = [linked EXCEPT ![a] = n] /\ handled' = handled /\ reports' = reports
        /\ ~RefTaken(ref) /\ w \in DOMAIN session
    BY <1>0 DEF CreateIncident, reportVars, IInv
  <1>4. /\ DOMAIN incidents = 1 .. Len(incidents) /\ Len(incidents) \in Nat
    BY TableLength DEF BInv
  <1>5. n \in 1 .. Len(incidents) + 1 /\ n \in Nat /\ n \notin DOMAIN incidents
    BY <1>0, <1>4
  <1>6. a \in Alert /\ a \in handled /\ linked[a] = 0 /\ session[w].pc \in Correlating
    BY <1>0, <1>3 DEF BInv, SessionsOK, SessionOK, Correlates, Correlating
  <1>7. ref \in Nat
    BY <1>0, <1>3, <1>4 DEF IInv, CountedInThePast
  <1>8. /\ row.key = KeyOf[a] /\ row.ref = ref /\ row.status = "TRIAGED" /\ row.score = score
        /\ row.priority = DeterminePriority(score) /\ row.latest = a /\ row.contended = FALSE
    OBVIOUS
  <1>9. IsRow(row)
    BY DEF IsRow, Rows
  <1>10. score \in Int /\ 0 <= score /\ score <= 1000 /\ Covers(score, a)
    BY <1>6, AlertScoresBounds
  <1> HIDE DEF row
  <1>11. DecidedTypes(n) = {} /\ DOMAIN Decided(n) = {}
    <2>1. DecidedTypes(n) = {}
      BY <1>5 DEF BInv, Books, DecidedTypes
    <2> QED
      BY <2>1, DecidedDomain
  <1>12. SoundDraft(draft) /\ Tells(<<entry>>, 1, AlertEntry, a)
    <2> DEFINE decided == Decided(n)
    <2>2. DOMAIN decided = {}
      BY <1>11
    <2> HIDE DEF entry, decided
    <2>3. entry = Entry("INCIDENT_CREATED", a)
      BY DEF entry
    <2>4. /\ SoundDraft([status |-> "TRIAGED", decided |-> decided, since |-> 0,
                         log |-> <<entry>>])
          /\ Tells(<<entry>>, 1, AlertEntry, a)
      BY <2>2, <2>3, FirstEntry
    <2> QED
      BY <2>4 DEF decided
  <1>13. draft.log = <<entry>>
    OBVIOUS
  <1> HIDE DEF draft, entry
  <1>14. SoundDraft(d) /\ Follows(d, draft) /\ AllDecided(row, d)
    BY <1>12, EvaluatedFacts
  <1> HIDE DEF d
  <1>15. /\ d.status \in IncidentStatus /\ d.since \in Nat
         /\ DOMAIN d.decided \subseteq ActionType
         /\ Accounts(d.log, d.status, d.since, DOMAIN d.decided)
    BY <1>14 DEF SoundDraft
  <1>16. /\ Writes(n) /\ incidents'[n] = WithStatus(row, d.status, d.since)
         /\ ledger'[n] = d.log /\ DecidedTypes(n)' = DOMAIN d.decided
    BY <1>2, <1>5, <1>9, <1>11, <1>15, StoreWrites DEF BInv
  <1> DEFINE stored == WithStatus(row, d.status, d.since)
  <1>17. /\ stored.key = row.key /\ stored.ref = row.ref /\ stored.status = d.status
         /\ stored.since = d.since
         /\ stored.score = row.score /\ stored.priority = row.priority
         /\ stored.latest = row.latest /\ stored.contended = row.contended /\ IsRow(stored)
    BY <1>9, RowFields
  <1> HIDE DEF stored
  <1>18. /\ incidents'[n] = stored
    BY <1>16 DEF stored
  <1>19. stored \in RowType
    <2>1. KeyOf[a] \in Key
      BY <1>6 DEF Key
    <2> DEFINE Scale == 0 .. 1000
    <2>2. score \in Scale
      BY <1>10, SMT
    <2> HIDE DEF Scale
    <2>3. DeterminePriority(score) \in 1 .. 4
      BY <1>10, PriorityType
    <2>4. /\ stored.key \in Key /\ stored.ref \in Nat /\ stored.status \in IncidentStatus
          /\ stored.latest \in Alert /\ stored.contended \in BOOLEAN /\ stored.since \in Nat
      BY <1>6, <1>7, <1>8, <1>15, <1>17, <2>1
    <2>5. stored.score \in Scale
      BY <1>8, <1>17, <2>2
    <2>6. stored.priority \in 1 .. 4
      BY <1>8, <1>17, <2>3
    <2> QED
      BY <1>17, <2>4, <2>5, <2>6, TypedRow DEF Scale
  <1>20. \A b \in Alert : linked'[b] = IF b = a THEN n ELSE linked[b]
    BY <1>3 DEF BInv, Books
  <1>21. \A b \in Alert : linked'[b] = n => b = a
    BY <1>5, <1>20 DEF BInv, Books
  <1>22. Tells(d.log, Len(d.log), AlertEntry, a)
    <2>1. IsList(d.log) /\ IsList(<<entry>>) /\ Continues(d.log, <<entry>>)
      BY <1>12, <1>13, <1>14 DEF SoundDraft, Accounts, Follows
    <2>2. Len(<<entry>>) = 1
      OBVIOUS
    <2>3. 1 \in 0 .. Len(<<entry>>) /\ Len(d.log) \in 1 .. Len(d.log)
      BY <2>1, <2>2, ListFacts DEF Continues
    <2> QED
      BY <1>12, <2>1, <2>3, TellsContinued
  <1>23. BooksOf(n)'
    <2>1. \A i \in 1 .. Len(PlaybookActions) :
             \/ TargetOf(PlaybookActions[i].action.type, row.key) = NoOne
             \/ PlaybookActions[i].action.type \in DOMAIN d.decided
      BY <1>14 DEF AllDecided, NothingToDecide
    <2>2. linked'[a] = n
      BY <1>6, <1>20
    <2>3. \A b \in Alert : linked'[b] = n => Tells(d.log, Len(d.log), AlertEntry, b)
      BY <1>21, <1>22
    <2>4. Accounts(d.log, stored.status, stored.since, DOMAIN d.decided)
      BY <1>15, <1>17
    <2>5. Covers(stored.score, stored.latest)
      BY <1>8, <1>10, <1>17
    <2>6. stored.priority = DeterminePriority(stored.score)
      BY <1>8, <1>17
    <2>7. linked'[stored.latest] = n
      BY <1>8, <1>17, <2>2
    <2>8. \A i \in 1 .. Len(PlaybookActions) :
             \/ TargetOf(PlaybookActions[i].action.type, stored.key) = NoOne
             \/ PlaybookActions[i].action.type \in DOMAIN d.decided
      BY <1>17, <2>1
    <2> QED
      BY <1>16, <1>18, <1>19, <2>3, <2>4, <2>5, <2>6, <2>7, <2>8 DEF BooksOf
  <1>24. Links(n)
    BY <1>3, <1>6, Zenon DEF Links
  <1>25. Books' /\ Onward
    BY <1>3, <1>5, <1>16, <1>23, <1>24, CommitBooks DEF BInv
  <1>26. BInv'
    BY <1>0, <1>3, <1>6, <1>25, CommitStep
  <1>27. \A m \in DOMAIN incidents : incidents'[m] = incidents[m]
    BY <1>5, <1>16 DEF Writes
  <1> QED
    BY <1>26, <1>27

-----------------------------------------------------------------------------
\* Another alert of an incident

\* Two more remarks.
LEMMA TwoRemarks ==
    ASSUME NEW log, NEW status, NEW since, NEW decided, Accounts(log, status, since, decided),
           NEW e, StatusOf(e) = SameStatus, NEW f, StatusOf(f) = SameStatus
    PROVE  /\ Accounts(log \o <<e, f>>, status, since, decided) /\ IsList(log \o <<e, f>>)
           /\ Continues(log \o <<e, f>>, log)
           /\ \A x : e.type \in AlertEntry /\ e.about = x
                       => Tells(log \o <<e, f>>, Len(log \o <<e, f>>), AlertEntry, x)
  <1> DEFINE two == <<e, f>>
             new == log \o two
             m == Len(log)
  <1>1. IsList(two) /\ Len(two) = 2 /\ two[1] = e /\ two[2] = f
    <2>1. two \in Seq({e, f}) /\ Len(two) = 2 /\ two[1] = e /\ two[2] = f
      OBVIOUS
    <2> QED
      BY <2>1 DEF IsList
  <1>2. IsList(log) /\ m \in Nat
    BY ListFacts DEF Accounts
  <1> HIDE DEF two
  <1>3. /\ IsList(new) /\ Len(new) = m + 2
        /\ \A i \in 1 .. m + 2 : new[i] = IF i <= m THEN log[i] ELSE two[i - m]
    <2>1. /\ IsList(new) /\ Len(new) = m + Len(two)
          /\ \A i \in 1 .. m + Len(two) : new[i] = IF i <= m THEN log[i] ELSE two[i - m]
      BY <1>1, <1>2, ListConcat
    <2> HIDE DEF new, m
    <2> QED
      BY <1>1, <2>1, Zenon
  <1> HIDE DEF new, m
  <1>4. \A i \in 1 .. m : new[i] = log[i]
    BY <1>2, <1>3
  <1>5. new[m + 1] = e /\ new[m + 2] = f
    <2>1. m + 1 \in 1 .. m + 2 /\ ~(m + 1 <= m) /\ (m + 1) - m = 1
      BY <1>2
    <2>2. m + 2 \in 1 .. m + 2 /\ ~(m + 2 <= m) /\ (m + 2) - m = 2
      BY <1>2
    <2> QED
      BY <1>1, <1>3, <2>1, <2>2
  <1>6. Continues(new, log)
    BY <1>2, <1>3, <1>4 DEF Continues, m
  <1>7. ASSUME NEW i \in 1 .. Len(new), i > Len(log) PROVE StatusOf(new[i]) = SameStatus
    <2>1. i = m + 1 \/ i = m + 2
      BY <1>2, <1>3, <1>7 DEF m
    <2> QED
      BY <1>5, <2>1
  <1>8. Accounts(new, status, since, decided)
    BY <1>3, <1>6, <1>7, RemarksAccount
  <1>9. ASSUME NEW x, e.type \in AlertEntry, e.about = x PROVE Tells(new, Len(new), AlertEntry, x)
    <2>1. m + 1 \in 1 .. Len(new)
      BY <1>2, <1>3
    <2> QED
      BY <1>5, <1>9, <2>1 DEF Tells
  <1> QED
    BY <1>3, <1>6, <1>8, <1>9 DEF new, two

LEMMA AttachAlertStep ==
    ASSUME IInv, IInv', BInv, NEW w \in Worker, AttachAlert(w), UNCHANGED reportVars
    PROVE  /\ BInv'
           /\ \A m \in DOMAIN incidents : incidents'[m].status = incidents[m].status
  <1>0. PICK s, n, old : /\ s = session[w] /\ n = s.incident /\ old = incidents[n]
    OBVIOUS
  <1> DEFINE score == Column(old.score, s.row.score, s.score)
             priority == Column(old.priority, s.row.priority, DeterminePriority(s.score))
             mark == old.contended \/ s.row.latest # old.latest
             row == Attached(old, score, priority, s.alert, mark)
             e == Entry("ALERT_ATTACHED", s.alert)
             f == Entry("SCORE_CHANGED", s.alert)
             log == ledger[n] \o <<e, f>>
             draft == [status |-> row.status, decided |-> Decided(n), since |-> row.since,
                       log |-> log]
  <1>1. PICK posture : Store(n, row, Evaluated(row, draft, posture))
    BY <1>0, Zenon DEF AttachAlert, Attached
  <1>2. /\ session' = [session EXCEPT ![w] = Idle] /\ s.pc = "attach"
        /\ linked' = [linked EXCEPT ![s.alert] = n] /\ handled' = handled /\ reports' = reports
        /\ w \in DOMAIN session
    BY <1>0 DEF AttachAlert, reportVars, IInv
  <1>3. n \in DOMAIN incidents
    BY <1>0, <1>2 DEF IInv, SessionsAreAboutIncidents, OfIncident
  <1>4. n \in 1 .. Len(incidents) /\ n \in 1 .. Len(incidents) + 1 /\ n # 0
    BY <1>3, TableLength DEF BInv
  <1>5. /\ s.alert \in Alert /\ s.alert \in handled /\ linked[s.alert] = 0
        /\ session[w].pc \in Correlating
    BY <1>0, <1>2 DEF BInv, SessionsOK, SessionOK, Correlates, Correlating
  <1>6. /\ s.score \in 0 .. 1000 /\ Covers(s.score, s.alert)
        /\ s.row.latest = old.latest => s.row.score = old.score /\ s.row.priority = old.priority
    BY <1>0, <1>2 DEF BInv, SessionsOK, SessionOK, Attaches
  <1>7. BooksOf(n) /\ old \in RowType
    BY <1>0, <1>3 DEF BInv, Books, BooksOf
  <1>8. /\ IsRow(old) /\ old.key \in Key /\ old.ref \in Nat /\ old.status \in IncidentStatus
        /\ old.score \in 0 .. 1000 /\ old.priority \in 1 .. 4 /\ old.latest \in Alert
        /\ old.contended \in BOOLEAN /\ old.since \in Nat
    BY <1>7, RowTypes
  <1>9. /\ row.key = old.key /\ row.ref = old.ref /\ row.status = old.status
        /\ row.score = score /\ row.priority = priority /\ row.latest = s.alert
        /\ row.contended = mark /\ row.since = old.since /\ IsRow(row)
    <2> HIDE DEF score, priority, mark
    <2> QED
      BY <1>8, AttachedFields
  <1> HIDE DEF row
  <1>10. /\ StatusOf(e) = SameStatus /\ StatusOf(f) = SameStatus
         /\ e.type \in AlertEntry /\ e.about = s.alert
    BY EntryFields, StatusOfEntries DEF AlertEntry
  <1> HIDE DEF e, f
  <1>11. Accounts(ledger[n], old.status, old.since, DecidedTypes(n))
    BY <1>0, <1>7 DEF BooksOf
  <1>12. /\ Accounts(log, old.status, old.since, DecidedTypes(n)) /\ IsList(log) /\ Continues(log, ledger[n])
         /\ Tells(log, Len(log), AlertEntry, s.alert)
    BY <1>10, <1>11, TwoRemarks
  <1> HIDE DEF log
  <1>13. /\ draft.status = row.status /\ draft.decided = Decided(n) /\ draft.since = row.since
         /\ draft.log = log
    OBVIOUS
  <1> HIDE DEF draft
  <1>14. AllDecided(row, draft)
    <2>1. DOMAIN draft.decided = DecidedTypes(n)
      BY <1>13, DecidedDomain
    <2> QED
      BY <1>0, <1>7, <1>9, <2>1 DEF AllDecided, NothingToDecide, BooksOf
  <1>15. Store(n, row, draft)
    BY <1>1, <1>14, EvaluatedSettled
  <1>16. /\ DOMAIN draft.decided \subseteq ActionType
         /\ DecidedTypes(n) \subseteq DOMAIN draft.decided
         /\ DOMAIN draft.decided = DecidedTypes(n)
    BY <1>13, DecidedDomain DEF DecidedTypes
  <1>17. /\ Writes(n) /\ incidents'[n] = WithStatus(row, draft.status, draft.since)
         /\ ledger'[n] = draft.log /\ DecidedTypes(n)' = DOMAIN draft.decided
    BY <1>4, <1>9, <1>15, <1>16, StoreWrites DEF BInv
  <1> DEFINE stored == WithStatus(row, draft.status, draft.since)
  <1>18. /\ stored.key = row.key /\ stored.ref = row.ref /\ stored.status = draft.status
         /\ stored.since = draft.since
         /\ stored.score = row.score /\ stored.priority = row.priority
         /\ stored.latest = row.latest /\ stored.contended = row.contended /\ IsRow(stored)
    BY <1>9, RowFields
  <1> HIDE DEF stored
  <1>19. incidents'[n] = stored
    BY <1>17 DEF stored
  <1> DEFINE Scale == 0 .. 1000
  <1>20. /\ s.score \in Int /\ s.score \in Scale /\ old.score \in Scale
         /\ DeterminePriority(s.score) \in 1 .. 4
    <2>1. s.score \in Int
      BY <1>6, SMT
    <2> QED
      BY <1>6, <1>8, <2>1, PriorityType
  <1> HIDE DEF Scale
  <1>21. score \in Scale /\ priority \in 1 .. 4 /\ mark \in BOOLEAN
    <2>1. score \in Scale
      BY <1>20 DEF Column
    <2>2. priority \in 1 .. 4
      BY <1>8, <1>20 DEF Column
    <2>3. mark \in BOOLEAN
      BY <1>8
    <2> QED
      BY <2>1, <2>2, <2>3
  <1>22. ASSUME ~mark PROVE score = s.score /\ priority = DeterminePriority(s.score)
    <2>1. s.row.score = old.score /\ s.row.priority = old.priority
      BY <1>6, <1>22
    <2> QED
      BY <2>1 DEF Column
  <1> HIDE DEF score, priority, mark
  <1>23. stored \in RowType
    <2>1. stored.score \in Scale
      BY <1>9, <1>18, <1>21
    <2>2. /\ stored.key \in Key /\ stored.ref \in Nat /\ stored.status \in IncidentStatus
          /\ stored.priority \in 1 .. 4 /\ stored.latest \in Alert /\ stored.contended \in BOOLEAN
          /\ stored.since \in Nat
      BY <1>5, <1>8, <1>9, <1>13, <1>18, <1>21
    <2> QED
      BY <1>18, <2>1, <2>2, TypedRow DEF Scale
  <1>24. \A b \in Alert : linked'[b] = IF b = s.alert THEN n ELSE linked[b]
    BY <1>2 DEF BInv, Books
  <1>25. BooksOf(n)'
    <2>1. \A i \in 1 .. Len(PlaybookActions) :
             \/ TargetOf(PlaybookActions[i].action.type, stored.key) = NoOne
             \/ PlaybookActions[i].action.type \in DecidedTypes(n)
      BY <1>0, <1>7, <1>9, <1>18 DEF BooksOf
    <2>2. linked'[stored.latest] = n
      BY <1>5, <1>9, <1>18, <1>24
    <2>3. ASSUME NEW b \in Alert, linked'[b] = n PROVE Tells(log, Len(log), AlertEntry, b)
      <3>1. CASE b = s.alert
        BY <1>12, <3>1
      <3>2. CASE b # s.alert
        <4>1. Tells(ledger[n], Len(ledger[n]), AlertEntry, b)
          BY <1>7, <1>24, <2>3, <3>2 DEF BooksOf
        <4>2. IsList(ledger[n])
          BY <1>11 DEF Accounts
        <4> QED
          BY <1>12, <4>1, <4>2, TellsContinued, ContinuesLonger
      <3> QED
        BY <3>1, <3>2
    <2>4. Accounts(log, stored.status, stored.since, DecidedTypes(n))
      BY <1>9, <1>12, <1>13, <1>18
    <2>5. ~stored.contended => /\ Covers(stored.score, stored.latest)
                               /\ stored.priority = DeterminePriority(stored.score)
      BY <1>6, <1>9, <1>18, <1>22
    <2>6. ledger'[n] = log /\ DecidedTypes(n)' = DecidedTypes(n)
      BY <1>13, <1>16, <1>17
    <2> QED
      BY <1>19, <1>23, <2>1, <2>2, <2>3, <2>4, <2>5, <2>6 DEF BooksOf
  <1>26. Links(n)
    BY <1>2, <1>5, Zenon DEF Links
  <1>27. linked[incidents'[n].latest] = 0
    BY <1>5, <1>9, <1>18, <1>19
  <1>28. IsList(ledger'[n]) /\ Continues(ledger'[n], ledger[n])
    BY <1>12, <1>13, <1>17
  <1>29. ASSUME NEW m \in DOMAIN incidents PROVE incidents'[m].status = incidents[m].status
    BY <1>0, <1>9, <1>13, <1>17, <1>18, <1>19 DEF Writes
  <1>30. Books' /\ Onward
    BY <1>2, <1>4, <1>17, <1>25, <1>26, <1>27, <1>28, <1>29, CommitBooks DEF BInv
  <1>31. BInv'
    BY <1>0, <1>2, <1>5, <1>30, CommitStep
  <1> QED
    BY <1>29, <1>31

-----------------------------------------------------------------------------
\* What analysts commit

\* One entry, which records the status that the incident is left with.
LEMMA StatusCommit ==
    ASSUME IInv, IInv', BInv, NEW n \in DOMAIN incidents, NEW status \in IncidentStatus,
           NEW since \in Nat, NEW e,
           Records(ledger[n], e, incidents[n].status, incidents[n].since, status, since),
           NEW draft, draft = [status |-> status, decided |-> Decided(n), since |-> since,
                               log |-> Append(ledger[n], e)],
           Store(n, incidents[n], draft),
           NEW u \in DOMAIN session, session' = [session EXCEPT ![u] = Idle],
           UNCHANGED <<linked, handled, reports>>
    PROVE  /\ BInv' /\ incidents'[n].status = status
           /\ \A m \in DOMAIN incidents : m # n => incidents'[m] = incidents[m]
  <1> DEFINE old == incidents[n]
             log == ledger[n]
  <1>1. n \in 1 .. Len(incidents) /\ n \in 1 .. Len(incidents) + 1
    BY TableLength DEF BInv
  <1>2. BooksOf(n)
    BY DEF BInv, Books
  <1>3. /\ IsRow(old) /\ old.key \in Key /\ old.ref \in Nat /\ old.score \in 0 .. 1000
        /\ old.priority \in 1 .. 4 /\ old.latest \in Alert /\ old.contended \in BOOLEAN
    BY <1>2, RowTypes DEF BooksOf
  <1>4. /\ draft.status = status /\ draft.decided = Decided(n) /\ draft.since = since
        /\ draft.log = Append(log, e)
    OBVIOUS
  <1>5. /\ DOMAIN draft.decided = DecidedTypes(n) /\ DecidedTypes(n) \subseteq ActionType
    BY <1>4, DecidedDomain DEF DecidedTypes
  <1>6. /\ Writes(n) /\ incidents'[n] = WithStatus(old, status, since)
        /\ ledger'[n] = Append(log, e)
        /\ DecidedTypes(n)' = DecidedTypes(n)
    <2>1. Books /\ IsRow(old) /\ DOMAIN draft.decided \subseteq ActionType
      BY <1>3, <1>5 DEF BInv
    <2>2. /\ DecidedTypes(n) \subseteq DOMAIN draft.decided /\ Store(n, old, draft)
      BY <1>5
    <2>3. /\ Writes(n) /\ incidents'[n] = WithStatus(old, draft.status, draft.since)
          /\ ledger'[n] = draft.log /\ DecidedTypes(n)' = DOMAIN draft.decided
      BY <1>1, <2>1, <2>2, StoreWrites, Zenon
    <2> QED
      BY <1>4, <1>5, <2>3, Zenon
  <1> DEFINE stored == WithStatus(old, status, since)
  <1>7. /\ stored.key = old.key /\ stored.ref = old.ref /\ stored.status = status
        /\ stored.since = since
        /\ stored.score = old.score /\ stored.priority = old.priority
        /\ stored.latest = old.latest /\ stored.contended = old.contended /\ IsRow(stored)
    BY <1>3, RowFields
  <1> HIDE DEF stored
  <1>8. incidents'[n] = stored
    BY <1>6 DEF stored
  <1>9. stored \in RowType
    <2> DEFINE Scale == 0 .. 1000
    <2>1. old.score \in Scale
      BY <1>3
    <2> HIDE DEF Scale
    <2>2. stored.score \in Scale
      BY <1>7, <2>1
    <2>3. /\ stored.key \in Key /\ stored.ref \in Nat /\ stored.status \in IncidentStatus
          /\ stored.priority \in 1 .. 4 /\ stored.latest \in Alert /\ stored.contended \in BOOLEAN
          /\ stored.since \in Nat
      BY <1>3, <1>7
    <2> QED
      BY <1>7, <2>2, <2>3, TypedRow DEF Scale
  <1>10. /\ Accounts(log, old.status, old.since, DecidedTypes(n))
         /\ \A t \in DecidedTypes(n) : t \in DecidedTypes(n)
                                          \/ (e.type \in DecisionEntry /\ e.about = t)
    BY <1>2 DEF BooksOf
  <1>11. /\ Accounts(Append(log, e), status, since, DecidedTypes(n)) /\ Continues(Append(log, e), log)
    BY <1>10, AppendAccounts
  <1>12. IsList(log) /\ IsList(Append(log, e))
    BY <1>10, <1>11 DEF Accounts
  <1> DEFINE new == Append(log, e)
  <1> HIDE DEF new
  <1>13. /\ ledger'[n] = new /\ IsList(new) /\ Continues(new, log)
         /\ Accounts(new, status, since, DecidedTypes(n))
    BY <1>6, <1>11, <1>12 DEF new
  <1>14. BooksOf(n)'
    <2>1. \A i \in 1 .. Len(PlaybookActions) :
             \/ TargetOf(PlaybookActions[i].action.type, stored.key) = NoOne
             \/ PlaybookActions[i].action.type \in DecidedTypes(n)
      BY <1>2, <1>7 DEF BooksOf
    <2>2. linked'[stored.latest] = n
      BY <1>2, <1>7 DEF BooksOf
    <2>3. ASSUME NEW b \in Alert, linked'[b] = n PROVE Tells(new, Len(new), AlertEntry, b)
      <3>1. Tells(log, Len(log), AlertEntry, b)
        BY <1>2, <2>3 DEF BooksOf
      <3>2. IsList(log) /\ IsList(new) /\ Continues(new, log)
        BY <1>12, <1>13
      <3> HIDE DEF log
      <3> QED
        BY <3>1, <3>2, ListFacts, TellsContinued, ContinuesLonger
    <2>4. ~stored.contended => /\ Covers(stored.score, stored.latest)
                               /\ stored.priority = DeterminePriority(stored.score)
      BY <1>2, <1>7 DEF BooksOf
    <2>5. Accounts(new, stored.status, stored.since, DecidedTypes(n))
      BY <1>7, <1>13
    <2> QED
      BY <1>6, <1>8, <1>9, <1>13, <2>1, <2>2, <2>3, <2>4, <2>5 DEF BooksOf
  <1>15. Links(n)
    BY DEF Links
  <1>16. Books' /\ Onward
    <2>1. /\ incidents'[n].latest = incidents[n].latest
          /\ incidents'[n].score = incidents[n].score
          /\ incidents'[n].priority = incidents[n].priority
      BY <1>7, <1>8
    <2>2. IsList(ledger'[n]) /\ Continues(ledger'[n], ledger[n])
      BY <1>13
    <2>3. \/ incidents'[n].status = old.status
          \/ AssignedSince(new, Len(log), incidents'[n].status)
      <3>1. /\ Len(new) = Len(log) + 1 /\ Len(log) \in Nat /\ new[Len(log) + 1] = e
        BY <1>12, ListAppend, ListFacts DEF new
      <3>2. ASSUME status = StatusOf(e), StatusOf(e) # SameStatus
            PROVE  AssignedSince(new, Len(log), status)
        <4>1. Len(log) + 1 \in 1 .. Len(new) /\ Len(log) < Len(log) + 1
          BY <3>1
        <4> QED
          BY <3>1, <3>2, <4>1 DEF AssignedSince
      <3> QED
        BY <1>7, <1>8, <3>2 DEF Records
    <2> QED
      BY <1>1, <1>6, <1>13, <1>14, <1>15, <2>1, <2>2, <2>3, CommitBooks DEF BInv
  <1>17. BInv'
    BY <1>16, CommitStep
  <1>18. incidents'[n].status = status
    BY <1>7, <1>8
  <1> QED
    BY <1>6, <1>17, <1>18 DEF Writes

LEMMA CommitTransitionStep ==
    ASSUME IInv, IInv', BInv, NEW u \in Analyst, CommitTransition(u), UNCHANGED reportVars
    PROVE  /\ BInv' /\ session[u].pc = "transition" /\ session[u].seen \notin Terminal
           /\ \A m \in DOMAIN incidents : m # session[u].incident => incidents'[m] = incidents[m]
  <1>0. PICK s, n, old : /\ s = session[u] /\ n = s.incident /\ old = incidents[n].status
    OBVIOUS
  <1> DEFINE e == Entry("STATE_TRANSITION", s.target)
             status == Column(old, s.loaded, s.target)
             draft == [status |-> status, decided |-> Decided(n), since |-> s.since,
                       log |-> Append(ledger[n], e)]
  <1>1. /\ Store(n, incidents[n], draft) /\ session' = [session EXCEPT ![u] = Idle]
        /\ s.pc = "transition" /\ UNCHANGED <<linked, handled, reports>> /\ u \in DOMAIN session
    BY <1>0 DEF CommitTransition, reportVars, IInv
  <1>2. n \in DOMAIN incidents
    BY <1>0, <1>1 DEF IInv, SessionsAreAboutIncidents, OfIncident
  <1>3. /\ s.target \in IncidentStatus /\ s.seen \notin Terminal
        /\ s.since \in 0 .. Len(ledger[n])
        /\ old = s.loaded \/ AssignedSince(ledger[n], s.since, old)
    BY <1>0, <1>1 DEF BInv, SessionsOK, SessionOK, Transits
  <1>4. old \in IncidentStatus
    BY <1>0, <1>2, RowTypes DEF BInv, Books, BooksOf
  <1>5. StatusOf(e) = s.target
    BY StatusOfEntries
  <1> HIDE DEF e
  <1>6. /\ status \in IncidentStatus
        /\ Records(ledger[n], e, old, incidents[n].since, status, s.since)
    BY <1>3, <1>4, <1>5, Statuses DEF Column, Records
  <1> HIDE DEF status
  <1>7. PICK d : d = draft
    OBVIOUS
  <1>8. Store(n, incidents[n], d)
    BY <1>1, <1>7
  <1>9. Records(ledger[n], e, incidents[n].status, incidents[n].since, status, s.since)
    BY <1>0, <1>6
  <1>10. BInv' /\ \A m \in DOMAIN incidents : m # n => incidents'[m] = incidents[m]
    <2>1. s.since \in Nat
      BY <1>3
    <2> QED
      BY <1>1, <1>2, <1>6, <1>7, <1>8, <1>9, <2>1, StatusCommit
  <1> QED
    BY <1>0, <1>1, <1>3, <1>10

LEMMA CommitApprovalStep ==
    ASSUME IInv, IInv', BInv, NEW u \in Analyst, CommitApproval(u), UNCHANGED reportVars
    PROVE  /\ BInv' /\ session[u].pc = "approve"
           /\ \A m \in DOMAIN incidents : m # session[u].incident => incidents'[m] = incidents[m]
  <1>0. PICK s, n, old, oldSince :
            s = session[u] /\ n = s.incident /\ old = incidents[n].status
            /\ oldSince = incidents[n].since
    OBVIOUS
  <1> DEFINE contains == s.action \in Containment
             e == Entry("ACTION_APPROVED", s.action)
             status == IF contains THEN Column(old, s.loaded, "CONTAINED") ELSE old
             since == IF contains THEN s.since ELSE oldSince
             draft == [status |-> status, decided |-> Decided(n), since |-> since,
                       log |-> Append(ledger[n], e)]
  <1>1. /\ Store(n, incidents[n], draft) /\ session' = [session EXCEPT ![u] = Idle]
        /\ s.pc = "approve" /\ UNCHANGED <<linked, handled, reports>> /\ u \in DOMAIN session
    BY <1>0, Zenon DEF CommitApproval, Contained, reportVars, IInv
  <1>2. n \in DOMAIN incidents
    BY <1>0, <1>1 DEF IInv, SessionsAreAboutIncidents, OfIncident
  <1>3. /\ s.since \in 0 .. Len(ledger[n])
        /\ old = s.loaded \/ AssignedSince(ledger[n], s.since, old)
    BY <1>0, <1>1 DEF BInv, SessionsOK, SessionOK, Transits
  <1>4. old \in IncidentStatus /\ oldSince \in Nat
    BY <1>0, <1>2, RowTypes DEF BInv, Books, BooksOf
  <1>5. /\ contains => StatusOf(e) = "CONTAINED"
        /\ ~contains => StatusOf(e) = SameStatus
    BY StatusOfEntries
  <1> HIDE DEF e
  <1>6. /\ status \in IncidentStatus /\ since \in Nat
        /\ Records(ledger[n], e, old, oldSince, status, since)
    <2>1. CASE contains
      <3>1. status = Column(old, s.loaded, "CONTAINED") /\ since = s.since
        BY <2>1
      <3> HIDE DEF status, since, contains
      <3> QED
        BY <1>3, <1>4, <1>5, <2>1, <3>1, Statuses DEF Column, Records
    <2>2. CASE ~contains
      BY <1>4, <1>5, <2>2 DEF Records
    <2> QED
      BY <2>1, <2>2
  <1> HIDE DEF status, since
  <1>7. PICK d : d = draft
    OBVIOUS
  <1>8. Store(n, incidents[n], d)
    BY <1>1, <1>7
  <1>9. Records(ledger[n], e, incidents[n].status, incidents[n].since, status, since)
    BY <1>0, <1>6
  <1>10. BInv' /\ \A m \in DOMAIN incidents : m # n => incidents'[m] = incidents[m]
    BY <1>1, <1>2, <1>6, <1>7, <1>8, <1>9, StatusCommit
  <1> QED
    BY <1>0, <1>1, <1>10

-----------------------------------------------------------------------------
\* Entries that assign no status

LEMMA EntryCommit ==
    ASSUME IInv, IInv', BInv, NEW n \in DOMAIN incidents, NEW e, StatusOf(e) = SameStatus,
           ledger' = [ledger EXCEPT ![n] = Append(@, e)],
           UNCHANGED <<incidents, linked, decisions, handled>>
    PROVE  Books' /\ Onward
  <1> DEFINE log == ledger[n]
             new == Append(ledger[n], e)
  <1>1. n \in 1 .. Len(incidents) + 1
    BY TableLength DEF BInv
  <1>2. BooksOf(n) /\ Accounts(log, incidents[n].status, incidents[n].since, DecidedTypes(n))
    BY DEF BInv, Books, BooksOf
  <1>3. /\ Writes(n) /\ incidents'[n] = incidents[n] /\ ledger'[n] = new
        /\ DecidedTypes(n)' = DecidedTypes(n)
    BY EntryWrites DEF BInv
  <1>4. Accounts(new, incidents[n].status, incidents[n].since, DecidedTypes(n))
    BY <1>2, RemarkAccounts
  <1>5. IsList(log) /\ IsList(new) /\ Continues(new, log)
    BY <1>2, AppendContinues DEF Accounts
  <1> HIDE DEF new
  <1>6. ASSUME NEW b \in Alert, linked[b] = n PROVE Tells(new, Len(new), AlertEntry, b)
    <2>1. Tells(log, Len(log), AlertEntry, b)
      BY <1>2, <1>6 DEF BooksOf
    <2> HIDE DEF log
    <2> QED
      BY <1>5, <2>1, ListFacts, TellsContinued, ContinuesLonger
  <1>7. BooksOf(n)'
    BY <1>2, <1>3, <1>4, <1>6 DEF BooksOf
  <1>8. Links(n)
    BY DEF Links
  <1> QED
    BY <1>1, <1>3, <1>5, <1>7, <1>8, CommitBooks DEF BInv

LEMMA AddRemarkStep ==
    ASSUME IInv, IInv', BInv, NEW u \in Analyst, NEW n \in DOMAIN incidents, AddRemark(u, n),
           UNCHANGED reportVars
    PROVE  BInv'
  <1> DEFINE e == Entry("REMARK", NoOne)
  <1>1. /\ ledger' = [ledger EXCEPT ![n] = Append(@, e)] /\ session' = session
        /\ UNCHANGED <<incidents, linked, decisions, handled, reports>>
    BY DEF AddRemark, reportVars
  <1>2. StatusOf(e) = SameStatus
    BY StatusOfEntries
  <1> HIDE DEF e
  <1>3. Books' /\ Onward
    BY <1>1, <1>2, EntryCommit
  <1>4. ASSUME NEW s \in DOMAIN session PROVE SessionOK(s)'
    <2>1. SessionOK(s) /\ session'[s] = session[s]
      BY <1>1 DEF BInv, SessionsOK
    <2>2. session[s].pc \in Correlating => linked'[session[s].alert] = 0
      BY <1>1, <2>1 DEF SessionOK, Correlates
    <2> QED
      BY <1>3, <2>1, <2>2, OtherSession DEF BInv
  <1>5. SessionsOK'
    BY <1>1, <1>4 DEF BInv, SessionsOK, AlertsDiffer
  <1> QED
    BY <1>1, <1>3, <1>5, ReportsKept DEF BInv

\* The report that is committed, and those that were there.
LEMMA CommitReportStep ==
    ASSUME IInv, IInv', BInv, NEW u \in Analyst, CommitReport(u)
    PROVE  BInv'
  <1>0. PICK s, n, r : /\ s = session[u] /\ n = s.incident /\ r = s.report
    OBVIOUS
  <1> DEFINE e == Entry("REPORT_GENERATED", r)
             report == [incident |-> n, says |-> s.says]
  <1>1. /\ ledger' = [ledger EXCEPT ![n] = Append(@, e)]
        /\ session' = [session EXCEPT ![u] = Idle]
        /\ UNCHANGED <<incidents, linked, decisions, handled>>
        /\ reports' = [x \in DOMAIN reports \cup {r} |-> IF x = r THEN report ELSE reports[x]]
        /\ s.pc = "put" /\ u \in DOMAIN session
    BY <1>0 DEF CommitReport, IInv
  <1>2. /\ n \in DOMAIN incidents /\ s.says.attestation \in 0 .. Len(ledger[n])
        /\ Attests(ledger[n], s.says.attestation, s.says, "none")
    BY <1>0, <1>1 DEF BInv, SessionsOK, SessionOK, Reads, Reporting
  <1>3. StatusOf(e) = SameStatus
    BY StatusOfEntries
  <1> HIDE DEF e
  <1>4. Books' /\ Onward
    BY <1>1, <1>2, <1>3, EntryCommit
  <1>5. report.incident = n /\ report.says = s.says
    OBVIOUS
  <1> HIDE DEF report
  <1>6. /\ DOMAIN reports' = DOMAIN reports \cup {r} /\ reports'[r] = report
        /\ \A x \in DOMAIN reports : x # r => reports'[x] = reports[x]
    BY <1>1
  <1>7. ASSUME NEW m \in DOMAIN incidents, NEW says, says.attestation \in 0 .. Len(ledger[m]),
               Attests(ledger[m], says.attestation, says, "none")
        PROVE  /\ m \in DOMAIN incidents' /\ says.attestation \in 0 .. Len(ledger'[m])
               /\ Attests(ledger'[m], says.attestation, says, "none")
    <2>1. /\ m \in DOMAIN incidents' /\ IsList(ledger[m])
          /\ IsList(ledger'[m]) /\ Continues(ledger'[m], ledger[m])
      BY <1>4, LogsAreLists DEF BInv, Onward
    <2> QED
      BY <1>7, <2>1, AttestsContinued, ContinuesLonger
  <1>8. ASSUME NEW x \in DOMAIN reports' PROVE ReportOK(x)'
    <2>1. CASE x = r
      BY <1>2, <1>5, <1>6, <1>7, <2>1 DEF ReportOK
    <2>2. CASE x # r
      <3>1. ReportOK(x) /\ reports'[x] = reports[x]
        BY <1>6, <1>8, <2>2 DEF BInv, ReportsOK
      <3> QED
        BY <1>7, <3>1 DEF ReportOK
    <2> QED
      BY <2>1, <2>2
  <1>9. Idle.pc \notin Correlating
    BY DEF Idle, Correlating
  <1>10. \A t \in DOMAIN session :
             t # u /\ session[t].pc \in Correlating => linked'[session[t].alert] = 0
    BY <1>1 DEF BInv, SessionsOK, SessionOK, Correlates
  <1>11. SessionOK(u)'
    BY <1>1, IdleIsPlain, PlainSession
  <1>12. SessionsOK'
    BY <1>1, <1>4, <1>9, <1>10, <1>11, SessionMoves DEF BInv
  <1> QED
    BY <1>4, <1>8, <1>12 DEF BInv, ReportsOK

LEMMA FailReportStep ==
    ASSUME IInv, BInv, NEW u \in Analyst, FailReport(u)
    PROVE  BInv'
BY StepsBack DEF FailReport, IInv

-----------------------------------------------------------------------------
\* The books, always

LEMMA BooksInitially ==
    ASSUME InitReports
    PROVE  BInv
  <1>1. /\ incidents = << >> /\ ledger = << >> /\ linked = [a \in Alert |-> 0]
        /\ decisions = [k \in {} |-> NoOne] /\ reports = [r \in {} |-> NoOne]
        /\ session = [s \in Worker \cup Analyst |-> Idle]
    BY DEF InitReports, Init
  <1>2. DOMAIN incidents = {} /\ Len(incidents) = 0 /\ IsList(ledger) /\ DOMAIN ledger = {}
    <2>1. << >> \in Seq({}) /\ Len(<< >>) = 0 /\ DOMAIN << >> = {}
      OBVIOUS
    <2> QED
      BY <1>1, <2>1 DEF IsList
  <1>3. DOMAIN decisions = {} /\ DOMAIN reports = {}
    BY <1>1
  <1>4. linked \in [Alert -> 0 .. Len(incidents)] /\ \A a \in Alert : linked[a] = 0
    BY <1>1, <1>2
  <1>5. IsFiniteSet({a \in Alert : linked[a] # 0})
    <2>1. {a \in Alert : linked[a] # 0} = {}
      BY <1>4
    <2> QED
      BY <2>1, FS_EmptySet
  <1>6. Books
    BY <1>2, <1>3, <1>4, <1>5 DEF Books
  <1>7. \A s \in DOMAIN session : session[s].pc = "idle"
    BY <1>1 DEF Idle
  <1>8. ASSUME NEW s \in DOMAIN session PROVE SessionOK(s)
    <2>1. session[s].pc = "idle"
      BY <1>7
    <2> QED
      BY <2>1 DEF SessionOK, Correlates, Attaches, Transits, Reads, Correlating, Reporting
  <1>9. AlertsDiffer
    BY <1>7 DEF AlertsDiffer, Correlating
  <1> QED
    BY <1>3, <1>6, <1>8, <1>9 DEF BInv, SessionsOK, ReportsOK

-----------------------------------------------------------------------------
\* The status of an incident changes in the commit of an approval or of a transition
\* only, which was validated against a status with transitions from it.
TransitionOf(n) ==
    \E u \in Analyst :
        /\ session[u] # Idle /\ session'[u] = Idle
        /\ session[u].pc = "transition" /\ session[u].incident = n
        /\ session[u].seen \notin Terminal

StatusesKept ==
    \A n \in DOMAIN incidents :
        incidents'[n].status = incidents[n].status \/ ApprovalOf(n) \/ TransitionOf(n)

LEMMA AlertStepsOfBooks ==
    ASSUME IInv, IInv', BInv, NEW w \in Worker, AlertStep(w), UNCHANGED reportVars
    PROVE  BInv' /\ StatusesKept
  <1>0. w \in DOMAIN session
    BY DEF IInv
  <1>1. CASE \E a \in Alert : Find(w, a)
    BY <1>1, FindStep DEF Find, StatusesKept
  <1>2. CASE GenerateReferenceId(w)
    BY <1>2, GenerateReferenceIdStep DEF GenerateReferenceId, StatusesKept
  <1>3. CASE CreateIncident(w)
    BY <1>3, CreateIncidentStep DEF StatusesKept
  <1>4. CASE Refuse(w) \/ Abort(w)
    <2>1. RollBack(w)
      BY <1>4 DEF Refuse, Abort
    <2> QED
      BY <1>0, <2>1, StepsBack DEF RollBack, StatusesKept
  <1>5. CASE Rescore(w)
    BY <1>5, RescoreStep DEF Rescore, StatusesKept
  <1>6. CASE AttachAlert(w)
    BY <1>6, AttachAlertStep DEF StatusesKept
  <1> QED
    BY <1>1, <1>2, <1>3, <1>4, <1>5, <1>6 DEF AlertStep

LEMMA AnalystStepsOfBooks ==
    ASSUME IInv, IInv', BInv, NEW u \in Analyst, AnalystStep(u), UNCHANGED reportVars
    PROVE  BInv' /\ StatusesKept
  <1>1. ASSUME NEW n \in DOMAIN incidents, RequestTransition(u, n) PROVE BInv' /\ StatusesKept
    <2>1. incidents' = incidents
      BY <1>1 DEF RequestTransition, Begin
    <2> QED
      BY <1>1, <2>1, RequestTransitionStep DEF StatusesKept
  <1>2. ASSUME NEW n \in DOMAIN incidents, RequestApproval(u, n) PROVE BInv' /\ StatusesKept
    <2>1. incidents' = incidents
      BY <1>2 DEF RequestApproval, Begin
    <2> QED
      BY <1>2, <2>1, RequestApprovalStep DEF StatusesKept
  <1>3. ASSUME NEW n \in DOMAIN incidents, AddRemark(u, n) PROVE BInv' /\ StatusesKept
    BY <1>3, AddRemarkStep DEF AddRemark, StatusesKept
  <1>4. CASE LoadForTransition(u)
    BY <1>4, LoadForTransitionStep DEF LoadForTransition, StatusesKept
  <1>5. /\ u \in DOMAIN session
        /\ \A x \in {"approve", "transition"} : session[u].pc = x => session[u] # Idle
    BY DEF IInv, Idle
  <1>6. CASE CommitTransition(u)
    <2>1. session' = [session EXCEPT ![u] = Idle]
      BY <1>6 DEF CommitTransition
    <2>2. /\ BInv' /\ session[u].pc = "transition" /\ session[u].seen \notin Terminal
          /\ \A m \in DOMAIN incidents : m # session[u].incident => incidents'[m] = incidents[m]
      BY <1>6, CommitTransitionStep
    <2>3. TransitionOf(session[u].incident)
      BY <1>5, <2>1, <2>2 DEF TransitionOf
    <2> QED
      BY <2>2, <2>3 DEF StatusesKept
  <1>7. CASE CommitApproval(u)
    <2>1. session' = [session EXCEPT ![u] = Idle]
      BY <1>7 DEF CommitApproval
    <2>2. /\ BInv' /\ session[u].pc = "approve"
          /\ \A m \in DOMAIN incidents : m # session[u].incident => incidents'[m] = incidents[m]
      BY <1>7, CommitApprovalStep
    <2>3. ApprovalOf(session[u].incident)
      BY <1>5, <2>1, <2>2 DEF ApprovalOf
    <2> QED
      BY <2>2, <2>3 DEF StatusesKept
  <1> QED
    BY <1>1, <1>2, <1>3, <1>4, <1>6, <1>7 DEF AnalystStep

LEMMA ReportStepsOfBooks ==
    ASSUME IInv, IInv', PutSomewhere, BInv, NEW u \in Analyst, ReportStep(u)
    PROVE  BInv' /\ StatusesKept
  <1>1. u \in DOMAIN session
    BY DEF IInv
  <1>2. incidents' = incidents
    BY DEF ReportStep, BeginReport, Begin, ReadSection, PutObject, CommitReport, FailReport,
           RollBack
  <1>3. BInv'
    BY BeginReportStep, ReadSectionStep, PutObjectStep, CommitReportStep, FailReportStep
       DEF ReportStep
  <1> QED
    BY <1>2, <1>3 DEF StatusesKept

LEMMA EveryStepOfBooks ==
    ASSUME IInv, IInv', PutSomewhere, BInv, [NextWithReports]_allVars
    PROVE  BInv' /\ StatusesKept
  <1>1. CASE UNCHANGED allVars
    <2>1. /\ UNCHANGED <<incidents, linked, decisions, ledger, handled, session>>
          /\ UNCHANGED reports
      BY <1>1 DEF allVars, vars, reportVars
    <2>2. Quiet
      BY <2>1 DEF Quiet
    <2>3. Books' /\ ReportsOK' /\ Onward
      BY <2>2, QuietKeeps DEF BInv
    <2>4. ASSUME NEW s \in DOMAIN session PROVE SessionOK(s)'
      <3>1. SessionOK(s) /\ session'[s] = session[s]
        BY <2>1 DEF BInv, SessionsOK
      <3>2. session[s].pc \in Correlating => linked'[session[s].alert] = 0
        BY <2>1, <3>1 DEF SessionOK, Correlates
      <3> QED
        BY <2>3, <3>1, <3>2, OtherSession DEF BInv
    <2>5. AlertsDiffer'
      BY <2>1 DEF BInv, SessionsOK, AlertsDiffer
    <2> QED
      BY <2>1, <2>3, <2>4, <2>5 DEF BInv, SessionsOK, StatusesKept
  <1>2. CASE Next /\ UNCHANGED reportVars
    <2>1. ASSUME NEW n \in DOMAIN incidents, Age(n) PROVE BInv' /\ StatusesKept
      BY <1>2, <2>1, AgeStep DEF Age, StatusesKept
    <2> QED
      BY <1>2, <2>1, AlertStepsOfBooks, AnalystStepsOfBooks DEF Next
  <1>3. CASE \E u \in Analyst : ReportStep(u)
    BY <1>3, ReportStepsOfBooks
  <1> QED
    BY <1>1, <1>2, <1>3 DEF NextWithReports

-----------------------------------------------------------------------------
\* The theorems

\* What always holds: the rows and the sessions, the files of the reports, the books.
AllInv == IInv /\ PutSomewhere /\ BInv

LEMMA AlwaysInv == SpecWithReports => []AllInv
  <1>1. InitReports => AllInv
    BY Initially, BooksInitially DEF AllInv
  <1>2. AllInv /\ [NextWithReports]_allVars => AllInv'
    BY EveryStep, EveryStepOfBooks DEF AllInv
  <1> QED
    BY <1>1, <1>2, PTL DEF SpecWithReports

\* The reference ids of the incidents are 1, 2, 3 and so on, however many workers count
\* the incidents at the same time (IncidentRepository.generate_reference_id and the
\* unique constraint of the column).
THEOREM IncidentReferenceIds == SpecWithReports => []ReferenceIdsAreConsecutive
  <1>1. AllInv => ReferenceIdsAreConsecutive
    BY DEF AllInv, IInv
  <1> QED
    BY <1>1, AlwaysInv, PTL

\* A report that there is a row of is in MinIO or in the file system, and is found there
\* when MinIO answers (put_object, get_object).
THEOREM ReportsAreStored == SpecWithReports => []ReportsCanBeDownloaded
  <1>1. AllInv => ReportsCanBeDownloaded
    BY DEF AllInv, PutSomewhere, PutOutcomes, ReportsCanBeDownloaded, Source, NoOne
  <1> QED
    BY <1>1, AlwaysInv, PTL

\* The types of what is committed, whatever sessions overlap: every incident has its part
\* of the ledger, every attached alert an incident and every session the incident it is
\* about (repositories/incident_repository.py, the foreign keys of the tables).
THEOREM IncidentTypes == SpecWithReports => []TypeOK
  <1>1. AllInv => TypeOK
    <2> SUFFICES ASSUME IInv, Books PROVE TypeOK
      BY DEF AllInv, BInv
    <2>1. \A n \in DOMAIN incidents : incidents[n] \in RowType
      BY DEF Books, BooksOf
    <2>2. \A s \in Worker \cup Analyst :
             session[s].pc \in OfIncident => session[s].incident \in DOMAIN incidents
      BY DEF IInv, SessionsAreAboutIncidents
    <2> QED
      BY <2>1, <2>2 DEF Books, TypeOK, OfIncident
  <1> QED
    BY <1>1, AlwaysInv, PTL

\* The status of an incident can be told from its audit trail, whichever attachments,
\* transitions and approvals overlap: it is the one assigned by the last entry to assign
\* any, or else by an entry that another session made between that session's selecting
\* the incident and its commit (update_incident, AuditService.append).
THEOREM IncidentLedger == SpecWithReports => []LedgerExplainsStatus
  <1>1. AllInv => LedgerExplainsStatus
    <2> SUFFICES ASSUME Books, NEW n \in DOMAIN incidents
                 PROVE  \E i \in Assigning(n) :
                            /\ \A j \in Assigning(n) : j <= i
                            /\ \/ incidents[n].status = StatusOf(ledger[n][i])
                               \/ \E j \in Assigning(n) :
                                     /\ incidents[n].since < j /\ j < i
                                     /\ incidents[n].status = StatusOf(ledger[n][j])
      BY DEF AllInv, BInv, LedgerExplainsStatus
    <2>1. /\ DOMAIN ledger[n] = 1 .. Len(ledger[n])
          /\ Explains(ledger[n], incidents[n].status, incidents[n].since)
      BY LogsAreLists, ListFacts DEF Books, BooksOf, Accounts
    <2> QED
      BY <2>1 DEF Explains, Assigning
  <1> QED
    BY <1>1, AlwaysInv, PTL

\* An incident that no two attachments have met in is scored no lower than its latest
\* alert would be by itself, and has the priority of its score, for any weights, assets,
\* reputations and alerts (correlate_alert, RiskScoringService.score).
THEOREM IncidentScores == SpecWithReports => []ScoreCoversLatestAlert
  <1>1. AllInv => ScoreCoversLatestAlert
    BY DEF AllInv, BInv, Books, BooksOf, Covers, ScoreCoversLatestAlert
  <1> QED
    BY <1>1, AlwaysInv, PTL

\* What a report shows is accounted for by the audit entries that it is attested by,
\* whatever is committed between one of its queries and the next (build_report).
THEOREM ReportsAreAttested == SpecWithReports => []ReportIsAttested
  <1>1. ASSUME ReportsOK, NEW r \in DOMAIN reports
        PROVE  LET says == reports[r].says
                   attested == {ledger[reports[r].incident][i] : i \in 1 .. says.attestation}
               IN  /\ \E e \in attested : StatusOf(e) = says.status
                   /\ \A a \in says.alerts :
                         \E e \in attested : e.type \in AlertEntry /\ e.about = a
                   /\ \A t \in says.actions :
                         \E e \in attested : e.type \in DecisionEntry /\ e.about = t
    <2> DEFINE says == reports[r].says
               log == ledger[reports[r].incident]
    <2>1. /\ Assigned(log, says.attestation, says.status)
          /\ \A a \in says.alerts : Tells(log, says.attestation, AlertEntry, a)
          /\ \A t \in says.actions : Tells(log, says.attestation, DecisionEntry, t)
      BY <1>1 DEF ReportsOK, ReportOK, Attests
    <2> QED
      BY <2>1 DEF Assigned, Tells
  <1>2. AllInv => ReportIsAttested
    BY <1>1, Zenon DEF AllInv, BInv, ReportIsAttested, AlertEntry, DecisionEntry
  <1> QED
    BY <1>2, AlwaysInv, PTL

\* No alert, no playbook and no remark brings a closed incident or a false positive back,
\* and no transition but one that was validated when it was neither; approvals of its
\* actions are excepted (transition_incident, approve_action,
\* ResponseOrchestrator.evaluate_incident).
THEOREM ConcludedIncidents == SpecWithReports => AlertsAndTransitionsKeepTerminal
  <1>1. AllInv /\ AllInv' /\ [NextWithReports]_allVars =>
            [\A n \in DOMAIN incidents :
                /\ incidents[n].status \in Terminal /\ ~ApprovalOf(n)
                /\ incidents'[n].status # incidents[n].status
                => \E u \in Analyst :
                      /\ session[u] # Idle /\ session'[u] = Idle
                      /\ session[u].pc = "transition" /\ session[u].incident = n
                      /\ session[u].seen \notin Terminal]_vars
    BY EveryStepOfBooks DEF AllInv, StatusesKept, TransitionOf
  <1> QED
    BY <1>1, AlwaysInv, PTL DEF SpecWithReports, AlertsAndTransitionsKeepTerminal

=============================================================================
