--------------------------- MODULE IncidentReports ---------------------------
(***************************************************************************)
(* Reports about incidents (backend/app/api/routers/reports_router.py,     *)
(* services/reporting/incident_report_builder.py,                          *)
(* adapters/object_storage/minio_object_store.py), beside all that happens *)
(* to the incidents in Incidents.                                          *)
(*                                                                         *)
(* A report is put together from one query after the other, each seeing    *)
(* what is committed at its time; then the file goes to the object store,  *)
(* which is no part of the transaction, and the row with its audit entry   *)
(* to the database.  The file is taken for what it says: the rendering and *)
(* the hash of it are left out, and so are the sections that repeat        *)
(* columns of the incident, the timeline, which goes with the audit        *)
(* entries, the evidence, which nothing stores, and the verification of    *)
(* the whole ledger, which is in Verification.                             *)
(***************************************************************************)
EXTENDS Incidents

CONSTANTS Report        \* report ids, uuid4

VARIABLES
    reports,        \* committed: by report id what the report says, and of which incident
    objects         \* by report id, where the object store has its file

reportVars == <<reports, objects>>

allVars == <<vars, reportVars>>

InitReports ==
    /\ Init
    /\ reports = [r \in {} |-> NoOne]
    /\ objects = [r \in Report |-> {}]

\* What a section of a report shows: the alerts of the incident, its actions, and
\* last the range of audit entries that the report is attested by.
Section(n, section) ==
    CASE section = "alerts" -> {a \in Alert : linked[a] = n}
      [] section = "actions" -> DOMAIN Decided(n)
      [] section = "attestation" -> Len(ledger[n])

\* Defect: the attestation is put together before the rest.
NextSectionAttestedFirst ==
    [row |-> "attestation", attestation |-> "alerts", alerts |-> "actions", actions |-> "none"]

NextSection ==
    [row |-> "alerts", alerts |-> "actions", actions |-> "attestation", attestation |-> "none"]

\* build_report: the incident's row,
BeginReport(u, n, r) ==
    /\ objects[r] = {}
    /\ \A s \in Analyst : session[s] # Idle /\ session[s].pc = "report" => session[s].report # r
    /\ Begin(u, [pc |-> "report", report |-> r, incident |-> n, section |-> NextSection.row,
                 says |-> [status |-> incidents[n].status]])
    /\ UNCHANGED reportVars

\* and its sections.
ReadSection(u) ==
    LET s == session[u]
    IN  /\ s # Idle /\ s.pc = "report" /\ s.section # "none"
        /\ session' = [session EXCEPT
              ![u].section = NextSection[s.section],
              ![u].says = [x \in DOMAIN s.says \cup {s.section} |->
                              IF x = s.section THEN Section(s.incident, s.section)
                              ELSE s.says[x]]]
        /\ UNCHANGED <<incidents, linked, decisions, ledger, handled, aged, manual, faults,
                       reportVars>>

\* Defect: an error of MinIO is passed over.
PutOutcomesNoFallback == {{"minio"}, {}}

\* put_object: in MinIO; in the file system if MinIO fails.  (If it fails with the
\* file stored, both have it, and MinIO is asked first.)
PutOutcomes == {{"minio"}, {"local"}}

PutObject(u) ==
    LET s == session[u]
    IN  /\ s # Idle /\ s.pc = "report" /\ s.section = "none"
        /\ \E places \in PutOutcomes : objects' = [objects EXCEPT ![s.report] = places]
        /\ session' = [session EXCEPT ![u].pc = "put"]
        /\ UNCHANGED <<incidents, linked, decisions, ledger, handled, aged, manual, faults,
                       reports>>

\* The row, the REPORT_GENERATED entry and the commit.
CommitReport(u) ==
    LET s == session[u]
        n == s.incident
    IN  /\ s # Idle /\ s.pc = "put"
        /\ reports' = [r \in DOMAIN reports \cup {s.report} |->
                          IF r = s.report THEN [incident |-> n, says |-> s.says]
                          ELSE reports[r]]
        /\ ledger' = [ledger EXCEPT ![n] = Append(@, Entry("REPORT_GENERATED", s.report))]
        /\ session' = [session EXCEPT ![u] = Idle]
        /\ UNCHANGED <<incidents, linked, decisions, handled, aged, manual, faults, objects>>

\* The commit fails: the file stays behind.
FailReport(u) ==
    /\ session[u] # Idle /\ session[u].pc = "put"
    /\ faults < MaxFaults /\ faults' = faults + 1
    /\ RollBack(u)
    /\ UNCHANGED reportVars

\* download_report, get_object: where the file is read from.
Source(r, minioAnswers) ==
    IF minioAnswers /\ "minio" \in objects[r] THEN "minio"
    ELSE IF "local" \in objects[r] THEN "local"
    ELSE NoOne

ReportStep(u) ==
    \/ \E n \in DOMAIN incidents, r \in Report : BeginReport(u, n, r)
    \/ ReadSection(u) \/ PutObject(u) \/ CommitReport(u) \/ FailReport(u)

NextWithReports ==
    \/ Next /\ UNCHANGED reportVars
    \/ \E u \in Analyst : ReportStep(u)

SpecWithReports == InitReports /\ [][NextWithReports]_allVars

-----------------------------------------------------------------------------
\* Properties

\* The audit entries a report is attested by account for all that it shows, though
\* it is read while the incident changes: its status, its alerts and its actions
\* (build_report reads the ledger last).
ReportIsAttested ==
    \A r \in DOMAIN reports :
        LET says == reports[r].says
            attested == {ledger[reports[r].incident][i] : i \in 1 .. says.attestation}
        IN  /\ \E e \in attested : StatusOf(e) = says.status
            /\ \A a \in says.alerts :
                  \E e \in attested : /\ e.type \in {"INCIDENT_CREATED", "ALERT_ATTACHED"}
                                      /\ e.about = a
            /\ \A t \in says.actions :
                  \E e \in attested : /\ e.type \in {"ACTION_DENIED", "ACTION_PROPOSED",
                                                     "ACTION_EXECUTED"}
                                      /\ e.about = t

\* A report there is a row of can be downloaded when MinIO answers, whatever MinIO
\* did when it was stored (put_object before the row; the fallback of either side).
ReportsCanBeDownloaded ==
    \A r \in DOMAIN reports : Source(r, TRUE) # NoOne

=============================================================================
