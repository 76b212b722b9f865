# TLA+ models of SentinelChain

SentinelChain (repository `Slytherin-Chain`) detects intrusions, answers them
with automated or approved actions, and keeps an audit ledger whose batches are
anchored on an EVM chain. This directory models the parts of it where several
actors write shared state, from the ingestion of an event to the audit of the
ledger: ingestion and detection, incidents and their reports, the response
actions, the ledger, the Merkle batches and their anchoring, the contract, and
the audit. Paths below are relative to the repository; `app/` is `backend/app/`.

## 1. The system

| Component | State | Operations | What makes it hard |
|---|---|---|---|
| Audit ledger (`app/services/integrity/hash_chain_ledger.py`) | table `audit_ledger_entries` | `append_entry` in every transaction that changes something | read, then insert, without a lock; aborts |
| Merkle tree (`merkle_tree.py`) | none | root, proof, verification | odd numbers of leaves |
| Anchoring (`anchor_batch_service.py`, `anchor_chain_client.py`, `anchor_worker.py`, `POST /integrity/anchor-now`) | `anchor_batches`, `anchor_batch_id` of the entries | `create_and_anchor_batch` | one database transaction around a blockchain transaction: timeouts, reverts, crashes, two anchorings at once |
| Contract (`contracts/src/IntegrityAnchor.sol`) | owner, allowlist, batches, `lastToSequence` | `anchorRoot`, `addAnchorer`, `removeAnchorer` | boundaries of the ranges |
| Audit (`integrity_verification_service.py`) | none | `verify_ledger` | two SELECTs while others commit |
| Response (`app/services/response/`, `app/adapters/enforcement/`) | `response_actions`, blocklist and enforcement rows, incident status, autonomy mode | `evaluate_incident`, `approve_action`, `deny_action`, `rollback_action`, `process_expired_actions` | guardrails read what others change; two incidents share one row, which is read and rewritten without a lock; approvals, rollbacks and expiry overlap |
| Ingestion (`app/api/routers/events_router.py`, `app/services/ingestion/`) | `security_events`, the Redis stream, whether the publisher still uses Redis | `ingest_single_event`, `ingest_batch_events`, `publish` | published before committed; errors of Redis; clients that try again |
| Detection (`app/services/detection/`, `app/workers/detection_worker.py`) | consumer group, Redis windows, their fallback in memory, `alerts` | `process_event`, `record_and_count`, `record_sequence_step`, `is_suppressed` | at-most-once handling; windows shared by workers; suppression sees committed alerts only; crashes |
| Simulator (`app/api/routers/simulator_router.py`) | none | `run_scenario_endpoint` | evaluates inline what it also publishes |
| Scoring and enrichment (`app/services/risk_scoring_service.py`, `app/services/enrichment/`) | the asset inventory | score, priority, lookups | clamps, rounding |
| Correlation (`app/services/incident_correlation_service.py`) | `incidents`, `incident_alerts`, timeline | `correlate_alert` | lookup, count of the reference id and rescoring come before the session has the ledger |
| Incident lifecycle (`app/services/incident_lifecycle_service.py`, `incidents_router.py`) | incident status | transitions, notes, approvals | the status is read twice; actions set statuses around the state machine |
| Reports (`app/services/reporting/`, `minio_object_store.py`) | `reports`, MinIO or the file system | build, store, download | read in five queries while the incident changes; a file is in no transaction |
| Authentication, evidence, settings, dashboard, frontend | small or none | | see section 6 |

How they meet: an event goes through the stream to a detection worker; in one
database transaction per message the worker counts it in the windows, records alerts, correlates them to an
incident, appends to the ledger, and evaluates the playbooks, which may call a
connector. Analysts approve, deny, roll back and conclude in transactions of
their own, the expiry worker in another, and each appends to the ledger. The
anchor worker batches what is in the ledger; the audit reads ledger and batches.

What has to be true: what is stored is also detected, no threshold is overlooked,
no alert is unfounded or repeated by its process, and no message waits for ever
(`EventPipeline`); reference ids have no gaps, the audit trail explains the status
of an incident, its score covers its latest alert, no alert reopens a closed incident
(`Incidents`); a report is covered by the ledger entries it is
attested by and can be downloaded (`IncidentReports`); the committed ledger is one chain whatever races
(`HashLedger`); the roots sent and stored are the roots of recorded entries
(`Anchoring`); ranges on chain never overlap (`IntegrityAnchor`); the audit finds
every rewritten entry (`Verification`); no automatic action once the kill switch
is thrown, nothing automatic against allowlisted or critical targets, the hourly
limit holds, and an active block has an action by which to lift it unless manual
operations on its target have overlapped (`ResponseActions`). `PROJECT.json` lists the
hazards behind these, line by line.

## 2. Modules

`LedgerDigest` - what is hashed. SHA-256 is an injective function: a digest is
the record of its arguments. Used by `HashLedger` and `Anchoring`.

`HashLedger` - concurrent appends. `rows` is the committed table, `own[s]` the
rows a session has flushed. `GetLatestEntry` is the SELECT of `append_entry`,
`InsertRow` / `InsertConflict` its INSERT, `Commit` / `Rollback` the end of
`get_db_session`. The database is PostgreSQL at READ COMMITTED: an INSERT whose
key another open transaction holds waits, and fails if that one commits. The
SQLite fallback, which has one writer, is not modelled.
`AppendOnlyLog` is its abstract specification: a sequence of bodies that only
grows at its end. `LedgerIsAppendOnly` states the refinement.

`MerkleTree` - tree, root and proof as recursive functions (no `RECURSIVE`), with
the leaf and internal prefixes kept apart; a round of each of the code's loops is an
operator of its own (`WithParents`, `Climb`, `Follow`).

`IntegrityAnchor` - the contract; one action per function, reverts are guards.

`Anchoring` - extends `LedgerDigest` and `MerkleTree` and instantiates
`IntegrityAnchor`. An append is one step, which `HashLedger` justifies. An
anchoring goes idle, listed, marked, sent: what it flushes becomes visible with
`Finish`, its commit. The row locks of `mark_anchored` are `RowsLocked`. The
wallet deployed the contract and is its only caller; its nonce is the number of
transactions mined, so at most one is pending. `Crash` loses the database
transaction and not the blockchain's. `deployed` says whether a contract address
is configured: without one the client makes a receipt up.

`Verification` - extends `Anchoring` with the audit (`ReadEntries`, then
`ReadBatches`, with anything in between) and with `TamperPayload`, the UPDATE of
`scripts/simulate_tampering.py`.

`ResponseActions` - committed state `db` (actions, enforced rows, statuses) and
`mode`; `draft` is the uncommitted state of the one transaction that has
appended to the ledger, `holder`. That there is only one is
`OneUncommittedWriter` of `HashLedger`. `correlate_alert` always appends, before
`evaluate_incident` looks at anything, so an evaluation runs with the ledger to
itself; `Decide` (guardrails) and `CarryOut` are still separate steps. Approvals,
denials and rollbacks append last, so their reads and writes before that are steps
among those of others. `task[a]` is the request an analyst has under way, with what
its SELECTs have returned: `Approve` reads the row of the target, `WriteRow` rewrites
it, `ReadIncident` reads the incident, `CommitTask` appends and commits. SQLAlchemy
updates the columns whose value differs from the one it has read, so `Approved` and
`Updated` put together what the row has by now and what the request has changed.
`Rollback` sets the row inactive at once, whatever it has read. Who updates the row
of a target locks it until the end of the transaction (`LockedByTask`, `RowFree`); an
evaluation that wants the same row waits for it while the request waits for the
ledger, and one of the two is rolled back (`Abandon`, `FailTask`). `raced` is history:
the targets whose last approval or rollback overlapped another one or an expiry.

Choices in `ResponseActions` a reader should know:
- a message with several alerts is several evaluations in a row;
- an action's type follows from its target; RESTRICT_ACCESS is left out, and two
  incidents that share an address stand for two actions that share a row;
- an incident is about one address or one host, as `correlate_alert` makes it
  (a group key with a dot is an address, so a host name with a dot is handled as
  one);
- a notification counts towards the hourly limit, as in
  `count_actions_in_window`, and has no time to live;
- the shortest time to live of the shipped playbooks is an hour, so `Lapse` comes
  after `LeaveWindow` (the schema would allow a minute);
- `min_confidence` and the playbook's category do not occur, because the code
  does not look at them; of the eleven guardrails of README.md the code has the
  six that are in `Guardrails` and the idempotency lookup of `Decide`;
- "fail" is a connector that raises: the row is FAILED and the evaluation goes on;
- the locks on actions and incidents are left out, as who waits for one goes on
  later or is rolled back; mode changes and conclusions are one step, since what
  they read decides nothing that they write;
- a scan of the expiry worker is one step after it has listed: up to its first append
  nothing it does can be seen, and from there on nothing else commits.

`EventPipeline` - from a request to an alert. A request saves its rows, publishes
each event and commits (`Save`, `Publish`, `CommitIngest`), and may fail or be tried again;
a worker reads messages (`Read`), and for each event and rule records it in the window (`Record`), trims the
window (`Trim`), and reads it and raises an alert if none suppresses it (`Raise`);
then it commits and acknowledges, in two more steps. The simulator does the same
steps in its own process with the events it has published. Redis (`stream`,
`window`) keeps what a rolled-back transaction has put there; the database
(`events`, `alerts`) does not. `counterUp` and `publisherUp` are the flags by which a
process gives Redis up for good; `memory` is what it counts in from then on. As the
code's list does, it has an entry for every time an event was evaluated, with its
place in the order of arrival. A
fault is an error of Redis (with or without the effect of the call), an
exception in a session, or a crash. `Inject` and the batches publish one event
after the other. A rule is given by what its evaluator distinguishes: which events
fit, by which key, and what is counted (`mark`); all four types are in the module. A retry carries the events of its own (`Batch` is given by try), since
`normalize` gives an event that came without an `event_id` another one each time.
`ByEntry` tells whether an evaluation counts entries or different marks: entries for a
threshold, and for a `distinct_count` rule when the event at hand has no value of
`distinct_field`. In that case five connections of which four go to one port raise
PORT-SCAN-003, and `AlertIsJustified` says so.
`RulesAssumption` says that an event is its own mark where entries are counted,
`ScenarioAssumption` that a scenario has no event twice (`event_factory.py` makes a
new id for each).

`RiskScoring` - `calculate_risk_score`, `determine_priority` and the lookups they
are fed from, in integers. Where the sum lies right between two tenths the code's
binary fractions may round either way, and so does the model.

`Incidents` - correlation, scoring, what the playbooks decide, and the lifecycle;
extends `RiskScoring`. A session's reads before it has the ledger are steps of
their own (`Find`, `GenerateReferenceId`, `Rescore`, `RequestTransition`,
`LoadForTransition`, `RequestApproval`); the rest of the transaction is one step,
because `HashLedger` shows that one session at a time has uncommitted entries.
`Column` is the UPDATE of one column by SQLAlchemy, which leaves out what has not
changed since it was selected. The ledger holds what the code's entries hold: the
type, and the alert, the action or the new status. `StatusOf` is the status that the
session of an entry assigned; that it has reached the row is not written anywhere.
`LedgerExplainsStatus` is about the difference: an approval that found CONTAINED and
commits after another request has moved the incident to INVESTIGATING leaves its
entry last and INVESTIGATING in the row, which then is what an entry before the last
says. Things a reader should know:
- the playbooks' actions are all decided when the incident is created, where every
  idempotency key is taken; `decisions` keeps that first decision, and an attached
  alert changes no status;
- `latest` and `contended` are history, for `ScoreCoversLatestAlert`, and `since`, the
  number of entries when the last session to assign the status selected it, for
  `LedgerExplainsStatus`;
- `AddRemark` stands for notes, denials and rollbacks: entries that set no status;
- the simulated connectors fail with the database only, and the session with it; a
  connector that raises is in `ResponseActions`;
- a worker that fails loses its alert (`Abort`): its message is not read again;
- two incidents of one key may be open at once, when two alerts find none; the
  unique constraint refuses one only if both have counted alike;
- the year in a reference id is left out: two creations around New Year may get the
  same number.

`IncidentReports` - extends `Incidents` by reports: one step per query, then the file,
then the row with its ledger entry. A file that was stored before a commit that
fails stays behind (`FailReport`).

`IntegrityAnchorProofs`, `HashLedgerProofs`, `MerkleTreeProofs`, `AnchoringProofs` (also
about `Verification`), `ResponseActionsProofs`, `EventPipelineProofs`, `IncidentsProofs` -
theorems; `MCMerkleTreeProofs` proves the three properties of `MCMerkleTree`. `MC*` - instances; `MCMerkleTree` states what holds of every list of leaves,
and `MCIntegrityAnchor` extends it, as the leaves' root is what the contract is given.

## 3. Runs

| Run | Instance | Shows |
|---|---|---|
| `contract` | 2 accounts, 2 roots, numbers 0-3, 3 batches; all lists of 1 to 8 leaves of 2 values, gathered first | ranges are disjoint and ordered from the first batch at 0 on; roots are final; RFC 6962 root, proofs, commitment |
| `ledger` | 3 sessions, 2 bodies, 3 entries | one chain, stale reads are caught, refinement of the log, every append answered |
| `anchoring` | 2 anchorings at once, 3 entries in batches of 2, 1 crash, with and without contract | stored roots are right, proofs exist, every entry gets a batch |
| `verification` | 1 anchorer, audits one after the other, 3 entries, any tampering | tampering is located; false alarms have one cause |
| `tampered_verdict`, `verified_verdict` | same | violations |
| `response` | 2 workers, 2 analysts, 2 incidents on one address, limit 1, 2 manual operations | kill switch, limit; a block without an action to lift it comes from overlapping operations |
| `response_expiry` | 1 worker, 1 analyst, an address with a notification, an allowlisted address and a critical host, 1 manual operation | bounds of automation; lapsed actions expire |
| `blocks_expire` | same | violation |
| `detection` | 3 events of one address, 2 by a request with 2 tries, of which one is another event at the second, 1 by the simulator; 1 worker, a match and a distinct_count rule, 2 faults | what is stored is published, thresholds are not overlooked, alerts are justified and not repeated, every message settles |
| `incidents` | 3 alerts of one host, each more severe, the seeded playbooks, 2 workers, 2 analysts, 2 requests, 1 report, 1 abort, 1 incident that leaves the window | ids, audit trail, score, reports, and that alerts and transitions keep closed incidents closed |
| `terminal_reopened` | 1 alert whose playbook asks for approval, 1 analyst, 2 requests | violation |

Bounds. Three entries in batches of two give a full batch, a partial one, a
batch that overlaps a second anchoring and a backlog behind both. Eight leaves
have every shape of odd node up to three levels. One crash lets the chain be
ahead of the database, and the anchoring after it meet the contract's refusal. A limit of one with two actions is one over. Two manual
operations are what it takes to move a row to another action and then lift it by
the first, and for an approval and a rollback to overlap. In `detection` the event of
the simulator lies right at the end of the window of
the first, so both bounds of the window are met, and worker and simulator, which
share the windows, race in either order; a retry whose first try was published repeats
the first event and brings another one for the second. Two faults let a process that
counts in memory meet what was repeated. The distinct_count rule counts marks for the
events that have a port and entries for the one that has none; rules of type
`threshold` take the steps of the latter, those of type `sequence` of the former, and
are not instantiated. That more workers than one share the windows is left to the
proofs, which hold for any number. In `incidents` three alerts give two
creations at once, two attachments at once, and one after; two requests give a
transition beside a report, an approval beside a transition, or two transitions. The
host faces the internet, so that the last alert suffices to isolate it, and an
approval meets an incident that is CONTAINED already.
`Postures` is what the autonomy mode and the limit come down to; the run has `"auto"`
alone, in which a decision is to deny or to execute; `terminal_reopened` has `"ask"`.
`MaxTries`, `MaxFaults`, `MaxExpired` and
`MaxAged`, `MaxOld`, `MaxEntries`, `MaxLeaves`, `MaxBatches`, `MaxCrashes` and `MaxManual`
bound the models and not the code; `MaxPerBatch` and `MaxAuto` are parameters of
the code with small values. `response` lets one action leave the window and lapse,
`response_expiry` two. Where a bound ends the model the `.cfg` says so and deadlock is
not checked. Symmetry is used in `response` and `incidents`, for workers, analysts and, in `response`, the two
incidents, and no liveness is checked there.

Fairness.
- `HashLedger`: a handler that has flushed goes on to its commit (weak), and an
  INSERT that can run again and again runs (strong: PostgreSQL wakes waiters in
  the order in which they came). Sessions need not append.
- `Anchoring`: the worker's loop has no end and every wait in an anchoring has a
  timeout, so its steps are weakly fair. `anchor-now`, mining and crashes are not.
- `ResponseActions`: the transaction that has the ledger goes on, a request of an
  analyst ends, committed or rolled back (PostgreSQL breaks deadlocks), the expiry
  worker scans (weak), and a scan gets the ledger now and then (strong: it loses only
  to a session that appended first, and its loop tries every interval). Nobody has to
  approve anything, and messages need not arrive. In `blocks_expire` time passes, too
  (`TimedSpec`), so that the block it shows does not stay for want of time.
- `EventPipeline`: the loop of each detection worker (weak): it has no end, every
  exception is caught in it, and a crashed worker is started again. Clients, the
  simulator, faults and time are not fair.

What the violations show, each against a sentence of the documentation:
- `TamperedMeansTampered` (docs/blockchain-integrity.md:57): a batch that commits
  between the audit's two reads makes an intact ledger look rewritten.
  `AlarmWithoutTamperIsARace` shows that nothing else does.
- `VerifiedMeansOnChain` (docs/blockchain-integrity.md:56): the contract is not
  read; batches that failed or were reverted count. (The entries of a FAILED batch are
  marked like any other's and never listed again, although ARCHITECTURE.md:150 says
  that they are retried.)
- `BlocksExpire` (README.md:103): a denied action is stored without a time to live,
  and can be approved.
- `TerminalIsFinal` (app/domain/incident_state_machine.py:41-42, "# Terminal state";
  backend/tests/unit/test_state_machine.py:29; MASTER_PROMPT.md:497): an analyst makes an
  incident a false positive, and approving the action it still has pending sets it to
  CONTAINED. No requests overlap: `approve_action` asks for no status.
  `AlertsAndTransitionsKeepTerminal` shows that nothing but an approval does that, save a
  transition that was validated before.

## 4. Proofs

For every set of accounts and roots and every bound, `IntegrityAnchorProofs` proves
`TypeOK`, `RangesAreDisjointAndOrdered` and `AnchoredRootsAreFinal`. Disjointness is
not inductive: the contract compares with `lastToSequence` and counts with
`batchCount`. The invariant adds `LastToSequenceCoversAll` (the scalar stands for
all ranges) and `CountedBatchesAreStored` (the next id is new).

For every set of sessions and bodies and every length, `HashLedgerProofs` proves
`TypeOK`, `LedgerIsAChain`, `OneUncommittedWriter`, `StaleReadIsCaught` and the
refinement `LedgerIsAppendOnly`. The chain depends on what a committing session
sees, so the invariant adds that what each session sees is a chain
(`VisibleChains`) and that its uncommitted rows come after the committed ones
(`NewKeys`). The argument: an uncommitted row has the number after the committed
chain or after other rows of its own session, so two writers would both hold the
first of these numbers, which the primary key forbids; hence one writer, whose
rows extend the chain it read; any other session's read is the committed chain's
end, and that key is held or taken.

For any number of leaves, `MerkleTreeProofs` proves that the proof of a leaf leads to
the root (`ProofLeadsToRoot`), so that `verify_proof` accepts what `get_proof` returns,
and that lists with one root are equal, whatever their lengths (`RootCommits`: this
takes the two prefixes, and would be false if an odd node were paired with itself).
Tree and proof are built by recursive functions. What they have after every round is
shown by a smallest counterexample: a nonempty set of natural numbers has a least
element (`LeastElement`), and the first round to lack the property has one before it,
or is the first of all. `MCMerkleTreeProofs` states the two of `MCMerkleTree` that follow
(a proof vouches for no other leaf, and a root pins down its leaves) and proves that the
root is that of RFC 6962 (`RootIsThatOfRfc6962`), whose tree is defined from the top
down: n > 1 leaves are split at the largest power of two below n. A power of two is
taken as a number with no odd divisor but 1, for the provers know no powers. The split of
half as many nodes is half of the split (`SplitOfHalf`), so the reference gives the
parents of a layer the hash it gives the layer (`ReferenceOfParents`), the odd node
included, which is its own parent; and so it does up to the root.

For every set of anchorers and bodies, any batch size and any length,
`AnchoringProofs` proves `TypeOK`, `RootsMatchLedger`, `AnchoredIsPrefix`,
`ProofAvailable`, and of the audit `TamperIsLocated`, `VerifiedIsBatched` and
`AlarmWithoutTamperIsARace`. What a batch says of the ledger is computed when its
entries are listed, and stored later, after others have been. The invariant (theorem
`BatchesStayTrue`) carries the claim through every place where a batch can be: the work
of an anchoring, a pending transaction, the contract (`ContractOK`), a row (`RowsOK`);
that the id of an open batch is its own (`IdsOK`), so that no row is written over; and that all
entries before a range being marked are marked (`PrefixOK`). It looks at no payload,
so that tampering keeps it; the audit's own part (`AInv`) says that the chain breaks where
something was forged and nowhere else, and that what the audit has read was there.

The same invariant gives a refinement across components: anchoring, with its retries,
crashes and audits, implements the contract's own specification
(`AnchoringImplementsContract`), an instance of `IntegrityAnchorProofs` with one account,
whose roots are Merkle roots and whose numbers are those of the ledger. A mined
transaction has to be a call the contract accepts within these bounds, for which there
must be no more batches than numbers taken (in `ChainTypeOK`). The theorems about the
contract then hold of the whole system: `OnChainRangesDisjoint` and `OnChainRootsFinal`.
`OnChainRootsAreEvidence` puts the chain of hashes, the tree and the contract together:
rows that lead to a root on chain are as many as its range has numbers, none of them is
forged, and each is the stored entry unless that was rewritten since. So the roots on
chain convict whoever rewrites entries and computes every hash again. (Hashes are injective
in the model, section 2.)

For every set of workers, incidents, targets and playbooks, any limit and any number of
manual operations, `ResponseActionsProofs` proves `TypeOK`,
`OrphanBlockIsARace`, `AutomaticOnlyInAuto`, `RateLimitHolds` and `AutomationInBounds`.
The invariant states what they say of the database of the draft as well. What a
task has read still fits the database, unless it was crossed (`TasksFit`): it keeps
doing so because every other commit leaves what is not about its target alone, or
hands the row to an action that is new (`Succeeds`). A decision
and its execution are two steps: what the guardrails have found, the mode included, is
still so when the action is created, and the actions of the last hour are no more than
they have counted (`DecisionStands`). For the worker that has decided holds the ledger
(`HolderEvaluates`), which whoever switches the mode has to append to as well, and time only
takes actions out of the window.

For every set of events, rules and workers and all bounds, `EventPipelineProofs`
proves `StoredIsPublished`, `AckedIsCommitted` and `OneFreshAlertPerProcess`. None is
inductive. A message may be acknowledged in a step after the one that commits, so
the invariant says that a process about to acknowledge has committed what it has in
hand (`Acknowledging`). Rows are visible long after they were published: while the
publisher is up, what a request or the simulator has counted as sent is in the
stream (`RequestPublished`, `ScenarioPublished`). An alert is checked for suppression
while it is a draft, and committed later: every draft is its process's own
(`DraftIsOwn`), and committed alerts and drafts of one process together have at most
one fresh alert of a rule and key (`OneFreshAlert`); as the bound up to which alerts
have ceased to suppress only goes up, none becomes fresh again.

It also proves `TypeOK`, `ThresholdIsAlerted` and `AlertIsJustified`, which are about what
rules find in the windows (invariant `WInv`). For the first: without faults, whenever the
window has what the rule asks for, it is alerted or a process is on its way to count all
of it (`NotOverlooked`). Whoever adds to a key becomes such a process; whoever
trims it goes on to count all that is left; whoever counts it raises an
alert or sees one. When everything is acknowledged nobody is on
the way, since no message is in two hands (`InboxesApart`), and the alert is
committed (`DraftIsOfMessage`). For the second, what is counted is of
the rule and key (`WindowsFit`, `MemoryFits`); a window has an event once, and a
process that counts in memory has it once for every message it was given
(`MemoryOfWorkers`, `MemoryOfSimulator`), so that it takes one event for two only if
a retry has put it in the stream twice.

For every set of alerts, playbooks, weights, assets and sessions, `IncidentsProofs`
proves of `SpecWithReports` all seven properties of the run `incidents`: `TypeOK`,
`ReferenceIdsAreConsecutive`, `LedgerExplainsStatus`, `ScoreCoversLatestAlert`,
`ReportIsAttested`, `ReportsCanBeDownloaded` and `AlertsAndTransitionsKeepTerminal`. The
invariant has three parts. `IInv`: ids are counted before anything is locked, but
incidents are never removed, so that what was counted is at most one more than there
are (`CountedInThePast`), and any smaller number is taken. `PutSomewhere`: a report's
session that goes on to the commit has put its file somewhere. `BInv`, the books:

- of every incident (`BooksOf`), its entries account for its status, for each decided
  action and for each attached alert, and no playbook has anything left to decide. The
  last is why no alert reopens an incident: the second evaluation of a key returns
  the draft it was given (`EvaluatedSettled`);
- of every session (`SessionsOK`), its alert is attached nowhere and in no other hands;
  if the alert it saw attached last is still the last one, the score and the priority
  it saw are still there, for they change with that alert only; a transition was
  validated from a status that can be left; the status that a transition or an approval
  has selected is still there, or was followed by one that an entry since has assigned
  (`Onward`), so that the row is explained also if the commit leaves it out; and what a report has read, the entries
  account for, section by section (`Attests`), which holds on because entries are only
  appended (`Onward`);
- of every report (`ReportsOK`), the same of what it says.

What the playbooks return is a function on the number of their actions. That the
function exists, and that each of its values is a draft with entries for what it has
decided (`EvaluatedFacts`), is shown from the least number for which it would fail, as for
the Merkle tree. `ScoreCoversLatestAlert` also needs that scores grow with severity,
confidence and the number of alerts (`RescoresCover`), two roundings of one sum
included (`RoundedMonotone`).

The proofs assume of the constants what their modules state by name (bounds are natural
numbers, functions have their domains, severities and confidences are of the scale, playbooks are
sequences of actions of the known types), and the facts about PostgreSQL that are
built into the actions (section 2).

Checked by TLC alone: liveness under fairness, which the prover does not handle:
`AppendIsAnswered`, `BacklogDrains`, `LapsedIsExpired` and `EveryMessageSettles`. The
prover has no induction over data either; where a proof needs one, about the tree, the
playbooks or the reference definition, it goes by a least counterexample.

## 5. Plan

1. Done: contract, ledger, Merkle tree, anchoring, verification, response actions,
   ingestion and detection, risk scoring, incidents, reports; proofs about the
   contract, the ledger, the tree, anchoring and the audit, the response actions, the
   pipeline and the incidents.
2. Left open: which of two overlapping attachments an incident has its score from and
   which its priority (`ScoreCoversLatestAlert` leaves such incidents out); two scenario
   requests at once, which would share the process of the simulator.

## 6. Not modelled

Gas limits and chain reorganisations; the SQLite fallback; the expiry of an idle
window after twice its length, and clocks that differ between event sources and
processes (events carry any times). The year in a reference id. A group key with a dot is
handled as an address, the fully qualified name of a host too (`SrcIp` and `Host` in
`Incidents`): the alert about the seeded domain controller is then looked up, guarded and
blocked as one about an address and the incident is contained without approval, where
MASTER_PROMPT.md:714 asks for it. That is one correlation of one alert, and no property is
about it. Evidence storage: nothing calls `store_evidence`; the
object store beneath it is in `IncidentReports`. Rendering, redaction and
hashing of reports, formats and wording. Authentication, which is stateless, and roles:
operations are modelled as done by someone who may do them. Dashboard reads and the
CRUD of assets, one statement a request; the inventory is a constant. The frontend.
`response_worker.py`, which does nothing. Deployment settings other than the
autonomy mode are constants.
