----------------------------- MODULE HashLedger ------------------------------
(***************************************************************************)
(* Concurrent appends to the audit ledger (backend/app/services/integrity/ *)
(* hash_chain_ledger.py and repositories/audit_ledger_repository.py).      *)
(*                                                                         *)
(* Every request handler and every worker iteration runs in one database   *)
(* transaction (db/session.py) and appends its ledger entries inside it:   *)
(* append_entry reads the latest row it can see, chains a new row onto it  *)
(* and flushes the INSERT.  No row is locked by the read, so sessions race *)
(* for the same sequence number; what settles the race is the PRIMARY KEY  *)
(* of audit_ledger_entries.                                                *)
(*                                                                         *)
(* The database is PostgreSQL at READ COMMITTED: a session sees committed  *)
(* rows and its own; an INSERT of a key that another open transaction has  *)
(* inserted waits for that transaction to end, and fails if the key is     *)
(* then committed, which aborts the inserting transaction.                 *)
(***************************************************************************)
EXTENDS LedgerDigest

CONSTANTS
    Session,        \* database sessions: requests and worker iterations
    MaxEntries      \* bound on the length of the ledger

ASSUME MaxEntriesAssumption == MaxEntries \in Nat

VARIABLES
    rows,       \* committed rows of audit_ledger_entries, by sequence_number
    own,        \* own[s]: the rows s has flushed and not yet committed
    pc,         \* pc[s] = "read" between the SELECT and the INSERT of an append
    latest,     \* latest[s]: what get_latest_entry returned to s
    draft       \* draft[s]: the body s is about to append

vars == <<rows, own, pc, latest, draft>>

NoRows == [k \in {} |-> 0]

\* s has flushed rows that are not yet committed.
HasFlushed(s) == DOMAIN own[s] # {}

\* Defect: an empty table read as if the latest row were number -1.
LatestOfFromZero(f) ==
    IF DOMAIN f = {}
      THEN [seq |-> -1, hash |-> Genesis]
      ELSE LET last == CHOOSE k \in DOMAIN f : \A j \in DOMAIN f : j <= k
           IN  [seq |-> last, hash |-> f[last].entryHash]

\* The (sequence_number, entry_hash) of the last row of f; of an empty table,
\* the pair that append_entry continues from at genesis.
LatestOf(f) ==
    IF DOMAIN f = {}
      THEN [seq |-> 0, hash |-> Genesis]
      ELSE LET last == CHOOSE k \in DOMAIN f : \A j \in DOMAIN f : j <= k
           IN  [seq |-> last, hash |-> f[last].entryHash]

\* READ COMMITTED: committed rows and the session's own.
Visible(s) ==
    [k \in DOMAIN rows \cup DOMAIN own[s] |->
        IF k \in DOMAIN own[s] THEN own[s][k] ELSE rows[k]]

-----------------------------------------------------------------------------

Init ==
    /\ rows = NoRows
    /\ own = [s \in Session |-> NoRows]
    /\ pc = [s \in Session |-> "idle"]
    /\ latest = [s \in Session |-> LatestOf(NoRows)]
    /\ draft \in [Session -> Body]

\* append_entry up to the SELECT of the latest row.
GetLatestEntry(s, body) ==
    /\ pc[s] = "idle"
    /\ LatestOf(Visible(s)).seq < MaxEntries
    /\ latest' = [latest EXCEPT ![s] = LatestOf(Visible(s))]
    /\ draft' = [draft EXCEPT ![s] = body]
    /\ pc' = [pc EXCEPT ![s] = "read"]
    /\ UNCHANGED <<rows, own>>

NextSequence(s) == latest[s].seq + 1

\* Defect: an INSERT does not wait for the transactions still open.
KeyNeverHeld(s, key) == FALSE

\* Defect: a commit does not wake the sessions that wait for its keys.
KeyHeldForEver(s, key) ==
    \/ key \in DOMAIN rows
    \/ \E t \in Session \ {s} : key \in DOMAIN own[t]

\* Another open transaction has inserted the key: the INSERT waits for it.
KeyHeldByOther(s, key) == \E t \in Session \ {s} : key \in DOMAIN own[t]

\* Defect: sequence_number is an ordinary column, so nothing ever conflicts.
KeyTakenNever(s, key) == FALSE

\* Defect: only rows of the transaction itself count.
KeyTakenByOwnRow(s, key) == key \in DOMAIN own[s]

KeyTaken(s, key) == key \in DOMAIN rows \cup DOMAIN own[s]

\* The INSERT of append_entry and its flush.
InsertRow(s) ==
    LET key == NextSequence(s)
    IN  /\ pc[s] = "read"
        /\ ~KeyHeldByOther(s, key)
        /\ ~KeyTaken(s, key)
        /\ own' = [own EXCEPT ![s] =
                     [k \in DOMAIN @ \cup {key} |->
                         IF k = key THEN NewRow(key, draft[s], latest[s].hash) ELSE @[k]]]
        /\ pc' = [pc EXCEPT ![s] = "idle"]
        /\ UNCHANGED <<rows, latest, draft>>

\* The transaction and everything it flushed are gone.
Discard(s) ==
    /\ own' = [own EXCEPT ![s] = NoRows]
    /\ pc' = [pc EXCEPT ![s] = "idle"]
    /\ UNCHANGED <<rows, latest, draft>>

\* The flush raises IntegrityError and get_db_session (or the worker's session
\* context) rolls the transaction back.
InsertConflict(s) ==
    /\ pc[s] = "read"
    /\ ~KeyHeldByOther(s, NextSequence(s))
    /\ KeyTaken(s, NextSequence(s))
    /\ Discard(s)

Insert(s) == InsertRow(s) \/ InsertConflict(s)

\* session.commit() at the end of the request or of the worker iteration.
Commit(s) ==
    /\ pc[s] = "idle"
    /\ HasFlushed(s)
    /\ rows' = Visible(s)
    /\ own' = [own EXCEPT ![s] = NoRows]
    /\ UNCHANGED <<pc, latest, draft>>

\* Any other exception of the handler, a cancelled request, a lost process.
Rollback(s) ==
    /\ pc[s] = "read" \/ HasFlushed(s)
    /\ Discard(s)

Next ==
    \E s \in Session :
        \/ \E body \in Body : GetLatestEntry(s, body)
        \/ InsertRow(s)
        \/ InsertConflict(s)
        \/ Commit(s)
        \/ Rollback(s)

Spec == Init /\ [][Next]_vars

\* A handler runs on to its commit; the database wakes the sessions that wait
\* for a key in the order in which they came, so an INSERT that can run again
\* and again does run.
Fairness == \A s \in Session : WF_vars(Commit(s)) /\ SF_vars(Insert(s))

FairSpec == Spec /\ Fairness

-----------------------------------------------------------------------------
\* Properties

TypeOK ==
    /\ DOMAIN rows \subseteq Nat
    /\ \A k \in DOMAIN rows : rows[k] \in Row
    /\ \A s \in Session :
          /\ DOMAIN own[s] \subseteq Nat
          /\ \A k \in DOMAIN own[s] : own[s][k] \in Row
    /\ DOMAIN own = Session
    /\ pc \in [Session -> {"idle", "read"}]
    /\ latest \in [Session -> [seq : Nat, hash : Digest]]
    /\ draft \in [Session -> Body]

\* The rows of f are numbered 1, 2, ... without a gap, each holds the hash of
\* the one before it and its own hash is right.
ChainOK(f) ==
    /\ LatestOf(f).seq \in Nat
    /\ DOMAIN f = 1 .. LatestOf(f).seq
    /\ \A k \in DOMAIN f :
          /\ f[k].previousHash = IF k = 1 THEN Genesis ELSE f[k - 1].entryHash
          /\ f[k].entryHash = EntryHash(k, f[k].body, f[k].previousHash)

\* Whatever sessions race and whichever of them abort, the committed ledger is
\* one unbroken chain from genesis: no fork, no gap, no row chained onto a row
\* that was rolled back.
LedgerIsAChain == ChainOK(rows)

\* At most one open transaction has flushed ledger rows at a time, so INSERTs
\* never wait for one another in a circle.
OneUncommittedWriter ==
    \A s, t \in Session : HasFlushed(s) /\ HasFlushed(t) => s = t

\* The window between the SELECT and the INSERT is safe without a row lock: a
\* session that read a latest row which is no longer the latest has not flushed
\* anything, and its INSERT can only fail on a committed key.
StaleReadIsCaught ==
    \A s \in Session :
        pc[s] = "read" =>
            \/ latest[s] = LatestOf(Visible(s))
            \/ ~HasFlushed(s) /\ NextSequence(s) \in DOMAIN rows

\* The committed bodies, in order, as the rest of the platform sees them.
Log == INSTANCE AppendOnlyLog
           WITH Item <- Body, log <- [k \in DOMAIN rows |-> rows[k].body]

\* The ledger implements the append-only log: commits only add at the end, and
\* nothing else changes what is committed.
LedgerIsAppendOnly == Log!Spec

\* An append is always answered: it gets its row, or an error, and does not
\* wait for ever behind other transactions.
AppendIsAnswered == \A s \in Session : pc[s] = "read" ~> pc[s] = "idle"

=============================================================================
