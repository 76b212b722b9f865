------------------------------ MODULE Anchoring ------------------------------
(***************************************************************************)
(* Batching the audit ledger and anchoring each batch on chain:            *)
(* backend/app/services/integrity/anchor_batch_service.py, run by the      *)
(* anchor worker and by POST /integrity/anchor-now, with the two           *)
(* repositories and the chain client it calls, composed with the contract  *)
(* (module IntegrityAnchor).                                               *)
(*                                                                         *)
(* An anchoring is one database transaction around one blockchain          *)
(* transaction: the batch row and the marks on the entries are flushed     *)
(* first, the blockchain transaction is sent and awaited, and only then is *)
(* anything committed.  Two anchorings can run at once, a process can die  *)
(* between any two steps, and the chain is not rolled back with the        *)
(* database.                                                               *)
(*                                                                         *)
(* HashLedger shows that appends are atomic additions at the end of one    *)
(* chain, so here an append is one step.  The wallet deployed the contract *)
(* (contracts/script) and is the only account that calls it.               *)
(***************************************************************************)
EXTENDS LedgerDigest, MerkleTree

CONSTANTS
    Anchorer,       \* those who run create_and_anchor_batch
    Worker,         \* the anchor worker, which never stops trying
    Wallet,         \* the account of ANCHOR_WALLET_PRIVATE_KEY
    Forged,         \* a body that the platform itself never records
    MaxPerBatch,    \* the max_entries argument: 500
    MaxEntries,     \* bound on the length of the ledger
    MaxCrashes      \* bound on the anchorings that die half way

ASSUME WorkerAssumption == Worker \in Anchorer
ASSUME ForgedAssumption == Forged \in Body
ASSUME BatchSizeAssumption == MaxPerBatch \in Nat \ {0}
ASSUME LedgerBoundAssumption == MaxEntries \in Nat
ASSUME CrashBoundAssumption == MaxCrashes \in Nat

VARIABLES
    \* the contract
    owner, authorizedAnchorers, batchCount, lastToSequence, batches,
    \* the chain around it
    deployed,       \* ANCHOR_CONTRACT_ADDRESS is set
    mempool,        \* transactions sent and not mined: the wallet's next nonce allows one
    mined,          \* ids of the batches whose transaction is mined and still awaited
    \* the committed database
    ledger,         \* audit_ledger_entries: ledger[k] has sequence_number k,
    anchorBatchId,  \* and anchorBatchId[k] is its anchor_batch_id
    anchorBatches,  \* anchor_batches, by id
    \* the anchorings under way
    pc, work, nextId, crashes

contractVars == <<owner, authorizedAnchorers, batchCount, lastToSequence, batches>>
chainVars == <<contractVars, deployed, mempool>>
vars == <<chainVars, mined, ledger, anchorBatchId, anchorBatches, pc, work, nextId, crashes>>

Contract == INSTANCE IntegrityAnchor
                WITH Address <- {Wallet}, Deployer <- Wallet,
                     Root <- {}, MaxSequence <- MaxEntries, MaxBatches <- MaxEntries

\* anchor_batch_id is NULL.
Unanchored == 0

\* entry_hash of the entries from .. to, in order: the leaves of their batch.
Leaves(from, to) == [i \in 1 .. to - from + 1 |-> ledger[from + i - 1].entryHash]

Backlog == {k \in DOMAIN ledger : anchorBatchId[k] = Unanchored}

NoWork == [id |-> 0, from |-> 0, to |-> 0, root |-> 0]

-----------------------------------------------------------------------------

Init ==
    /\ Contract!Init
    /\ deployed \in BOOLEAN
    /\ mempool = {}
    /\ mined = {}
    /\ ledger = << >>
    /\ anchorBatchId = << >>
    /\ anchorBatches = [id \in {} |-> NoWork]
    /\ pc = [a \in Anchorer |-> "idle"]
    /\ work = [a \in Anchorer |-> NoWork]
    /\ nextId = 1
    /\ crashes = 0

\* HashLedger: a committed append extends the chain by one row.
AppendEntry(body) ==
    /\ Len(ledger) < MaxEntries
    /\ LET previousHash == IF ledger = << >> THEN Genesis ELSE Last(ledger).entryHash
       IN  ledger' = Append(ledger, NewRow(Len(ledger) + 1, body, previousHash))
    /\ anchorBatchId' = Append(anchorBatchId, Unanchored)
    /\ UNCHANGED <<chainVars, mined, anchorBatches, pc, work, nextId, crashes>>

\* Defect: the latest entries come first.
ListedLatest ==
    {k \in Backlog : Cardinality({j \in Backlog : j >= k}) <= MaxPerBatch}

\* list_unanchored_entries: lowest numbers first, at most MaxPerBatch.
Listed == {k \in Backlog : Cardinality({j \in Backlog : j <= k}) <= MaxPerBatch}

\* Defect: the tree is built over everything unanchored, not over the batch.
BatchRootOfBacklog(from, to) == MerkleRoot(Leaves(from, Max(Backlog)))

BatchRoot(from, to) == MerkleRoot(Leaves(from, to))

\* list_unanchored_entries and the Merkle tree over what it returns.
ListUnanchored(a) ==
    /\ pc[a] = "idle"
    /\ Backlog # {}
    /\ work' = [work EXCEPT ![a] =
                  [id |-> 0, from |-> Min(Listed), to |-> Max(Listed),
                   root |-> BatchRoot(Min(Listed), Max(Listed))]]
    /\ pc' = [pc EXCEPT ![a] = "listed"]
    /\ UNCHANGED <<chainVars, mined, ledger, anchorBatchId, anchorBatches, nextId, crashes>>

Span(a) == work[a].from .. work[a].to

\* Defect: reading the entries locks them too (SELECT ... FOR SHARE).
RowsLockedByReaders(a) ==
    \E b \in Anchorer \ {a} : pc[b] # "idle" /\ Span(b) \cap Span(a) # {}

\* Another open transaction holds a row lock that mark_anchored needs.
RowsLocked(a) ==
    \E b \in Anchorer \ {a} :
        pc[b] \in {"marked", "sent"} /\ Span(b) \cap Span(a) # {}

\* AnchorBatchRepository.create and mark_anchored, flushed and not committed.
\* The UPDATE does not look at anchor_batch_id again.
CreateAndMark(a) ==
    /\ pc[a] = "listed"
    /\ ~RowsLocked(a)
    /\ work' = [work EXCEPT ![a].id = nextId]
    /\ nextId' = nextId + 1
    /\ pc' = [pc EXCEPT ![a] = "marked"]
    /\ UNCHANGED <<chainVars, mined, ledger, anchorBatchId, anchorBatches, crashes>>

\* Defect: the upper bound of the range left out of the UPDATE.
MarkAnchoredToEnd(a) ==
    [k \in DOMAIN ledger |-> IF k >= work[a].from THEN work[a].id ELSE anchorBatchId[k]]

\* mark_anchored
MarkAnchored(a) ==
    [k \in DOMAIN ledger |-> IF k \in Span(a) THEN work[a].id ELSE anchorBatchId[k]]

\* Defect: the row keeps the status it was created with.
BatchRowPending(a, status) ==
    [from |-> work[a].from, to |-> work[a].to, root |-> work[a].root, status |-> "PENDING"]

\* The row of create, with the status of update_confirmed or update_failed.
BatchRow(a, status) ==
    [from |-> work[a].from, to |-> work[a].to, root |-> work[a].root, status |-> status]

\* The end of an anchoring and its commit: the batch row and its marks become
\* visible together.
Finish(a, status) ==
    /\ anchorBatches' = [id \in DOMAIN anchorBatches \cup {work[a].id} |->
                           IF id = work[a].id THEN BatchRow(a, status)
                                              ELSE anchorBatches[id]]
    /\ anchorBatchId' = MarkAnchored(a)
    /\ pc' = [pc EXCEPT ![a] = "idle"]
    /\ work' = [work EXCEPT ![a] = NoWork]
    /\ mined' = mined \ {work[a].id}
    /\ UNCHANGED <<chainVars, ledger, nextId, crashes>>

\* anchor_root without a contract address: a made-up receipt.
SimulatedReceipt(a) ==
    /\ pc[a] = "marked"
    /\ ~deployed
    /\ Finish(a, "CONFIRMED")

\* anchor_root cannot connect, or the node refuses the transaction.
SubmitError(a) ==
    /\ pc[a] = "marked"
    /\ Finish(a, "FAILED")

\* send_raw_transaction.  The nonce is the number of transactions mined, so a
\* transaction still pending is replaced (or this one is refused: SubmitError).
SendTx(a) ==
    /\ pc[a] = "marked"
    /\ deployed
    /\ mempool' = {work[a]}
    /\ pc' = [pc EXCEPT ![a] = "sent"]
    /\ UNCHANGED <<contractVars, deployed, mined, ledger, anchorBatchId,
                   anchorBatches, work, nextId, crashes>>

Reverts(tx) ==
    \/ ~Contract!OnlyAnchorer(Wallet)
    \/ Contract!InvalidSequenceRange(tx.from, tx.to)
    \/ Contract!OverlappingSequence(tx.from)

\* A pending transaction is mined; the contract accepts it, or reverts.
MineTx(tx) ==
    /\ tx \in mempool
    /\ mempool' = mempool \ {tx}
    /\ \/ Contract!AnchorRoot(Wallet, tx.root, tx.from, tx.to)
       \/ Reverts(tx) /\ UNCHANGED contractVars
    /\ mined' = mined \cup {work[a].id : a \in {b \in Anchorer :
                               pc[b] = "sent" /\ work[b].id = tx.id}}
    /\ UNCHANGED <<deployed, ledger, anchorBatchId, anchorBatches, pc, work, nextId, crashes>>

\* wait_for_transaction_receipt returns; anchor_root does not look at the
\* receipt's status.
Receipt(a) ==
    /\ pc[a] = "sent"
    /\ work[a].id \in mined
    /\ Finish(a, "CONFIRMED")

\* wait_for_transaction_receipt gives up after 120 seconds.
ReceiptTimeout(a) ==
    /\ pc[a] = "sent"
    /\ work[a].id \notin mined
    /\ Finish(a, "FAILED")

\* The process dies, or an exception other than BlockchainClientError ends the
\* session: the database transaction is rolled back, and what was sent stays
\* sent.  (Before the batch row is created there is nothing to roll back.)
Crash(a) ==
    /\ pc[a] \in {"marked", "sent"}
    /\ crashes < MaxCrashes
    /\ crashes' = crashes + 1
    /\ pc' = [pc EXCEPT ![a] = "idle"]
    /\ work' = [work EXCEPT ![a] = NoWork]
    /\ mined' = mined \ {work[a].id}
    /\ UNCHANGED <<chainVars, ledger, anchorBatchId, anchorBatches, nextId>>

AnchorStep(a) ==
    \/ CreateAndMark(a)
    \/ SimulatedReceipt(a)
    \/ SubmitError(a)
    \/ SendTx(a)
    \/ Receipt(a)
    \/ ReceiptTimeout(a)

Next ==
    \/ \E body \in Body \ {Forged} : AppendEntry(body)
    \/ \E tx \in mempool : MineTx(tx)
    \/ \E a \in Anchorer : ListUnanchored(a) \/ AnchorStep(a) \/ Crash(a)

Spec == Init /\ [][Next]_vars

\* The worker's loop never ends (anchor_worker.py:29), a started anchoring is
\* awaited to its end, and every wait in it has a timeout.  Nobody has to press
\* anchor-now, and a transaction need not be mined.
Fairness ==
    /\ WF_vars(ListUnanchored(Worker))
    /\ \A a \in Anchorer : WF_vars(AnchorStep(a))

FairSpec == Spec /\ Fairness

-----------------------------------------------------------------------------
\* Properties

TypeOK ==
    /\ Contract!OnlyOwner(Wallet)
    /\ lastToSequence \in 0 .. MaxEntries
    /\ batchCount \in Nat
    /\ deployed \in BOOLEAN
    /\ Cardinality(mempool) <= 1
    /\ mined \subseteq 1 .. nextId - 1
    /\ Len(anchorBatchId) = Len(ledger)
    /\ \A k \in DOMAIN ledger :
          /\ ledger[k] \in Row
          /\ anchorBatchId[k] \in 0 .. nextId - 1
    /\ DOMAIN anchorBatches \subseteq 1 .. nextId - 1
    /\ \A id \in DOMAIN anchorBatches :
          anchorBatches[id].status \in {"CONFIRMED", "FAILED"}
    /\ pc \in [Anchorer -> {"idle", "listed", "marked", "sent"}]
    /\ \A a \in Anchorer : work[a].id \in 0 .. nextId - 1
    /\ crashes \in 0 .. MaxCrashes

\* A range of recorded entries, and the root computed from them.
IsRootOf(root, from, to) ==
    /\ 1 <= from /\ from <= to /\ to <= Len(ledger)
    /\ root = MerkleRoot(Leaves(from, to))

\* Whatever anchorings race, time out or die half way, a root that reached the
\* chain or the database is the Merkle root of the entries of its range.  So a
\* root that does not match is proof that entries were changed.
RootsMatchLedger ==
    /\ \A i \in DOMAIN batches :
          IsRootOf(batches[i].merkleRoot, batches[i].fromSequence, batches[i].toSequence)
    /\ \A id \in DOMAIN anchorBatches :
          IsRootOf(anchorBatches[id].root, anchorBatches[id].from, anchorBatches[id].to)

\* The entries that have a batch come before those that have none, so the
\* range from the first to the last unanchored entry holds no other entry, and
\* the leaves of a batch are the entries of its range.
AnchoredIsPrefix ==
    \A j, k \in DOMAIN ledger : j < k /\ j \in Backlog => k \in Backlog

\* get_entry_merkle_proof always has a proof for an entry that is in a batch,
\* the proof verifies, and the root it leads to is the one stored for the batch
\* - even if a second anchoring has taken some of the batch's entries over.
ProofAvailable ==
    \A k \in DOMAIN ledger \ Backlog :
        /\ anchorBatchId[k] \in DOMAIN anchorBatches
        /\ LET batch == anchorBatches[anchorBatchId[k]]
               proof == GetProof(Leaves(batch.from, batch.to), k - batch.from)
           IN  /\ batch.from <= k /\ k <= batch.to
               /\ proof.leafHash = ledger[k].entryHash
               /\ proof.root = batch.root
               /\ VerifyProof(proof)

\* Anchorings that overlap never wait for each other for ever, and whatever
\* fails, each recorded entry ends up in a batch.
BacklogDrains ==
    \A k \in 1 .. MaxEntries : k \in Backlog ~> k \in DOMAIN ledger \ Backlog

=============================================================================
