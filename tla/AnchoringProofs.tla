--------------------------- MODULE AnchoringProofs ---------------------------
(***************************************************************************)
(* Theorems about batch anchoring and about the audit, for any set of      *)
(* anchorers and of bodies, any batch size and any length of the ledger.   *)
(*                                                                         *)
(* What a batch says of the ledger is decided when its entries are listed  *)
(* and stored much later, after other anchorings, and even after it was    *)
(* listed again.  IInv therefore carries the claim through every place a   *)
(* batch can be: the work of an anchoring, a pending transaction, the      *)
(* contract, a row.  It also says that the id of an open batch is its own  *)
(* (so that no row is ever overwritten) and that all the entries before a  *)
(* listed range are marked (so that the marked entries stay a prefix).     *)
(* None of it looks at the payloads, so rewriting one keeps it.            *)
(***************************************************************************)
EXTENDS Verification, MerkleTreeProofs, FiniteSetTheorems

LeavesOf(entries, from, to) == [i \in 1 .. to - from + 1 |-> entries[from + i - 1].entryHash]

\* A range of the entries and the root computed from them.
BatchOf(entries, root, from, to) ==
    /\ from \in 1 .. Len(entries)
    /\ to \in from .. Len(entries)
    /\ root = MerkleRoot(LeavesOf(entries, from, to))

IsWork(w) == w = [id |-> w.id, from |-> w.from, to |-> w.to, root |-> w.root]

Open(a) == pc[a] \in {"marked", "sent"}

ChainTypeOK ==
    /\ Contract!OnlyOwner(Wallet)
    /\ lastToSequence \in 0 .. MaxEntries
    /\ batchCount \in 0 .. lastToSequence
    /\ deployed \in BOOLEAN

LedgerTypeOK ==
    /\ IsSequence(ledger) /\ Len(ledger) <= MaxEntries
    /\ IsSequence(anchorBatchId) /\ Len(anchorBatchId) = Len(ledger)
    /\ \A k \in 1 .. Len(ledger) : ledger[k] \in Row /\ anchorBatchId[k] \in 0 .. nextId - 1

RunTypeOK ==
    /\ nextId \in Nat \ {0}
    /\ mined \subseteq 1 .. nextId - 1
    /\ DOMAIN anchorBatches \subseteq 1 .. nextId - 1
    /\ crashes \in 0 .. MaxCrashes
    /\ pc \in [Anchorer -> {"idle", "listed", "marked", "sent"}]
    /\ work = [a \in Anchorer |-> work[a]]
    /\ \A a \in Anchorer : IsWork(work[a]) /\ work[a].id \in 0 .. nextId - 1

MempoolOK ==
    /\ mempool = {} \/ \E tx : mempool = {tx}
    /\ \A tx \in mempool : BatchOf(ledger, tx.root, tx.from, tx.to)

ContractOK ==
    \A i \in DOMAIN batches :
        BatchOf(ledger, batches[i].merkleRoot, batches[i].fromSequence, batches[i].toSequence)

RowsOK ==
    \A id \in DOMAIN anchorBatches :
        /\ BatchOf(ledger, anchorBatches[id].root, anchorBatches[id].from, anchorBatches[id].to)
        /\ anchorBatches[id].status \in {"CONFIRMED", "FAILED"}

\* Everything before a listed range is marked.
WorkOK ==
    \A a \in Anchorer : pc[a] # "idle" =>
        /\ BatchOf(ledger, work[a].root, work[a].from, work[a].to)
        /\ \A k \in 1 .. work[a].from - 1 : anchorBatchId[k] # Unanchored

\* The id of an open batch is in no row, and no other open batch has it.
IdsOK ==
    \A a \in Anchorer : Open(a) =>
        /\ work[a].id \in 1 .. nextId - 1
        /\ work[a].id \notin DOMAIN anchorBatches
        /\ \A b \in Anchorer : Open(b) /\ b # a => work[b].id # work[a].id

\* The row that a marked entry names exists, and the entry is in its range.
MarksOK ==
    \A k \in 1 .. Len(ledger) : anchorBatchId[k] # Unanchored =>
        /\ anchorBatchId[k] \in DOMAIN anchorBatches
        /\ anchorBatches[anchorBatchId[k]].from <= k
        /\ k <= anchorBatches[anchorBatchId[k]].to

PrefixOK ==
    \A j, k \in 1 .. Len(ledger) :
        j < k /\ anchorBatchId[j] = Unanchored => anchorBatchId[k] = Unanchored

IInv ==
    /\ ChainTypeOK
    /\ LedgerTypeOK
    /\ RunTypeOK
    /\ MempoolOK
    /\ ContractOK
    /\ RowsOK
    /\ WorkOK
    /\ IdsOK
    /\ MarksOK
    /\ PrefixOK

-----------------------------------------------------------------------------
\* Batches and the ledger

\* Entries appended, and payloads rewritten, leave the batches as they are.
LEMMA BatchOfKept ==
    ASSUME NEW s, NEW t, Len(s) \in Nat, Len(t) \in Nat, Len(s) <= Len(t),
           \A k \in 1 .. Len(s) : t[k].entryHash = s[k].entryHash,
           NEW root, NEW from, NEW to, BatchOf(s, root, from, to)
    PROVE  BatchOf(t, root, from, to) /\ LeavesOf(t, from, to) = LeavesOf(s, from, to)
  <1> DEFINE n == Len(s)
             m == Len(t)
  <1>1. n \in Nat /\ m \in Nat /\ n <= m /\ from \in 1 .. n /\ to \in from .. n
    BY DEF BatchOf
  <1> HIDE DEF n, m
  <1>2. from \in 1 .. m /\ to \in from .. m
    BY <1>1
  <1>3. \A i \in 1 .. to - from + 1 : from + i - 1 \in 1 .. n
    BY <1>1
  <1>4. \A i \in 1 .. to - from + 1 : t[from + i - 1].entryHash = s[from + i - 1].entryHash
    BY <1>3 DEF n
  <1>5. LeavesOf(t, from, to) = LeavesOf(s, from, to)
    BY <1>4 DEF LeavesOf
  <1> QED
    BY <1>2, <1>5 DEF BatchOf, m

LEMMA BatchIsRoot ==
    ASSUME NEW root, NEW from, NEW to, BatchOf(ledger, root, from, to), Len(ledger) \in Nat
    PROVE  IsRootOf(root, from, to)
  <1>1. 1 <= from /\ from <= to /\ to <= Len(ledger)
    BY DEF BatchOf
  <1>2. Leaves(from, to) = LeavesOf(ledger, from, to)
    BY DEF Leaves, LeavesOf
  <1> QED
    BY <1>1, <1>2 DEF BatchOf, IsRootOf

LEMMA LedgerFacts ==
    ASSUME LedgerTypeOK
    PROVE  /\ Len(ledger) \in Nat /\ DOMAIN ledger = 1 .. Len(ledger)
           /\ DOMAIN anchorBatchId = 1 .. Len(ledger)
BY SequenceFacts DEF LedgerTypeOK

\* The range that list_unanchored_entries finds starts at the first unanchored
\* entry, whatever the size of a batch.
LEMMA ListedFromTheFirst ==
    ASSUME IInv, Backlog # {}
    PROVE  /\ Min(Listed) \in 1 .. Len(ledger)
           /\ Max(Listed) \in Min(Listed) .. Len(ledger)
           /\ \A k \in 1 .. Min(Listed) - 1 : anchorBatchId[k] # Unanchored
  <1> DEFINE n == Len(ledger)
             m == Min(Backlog)
  <1>1. n \in Nat /\ DOMAIN ledger = 1 .. n
    BY LedgerFacts DEF IInv
  <1>2. Backlog \subseteq 1 .. n /\ Backlog \subseteq Nat
    BY <1>1 DEF Backlog
  <1>3. m \in Backlog /\ \A y \in Backlog : m <= y
    BY <1>2, MinIsLeast
  <1> HIDE DEF m, n
  <1>4. m \in Listed
    <2>1. {j \in Backlog : j <= m} = {m}
      <3>1. ASSUME NEW j \in Backlog, j <= m PROVE j = m
        <4>1. j \in Nat /\ m \in Nat /\ m <= j
          BY <1>2, <1>3
        <4> QED
          BY <3>1, <4>1
      <3>2. m <= m
        BY <1>3
      <3> QED
        BY <1>3, <3>1, <3>2
    <2>2. Cardinality({m}) = 1
      BY FS_Singleton
    <2>3. 1 <= MaxPerBatch
      BY BatchSizeAssumption
    <2> QED
      BY <1>3, <2>1, <2>2, <2>3 DEF Listed
  <1>5. Listed \subseteq Backlog
    BY DEF Listed
  <1>6. Listed \subseteq 1 .. n /\ Listed \subseteq Nat /\ Listed # {}
    BY <1>2, <1>4, <1>5
  <1>7. Min(Listed) \in Listed /\ \A y \in Listed : Min(Listed) <= y
    BY <1>6, MinIsLeast
  <1>8. Max(Listed) \in Listed /\ \A y \in Listed : Max(Listed) >= y
    BY <1>1, <1>6, MaxIsGreatest
  <1> DEFINE from == Min(Listed)
             to == Max(Listed)
  <1>9. from = m
    <2>1. from \in Nat /\ m \in Nat /\ from <= m /\ m <= from
      BY <1>3, <1>4, <1>5, <1>6, <1>7
    <2> HIDE DEF from
    <2> QED
      BY <2>1
  <1>10. from \in 1 .. n /\ to \in from .. n
    <2>1. from \in 1 .. n /\ to \in 1 .. n /\ to >= from
      BY <1>6, <1>7, <1>8
    <2> HIDE DEF from, to
    <2> QED
      BY <1>1, <2>1
  <1>11. ASSUME NEW k \in 1 .. Min(Listed) - 1 PROVE anchorBatchId[k] # Unanchored
    <2>1. k \in 1 .. n /\ ~(m <= k)
      BY <1>1, <1>9, <1>10
    <2>2. k \notin Backlog
      BY <1>3, <2>1
    <2> QED
      BY <1>1, <2>1, <2>2 DEF Backlog
  <1> QED
    BY <1>10, <1>11 DEF n

-----------------------------------------------------------------------------
\* IInv holds initially, and every step keeps it

LEMMA InitIInv == Init => IInv
  <1> SUFFICES ASSUME Init PROVE IInv
    OBVIOUS
  <1> USE DEF Init
  <1>0. /\ IsSequence(<< >>) /\ Len(<< >>) = 0
        /\ DOMAIN anchorBatches = {}
        /\ MaxEntries \in Nat /\ MaxCrashes \in Nat
    BY LedgerBoundAssumption, CrashBoundAssumption DEF IsSequence
  <1>1. ChainTypeOK
    BY <1>0 DEF ChainTypeOK, Contract!Init, Contract!OnlyOwner
  <1>2. LedgerTypeOK
    BY <1>0 DEF LedgerTypeOK
  <1>3. RunTypeOK
    <2>1. IsWork(NoWork) /\ NoWork.id = 0
      BY DEF IsWork, NoWork
    <2> HIDE DEF NoWork
    <2>2. nextId = 1 /\ mined = {} /\ crashes = 0 /\ pc = [a \in Anchorer |-> "idle"]
          /\ work = [a \in Anchorer |-> NoWork]
      OBVIOUS
    <2> HIDE DEF Init
    <2> QED
      BY <1>0, <2>1, <2>2 DEF RunTypeOK
  <1>4. MempoolOK /\ ContractOK /\ RowsOK
    BY <1>0 DEF MempoolOK, ContractOK, RowsOK, Contract!Init
  <1>5. WorkOK /\ IdsOK
    BY DEF WorkOK, IdsOK, Open
  <1>6. MarksOK /\ PrefixOK
    BY <1>0 DEF MarksOK, PrefixOK
  <1> QED
    BY <1>1, <1>2, <1>3, <1>4, <1>5, <1>6 DEF IInv

\* What the chain holds, where the chain and the ledger stay.
LEMMA ChainKept ==
    ASSUME IInv, UNCHANGED <<chainVars, ledger>>
    PROVE  ChainTypeOK' /\ MempoolOK' /\ ContractOK'
BY DEF IInv, ChainTypeOK, MempoolOK, ContractOK, chainVars, contractVars, Contract!OnlyOwner

\* A step on the ledger alone that keeps every entry_hash.
LEMMA LedgerStep ==
    ASSUME IInv, UNCHANGED <<chainVars, mined, anchorBatches, pc, work, nextId, crashes>>,
           Len(ledger') \in Nat, Len(ledger) <= Len(ledger'),
           \A k \in 1 .. Len(ledger) : /\ ledger'[k].entryHash = ledger[k].entryHash
                                       /\ anchorBatchId'[k] = anchorBatchId[k],
           \A k \in 1 .. Len(ledger') : k \notin 1 .. Len(ledger) => anchorBatchId'[k] = Unanchored,
           LedgerTypeOK'
    PROVE  IInv'
  <1>1. Len(ledger) \in Nat
    BY LedgerFacts DEF IInv
  <1>2. ASSUME NEW root, NEW from, NEW to, BatchOf(ledger, root, from, to)
        PROVE  BatchOf(ledger', root, from, to)
    BY <1>1, <1>2, BatchOfKept
  <1>3. ChainTypeOK' /\ RunTypeOK'
    BY DEF IInv, ChainTypeOK, RunTypeOK, chainVars, contractVars, Contract!OnlyOwner
  <1>4. MempoolOK' /\ ContractOK' /\ RowsOK'
    BY <1>2 DEF IInv, MempoolOK, ContractOK, RowsOK, chainVars, contractVars
  <1>5. WorkOK'
    <2> SUFFICES ASSUME NEW a \in Anchorer, pc[a] # "idle"
                 PROVE  /\ BatchOf(ledger', work[a].root, work[a].from, work[a].to)
                        /\ \A k \in 1 .. work[a].from - 1 : anchorBatchId'[k] # Unanchored
      BY DEF WorkOK
    <2>1. /\ BatchOf(ledger, work[a].root, work[a].from, work[a].to)
          /\ \A k \in 1 .. work[a].from - 1 : anchorBatchId[k] # Unanchored
      BY DEF IInv, WorkOK
    <2>2. work[a].from \in 1 .. Len(ledger)
      BY <2>1 DEF BatchOf
    <2>3. \A k \in 1 .. work[a].from - 1 : k \in 1 .. Len(ledger)
      BY <1>1, <2>2
    <2> QED
      BY <1>2, <2>1, <2>3
  <1>6. IdsOK'
    BY DEF IInv, IdsOK, Open
  <1>7. MarksOK'
    BY DEF IInv, MarksOK
  <1>8. PrefixOK'
    <2> SUFFICES ASSUME NEW j \in 1 .. Len(ledger'), NEW k \in 1 .. Len(ledger'), j < k,
                        anchorBatchId'[j] = Unanchored
                 PROVE  anchorBatchId'[k] = Unanchored
      BY DEF PrefixOK
    <2>1. CASE k \in 1 .. Len(ledger)
      <3>1. j \in 1 .. Len(ledger)
        BY <1>1, <2>1
      <3> QED
        BY <2>1, <3>1 DEF IInv, PrefixOK
    <2> QED
      BY <2>1
  <1> QED
    BY <1>3, <1>4, <1>5, <1>6, <1>7, <1>8 DEF IInv

LEMMA AppendEntryStep ==
    ASSUME IInv, NEW body \in Body, AppendEntry(body)
    PROVE  IInv'
  <1> DEFINE n == Len(ledger)
             previousHash == IF ledger = << >> THEN Genesis ELSE Last(ledger).entryHash
             row == NewRow(n + 1, body, previousHash)
  <1>1. n \in Nat /\ DOMAIN ledger = 1 .. n /\ n < MaxEntries /\ IsSequence(ledger)
    BY LedgerFacts DEF IInv, LedgerTypeOK, AppendEntry
  <1>2. IsSequence(anchorBatchId) /\ Len(anchorBatchId) = n
    BY DEF IInv, LedgerTypeOK
  <1>3. ledger' = Append(ledger, row) /\ anchorBatchId' = Append(anchorBatchId, Unanchored)
    BY DEF AppendEntry
  <1>4. previousHash \in Digest
    <2>1. CASE ledger = << >>
      BY <2>1 DEF Genesis, Digest
    <2>2. CASE ledger # << >>
      <3>1. n # 0
        <4>1. PICK S : ledger \in Seq(S)
          BY <1>1 DEF IsSequence
        <4> QED
          BY <2>2, <4>1
      <3>2. n \in 1 .. n
        BY <1>1, <3>1
      <3>3. ledger[n] \in Row
        BY <3>2 DEF IInv, LedgerTypeOK
      <3> QED
        BY <2>2, <3>3 DEF Last, Row
    <2> QED
      BY <2>1, <2>2
  <1> HIDE DEF previousHash
  <1>5. row \in Row
    <2>1. [seq |-> n + 1, body |-> body] \in [seq : Nat, body : Body]
      BY <1>1
    <2>2. EntryHash(n + 1, body, previousHash) \in Digest
      BY <1>4, <2>1 DEF EntryHash, Digest
    <2> QED
      BY <1>4, <2>2 DEF NewRow, Row
  <1> HIDE DEF row
  <1>6. /\ IsSequence(ledger') /\ Len(ledger') = n + 1
        /\ ledger'[n + 1] = row
        /\ \A k \in 1 .. n : ledger'[k] = ledger[k]
    BY <1>1, <1>3, SequenceAppend
  <1>7. /\ IsSequence(anchorBatchId') /\ Len(anchorBatchId') = n + 1
        /\ anchorBatchId'[n + 1] = Unanchored
        /\ \A k \in 1 .. n : anchorBatchId'[k] = anchorBatchId[k]
    <2>1. Len(anchorBatchId) = n
      BY <1>2
    <2> HIDE DEF n
    <2> QED
      BY <1>2, <1>3, <2>1, SequenceAppend
  <1>8. \A k \in 1 .. n + 1 : k \in 1 .. n \/ k = n + 1
    BY <1>1
  <1>9. UNCHANGED <<chainVars, mined, anchorBatches, pc, work, nextId, crashes>>
    BY DEF AppendEntry
  <1>10. LedgerTypeOK'
    <2>1. n + 1 <= MaxEntries
      BY <1>1, LedgerBoundAssumption
    <2>2. nextId' = nextId /\ nextId \in Nat \ {0}
      BY <1>9 DEF IInv, RunTypeOK
    <2>3. \A k \in 1 .. n : ledger[k] \in Row /\ anchorBatchId[k] \in 0 .. nextId - 1
      BY DEF IInv, LedgerTypeOK
    <2>4. Unanchored \in 0 .. nextId - 1
      BY <2>2 DEF Unanchored
    <2> HIDE DEF n
    <2> QED
      BY <1>5, <1>6, <1>7, <1>8, <2>1, <2>2, <2>3, <2>4 DEF LedgerTypeOK
  <1>11. Len(ledger') \in Nat /\ Len(ledger) <= Len(ledger')
    BY <1>1, <1>6
  <1> QED
    BY <1>6, <1>7, <1>8, <1>9, <1>10, <1>11, LedgerStep

LEMMA TamperPayloadStep ==
    ASSUME IInv, NEW k \in 1 .. MaxEntries, TamperPayload(k)
    PROVE  IInv'
  <1>1. /\ Len(ledger) \in Nat /\ DOMAIN ledger = 1 .. Len(ledger) /\ IsSequence(ledger)
        /\ \A j \in 1 .. Len(ledger) : ledger[j] \in Row
    BY LedgerFacts DEF IInv, LedgerTypeOK
  <1>2. DOMAIN ledger' = 1 .. Len(ledger)
    BY <1>1 DEF TamperPayload
  <1>3. \A j \in 1 .. Len(ledger) :
           ledger'[j] \in Row /\ ledger'[j].entryHash = ledger[j].entryHash
    BY <1>1, ForgedAssumption DEF TamperPayload, Row
  <1>4. ledger' = [j \in 1 .. Len(ledger) |-> ledger'[j]]
    BY <1>1 DEF TamperPayload
  <1>5. IsSequence(ledger') /\ Len(ledger') = Len(ledger)
    BY <1>1, <1>2, <1>4, SequenceOfFunction
  <1>6. UNCHANGED <<chainVars, mined, anchorBatchId, anchorBatches, pc, work, nextId, crashes>>
    BY DEF TamperPayload
  <1>7. LedgerTypeOK'
    BY <1>3, <1>5, <1>6 DEF IInv, LedgerTypeOK
  <1>8. Len(ledger') \in Nat /\ Len(ledger) <= Len(ledger')
    BY <1>1, <1>5
  <1> QED
    BY <1>3, <1>5, <1>6, <1>7, <1>8, LedgerStep

\* Where the ledger and its marks stay.
LEMMA LedgerKept ==
    ASSUME IInv, UNCHANGED <<ledger, anchorBatchId>>, nextId' \in Nat, nextId <= nextId'
    PROVE  LedgerTypeOK' /\ PrefixOK'
  <1>1. nextId \in Nat
    BY DEF IInv, RunTypeOK
  <1>2. \A id \in 0 .. nextId - 1 : id \in 0 .. nextId' - 1
    <2> DEFINE n == nextId
               m == nextId'
    <2>1. n \in Nat /\ m \in Nat /\ n <= m
      BY <1>1
    <2> HIDE DEF n, m
    <2>2. \A id \in 0 .. n - 1 : id \in 0 .. m - 1
      BY <2>1
    <2> QED
      BY <2>2 DEF n, m
  <1>3. LedgerTypeOK'
    BY <1>2 DEF IInv, LedgerTypeOK
  <1>4. PrefixOK'
    BY DEF IInv, PrefixOK
  <1> QED
    BY <1>3, <1>4

LEMMA ListUnanchoredStep ==
    ASSUME IInv, NEW a \in Anchorer, ListUnanchored(a)
    PROVE  IInv'
  <1> DEFINE from == Min(Listed)
             to == Max(Listed)
             batch == [id |-> 0, from |-> from, to |-> to, root |-> BatchRoot(from, to)]
  <1>1. /\ pc[a] = "idle" /\ Backlog # {}
        /\ work' = [work EXCEPT ![a] = batch]
        /\ pc' = [pc EXCEPT ![a] = "listed"]
        /\ UNCHANGED <<chainVars, mined, ledger, anchorBatchId, anchorBatches, nextId, crashes>>
    BY DEF ListUnanchored
  <1>2. /\ from \in 1 .. Len(ledger) /\ to \in from .. Len(ledger)
        /\ \A k \in 1 .. from - 1 : anchorBatchId[k] # Unanchored
    BY <1>1, ListedFromTheFirst
  <1> HIDE DEF from, to
  <1>3. BatchOf(ledger, batch.root, batch.from, batch.to)
    <2>1. Leaves(from, to) = LeavesOf(ledger, from, to)
      BY DEF Leaves, LeavesOf
    <2> QED
      BY <1>2, <2>1 DEF BatchOf, BatchRoot
  <1>4. IsWork(batch) /\ batch.id = 0 /\ batch.from = from
    BY DEF IsWork
  <1> HIDE DEF batch
  <1>5. /\ work = [b \in Anchorer |-> work[b]]
        /\ pc \in [Anchorer -> {"idle", "listed", "marked", "sent"}]
        /\ nextId \in Nat \ {0}
    BY DEF IInv, RunTypeOK
  <1>6. /\ work'[a] = batch /\ pc'[a] = "listed"
        /\ \A b \in Anchorer : b # a => work'[b] = work[b] /\ pc'[b] = pc[b]
        /\ DOMAIN work' = Anchorer
    BY <1>1, <1>5
  <1>7. ChainTypeOK' /\ MempoolOK' /\ ContractOK'
    BY <1>1, ChainKept
  <1>8. LedgerTypeOK' /\ PrefixOK'
    BY <1>1, <1>5, LedgerKept
  <1>9. RunTypeOK'
    <2>1. 0 \in 0 .. nextId - 1
      BY <1>5
    <2>2. \A b \in Anchorer : IsWork(work'[b]) /\ work'[b].id \in 0 .. nextId - 1
      BY <1>4, <1>6, <2>1 DEF IInv, RunTypeOK
    <2>3. work' = [b \in Anchorer |-> work'[b]]
      BY <1>1, <1>5
    <2>4. pc' \in [Anchorer -> {"idle", "listed", "marked", "sent"}]
      BY <1>1, <1>5
    <2> QED
      BY <1>1, <2>2, <2>3, <2>4 DEF IInv, RunTypeOK
  <1>10. RowsOK' /\ MarksOK'
    BY <1>1 DEF IInv, RowsOK, MarksOK
  <1>11. WorkOK'
    BY <1>1, <1>2, <1>3, <1>4, <1>6 DEF IInv, WorkOK
  <1>12. IdsOK'
    BY <1>1, <1>6 DEF IInv, IdsOK, Open
  <1> QED
    BY <1>7, <1>8, <1>9, <1>10, <1>11, <1>12 DEF IInv

LEMMA CreateAndMarkStep ==
    ASSUME IInv, NEW a \in Anchorer, CreateAndMark(a)
    PROVE  IInv'
  <1>1. /\ pc[a] = "listed"
        /\ work' = [work EXCEPT ![a].id = nextId]
        /\ nextId' = nextId + 1
        /\ pc' = [pc EXCEPT ![a] = "marked"]
        /\ UNCHANGED <<chainVars, mined, ledger, anchorBatchId, anchorBatches, crashes>>
    BY DEF CreateAndMark
  <1>2. /\ work = [b \in Anchorer |-> work[b]] /\ IsWork(work[a])
        /\ pc \in [Anchorer -> {"idle", "listed", "marked", "sent"}]
        /\ nextId \in Nat \ {0}
        /\ DOMAIN anchorBatches \subseteq 1 .. nextId - 1
    BY DEF IInv, RunTypeOK
  <1> DEFINE batch == [id |-> nextId, from |-> work[a].from, to |-> work[a].to,
                       root |-> work[a].root]
  <1>3. work'[a] = batch
    <2>1. work'[a] = [work[a] EXCEPT !.id = nextId]
      BY <1>1, <1>2
    <2> QED
      BY <1>2, <2>1 DEF IsWork
  <1>4. /\ pc'[a] = "marked"
        /\ \A b \in Anchorer : b # a => work'[b] = work[b] /\ pc'[b] = pc[b]
        /\ work' = [b \in Anchorer |-> work'[b]]
    BY <1>1, <1>2
  <1>5. /\ IsWork(batch) /\ batch.id = nextId
        /\ batch.from = work[a].from /\ batch.to = work[a].to /\ batch.root = work[a].root
    BY DEF IsWork
  <1> HIDE DEF batch
  <1>6. /\ nextId' \in Nat \ {0} /\ nextId <= nextId' /\ nextId \in 1 .. nextId' - 1
        /\ \A id \in 0 .. nextId - 1 : id \in 0 .. nextId' - 1 /\ id # nextId
        /\ \A id \in 1 .. nextId - 1 : id \in 1 .. nextId' - 1 /\ id # nextId
        /\ nextId \in 0 .. nextId' - 1
    BY <1>1, <1>2
  <1>7. ChainTypeOK' /\ MempoolOK' /\ ContractOK'
    BY <1>1, ChainKept
  <1>8. LedgerTypeOK' /\ PrefixOK'
    BY <1>1, <1>6, LedgerKept
  <1>9. RunTypeOK'
    <2>1. \A b \in Anchorer : IsWork(work'[b]) /\ work'[b].id \in 0 .. nextId' - 1
      <3> SUFFICES ASSUME NEW b \in Anchorer
                   PROVE  IsWork(work'[b]) /\ work'[b].id \in 0 .. nextId' - 1
        OBVIOUS
      <3>1. CASE b = a
        BY <1>3, <1>5, <1>6, <3>1
      <3>2. CASE b # a
        BY <1>4, <1>6, <3>2 DEF IInv, RunTypeOK
      <3> QED
        BY <3>1, <3>2
    <2>2. pc' \in [Anchorer -> {"idle", "listed", "marked", "sent"}]
      BY <1>1, <1>2
    <2>3. mined' \subseteq 1 .. nextId' - 1 /\ DOMAIN anchorBatches' \subseteq 1 .. nextId' - 1
      BY <1>1, <1>6 DEF IInv, RunTypeOK
    <2>4. crashes' \in 0 .. MaxCrashes
      BY <1>1 DEF IInv, RunTypeOK
    <2> QED
      BY <1>4, <1>6, <2>1, <2>2, <2>3, <2>4 DEF RunTypeOK
  <1>10. RowsOK' /\ MarksOK'
    BY <1>1 DEF IInv, RowsOK, MarksOK
  <1>11. WorkOK'
    BY <1>1, <1>3, <1>4, <1>5 DEF IInv, WorkOK
  <1>12. IdsOK'
    <2> SUFFICES ASSUME NEW b \in Anchorer, Open(b)'
                 PROVE  /\ work'[b].id \in 1 .. nextId' - 1
                        /\ work'[b].id \notin DOMAIN anchorBatches
                        /\ \A c \in Anchorer : Open(c)' /\ c # b => work'[c].id # work'[b].id
      BY <1>1 DEF IdsOK
    <2>1. \A c \in Anchorer : c # a /\ Open(c)' => /\ Open(c) /\ work'[c] = work[c]
                                                   /\ work[c].id \in 1 .. nextId - 1
                                                   /\ work[c].id \notin DOMAIN anchorBatches
      BY <1>4 DEF IInv, IdsOK, Open
    <2>2. CASE b = a
      <3>1. work'[b].id = nextId
        BY <1>3, <1>5, <2>2
      <3>2. nextId \notin DOMAIN anchorBatches
        BY <1>2, <1>6
      <3> QED
        BY <1>6, <2>1, <2>2, <3>1, <3>2
    <2>3. CASE b # a
      <3>1. \A c \in Anchorer : Open(c)' /\ c # b => work'[c].id # work'[b].id
        <4> SUFFICES ASSUME NEW c \in Anchorer, Open(c)', c # b PROVE work'[c].id # work'[b].id
          OBVIOUS
        <4>1. CASE c = a
          BY <1>3, <1>5, <1>6, <2>1, <2>3, <4>1
        <4>2. CASE c # a
          BY <2>1, <2>3, <4>2 DEF IInv, IdsOK
        <4> QED
          BY <4>1, <4>2
      <3> QED
        BY <1>6, <2>1, <2>3, <3>1
    <2> QED
      BY <2>2, <2>3
  <1> QED
    BY <1>7, <1>8, <1>9, <1>10, <1>11, <1>12 DEF IInv

\* An anchoring that ends or dies leaves the others at work as they were.
LEMMA WorkDropped ==
    ASSUME IInv, NEW a \in Anchorer,
           pc' = [pc EXCEPT ![a] = "idle"], work' = [work EXCEPT ![a] = NoWork],
           mined' = mined \ {work[a].id}, nextId' = nextId, crashes' \in 0 .. MaxCrashes,
           DOMAIN anchorBatches' \subseteq 1 .. nextId - 1
    PROVE  /\ RunTypeOK'
           /\ pc'[a] = "idle"
           /\ \A b \in Anchorer : b # a => work'[b] = work[b] /\ pc'[b] = pc[b]
  <1>1. /\ work = [b \in Anchorer |-> work[b]]
        /\ pc \in [Anchorer -> {"idle", "listed", "marked", "sent"}]
        /\ nextId \in Nat \ {0}
    BY DEF IInv, RunTypeOK
  <1>2. IsWork(NoWork) /\ NoWork.id = 0
    BY DEF IsWork, NoWork
  <1>3. 0 \in 0 .. nextId - 1
    BY <1>1
  <1> HIDE DEF NoWork
  <1>4. /\ work'[a] = NoWork /\ pc'[a] = "idle"
        /\ \A b \in Anchorer : b # a => work'[b] = work[b] /\ pc'[b] = pc[b]
        /\ work' = [b \in Anchorer |-> work'[b]]
        /\ pc' \in [Anchorer -> {"idle", "listed", "marked", "sent"}]
    BY <1>1
  <1>5. \A b \in Anchorer : IsWork(work'[b]) /\ work'[b].id \in 0 .. nextId - 1
    BY <1>2, <1>3, <1>4 DEF IInv, RunTypeOK
  <1>6. RunTypeOK'
    BY <1>4, <1>5 DEF IInv, RunTypeOK
  <1> QED
    BY <1>4, <1>6

LEMMA CrashStep ==
    ASSUME IInv, NEW a \in Anchorer, Crash(a)
    PROVE  IInv'
  <1>1. /\ pc' = [pc EXCEPT ![a] = "idle"] /\ work' = [work EXCEPT ![a] = NoWork]
        /\ mined' = mined \ {work[a].id} /\ crashes < MaxCrashes /\ crashes' = crashes + 1
        /\ UNCHANGED <<chainVars, ledger, anchorBatchId, anchorBatches, nextId>>
    BY DEF Crash
  <1>2. nextId' \in Nat /\ nextId <= nextId' /\ DOMAIN anchorBatches' \subseteq 1 .. nextId - 1
    BY <1>1 DEF IInv, RunTypeOK
  <1>3. crashes' \in 0 .. MaxCrashes
    BY <1>1, CrashBoundAssumption DEF IInv, RunTypeOK
  <1>4. /\ RunTypeOK'
        /\ pc'[a] = "idle"
        /\ \A b \in Anchorer : b # a => work'[b] = work[b] /\ pc'[b] = pc[b]
    BY <1>1, <1>2, <1>3, WorkDropped
  <1>5. ChainTypeOK' /\ MempoolOK' /\ ContractOK'
    BY <1>1, ChainKept
  <1>6. LedgerTypeOK' /\ PrefixOK'
    BY <1>1, <1>2, LedgerKept
  <1>7. RowsOK' /\ MarksOK'
    BY <1>1 DEF IInv, RowsOK, MarksOK
  <1>8. WorkOK' /\ IdsOK'
    BY <1>1, <1>4 DEF IInv, WorkOK, IdsOK, Open
  <1> QED
    BY <1>4, <1>5, <1>6, <1>7, <1>8 DEF IInv

\* The ways an anchoring ends: the row and the marks become visible together.
LEMMA FinishStep ==
    ASSUME IInv, NEW a \in Anchorer, Open(a), NEW status \in {"CONFIRMED", "FAILED"},
           Finish(a, status)
    PROVE  IInv'
  <1> DEFINE n == Len(ledger)
             id == work[a].id
             from == work[a].from
             to == work[a].to
             row == BatchRow(a, status)
  <1>1. /\ anchorBatches' = [i \in DOMAIN anchorBatches \cup {id} |->
                               IF i = id THEN row ELSE anchorBatches[i]]
        /\ anchorBatchId' = [k \in DOMAIN ledger |-> IF k \in from .. to THEN id ELSE anchorBatchId[k]]
        /\ pc' = [pc EXCEPT ![a] = "idle"] /\ work' = [work EXCEPT ![a] = NoWork]
        /\ mined' = mined \ {id}
        /\ UNCHANGED <<chainVars, ledger, nextId, crashes>>
    BY DEF Finish, MarkAnchored, Span
  <1>2. /\ row.from = from /\ row.to = to /\ row.root = work[a].root /\ row.status = status
    BY DEF BatchRow
  <1>3. /\ id \in 1 .. nextId - 1 /\ id \notin DOMAIN anchorBatches
        /\ \A b \in Anchorer : Open(b) /\ b # a => work[b].id # id
    BY DEF IInv, IdsOK
  <1>4. /\ BatchOf(ledger, work[a].root, from, to)
        /\ \A k \in 1 .. from - 1 : anchorBatchId[k] # Unanchored
    BY DEF IInv, WorkOK, Open
  <1>5. n \in Nat /\ DOMAIN ledger = 1 .. n /\ from \in 1 .. n /\ to \in from .. n
    BY <1>4, LedgerFacts DEF IInv, BatchOf
  <1>6. nextId \in Nat \ {0} /\ DOMAIN anchorBatches \subseteq 1 .. nextId - 1 /\ crashes \in 0 .. MaxCrashes
    BY DEF IInv, RunTypeOK
  <1> HIDE DEF n, id, from, to, row
  <1>7. /\ id \in 0 .. nextId - 1 /\ id # Unanchored
        /\ \A k \in from .. to : k \in 1 .. n
        /\ \A k \in 1 .. n : k \notin from .. to => k < from \/ k > to
    BY <1>3, <1>5, <1>6 DEF Unanchored
  <1>8. /\ DOMAIN anchorBatches' = DOMAIN anchorBatches \cup {id}
        /\ anchorBatches'[id] = row
        /\ \A i \in DOMAIN anchorBatches : anchorBatches'[i] = anchorBatches[i]
    BY <1>1, <1>3
  <1>9. /\ \A k \in from .. to : anchorBatchId'[k] = id
        /\ \A k \in 1 .. n : k \notin from .. to => anchorBatchId'[k] = anchorBatchId[k]
        /\ \A k \in 1 .. n : anchorBatchId[k] # Unanchored => anchorBatchId'[k] # Unanchored
    BY <1>1, <1>5, <1>7
  <1>10. DOMAIN anchorBatches' \subseteq 1 .. nextId - 1
    BY <1>3, <1>6, <1>8
  <1>11. /\ RunTypeOK'
         /\ pc'[a] = "idle"
         /\ \A b \in Anchorer : b # a => work'[b] = work[b] /\ pc'[b] = pc[b]
    BY <1>1, <1>6, <1>10, WorkDropped DEF id
  <1>12. ChainTypeOK' /\ MempoolOK' /\ ContractOK'
    BY <1>1, ChainKept
  <1>13. LedgerTypeOK'
    <2>1. IsSequence(anchorBatchId') /\ Len(anchorBatchId') = n
      <3>1. DOMAIN anchorBatchId' = 1 .. n /\ anchorBatchId' = [k \in 1 .. n |-> anchorBatchId'[k]]
        BY <1>1, <1>5
      <3> QED
        BY <1>5, <3>1, SequenceOfFunction
    <2>2. \A k \in 1 .. n : anchorBatchId'[k] \in 0 .. nextId - 1
      <3>1. \A k \in 1 .. n : anchorBatchId[k] \in 0 .. nextId - 1
        BY DEF IInv, LedgerTypeOK, n
      <3> QED
        BY <1>7, <1>9, <3>1
    <2>3. ledger' = ledger /\ nextId' = nextId
      BY <1>1
    <2>4. IsSequence(ledger) /\ n <= MaxEntries /\ \A k \in 1 .. n : ledger[k] \in Row
      BY DEF IInv, LedgerTypeOK, n
    <2> QED
      BY <2>1, <2>2, <2>3, <2>4 DEF LedgerTypeOK, n
  <1>14. RowsOK'
    <2> SUFFICES ASSUME NEW i \in DOMAIN anchorBatches'
                 PROVE  /\ BatchOf(ledger', anchorBatches'[i].root, anchorBatches'[i].from, anchorBatches'[i].to)
                        /\ anchorBatches'[i].status \in {"CONFIRMED", "FAILED"}
      BY DEF RowsOK
    <2>1. ledger' = ledger
      BY <1>1
    <2>2. CASE i = id
      BY <1>2, <1>4, <1>8, <2>1, <2>2
    <2>3. CASE i \in DOMAIN anchorBatches
      BY <1>8, <2>1, <2>3 DEF IInv, RowsOK
    <2> QED
      BY <1>8, <2>2, <2>3
  <1>15. WorkOK'
    <2> SUFFICES ASSUME NEW b \in Anchorer, pc'[b] # "idle"
                 PROVE  /\ BatchOf(ledger', work'[b].root, work'[b].from, work'[b].to)
                        /\ \A k \in 1 .. work'[b].from - 1 : anchorBatchId'[k] # Unanchored
      BY DEF WorkOK
    <2>1. b # a /\ work'[b] = work[b] /\ pc'[b] = pc[b] /\ ledger' = ledger
      BY <1>1, <1>11
    <2>2. /\ BatchOf(ledger, work[b].root, work[b].from, work[b].to)
          /\ \A k \in 1 .. work[b].from - 1 : anchorBatchId[k] # Unanchored
      BY <2>1 DEF IInv, WorkOK
    <2>3. work[b].from \in 1 .. n
      BY <2>2 DEF BatchOf, n
    <2>4. \A k \in 1 .. work[b].from - 1 : k \in 1 .. n
      BY <1>5, <2>3
    <2> QED
      BY <1>9, <2>1, <2>2, <2>4
  <1>16. IdsOK'
    <2> SUFFICES ASSUME NEW b \in Anchorer, Open(b)'
                 PROVE  /\ work'[b].id \in 1 .. nextId - 1
                        /\ work'[b].id \notin DOMAIN anchorBatches'
                        /\ \A c \in Anchorer : Open(c)' /\ c # b => work'[c].id # work'[b].id
      BY <1>1 DEF IdsOK
    <2>1. \A c \in Anchorer : Open(c)' => /\ Open(c) /\ work'[c] = work[c]
                                          /\ work[c].id \in 1 .. nextId - 1
                                          /\ work[c].id \notin DOMAIN anchorBatches
                                          /\ work[c].id # id
      BY <1>3, <1>11 DEF IInv, IdsOK, Open
    <2>2. \A c \in Anchorer : Open(c)' /\ c # b => work'[c].id # work'[b].id
      BY <2>1 DEF IInv, IdsOK
    <2> QED
      BY <1>8, <2>1, <2>2
  <1>17. MarksOK'
    <2> SUFFICES ASSUME NEW k \in 1 .. n, anchorBatchId'[k] # Unanchored
                 PROVE  /\ anchorBatchId'[k] \in DOMAIN anchorBatches'
                        /\ anchorBatches'[anchorBatchId'[k]].from <= k
                        /\ k <= anchorBatches'[anchorBatchId'[k]].to
      BY <1>1 DEF MarksOK, n
    <2>1. CASE k \in from .. to
      <3>1. anchorBatchId'[k] = id /\ from <= k /\ k <= to
        BY <1>5, <1>9, <2>1
      <3> QED
        BY <1>2, <1>8, <3>1
    <2>2. CASE k \notin from .. to
      <3>1. anchorBatchId'[k] = anchorBatchId[k]
        BY <1>9, <2>2
      <3>2. /\ anchorBatchId[k] \in DOMAIN anchorBatches
            /\ anchorBatches[anchorBatchId[k]].from <= k
            /\ k <= anchorBatches[anchorBatchId[k]].to
        BY <3>1 DEF IInv, MarksOK, n
      <3> QED
        BY <1>8, <3>1, <3>2
    <2> QED
      BY <2>1, <2>2
  <1>18. PrefixOK'
    <2> SUFFICES ASSUME NEW j \in 1 .. n, NEW k \in 1 .. n, j < k, anchorBatchId'[j] = Unanchored
                 PROVE  anchorBatchId'[k] = Unanchored
      BY <1>1 DEF PrefixOK, n
    <2>1. j \notin from .. to /\ anchorBatchId[j] = Unanchored
      BY <1>7, <1>9
    <2>2. j > to
      <3>1. ~(j < from)
        <4>1. j < from => j \in 1 .. from - 1
          BY <1>5
        <4> QED
          BY <1>4, <2>1, <4>1
      <3> QED
        BY <1>7, <2>1, <3>1
    <2>3. k \notin from .. to
      BY <1>5, <2>2
    <2>4. anchorBatchId[k] = Unanchored
      BY <2>1 DEF IInv, PrefixOK, n
    <2> QED
      BY <1>9, <2>3, <2>4
  <1> QED
    BY <1>11, <1>12, <1>13, <1>14, <1>15, <1>16, <1>17, <1>18 DEF IInv

LEMMA SendTxStep ==
    ASSUME IInv, NEW a \in Anchorer, SendTx(a)
    PROVE  IInv'
  <1>1. /\ pc[a] = "marked"
        /\ mempool' = {work[a]} /\ pc' = [pc EXCEPT ![a] = "sent"]
        /\ UNCHANGED <<contractVars, deployed, mined, ledger, anchorBatchId, anchorBatches,
                       work, nextId, crashes>>
    BY DEF SendTx
  <1>2. pc \in [Anchorer -> {"idle", "listed", "marked", "sent"}] /\ nextId \in Nat
    BY DEF IInv, RunTypeOK
  <1>3. /\ pc'[a] = "sent" /\ \A b \in Anchorer : b # a => pc'[b] = pc[b]
        /\ pc' \in [Anchorer -> {"idle", "listed", "marked", "sent"}]
    BY <1>1, <1>2
  <1>4. ChainTypeOK' /\ ContractOK'
    BY <1>1 DEF IInv, ChainTypeOK, ContractOK, contractVars, Contract!OnlyOwner
  <1>5. MempoolOK'
    BY <1>1 DEF IInv, MempoolOK, WorkOK
  <1>6. LedgerTypeOK' /\ PrefixOK'
    <2>1. nextId <= nextId'
      BY <1>1, <1>2
    <2> QED
      BY <1>1, <1>2, <2>1, LedgerKept
  <1>7. RunTypeOK'
    BY <1>1, <1>3 DEF IInv, RunTypeOK
  <1>8. RowsOK' /\ MarksOK'
    BY <1>1 DEF IInv, RowsOK, MarksOK
  <1>9. WorkOK'
    BY <1>1, <1>3 DEF IInv, WorkOK
  <1>10. IdsOK'
    <2>1. \A b \in Anchorer : Open(b)' <=> Open(b)
      BY <1>1, <1>3 DEF Open
    <2> QED
      BY <1>1, <2>1 DEF IInv, IdsOK
  <1> QED
    BY <1>4, <1>5, <1>6, <1>7, <1>8, <1>9, <1>10 DEF IInv

\* Every batch that the contract accepts takes at least one number of the ledger,
\* so there are never more batches than numbers taken.
LEMMA BatchIsCounted ==
    ASSUME IInv, NEW tx \in mempool, Contract!AnchorRoot(Wallet, tx.root, tx.from, tx.to)
    PROVE  batchCount + 1 \in 0 .. tx.to
  <1>1. BatchOf(ledger, tx.root, tx.from, tx.to)
    BY DEF IInv, MempoolOK
  <1>2. tx.from \in Nat /\ tx.to \in Nat /\ 1 <= tx.from /\ tx.from <= tx.to
    <2>1. tx.from \in 1 .. Len(ledger) /\ tx.to \in tx.from .. Len(ledger)
      BY <1>1 DEF BatchOf
    <2>2. Len(ledger) \in Nat
      BY LedgerFacts DEF IInv
    <2> QED
      BY <2>1, <2>2
  <1>3. lastToSequence \in Nat /\ batchCount \in 0 .. lastToSequence
    BY LedgerBoundAssumption DEF IInv, ChainTypeOK
  <1>4. batchCount > 0 => lastToSequence < tx.from
    BY <1>2, <1>3 DEF Contract!AnchorRoot, Contract!OverlappingSequence
  <1> QED
    BY <1>2, <1>3, <1>4

LEMMA MineTxStep ==
    ASSUME IInv, NEW tx \in mempool, MineTx(tx)
    PROVE  IInv'
  <1>1. /\ mempool' = mempool \ {tx}
        /\ Contract!AnchorRoot(Wallet, tx.root, tx.from, tx.to) \/ UNCHANGED contractVars
        /\ mined' = mined \cup {work[a].id : a \in {b \in Anchorer :
                                   pc[b] = "sent" /\ work[b].id = tx.id}}
        /\ UNCHANGED <<deployed, ledger, anchorBatchId, anchorBatches, pc, work, nextId, crashes>>
    BY DEF MineTx
  <1>2. BatchOf(ledger, tx.root, tx.from, tx.to)
    BY DEF IInv, MempoolOK
  <1>3. ChainTypeOK' /\ ContractOK'
    <2>1. CASE UNCHANGED contractVars
      BY <1>1, <2>1 DEF IInv, ChainTypeOK, ContractOK, contractVars, Contract!OnlyOwner
    <2>2. CASE Contract!AnchorRoot(Wallet, tx.root, tx.from, tx.to)
      <3> DEFINE batch == [merkleRoot |-> tx.root, fromSequence |-> tx.from,
                           toSequence |-> tx.to, anchorer |-> Wallet]
      <3>1. /\ batches' = [i \in DOMAIN batches \cup {batchCount} |->
                             IF i = batchCount THEN batch ELSE batches[i]]
            /\ lastToSequence' = tx.to /\ batchCount' = batchCount + 1 /\ owner' = owner
        BY <2>2 DEF Contract!AnchorRoot, Contract!StoreBatch
      <3>2. tx.to \in 0 .. MaxEntries
        <4>1. tx.from \in 1 .. Len(ledger) /\ tx.to \in tx.from .. Len(ledger)
          BY <1>2 DEF BatchOf
        <4>2. Len(ledger) \in Nat /\ Len(ledger) <= MaxEntries
          BY LedgerFacts DEF IInv, LedgerTypeOK
        <4> QED
          BY <4>1, <4>2, LedgerBoundAssumption
      <3>3. ChainTypeOK'
        <4>1. batchCount + 1 \in 0 .. tx.to
          BY <2>2, BatchIsCounted
        <4> QED
          BY <1>1, <3>1, <3>2, <4>1 DEF IInv, ChainTypeOK, Contract!OnlyOwner
      <3>4. batch.merkleRoot = tx.root /\ batch.fromSequence = tx.from /\ batch.toSequence = tx.to
        OBVIOUS
      <3> HIDE DEF batch
      <3>5. \A i \in DOMAIN batches' : \/ i = batchCount /\ batches'[i] = batch
                                       \/ i \in DOMAIN batches /\ batches'[i] = batches[i]
        BY <3>1
      <3>6. ContractOK'
        BY <1>1, <1>2, <3>4, <3>5 DEF IInv, ContractOK
      <3> QED
        BY <3>3, <3>6
    <2> QED
      BY <1>1, <2>1, <2>2
  <1>4. MempoolOK'
    BY <1>1 DEF IInv, MempoolOK
  <1>5. LedgerTypeOK' /\ PrefixOK'
    <2>1. nextId' \in Nat /\ nextId <= nextId'
      BY <1>1 DEF IInv, RunTypeOK
    <2> QED
      BY <1>1, <2>1, LedgerKept
  <1>6. RunTypeOK'
    <2>1. \A a \in Anchorer : pc[a] = "sent" => work[a].id \in 1 .. nextId - 1
      BY DEF IInv, IdsOK, Open
    <2>2. mined' \subseteq 1 .. nextId - 1
      BY <1>1, <2>1 DEF IInv, RunTypeOK
    <2> QED
      BY <1>1, <2>2 DEF IInv, RunTypeOK
  <1>7. RowsOK' /\ MarksOK'
    BY <1>1 DEF IInv, RowsOK, MarksOK
  <1>8. WorkOK' /\ IdsOK'
    BY <1>1 DEF IInv, WorkOK, IdsOK, Open
  <1> QED
    BY <1>3, <1>4, <1>5, <1>6, <1>7, <1>8 DEF IInv

LEMMA NextStep == IInv /\ [Next]_vars => IInv'
  <1> SUFFICES ASSUME IInv, [Next]_vars PROVE IInv'
    OBVIOUS
  <1>1. ASSUME NEW body \in Body \ {Forged}, AppendEntry(body) PROVE IInv'
    BY <1>1, AppendEntryStep
  <1>2. ASSUME NEW tx \in mempool, MineTx(tx) PROVE IInv'
    BY <1>2, MineTxStep
  <1>3. ASSUME NEW a \in Anchorer, ListUnanchored(a) PROVE IInv'
    BY <1>3, ListUnanchoredStep
  <1>4. ASSUME NEW a \in Anchorer, AnchorStep(a) PROVE IInv'
    <2>1. CASE CreateAndMark(a)
      BY <2>1, CreateAndMarkStep
    <2>2. CASE SimulatedReceipt(a)
      BY <2>2, FinishStep DEF SimulatedReceipt, Open
    <2>3. CASE SubmitError(a)
      BY <2>3, FinishStep DEF SubmitError, Open
    <2>4. CASE SendTx(a)
      BY <2>4, SendTxStep
    <2>5. CASE Receipt(a)
      BY <2>5, FinishStep DEF Receipt, Open
    <2>6. CASE ReceiptTimeout(a)
      BY <2>6, FinishStep DEF ReceiptTimeout, Open
    <2> QED
      BY <1>4, <2>1, <2>2, <2>3, <2>4, <2>5, <2>6 DEF AnchorStep
  <1>5. ASSUME NEW a \in Anchorer, Crash(a) PROVE IInv'
    BY <1>5, CrashStep
  <1>6. CASE UNCHANGED vars
    <2>1. UNCHANGED <<chainVars, ledger, anchorBatchId, mined, anchorBatches, pc, work, nextId,
                      crashes>>
      BY <1>6 DEF vars
    <2>2. ChainTypeOK' /\ MempoolOK' /\ ContractOK'
      BY <2>1, ChainKept
    <2>3. LedgerTypeOK' /\ RunTypeOK' /\ RowsOK' /\ MarksOK' /\ PrefixOK'
      BY <2>1 DEF IInv, LedgerTypeOK, RunTypeOK, RowsOK, MarksOK, PrefixOK
    <2>4. WorkOK' /\ IdsOK'
      BY <2>1 DEF IInv, WorkOK, IdsOK, Open
    <2> QED
      BY <2>2, <2>3, <2>4 DEF IInv
  <1> QED
    BY <1>1, <1>2, <1>3, <1>4, <1>5, <1>6 DEF Next

\* The parts of IInv hold together in every state: batch and ledger agree in
\* every place a batch can be.
THEOREM BatchesStayTrue == Spec => []IInv
  <1>1. IInv /\ [Next]_vars => IInv'
    BY NextStep
  <1> QED
    BY <1>1, InitIInv, PTL DEF Spec

-----------------------------------------------------------------------------
\* The properties

LEMMA IInvTypeOK ==
    ASSUME IInv
    PROVE  TypeOK
  <1>1. Len(ledger) \in Nat /\ DOMAIN ledger = 1 .. Len(ledger)
    BY LedgerFacts DEF IInv
  <1>2. Cardinality(mempool) <= 1
    <2>1. CASE mempool = {}
      BY <2>1, FS_EmptySet
    <2>2. CASE \E tx : mempool = {tx}
      <3>1. PICK tx : mempool = {tx}
        BY <2>2
      <3>2. Cardinality({tx}) = 1
        BY FS_Singleton
      <3> QED
        BY <3>1, <3>2
    <2> QED
      BY <2>1, <2>2 DEF IInv, MempoolOK
  <1>3. /\ Contract!OnlyOwner(Wallet) /\ lastToSequence \in 0 .. MaxEntries
        /\ batchCount \in Nat /\ deployed \in BOOLEAN
    BY DEF IInv, ChainTypeOK
  <1>4. /\ Len(anchorBatchId) = Len(ledger)
        /\ \A k \in DOMAIN ledger : ledger[k] \in Row /\ anchorBatchId[k] \in 0 .. nextId - 1
    BY <1>1 DEF IInv, LedgerTypeOK
  <1>5. \A id \in DOMAIN anchorBatches : anchorBatches[id].status \in {"CONFIRMED", "FAILED"}
    BY DEF IInv, RowsOK
  <1>6. /\ mined \subseteq 1 .. nextId - 1 /\ DOMAIN anchorBatches \subseteq 1 .. nextId - 1
        /\ pc \in [Anchorer -> {"idle", "listed", "marked", "sent"}]
        /\ \A a \in Anchorer : work[a].id \in 0 .. nextId - 1
        /\ crashes \in 0 .. MaxCrashes
    BY DEF IInv, RunTypeOK
  <1> QED
    BY <1>2, <1>3, <1>4, <1>5, <1>6 DEF TypeOK

\* Every variable of an anchoring keeps its type; at most one transaction is pending.
THEOREM AnchoringTypes == Spec => []TypeOK
  <1>1. IInv => TypeOK
    BY IInvTypeOK
  <1> QED
    BY <1>1, BatchesStayTrue, PTL

LEMMA IInvRoots ==
    ASSUME IInv
    PROVE  RootsMatchLedger
  <1>1. Len(ledger) \in Nat
    BY LedgerFacts DEF IInv
  <1>2. ASSUME NEW i \in DOMAIN batches
        PROVE  IsRootOf(batches[i].merkleRoot, batches[i].fromSequence, batches[i].toSequence)
    BY <1>1, BatchIsRoot DEF IInv, ContractOK
  <1>3. ASSUME NEW id \in DOMAIN anchorBatches
        PROVE  IsRootOf(anchorBatches[id].root, anchorBatches[id].from, anchorBatches[id].to)
    BY <1>1, BatchIsRoot DEF IInv, RowsOK
  <1> QED
    BY <1>2, <1>3 DEF RootsMatchLedger

\* Whatever anchorings race, time out or die half way, the roots on chain and in
\* the database are those of the entries of their ranges.
THEOREM StoredRootsMatch == Spec => []RootsMatchLedger
  <1>1. IInv => RootsMatchLedger
    BY IInvRoots
  <1> QED
    BY <1>1, BatchesStayTrue, PTL

\* No anchoring leaves an unanchored entry before an anchored one.
THEOREM AnchoredIsAPrefix == Spec => []AnchoredIsPrefix
  <1>1. ASSUME IInv PROVE AnchoredIsPrefix
    <2>1. DOMAIN ledger = 1 .. Len(ledger) /\ PrefixOK
      BY <1>1, LedgerFacts DEF IInv
    <2>2. \A k \in 1 .. Len(ledger) : k \in Backlog <=> anchorBatchId[k] = Unanchored
      BY <2>1 DEF Backlog
    <2> QED
      BY <2>1, <2>2 DEF PrefixOK, AnchoredIsPrefix
  <1> QED
    BY <1>1, BatchesStayTrue, PTL

LEMMA IInvProofs ==
    ASSUME IInv
    PROVE  ProofAvailable
  <1> SUFFICES ASSUME NEW k \in DOMAIN ledger \ Backlog
               PROVE  /\ anchorBatchId[k] \in DOMAIN anchorBatches
                      /\ LET batch == anchorBatches[anchorBatchId[k]]
                             proof == GetProof(Leaves(batch.from, batch.to), k - batch.from)
                         IN  /\ batch.from <= k /\ k <= batch.to
                             /\ proof.leafHash = ledger[k].entryHash
                             /\ proof.root = batch.root
                             /\ VerifyProof(proof)
    BY DEF ProofAvailable
  <1> DEFINE batch == anchorBatches[anchorBatchId[k]]
             from == batch.from
             to == batch.to
             leaves == Leaves(from, to)
             proof == GetProof(leaves, k - from)
             n == Len(ledger)
  <1>1. n \in Nat /\ DOMAIN ledger = 1 .. n
    BY LedgerFacts DEF IInv
  <1>2. k \in 1 .. n /\ anchorBatchId[k] # Unanchored
    BY <1>1 DEF Backlog
  <1>3. anchorBatchId[k] \in DOMAIN anchorBatches /\ from <= k /\ k <= to
    BY <1>2 DEF IInv, MarksOK
  <1>4. BatchOf(ledger, batch.root, from, to)
    BY <1>3 DEF IInv, RowsOK
  <1>5. from \in 1 .. n /\ to \in from .. n /\ batch.root = MerkleRoot(leaves)
    <2>1. leaves = LeavesOf(ledger, from, to)
      BY DEF Leaves, LeavesOf
    <2> QED
      BY <1>4, <2>1 DEF BatchOf
  <1> HIDE DEF from, to, n, batch
  <1>6. /\ to - from + 1 \in Nat
        /\ k - from \in 0 .. (to - from + 1) - 1
        /\ k - from + 1 \in 1 .. to - from + 1
        /\ from + (k - from + 1) - 1 = k
    <2>1. n \in Nat /\ k \in 1 .. n /\ from \in 1 .. n /\ to \in from .. n /\ from <= k /\ k <= to
      BY <1>1, <1>2, <1>3, <1>5
    <2> HIDE DEF leaves, proof
    <2> QED
      BY <2>1
  <1>7. IsSequence(leaves) /\ Len(leaves) = to - from + 1
    <2>1. DOMAIN leaves = 1 .. to - from + 1 /\ leaves = [i \in 1 .. to - from + 1 |-> leaves[i]]
      BY DEF Leaves
    <2> HIDE DEF leaves
    <2> QED
      BY <1>6, <2>1, SequenceOfFunction
  <1>8. leaves[k - from + 1] = ledger[k].entryHash
    BY <1>6 DEF Leaves
  <1> HIDE DEF leaves
  <1>9. k - from \in 0 .. Len(leaves) - 1
    BY <1>6, <1>7
  <1>10. proof.leafHash = leaves[k - from + 1] /\ proof.root = MerkleRoot(leaves)
    BY DEF GetProof
  <1>11. VerifyProof(proof)
    BY <1>7, <1>9, ProofVerifies
  <1> QED
    BY <1>3, <1>5, <1>8, <1>10, <1>11 DEF batch, from, to, leaves

\* Every entry in a batch has a proof that verifies, and that leads to the root
\* stored for its batch: for batches of every size.
THEOREM EveryBatchedEntryHasAProof == Spec => []ProofAvailable
  <1>1. IInv => ProofAvailable
    BY IInvProofs
  <1> QED
    BY <1>1, BatchesStayTrue, PTL

-----------------------------------------------------------------------------
\* The audit

\* The ledger is one chain, in which a rewritten payload shows at its own entry.
ChainOK ==
    \A k \in 1 .. Len(ledger) :
        /\ ledger[k].previousHash = IF k = 1 THEN Genesis ELSE ledger[k - 1].entryHash
        /\ \E body \in Body \ {Forged} :
              /\ ledger[k].entryHash = EntryHash(k, body, ledger[k].previousHash)
              /\ ledger[k].body \in {body, Forged}

\* What was read is the beginning of the ledger, but for payloads rewritten since.
EntriesOK ==
    audit.pc # "idle" =>
        /\ IsSequence(audit.entries)
        /\ Len(audit.entries) <= Len(ledger)
        /\ \A k \in 1 .. Len(audit.entries) : audit.entries[k].entryHash = ledger[k].entryHash

\* Between the two SELECTs: no payload that was read is a rewritten one, and the
\* batch of an entry that was read ends among the entries that were read.
ReadOK ==
    audit.pc = "entries" =>
        /\ \A k \in 1 .. Len(audit.entries) : audit.entries[k].body # Forged
        /\ DOMAIN audit.ids = 1 .. Len(audit.entries)
        /\ \A k \in 1 .. Len(audit.entries) : audit.ids[k] # Unanchored =>
              /\ audit.ids[k] \in DOMAIN anchorBatches
              /\ anchorBatches[audit.ids[k]].from <= k
              /\ k <= anchorBatches[audit.ids[k]].to
              /\ anchorBatches[audit.ids[k]].to <= Len(audit.entries)

AInv ==
    /\ IInv
    /\ ChainOK
    /\ EntriesOK
    /\ ReadOK
    /\ TamperIsLocated
    /\ VerifiedIsBatched
    /\ AlarmWithoutTamperIsARace

LEMMA BreaksAtTheForged ==
    ASSUME IInv, ChainOK, NEW k \in 1 .. Len(ledger)
    PROVE  ChainBreaksAt(ledger, k) <=> ledger[k].body = Forged
  <1> DEFINE previousHash == ledger[k].previousHash
  <1>1. PICK body \in Body \ {Forged} :
           /\ ledger[k].entryHash = EntryHash(k, body, previousHash)
           /\ ledger[k].body \in {body, Forged}
    BY DEF ChainOK
  <1>2. previousHash = IF k = 1 THEN Genesis ELSE ledger[k - 1].entryHash
    BY DEF ChainOK
  <1>3. previousHash \in Seq([seq : Nat, body : Body])
    BY DEF IInv, LedgerTypeOK, Row, Digest
  <1> HIDE DEF previousHash
  <1>4. EntryHash(k, body, previousHash) # EntryHash(k, Forged, previousHash)
    <2> DEFINE x == [seq |-> k, body |-> body]
               y == [seq |-> k, body |-> Forged]
    <2>1. x.body # y.body
      OBVIOUS
    <2> HIDE DEF x, y
    <2>2. IsSequence(previousHash)
      BY <1>3 DEF IsSequence
    <2>3. /\ Append(previousHash, x)[Len(previousHash) + 1] = x
          /\ Append(previousHash, y)[Len(previousHash) + 1] = y
      BY <2>2, SequenceAppend
    <2>4. Append(previousHash, x) # Append(previousHash, y)
      BY <2>1, <2>3
    <2> QED
      BY <2>4 DEF EntryHash, x, y
  <1>5. ChainBreaksAt(ledger, k)
          <=> ledger[k].entryHash # EntryHash(k, ledger[k].body, previousHash)
    BY <1>2 DEF ChainBreaksAt, previousHash
  <1> QED
    BY <1>1, <1>4, <1>5

\* The root of a batch whose entries were all read comes out the same.
LEMMA AuditedRootMatches ==
    ASSUME IInv, EntriesOK, audit.pc # "idle", NEW id \in DOMAIN anchorBatches,
           anchorBatches[id].to <= Len(audit.entries)
    PROVE  MerkleRoot(AuditedLeaves(anchorBatches[id])) = anchorBatches[id].root
  <1> DEFINE from == anchorBatches[id].from
             to == anchorBatches[id].to
             n == Len(audit.entries)
             end == Min({to, n})
  <1>1. /\ from \in 1 .. Len(ledger) /\ to \in from .. Len(ledger)
        /\ anchorBatches[id].root = MerkleRoot(LeavesOf(ledger, from, to))
    BY DEF IInv, RowsOK, BatchOf
  <1>2. n \in Nat /\ n <= Len(ledger) /\ Len(ledger) \in Nat
    BY SequenceFacts, LedgerFacts DEF EntriesOK, IInv
  <1>3. end = to
    <2>1. to \in Nat /\ n \in Nat /\ to <= n
      BY <1>1, <1>2
    <2> HIDE DEF to, n, end
    <2>2. end \in {to, n} /\ \A y \in {to, n} : end <= y
      BY <2>1, MinIsLeast DEF end
    <2> QED
      BY <2>1, <2>2
  <1>4. AuditedLeaves(anchorBatches[id]) = LeavesOf(audit.entries, from, to)
    BY <1>3 DEF AuditedLeaves, LeavesOf
  <1>5. \A i \in 1 .. to - from + 1 : from + i - 1 \in 1 .. n
    <2>1. from \in Nat /\ from >= 1 /\ to \in Nat /\ from <= to /\ to <= n
      BY <1>1, <1>2
    <2> HIDE DEF from, to, n, end
    <2> QED
      BY <1>2, <2>1
  <1>6. \A i \in 1 .. to - from + 1 :
           audit.entries[from + i - 1].entryHash = ledger[from + i - 1].entryHash
    <2> HIDE DEF from, to, end
    <2> QED
      BY <1>5 DEF EntriesOK
  <1>7. LeavesOf(audit.entries, from, to) = LeavesOf(ledger, from, to)
    <2> HIDE DEF from, to, n, end
    <2> QED
      BY <1>6 DEF LeavesOf
  <1> QED
    BY <1>1, <1>4, <1>7

\* What no step does: take entries back, or rewrite the row of a batch.
OnlyGrows ==
    /\ Len(ledger) <= Len(ledger')
    /\ \A k \in 1 .. Len(ledger) : ledger'[k].entryHash = ledger[k].entryHash
    /\ \A id \in DOMAIN anchorBatches :
          id \in DOMAIN anchorBatches' /\ anchorBatches'[id] = anchorBatches[id]

LEMMA LedgerOnlyGrows ==
    ASSUME IInv, Next
    PROVE  OnlyGrows /\ (ledger' = ledger \/ \E body \in Body \ {Forged} : AppendEntry(body))
  <1>1. Len(ledger) \in Nat /\ IsSequence(ledger)
    BY LedgerFacts DEF IInv, LedgerTypeOK
  <1>2. ASSUME NEW body \in Body \ {Forged}, AppendEntry(body) PROVE OnlyGrows
    <2>1. PICK row : ledger' = Append(ledger, row)
      BY <1>2 DEF AppendEntry
    <2>2. Len(ledger') = Len(ledger) + 1 /\ \A k \in 1 .. Len(ledger) : ledger'[k] = ledger[k]
      BY <1>1, <2>1, SequenceAppend
    <2>3. anchorBatches' = anchorBatches
      BY <1>2 DEF AppendEntry
    <2>4. Len(ledger) <= Len(ledger')
      BY <1>1, <2>2
    <2> QED
      BY <2>2, <2>3, <2>4 DEF OnlyGrows
  <1>3. ASSUME ledger' = ledger, anchorBatches' = anchorBatches PROVE OnlyGrows
    BY <1>1, <1>3 DEF OnlyGrows
  <1>4. ASSUME NEW a \in Anchorer, Open(a), NEW status, Finish(a, status)
        PROVE  OnlyGrows /\ ledger' = ledger
    <2>1. work[a].id \notin DOMAIN anchorBatches
      BY <1>4 DEF IInv, IdsOK
    <2>2. \A id \in DOMAIN anchorBatches :
             id \in DOMAIN anchorBatches' /\ anchorBatches'[id] = anchorBatches[id]
      BY <1>4, <2>1 DEF Finish
    <2>3. ledger' = ledger
      BY <1>4 DEF Finish
    <2> QED
      BY <1>1, <2>2, <2>3 DEF OnlyGrows
  <1>5. ASSUME NEW tx \in mempool, MineTx(tx) PROVE ledger' = ledger /\ anchorBatches' = anchorBatches
    BY <1>5 DEF MineTx
  <1>6. ASSUME NEW a \in Anchorer,
               ListUnanchored(a) \/ Crash(a) \/ CreateAndMark(a) \/ SendTx(a)
        PROVE  ledger' = ledger /\ anchorBatches' = anchorBatches
    BY <1>6 DEF ListUnanchored, Crash, CreateAndMark, SendTx
  <1>7. ASSUME NEW a \in Anchorer,
               SimulatedReceipt(a) \/ SubmitError(a) \/ Receipt(a) \/ ReceiptTimeout(a)
        PROVE  OnlyGrows /\ ledger' = ledger
    <2>1. Open(a) /\ (Finish(a, "CONFIRMED") \/ Finish(a, "FAILED"))
      BY <1>7 DEF SimulatedReceipt, SubmitError, Receipt, ReceiptTimeout, Open
    <2> QED
      BY <1>4, <2>1
  <1> QED
    BY <1>2, <1>3, <1>5, <1>6, <1>7 DEF Next, AnchorStep

\* Where nothing is taken back, an audit under way and its verdict stay true.
LEMMA AuditKept ==
    ASSUME AInv, OnlyGrows, UNCHANGED audit, Len(ledger') \in Nat
    PROVE  EntriesOK' /\ ReadOK' /\ TamperIsLocated' /\ VerifiedIsBatched' /\ AlarmWithoutTamperIsARace'
  <1>1. EntriesOK'
    <2> SUFFICES ASSUME audit.pc # "idle"
                 PROVE  /\ IsSequence(audit.entries)
                        /\ Len(audit.entries) <= Len(ledger')
                        /\ \A k \in 1 .. Len(audit.entries) :
                              audit.entries[k].entryHash = ledger'[k].entryHash
      BY DEF EntriesOK
    <2> DEFINE e == Len(audit.entries)
               n == Len(ledger)
               m == Len(ledger')
    <2>1. /\ IsSequence(audit.entries) /\ e <= n
          /\ \A k \in 1 .. e : audit.entries[k].entryHash = ledger[k].entryHash
      BY DEF AInv, EntriesOK
    <2>2. e \in Nat /\ n \in Nat /\ m \in Nat /\ n <= m
      BY <2>1, SequenceFacts, LedgerFacts DEF AInv, IInv, OnlyGrows
    <2>3. \A k \in 1 .. n : ledger'[k].entryHash = ledger[k].entryHash
      BY DEF OnlyGrows
    <2> HIDE DEF e, n, m
    <2>4. e <= m /\ \A k \in 1 .. e : k \in 1 .. n
      BY <2>1, <2>2
    <2> QED
      BY <2>1, <2>3, <2>4 DEF e, m
  <1>2. ReadOK'
    BY DEF AInv, ReadOK, OnlyGrows
  <1>3. TamperIsLocated'
    BY DEF AInv, TamperIsLocated, ForgedAsRead
  <1>4. VerifiedIsBatched'
    <2> SUFFICES ASSUME audit.pc = "done", audit.status = "VERIFIED", NEW k \in DOMAIN audit.entries
                 PROVE  \E id \in DOMAIN anchorBatches' :
                           /\ anchorBatches'[id].from <= k /\ k <= anchorBatches'[id].to
                           /\ anchorBatches'[id].to <= Len(audit.entries)
                           /\ anchorBatches'[id].root = MerkleRoot(AuditedLeaves(anchorBatches[id])')
      BY DEF VerifiedIsBatched
    <2>1. PICK id \in DOMAIN anchorBatches :
             /\ anchorBatches[id].from <= k /\ k <= anchorBatches[id].to
             /\ anchorBatches[id].to <= Len(audit.entries)
             /\ anchorBatches[id].root = MerkleRoot(AuditedLeaves(anchorBatches[id]))
      BY DEF AInv, VerifiedIsBatched
    <2>2. id \in DOMAIN anchorBatches' /\ anchorBatches'[id] = anchorBatches[id]
      BY DEF OnlyGrows
    <2>3. AuditedLeaves(anchorBatches[id])' = AuditedLeaves(anchorBatches[id])
      BY <2>2 DEF AuditedLeaves
    <2> QED
      BY <2>1, <2>2, <2>3
  <1>5. AlarmWithoutTamperIsARace'
    BY DEF AInv, AlarmWithoutTamperIsARace, ForgedAsRead, OnlyGrows
  <1> QED
    BY <1>1, <1>2, <1>3, <1>4, <1>5

LEMMA AnchoringKeepsAInv ==
    ASSUME AInv, Next, UNCHANGED audit
    PROVE  AInv'
  <1>1. IInv'
    BY NextStep DEF AInv
  <1>2. OnlyGrows /\ (ledger' = ledger \/ \E body \in Body \ {Forged} : AppendEntry(body))
    BY LedgerOnlyGrows DEF AInv
  <1>3. Len(ledger') \in Nat
    BY <1>1, SequenceFacts DEF IInv, LedgerTypeOK
  <1>4. EntriesOK' /\ ReadOK' /\ TamperIsLocated' /\ VerifiedIsBatched' /\ AlarmWithoutTamperIsARace'
    BY <1>2, <1>3, AuditKept
  <1>5. CASE ledger' = ledger
    BY <1>1, <1>4, <1>5 DEF AInv, ChainOK
  <1>6. ASSUME NEW body \in Body \ {Forged}, AppendEntry(body) PROVE AInv'
    <2> DEFINE n == Len(ledger)
               previousHash == IF ledger = << >> THEN Genesis ELSE Last(ledger).entryHash
               row == NewRow(n + 1, body, previousHash)
    <2>1. n \in Nat /\ IsSequence(ledger)
      BY LedgerFacts DEF AInv, IInv, LedgerTypeOK
    <2>2. ledger' = Append(ledger, row)
      BY <1>6 DEF AppendEntry
    <2>3. previousHash = IF n + 1 = 1 THEN Genesis ELSE ledger[n + 1 - 1].entryHash
      <3>1. PICK S : ledger \in Seq(S)
        BY <2>1 DEF IsSequence
      <3>2. ledger = << >> <=> n = 0
        BY <3>1
      <3>3. n + 1 = 1 <=> n = 0
        BY <2>1
      <3>4. n + 1 - 1 = n
        BY <2>1
      <3> QED
        BY <3>2, <3>3, <3>4 DEF Last
    <2>4. /\ row.previousHash = previousHash /\ row.body = body
          /\ row.entryHash = EntryHash(n + 1, body, previousHash)
      BY DEF NewRow
    <2> HIDE DEF row, previousHash
    <2>5. /\ Len(ledger') = n + 1 /\ ledger'[n + 1] = row
          /\ \A k \in 1 .. n : ledger'[k] = ledger[k]
      BY <2>1, <2>2, SequenceAppend
    <2>6. ChainOK'
      <3> SUFFICES ASSUME NEW k \in 1 .. n + 1
                   PROVE  /\ ledger'[k].previousHash = IF k = 1 THEN Genesis ELSE ledger'[k - 1].entryHash
                          /\ \E b \in Body \ {Forged} :
                                /\ ledger'[k].entryHash = EntryHash(k, b, ledger'[k].previousHash)
                                /\ ledger'[k].body \in {b, Forged}
        BY <2>5 DEF ChainOK
      <3>1. k - 1 \in 1 .. n \/ k = 1
        BY <2>1
      <3>2. CASE k \in 1 .. n
        <4>1. ledger'[k] = ledger[k] /\ (k # 1 => ledger'[k - 1] = ledger[k - 1])
          BY <2>5, <3>1, <3>2
        <4> QED
          BY <3>2, <4>1 DEF AInv, ChainOK
      <3>3. CASE k = n + 1
        <4>1. k # 1 => ledger'[k - 1] = ledger[k - 1]
          BY <2>5, <3>1
        <4>2. ledger'[k] = row
          BY <2>5, <3>3
        <4>3. ledger'[k].previousHash = IF k = 1 THEN Genesis ELSE ledger'[k - 1].entryHash
          BY <2>3, <2>4, <3>3, <4>1, <4>2
        <4>4. /\ ledger'[k].entryHash = EntryHash(k, body, ledger'[k].previousHash)
              /\ ledger'[k].body \in {body, Forged}
          BY <2>4, <3>3, <4>2
        <4> QED
          BY <4>3, <4>4
      <3> QED
        BY <2>1, <3>2, <3>3
    <2> QED
      BY <1>1, <1>4, <2>6 DEF AInv
  <1> QED
    BY <1>2, <1>5, <1>6

LEMMA TamperKeepsAInv ==
    ASSUME AInv, NEW i \in 1 .. MaxEntries, TamperPayload(i)
    PROVE  AInv'
  <1>1. IInv'
    BY TamperPayloadStep DEF AInv
  <1>2. Len(ledger) \in Nat /\ DOMAIN ledger = 1 .. Len(ledger) /\ IsSequence(ledger)
    BY LedgerFacts DEF AInv, IInv, LedgerTypeOK
  <1>3. \A k \in 1 .. Len(ledger) : ledger[k] \in Row
    BY DEF AInv, IInv, LedgerTypeOK
  <1>4. /\ DOMAIN ledger' = 1 .. Len(ledger)
        /\ ledger' = [k \in 1 .. Len(ledger) |-> ledger'[k]]
        /\ \A k \in 1 .. Len(ledger) : /\ ledger'[k].entryHash = ledger[k].entryHash
                                       /\ ledger'[k].previousHash = ledger[k].previousHash
                                       /\ ledger'[k].body \in {ledger[k].body, Forged}
    BY <1>2, <1>3 DEF TamperPayload, Row
  <1>5. Len(ledger') = Len(ledger)
    BY <1>2, <1>4, SequenceOfFunction
  <1>6. UNCHANGED <<audit, anchorBatches>>
    BY DEF TamperPayload
  <1>7. OnlyGrows
    BY <1>2, <1>4, <1>5, <1>6 DEF OnlyGrows
  <1>8. EntriesOK' /\ ReadOK' /\ TamperIsLocated' /\ VerifiedIsBatched' /\ AlarmWithoutTamperIsARace'
    BY <1>2, <1>5, <1>6, <1>7, AuditKept
  <1>9. ChainOK'
    <2> SUFFICES ASSUME NEW k \in 1 .. Len(ledger)
                 PROVE  /\ ledger'[k].previousHash = IF k = 1 THEN Genesis ELSE ledger'[k - 1].entryHash
                        /\ \E b \in Body \ {Forged} :
                              /\ ledger'[k].entryHash = EntryHash(k, b, ledger'[k].previousHash)
                              /\ ledger'[k].body \in {b, Forged}
      BY <1>5 DEF ChainOK
    <2>1. k # 1 => k - 1 \in 1 .. Len(ledger)
      BY <1>2
    <2>2. k # 1 => ledger'[k - 1].entryHash = ledger[k - 1].entryHash
      BY <1>4, <2>1
    <2>3. PICK b \in Body \ {Forged} :
             /\ ledger[k].entryHash = EntryHash(k, b, ledger[k].previousHash)
             /\ ledger[k].body \in {b, Forged}
      BY DEF AInv, ChainOK
    <2>4. ledger[k].previousHash = IF k = 1 THEN Genesis ELSE ledger[k - 1].entryHash
      BY DEF AInv, ChainOK
    <2>5. /\ ledger'[k].entryHash = EntryHash(k, b, ledger'[k].previousHash)
          /\ ledger'[k].body \in {b, Forged}
      BY <1>4, <2>3
    <2> QED
      BY <1>4, <2>2, <2>4, <2>5
  <1> QED
    BY <1>1, <1>8, <1>9 DEF AInv

\* A step of the audit itself leaves all the rest.
LEMMA RestKept ==
    ASSUME AInv, UNCHANGED vars
    PROVE  IInv' /\ ChainOK' /\ ledger' = ledger /\ anchorBatches' = anchorBatches
  <1>1. IInv'
    BY NextStep DEF AInv
  <1>2. ledger' = ledger /\ anchorBatches' = anchorBatches
    BY DEF vars
  <1> QED
    BY <1>1, <1>2 DEF AInv, ChainOK

LEMMA ReadEntriesStep ==
    ASSUME AInv, ReadEntries
    PROVE  AInv'
  <1> DEFINE breaks == {k \in DOMAIN ledger : ChainBreaksAt(ledger, k)}
             n == Len(ledger)
  <1>1. /\ audit' = IF ledger = << >> THEN Verdict(ledger, anchorBatchId, "VERIFIED", 0)
                    ELSE IF breaks # {}
                      THEN Verdict(ledger, anchorBatchId, "TAMPERED", Min(breaks))
                      ELSE [NoAudit EXCEPT !.pc = "entries", !.entries = ledger,
                                           !.ids = anchorBatchId]
        /\ UNCHANGED vars
    BY DEF ReadEntries
  <1>2. IInv' /\ ChainOK' /\ ledger' = ledger /\ anchorBatches' = anchorBatches
    BY <1>1, RestKept
  <1>3. n \in Nat /\ DOMAIN ledger = 1 .. n /\ IsSequence(ledger) /\ DOMAIN anchorBatchId = 1 .. n
    BY LedgerFacts DEF AInv, IInv, LedgerTypeOK
  <1>4. \A k \in 1 .. n : ChainBreaksAt(ledger, k) <=> ledger[k].body = Forged
    BY BreaksAtTheForged DEF AInv
  <1>5. breaks = {k \in DOMAIN ledger : ledger[k].body = Forged}
    BY <1>3, <1>4
  <1> HIDE DEF breaks, n
  <1>6. audit'.entries = ledger /\ audit'.ids = anchorBatchId /\ audit'.pc \in {"entries", "done"}
    BY <1>1 DEF Verdict, NoAudit
  <1>7. ForgedAsRead' = breaks
    BY <1>5, <1>6 DEF ForgedAsRead
  <1>8. EntriesOK'
    <2>1. Len(ledger) <= Len(ledger)
      BY <1>3 DEF n
    <2> QED
      BY <1>2, <1>3, <1>6, <2>1 DEF EntriesOK
  <1>9. CASE ledger = << >>
    <2>1. audit'.pc = "done" /\ audit'.status = "VERIFIED"
      BY <1>1, <1>9 DEF Verdict
    <2>2. DOMAIN ledger = {}
      BY <1>9
    <2>3. ReadOK' /\ AlarmWithoutTamperIsARace'
      BY <2>1 DEF ReadOK, AlarmWithoutTamperIsARace
    <2>4. ForgedAsRead' = {} /\ DOMAIN audit'.entries = {}
      BY <1>6, <2>2 DEF ForgedAsRead
    <2>5. TamperIsLocated' /\ VerifiedIsBatched'
      BY <2>4 DEF TamperIsLocated, VerifiedIsBatched
    <2> QED
      BY <1>2, <1>8, <2>3, <2>5 DEF AInv
  <1>10. CASE ledger # << >> /\ breaks # {}
    <2>1. audit'.pc = "done" /\ audit'.status = "TAMPERED" /\ audit'.tampered = Min(breaks)
      BY <1>1, <1>10 DEF Verdict
    <2>2. ReadOK' /\ VerifiedIsBatched'
      BY <2>1 DEF ReadOK, VerifiedIsBatched
    <2>3. TamperIsLocated' /\ AlarmWithoutTamperIsARace'
      BY <1>7, <1>10, <2>1 DEF TamperIsLocated, AlarmWithoutTamperIsARace
    <2> QED
      BY <1>2, <1>8, <2>2, <2>3 DEF AInv
  <1>11. CASE ledger # << >> /\ breaks = {}
    <2>1. audit'.pc = "entries"
      BY <1>1, <1>11 DEF NoAudit
    <2>2. ReadOK'
      <3>1. \A k \in 1 .. n : ledger[k].body # Forged
        BY <1>3, <1>5, <1>11
      <3>2. ASSUME NEW k \in 1 .. n, anchorBatchId[k] # Unanchored
            PROVE  /\ anchorBatchId[k] \in DOMAIN anchorBatches
                   /\ anchorBatches[anchorBatchId[k]].from <= k
                   /\ k <= anchorBatches[anchorBatchId[k]].to
                   /\ anchorBatches[anchorBatchId[k]].to <= n
        <4>1. /\ anchorBatchId[k] \in DOMAIN anchorBatches
              /\ anchorBatches[anchorBatchId[k]].from <= k
              /\ k <= anchorBatches[anchorBatchId[k]].to
          BY <3>2 DEF AInv, IInv, MarksOK, n
        <4>2. /\ anchorBatches[anchorBatchId[k]].from \in 1 .. n
              /\ anchorBatches[anchorBatchId[k]].to
                   \in anchorBatches[anchorBatchId[k]].from .. n
          BY <4>1 DEF AInv, IInv, RowsOK, BatchOf, n
        <4>3. anchorBatches[anchorBatchId[k]].to <= n
          BY <1>3, <4>2
        <4> QED
          BY <4>1, <4>3
      <3> QED
        BY <1>2, <1>3, <1>6, <3>1, <3>2 DEF ReadOK, n
    <2>3. TamperIsLocated' /\ VerifiedIsBatched' /\ AlarmWithoutTamperIsARace'
      BY <2>1 DEF TamperIsLocated, VerifiedIsBatched, AlarmWithoutTamperIsARace
    <2> QED
      BY <1>2, <1>8, <2>2, <2>3 DEF AInv
  <1> QED
    BY <1>9, <1>10, <1>11

LEMMA ReadBatchesStep ==
    ASSUME AInv, ReadBatches
    PROVE  AInv'
  <1> DEFINE n == Len(audit.entries)
             wrong == {i \in DOMAIN anchorBatches : BatchMismatch(anchorBatches[i])}
             mismatches == {anchorBatches[id].from : id \in wrong}
  <1>1. /\ audit.pc = "entries"
        /\ audit' = IF mismatches # {}
                      THEN Verdict(audit.entries, audit.ids, "TAMPERED", Min(mismatches))
                    ELSE IF ~AllAnchored(audit.ids)
                      THEN Verdict(audit.entries, audit.ids, "PENDING_ANCHOR", 0)
                    ELSE Verdict(audit.entries, audit.ids, "VERIFIED", 0)
        /\ UNCHANGED vars
    BY DEF ReadBatches
  <1>2. IInv' /\ ChainOK' /\ ledger' = ledger /\ anchorBatches' = anchorBatches
    BY <1>1, RestKept
  <1>3. /\ audit'.entries = audit.entries /\ audit'.pc = "done"
        /\ audit'.status = "TAMPERED" => mismatches # {} /\ audit'.tampered = Min(mismatches)
        /\ audit'.status = "VERIFIED" => AllAnchored(audit.ids)
    <2> HIDE DEF mismatches
    <2> QED
      BY <1>1 DEF Verdict
  <1>4. /\ IsSequence(audit.entries)
        /\ \A k \in 1 .. n : audit.entries[k].body # Forged
        /\ DOMAIN audit.ids = 1 .. n
        /\ \A k \in 1 .. n : audit.ids[k] # Unanchored =>
              /\ audit.ids[k] \in DOMAIN anchorBatches
              /\ anchorBatches[audit.ids[k]].from <= k
              /\ k <= anchorBatches[audit.ids[k]].to
              /\ anchorBatches[audit.ids[k]].to <= n
    BY <1>1 DEF AInv, EntriesOK, ReadOK
  <1>5. n \in Nat /\ DOMAIN audit.entries = 1 .. n
    BY <1>4, SequenceFacts
  <1>6. EntriesOK' /\ ReadOK'
    <2> HIDE DEF mismatches
    <2> QED
      BY <1>1, <1>2, <1>3 DEF AInv, EntriesOK, ReadOK
  <1>7. ForgedAsRead' = {}
    BY <1>3, <1>4, <1>5 DEF ForgedAsRead
  <1>8. TamperIsLocated'
    BY <1>7 DEF TamperIsLocated
  <1>9. ASSUME NEW id \in DOMAIN anchorBatches, anchorBatches[id].to <= n
        PROVE  MerkleRoot(AuditedLeaves(anchorBatches[id])) = anchorBatches[id].root
    BY <1>1, <1>9, AuditedRootMatches DEF AInv
  <1>10. VerifiedIsBatched'
    <2> SUFFICES ASSUME audit'.status = "VERIFIED", NEW k \in 1 .. n
                 PROVE  \E id \in DOMAIN anchorBatches :
                           /\ anchorBatches[id].from <= k /\ k <= anchorBatches[id].to
                           /\ anchorBatches[id].to <= n
                           /\ anchorBatches[id].root = MerkleRoot(AuditedLeaves(anchorBatches[id])')
      BY <1>2, <1>3, <1>5 DEF VerifiedIsBatched
    <2>1. audit.ids[k] # Unanchored
      BY <1>3, <1>4 DEF AllAnchored
    <2> DEFINE id == audit.ids[k]
    <2>2. /\ id \in DOMAIN anchorBatches
          /\ anchorBatches[id].from <= k /\ k <= anchorBatches[id].to
          /\ anchorBatches[id].to <= n
      BY <1>4, <2>1
    <2> HIDE DEF id, n, mismatches, wrong
    <2>3. \A i : AuditedLeaves(anchorBatches[i])' = AuditedLeaves(anchorBatches[i])
      BY <1>2, <1>3 DEF AuditedLeaves
    <2> QED
      BY <1>9, <2>2, <2>3
  <1>11. AlarmWithoutTamperIsARace'
    <2> SUFFICES ASSUME audit'.status = "TAMPERED"
                 PROVE  \E id \in DOMAIN anchorBatches :
                           anchorBatches[id].from = audit'.tampered /\ n < anchorBatches[id].to
      BY <1>2, <1>3 DEF AlarmWithoutTamperIsARace
    <2>1. \A i \in DOMAIN anchorBatches :
             /\ anchorBatches[i].from \in 1 .. Len(ledger)
             /\ anchorBatches[i].to \in anchorBatches[i].from .. Len(ledger)
      BY DEF AInv, IInv, RowsOK, BatchOf
    <2>2. mismatches \subseteq Nat
      BY <2>1
    <2>3. audit'.tampered \in mismatches
      <3> HIDE DEF mismatches
      <3> QED
        BY <1>3, <2>2, MinIsLeast
    <2>4. PICK id \in wrong : anchorBatches[id].from = audit'.tampered
      BY <2>3
    <2>5. id \in DOMAIN anchorBatches /\ BatchMismatch(anchorBatches[id])
      OBVIOUS
    <2> HIDE DEF mismatches, wrong
    <2>6. ~(anchorBatches[id].to <= n)
      BY <1>9, <2>5 DEF BatchMismatch
    <2>7. n < anchorBatches[id].to
      <3> DEFINE to == anchorBatches[id].to
      <3>1. to \in Nat /\ n \in Nat /\ ~(to <= n)
        BY <1>5, <2>1, <2>5, <2>6
      <3> HIDE DEF to, n
      <3> QED
        BY <3>1 DEF to
    <2> QED
      BY <2>4, <2>5, <2>7
  <1> QED
    BY <1>2, <1>6, <1>8, <1>10, <1>11 DEF AInv

LEMMA EndAuditStep ==
    ASSUME AInv, EndAudit
    PROVE  AInv'
  <1>1. audit' = NoAudit /\ UNCHANGED vars
    BY DEF EndAudit
  <1>2. IInv' /\ ChainOK'
    BY <1>1, RestKept
  <1>3. audit'.pc = "idle"
    BY <1>1 DEF NoAudit
  <1>4. EntriesOK' /\ ReadOK' /\ TamperIsLocated' /\ VerifiedIsBatched' /\ AlarmWithoutTamperIsARace'
    BY <1>3 DEF EntriesOK, ReadOK, TamperIsLocated, VerifiedIsBatched, AlarmWithoutTamperIsARace
  <1> QED
    BY <1>2, <1>4 DEF AInv

LEMMA AuditInitAInv == AuditInit => AInv
  <1> SUFFICES ASSUME AuditInit PROVE AInv
    OBVIOUS
  <1>1. IInv
    BY InitIInv DEF AuditInit
  <1>2. audit.pc = "idle"
    BY DEF AuditInit, NoAudit
  <1>3. ChainOK
    <2>1. Len(ledger) = 0
      BY DEF AuditInit, Init
    <2> QED
      BY <2>1 DEF ChainOK
  <1>4. EntriesOK /\ ReadOK /\ TamperIsLocated /\ VerifiedIsBatched /\ AlarmWithoutTamperIsARace
    BY <1>2 DEF EntriesOK, ReadOK, TamperIsLocated, VerifiedIsBatched, AlarmWithoutTamperIsARace
  <1> QED
    BY <1>1, <1>3, <1>4 DEF AInv

LEMMA AuditNextAInv == AInv /\ [AuditNext]_auditVars => AInv'
  <1> SUFFICES ASSUME AInv, [AuditNext]_auditVars PROVE AInv'
    OBVIOUS
  <1>1. CASE Next /\ UNCHANGED audit
    BY <1>1, AnchoringKeepsAInv
  <1>2. CASE \E k \in 1 .. MaxEntries : TamperPayload(k)
    BY <1>2, TamperKeepsAInv
  <1>3. CASE ReadEntries
    BY <1>3, ReadEntriesStep
  <1>4. CASE ReadBatches
    BY <1>4, ReadBatchesStep
  <1>5. CASE EndAudit
    BY <1>5, EndAuditStep
  <1>6. CASE UNCHANGED auditVars
    <2>1. UNCHANGED vars /\ audit' = audit
      BY <1>6 DEF auditVars
    <2>2. IInv' /\ ChainOK' /\ ledger' = ledger /\ anchorBatches' = anchorBatches
      BY <2>1, RestKept
    <2>3. Len(ledger) \in Nat
      BY LedgerFacts DEF AInv, IInv
    <2>4. OnlyGrows
      BY <2>2, <2>3 DEF OnlyGrows
    <2>5. EntriesOK' /\ ReadOK' /\ TamperIsLocated' /\ VerifiedIsBatched' /\ AlarmWithoutTamperIsARace'
      BY <2>1, <2>2, <2>3, <2>4, AuditKept
    <2> QED
      BY <2>2, <2>5 DEF AInv
  <1> QED
    BY <1>1, <1>2, <1>3, <1>4, <1>5, <1>6 DEF AuditNext

LEMMA AuditSpecAInv == AuditSpec => []AInv
  <1>1. AInv /\ [AuditNext]_auditVars => AInv'
    BY AuditNextAInv
  <1> QED
    BY <1>1, AuditInitAInv, PTL DEF AuditSpec

\* A payload rewritten before the audit reads it is found, and the number reported
\* is that of the first one: at any place of a ledger of any length.
THEOREM TamperingIsLocated == AuditSpec => []TamperIsLocated
  <1>1. AInv => TamperIsLocated
    BY DEF AInv
  <1> QED
    BY <1>1, AuditSpecAInv, PTL

\* VERIFIED is never said of an entry outside every stored batch, although the marks
\* and the batch rows are read at different times.
THEOREM VerifiedEntriesAreBatched == AuditSpec => []VerifiedIsBatched
  <1>1. AInv => VerifiedIsBatched
    BY DEF AInv
  <1> QED
    BY <1>1, AuditSpecAInv, PTL

\* An alarm without a rewritten payload is the race between the two SELECTs, and
\* nothing else.
THEOREM FalseAlarmsAreRaces == AuditSpec => []AlarmWithoutTamperIsARace
  <1>1. AInv => AlarmWithoutTamperIsARace
    BY DEF AInv
  <1> QED
    BY <1>1, AuditSpecAInv, PTL

-----------------------------------------------------------------------------
\* The contract, as anchoring uses it

MerkleRoots == {MerkleRoot(s) : s \in Seq(Digest)}

\* The contract on its own, with the theorems about it: one account calls it, with
\* Merkle roots of entry hashes and numbers of the ledger.
OnChain == INSTANCE IntegrityAnchorProofs
               WITH Address <- {Wallet}, Deployer <- Wallet,
                    Root <- MerkleRoots, MaxSequence <- MaxEntries, MaxBatches <- MaxEntries

LEMMA RootsAreMerkleRoots ==
    ASSUME LedgerTypeOK, NEW root, NEW from, NEW to, BatchOf(ledger, root, from, to)
    PROVE  /\ root \in MerkleRoots
           /\ from \in 0 .. MaxEntries /\ to \in 0 .. MaxEntries
  <1> DEFINE leaves == LeavesOf(ledger, from, to)
             n == to - from + 1
  <1>1. Len(ledger) \in Nat /\ Len(ledger) <= MaxEntries /\ MaxEntries \in Nat
    BY LedgerFacts, LedgerBoundAssumption DEF LedgerTypeOK
  <1>2. from \in 1 .. Len(ledger) /\ to \in from .. Len(ledger) /\ root = MerkleRoot(leaves)
    BY DEF BatchOf
  <1>3. n \in Nat /\ \A i \in 1 .. n : from + i - 1 \in 1 .. Len(ledger)
    BY <1>1, <1>2
  <1>4. \A k \in 1 .. Len(ledger) : ledger[k].entryHash \in Digest
    BY DEF LedgerTypeOK, Row
  <1>5. leaves \in [1 .. n -> Digest]
    <2> HIDE DEF n
    <2>1. \A i \in 1 .. n : ledger[from + i - 1].entryHash \in Digest
      BY <1>3, <1>4
    <2> QED
      BY <2>1 DEF LeavesOf, n
  <1>6. leaves \in Seq(Digest)
    <2> HIDE DEF leaves, n
    <2> QED
      BY <1>3, <1>5
  <1>7. root \in MerkleRoots
    <2> HIDE DEF leaves
    <2> QED
      BY <1>2, <1>6 DEF MerkleRoots
  <1>8. from \in 0 .. MaxEntries /\ to \in 0 .. MaxEntries
    BY <1>1, <1>2
  <1> QED
    BY <1>7, <1>8

LEMMA MinedIsACall ==
    ASSUME IInv, NEW tx \in mempool, MineTx(tx)
    PROVE  [OnChain!Next]_contractVars
  <1> SUFFICES ASSUME Contract!AnchorRoot(Wallet, tx.root, tx.from, tx.to)
               PROVE  OnChain!Next
    BY DEF MineTx
  <1>1. /\ tx.root \in MerkleRoots
        /\ tx.from \in 0 .. MaxEntries /\ tx.to \in 0 .. MaxEntries
    BY RootsAreMerkleRoots DEF IInv, MempoolOK
  <1>2. batchCount < MaxEntries
    <2>1. batchCount + 1 \in 0 .. tx.to /\ batchCount \in Nat
      BY BatchIsCounted, LedgerBoundAssumption DEF IInv, ChainTypeOK
    <2> QED
      BY <1>1, <2>1, LedgerBoundAssumption
  <1>3. OnChain!AnchorRoot(Wallet, tx.root, tx.from, tx.to)
    BY DEF Contract!AnchorRoot, Contract!OnlyAnchorer, Contract!InvalidSequenceRange,
           Contract!OverlappingSequence, Contract!StoreBatch,
           OnChain!AnchorRoot, OnChain!OnlyAnchorer, OnChain!InvalidSequenceRange,
           OnChain!OverlappingSequence, OnChain!StoreBatch
  <1> QED
    BY <1>1, <1>2, <1>3 DEF OnChain!Next, OnChain!Sequence

LEMMA StepIsACall ==
    ASSUME IInv, [Next]_vars
    PROVE  [OnChain!Next]_contractVars
  <1>1. ASSUME NEW tx \in mempool, MineTx(tx) PROVE [OnChain!Next]_contractVars
    BY <1>1, MinedIsACall
  <1>2. ASSUME NEW body \in Body \ {Forged}, AppendEntry(body) PROVE UNCHANGED contractVars
    BY <1>2 DEF AppendEntry, chainVars
  <1>3. ASSUME NEW a \in Anchorer, ListUnanchored(a) \/ Crash(a) PROVE UNCHANGED contractVars
    BY <1>3 DEF ListUnanchored, Crash, chainVars
  <1>4. ASSUME NEW a \in Anchorer, AnchorStep(a) PROVE UNCHANGED contractVars
    BY <1>4 DEF AnchorStep, CreateAndMark, SendTx, SimulatedReceipt, SubmitError, Receipt,
                ReceiptTimeout, Finish, chainVars
  <1>5. CASE UNCHANGED vars
    BY <1>5 DEF vars, chainVars
  <1> QED
    BY <1>1, <1>2, <1>3, <1>4, <1>5 DEF Next

LEMMA InitIsTheContracts == Init => OnChain!Init
  BY DEF Init, Contract!Init, OnChain!Init

\* Whatever is anchored, retried and audited, and whatever payloads are rewritten,
\* the chain sees calls of the contract only, each for a range of recorded entries,
\* with the Merkle root of entry hashes, and for a range that was not taken.
THEOREM AnchoringImplementsContract == AuditSpec => OnChain!Spec
  <1>1. AuditInit => OnChain!Init
    BY InitIsTheContracts DEF AuditInit
  <1>2. AInv /\ [AuditNext]_auditVars => [OnChain!Next]_(OnChain!vars)
    <2> SUFFICES ASSUME AInv, [AuditNext]_auditVars PROVE [OnChain!Next]_contractVars
      BY DEF OnChain!vars, contractVars
    <2>1. IInv
      BY DEF AInv
    <2>2. CASE [Next]_vars
      BY <2>1, <2>2, StepIsACall
    <2>3. ASSUME NEW k \in 1 .. MaxEntries, TamperPayload(k) PROVE UNCHANGED contractVars
      BY <2>3 DEF TamperPayload, chainVars
    <2> QED
      BY <2>2, <2>3 DEF AuditNext, ReadEntries, ReadBatches, EndAudit, auditVars
  <1> QED
    BY <1>1, <1>2, AuditSpecAInv, PTL DEF AuditSpec, OnChain!Spec

LEMMA InstanceAssumptions == Wallet \in {Wallet} /\ MaxEntries \in Nat
  BY LedgerBoundAssumption

\* So what the contract promises holds of the platform: no number of the ledger is
\* claimed by two of the roots on chain.
THEOREM OnChainRangesDisjoint == AuditSpec => []OnChain!RangesAreDisjointAndOrdered
  <1>1. OnChain!Spec => []OnChain!RangesAreDisjointAndOrdered
    BY InstanceAssumptions, OnChain!ContractRangesDisjoint
  <1> QED
    BY <1>1, AnchoringImplementsContract

\* And a root on chain stays as it is, through retries, timeouts and crashes.
THEOREM OnChainRootsFinal == AuditSpec => OnChain!AnchoredRootsAreFinal
  <1>1. OnChain!Spec => OnChain!AnchoredRootsAreFinal
    BY InstanceAssumptions, OnChain!ContractRootsFinal
  <1> QED
    BY <1>1, AnchoringImplementsContract

-----------------------------------------------------------------------------
\* What a root on chain vouches for

\* Rows for the numbers from the given one on, each with the hash of its contents:
\* what someone can make up who rewrites payloads and computes all hashes again.
HashedRows(rows, from) ==
    /\ rows \in Seq(Row) /\ Len(rows) >= 1
    /\ \A k \in 1 .. Len(rows) :
          rows[k].entryHash = EntryHash(from + k - 1, rows[k].body, rows[k].previousHash)

\* Rows that lead to a root on chain are the entries of its range as they were
\* recorded: none is forged, and each is the stored one unless that was rewritten.
OnChainRootsConvict ==
    \A i \in DOMAIN batches, rows \in Seq(Row) :
        /\ HashedRows(rows, batches[i].fromSequence)
        /\ MerkleRoot([k \in 1 .. Len(rows) |-> rows[k].entryHash]) = batches[i].merkleRoot
        => LET from == batches[i].fromSequence
           IN  /\ from + Len(rows) - 1 = batches[i].toSequence
               /\ \A k \in 1 .. Len(rows) :
                     /\ rows[k].body # Forged
                     /\ ledger[from + k - 1].body # Forged => rows[k] = ledger[from + k - 1]

\* A hash commits to the body and to all before it.
LEMMA EntryHashIsInjective ==
    ASSUME NEW seq \in Nat, NEW a \in Body, NEW p \in Digest,
           NEW b \in Body, NEW q \in Digest, EntryHash(seq, a, p) = EntryHash(seq, b, q)
    PROVE  a = b /\ p = q
  <1> DEFINE s == Append(p, [seq |-> seq, body |-> a])
             t == Append(q, [seq |-> seq, body |-> b])
  <1>1. s = t
    BY DEF EntryHash
  <1>2. IsSequence(p) /\ IsSequence(q)
    BY DEF IsSequence, Digest
  <1>3. /\ IsSequence(s) /\ Len(s) = Len(p) + 1 /\ s[Len(p) + 1] = [seq |-> seq, body |-> a]
        /\ \A i \in 1 .. Len(p) : s[i] = p[i]
    BY <1>2, SequenceAppend
  <1>4. /\ IsSequence(t) /\ Len(t) = Len(q) + 1 /\ t[Len(q) + 1] = [seq |-> seq, body |-> b]
        /\ \A i \in 1 .. Len(q) : t[i] = q[i]
    BY <1>2, SequenceAppend
  <1> HIDE DEF s, t
  <1>5. Len(p) \in Nat /\ Len(q) \in Nat /\ Len(p) = Len(q)
    BY <1>1, <1>2, <1>3, <1>4, SequenceFacts
  <1>6. p = q
    <2>1. \A i \in 1 .. Len(p) : p[i] = q[i]
      BY <1>1, <1>3, <1>4, <1>5
    <2> QED
      BY <1>2, <1>5, <2>1, SameSequence
  <1>7. [seq |-> seq, body |-> a].body = [seq |-> seq, body |-> b].body
    BY <1>1, <1>3, <1>4, <1>5
  <1> QED
    BY <1>6, <1>7

LEMMA RootsConvict ==
    ASSUME AInv, NEW i \in DOMAIN batches, NEW rows \in Seq(Row),
           HashedRows(rows, batches[i].fromSequence),
           MerkleRoot([k \in 1 .. Len(rows) |-> rows[k].entryHash]) = batches[i].merkleRoot
    PROVE  /\ batches[i].fromSequence + Len(rows) - 1 = batches[i].toSequence
           /\ \A k \in 1 .. Len(rows) :
                 /\ rows[k].body # Forged
                 /\ ledger[batches[i].fromSequence + k - 1].body # Forged =>
                       rows[k] = ledger[batches[i].fromSequence + k - 1]
  <1> DEFINE from == batches[i].fromSequence
             to == batches[i].toSequence
             n == to - from + 1
             m == Len(rows)
             leaves == LeavesOf(ledger, from, to)
             hashes == [k \in 1 .. m |-> rows[k].entryHash]
  <1>1. Len(ledger) \in Nat /\ LedgerTypeOK
    BY LedgerFacts DEF AInv, IInv
  <1>2. /\ from \in 1 .. Len(ledger) /\ to \in from .. Len(ledger)
        /\ batches[i].merkleRoot = MerkleRoot(leaves)
    BY DEF AInv, IInv, ContractOK, BatchOf
  <1>3. m \in Nat /\ m >= 1
    BY DEF HashedRows
  <1>4. MerkleRoot(hashes) = MerkleRoot(leaves)
    BY <1>2
  <1> HIDE DEF from, to
  <1>5. n \in Nat /\ n >= 1
    BY <1>1, <1>2
  <1>6. IsSequence(hashes) /\ Len(hashes) = m /\ \A k \in 1 .. m : hashes[k] = rows[k].entryHash
    <2>1. DOMAIN hashes = 1 .. m /\ hashes = [k \in 1 .. m |-> hashes[k]]
      OBVIOUS
    <2>2. \A k \in 1 .. m : hashes[k] = rows[k].entryHash
      OBVIOUS
    <2> HIDE DEF hashes, m
    <2> QED
      BY <1>3, <2>1, <2>2, SequenceOfFunction
  <1>7. /\ IsSequence(leaves) /\ Len(leaves) = n
        /\ \A k \in 1 .. n : leaves[k] = ledger[from + k - 1].entryHash
    <2>1. DOMAIN leaves = 1 .. n /\ leaves = [k \in 1 .. n |-> leaves[k]]
      BY DEF LeavesOf
    <2>2. \A k \in 1 .. n : leaves[k] = ledger[from + k - 1].entryHash
      BY DEF LeavesOf
    <2> HIDE DEF leaves, n
    <2> QED
      BY <1>5, <2>1, <2>2, SequenceOfFunction
  <1> HIDE DEF hashes, leaves, m, n
  <1>8. hashes = leaves
    BY <1>3, <1>4, <1>5, <1>6, <1>7, RootCommits
  <1>9. m = n
    BY <1>6, <1>7, <1>8
  <1>10. from + m - 1 = to
    BY <1>1, <1>2, <1>9 DEF n
  <1>11. ASSUME NEW k \in 1 .. m
         PROVE  /\ rows[k].body # Forged
                /\ ledger[from + k - 1].body # Forged => rows[k] = ledger[from + k - 1]
    <2> DEFINE seq == from + k - 1
    <2>1. seq \in 1 .. Len(ledger) /\ seq \in Nat
      BY <1>1, <1>2, <1>3, <1>10
    <2>2. rows[k].entryHash = ledger[seq].entryHash
      BY <1>6, <1>7, <1>8, <1>9
    <2>3. rows[k].entryHash = EntryHash(seq, rows[k].body, rows[k].previousHash)
      BY DEF HashedRows, from, m
    <2>4. rows[k] \in Row
      BY <1>3 DEF m
    <2> HIDE DEF seq
    <2>5. ledger[seq] \in Row
      BY <1>1, <2>1 DEF LedgerTypeOK
    <2>6. PICK body \in Body \ {Forged} :
             /\ ledger[seq].entryHash = EntryHash(seq, body, ledger[seq].previousHash)
             /\ ledger[seq].body \in {body, Forged}
      BY <2>1 DEF AInv, ChainOK
    <2>7. rows[k].body = body /\ rows[k].previousHash = ledger[seq].previousHash
      <3>1. /\ rows[k].body \in Body /\ rows[k].previousHash \in Digest
            /\ ledger[seq].previousHash \in Digest
        BY <2>4, <2>5 DEF Row
      <3>2. EntryHash(seq, rows[k].body, rows[k].previousHash)
              = EntryHash(seq, body, ledger[seq].previousHash)
        BY <2>2, <2>3, <2>6
      <3> QED
        BY <2>1, <3>1, <3>2, EntryHashIsInjective
    <2>8. ASSUME ledger[seq].body # Forged PROVE rows[k] = ledger[seq]
      <3>1. rows[k].body = ledger[seq].body
        BY <2>6, <2>7, <2>8
      <3> QED
        BY <2>2, <2>4, <2>5, <2>7, <3>1 DEF Row
    <2> QED
      BY <2>6, <2>7, <2>8 DEF seq
  <1> QED
    BY <1>10, <1>11 DEF from, to, m

\* Whoever rewrites stored entries and computes every hash again, however many of
\* them, has no rows to show that a root on chain would accept but the recorded
\* ones: the roots of the batches, the tree and the chain of hashes together.
THEOREM OnChainRootsAreEvidence == AuditSpec => []OnChainRootsConvict
  <1>1. ASSUME AInv PROVE OnChainRootsConvict
    BY <1>1, RootsConvict DEF OnChainRootsConvict
  <1> QED
    BY <1>1, AuditSpecAInv, PTL

=============================================================================
