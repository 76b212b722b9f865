------------------------ MODULE IntegrityAnchorProofs ------------------------
(***************************************************************************)
(* Theorems about the contract, for every set of accounts and roots, every *)
(* width of the sequence numbers and any number of batches.                *)
(*                                                                         *)
(* RangesAreDisjointAndOrdered is not inductive: anchorRoot compares a new *)
(* range with lastToSequence alone and stores it under batchCount alone.   *)
(* IInv adds what makes those two scalars enough: the ids written are      *)
(* exactly those below batchCount, and lastToSequence bounds every range.  *)
(***************************************************************************)
EXTENDS IntegrityAnchor, TLAPS

\* Every id below batchCount, and no other, has been written (batchCount++ comes
\* once per stored batch).
CountedBatchesAreStored == DOMAIN batches = 0 .. batchCount - 1

\* The scalar that anchorRoot compares a new range with stands for all the stored
\* ranges together.
LastToSequenceCoversAll ==
    \A id \in DOMAIN batches :
        /\ batches[id].fromSequence <= batches[id].toSequence
        /\ batches[id].toSequence <= lastToSequence

IInv ==
    /\ TypeOK
    /\ CountedBatchesAreStored
    /\ RangesAreDisjointAndOrdered
    /\ LastToSequenceCoversAll

-----------------------------------------------------------------------------

LEMMA InitIInv == Init => IInv
BY DeployerAssumption, SequenceAssumption
   DEF Init, IInv, TypeOK, CountedBatchesAreStored, RangesAreDisjointAndOrdered,
       LastToSequenceCoversAll, Sequence

\* The owner's two calls touch the allowlist only.
LEMMA AllowlistStep ==
    ASSUME IInv, NEW sender \in Address, NEW anchorer \in Address,
           AddAnchorer(sender, anchorer) \/ RemoveAnchorer(sender, anchorer)
    PROVE  IInv'
BY DEF IInv, TypeOK, CountedBatchesAreStored, RangesAreDisjointAndOrdered,
       LastToSequenceCoversAll, AddAnchorer, RemoveAnchorer

\* A batch that anchorRoot accepts starts after every stored one ends.
LEMMA AcceptedRangeIsNew ==
    ASSUME IInv, NEW from \in Sequence, ~OverlappingSequence(from),
           NEW id \in DOMAIN batches
    PROVE  batches[id].toSequence < from
  <1>1. batchCount > 0 /\ batchCount \in Nat
    BY DEF IInv, TypeOK, CountedBatchesAreStored
  <1>2. from > lastToSequence
    BY <1>1, SequenceAssumption
       DEF OverlappingSequence, IInv, TypeOK, Sequence
  <1>3. batches[id].toSequence <= lastToSequence /\ batches[id].toSequence \in Sequence
    BY DEF IInv, TypeOK, LastToSequenceCoversAll, Batch
  <1> QED
    BY <1>2, <1>3, SequenceAssumption DEF IInv, TypeOK, Sequence

LEMMA AnchorRootStep ==
    ASSUME IInv, NEW sender \in Address, NEW root \in Root,
           NEW from \in Sequence, NEW to \in Sequence,
           AnchorRoot(sender, root, from, to)
    PROVE  IInv'
  <1> DEFINE new == [merkleRoot |-> root, fromSequence |-> from,
                     toSequence |-> to, anchorer |-> sender]
  <1>1. /\ DOMAIN batches' = DOMAIN batches \cup {batchCount}
        /\ batches'[batchCount] = new
        /\ \A id \in DOMAIN batches : id # batchCount => batches'[id] = batches[id]
        /\ lastToSequence' = to
        /\ batchCount' = batchCount + 1
        /\ UNCHANGED <<owner, authorizedAnchorers>>
    BY DEF AnchorRoot, StoreBatch
  <1>2. batchCount \notin DOMAIN batches /\ batchCount \in Nat
    BY DEF IInv, TypeOK, CountedBatchesAreStored
  <1>3. new \in Batch
    BY DEF Batch
  <1>4. from <= to
    BY SequenceAssumption DEF AnchorRoot, InvalidSequenceRange, Sequence
  <1>5. \A id \in DOMAIN batches : batches[id].toSequence < from
    BY AcceptedRangeIsNew DEF AnchorRoot
  <1>6. \A id \in DOMAIN batches : batches[id] \in Batch
    BY DEF IInv, TypeOK
  <1>7. TypeOK'
    BY <1>1, <1>2, <1>3, <1>6 DEF IInv, TypeOK
  <1>8. CountedBatchesAreStored'
    BY <1>1, <1>2 DEF IInv, CountedBatchesAreStored
  <1>9. RangesAreDisjointAndOrdered'
    <2> SUFFICES ASSUME NEW i \in DOMAIN batches', NEW j \in DOMAIN batches', i < j
                 PROVE  batches'[i].toSequence < batches'[j].fromSequence
      BY DEF RangesAreDisjointAndOrdered
    <2>1. i \in DOMAIN batches
      BY <1>1, <1>2 DEF IInv, CountedBatchesAreStored
    <2>2. CASE j \in DOMAIN batches
      BY <2>1, <2>2, <1>1, <1>2 DEF IInv, RangesAreDisjointAndOrdered
    <2>3. CASE j = batchCount
      BY <2>1, <2>3, <1>1, <1>2, <1>5
    <2> QED
      BY <2>2, <2>3, <1>1
  <1>10. LastToSequenceCoversAll'
    <2> SUFFICES ASSUME NEW id \in DOMAIN batches'
                 PROVE  /\ batches'[id].fromSequence <= batches'[id].toSequence
                        /\ batches'[id].toSequence <= to
      BY <1>1 DEF LastToSequenceCoversAll
    <2>1. CASE id = batchCount
      BY <2>1, <1>1, <1>4, SequenceAssumption DEF Sequence
    <2>2. CASE id \in DOMAIN batches
      <3>1. batches[id].toSequence < from /\ batches[id].toSequence \in Sequence
        BY <2>2, <1>5, <1>6 DEF Batch
      <3>2. batches[id].fromSequence <= batches[id].toSequence
        BY <2>2 DEF IInv, LastToSequenceCoversAll
      <3> QED
        BY <2>2, <3>1, <3>2, <1>1, <1>2, <1>4, SequenceAssumption DEF Sequence
    <2> QED
      BY <2>1, <2>2, <1>1
  <1> QED
    BY <1>7, <1>8, <1>9, <1>10 DEF IInv

LEMMA NextIInv == IInv /\ [Next]_vars => IInv'
  <1> SUFFICES ASSUME IInv, [Next]_vars PROVE IInv'
    OBVIOUS
  <1>1. CASE UNCHANGED vars
    BY <1>1 DEF vars, IInv, TypeOK, CountedBatchesAreStored,
                RangesAreDisjointAndOrdered, LastToSequenceCoversAll
  <1>2. CASE Next
    BY <1>2, AllowlistStep, AnchorRootStep DEF Next
  <1> QED
    BY <1>1, <1>2

LEMMA SpecIInv == Spec => []IInv
BY InitIInv, NextIInv, PTL DEF Spec

-----------------------------------------------------------------------------

\* The contract's variables keep their types.
THEOREM ContractTypeCorrect == Spec => []TypeOK
  <1>1. IInv => TypeOK
    BY DEF IInv
  <1> QED
    BY <1>1, SpecIInv, PTL

\* The two reverts of anchorRoot keep all the anchored ranges disjoint and in
\* the order of their ids.
THEOREM ContractRangesDisjoint == Spec => []RangesAreDisjointAndOrdered
  <1>1. IInv => RangesAreDisjointAndOrdered
    BY DEF IInv
  <1> QED
    BY <1>1, SpecIInv, PTL

\* No call rewrites or removes an anchored root, and each is stored for an
\* address that was authorised when it was stored.
THEOREM ContractRootsFinal == Spec => AnchoredRootsAreFinal
  <1> DEFINE Final ==
        /\ \A id \in DOMAIN batches : id \in DOMAIN batches' /\ batches'[id] = batches[id]
        /\ \A id \in DOMAIN batches' \ DOMAIN batches :
              batches'[id].anchorer \in authorizedAnchorers
  <1>1. IInv /\ [Next]_vars => [Final]_vars
    <2> SUFFICES ASSUME IInv, Next PROVE Final
      OBVIOUS
    <2>1. batchCount \notin DOMAIN batches
      BY DEF IInv, TypeOK, CountedBatchesAreStored
    <2>2. ASSUME NEW sender \in Address, NEW root \in Root,
                 NEW from \in Sequence, NEW to \in Sequence,
                 AnchorRoot(sender, root, from, to)
          PROVE  Final
      BY <2>1, <2>2 DEF AnchorRoot, StoreBatch, OnlyAnchorer
    <2>3. ASSUME NEW sender \in Address, NEW anchorer \in Address,
                 AddAnchorer(sender, anchorer) \/ RemoveAnchorer(sender, anchorer)
          PROVE  Final
      BY <2>3 DEF AddAnchorer, RemoveAnchorer
    <2> QED
      BY <2>2, <2>3 DEF Next
  <1> QED
    BY <1>1, SpecIInv, PTL DEF Spec, AnchoredRootsAreFinal

=============================================================================
