--------------------------- MODULE IntegrityAnchor ---------------------------
(***************************************************************************)
(* The smart contract contracts/src/IntegrityAnchor.sol: an allowlist of   *)
(* anchorer addresses kept by the owner, and a list of Merkle roots, one   *)
(* per range of audit-ledger sequence numbers.                             *)
(*                                                                         *)
(* A call that reverts leaves the whole state unchanged, so an operation   *)
(* is enabled exactly when the call succeeds and a reverted call is a      *)
(* stuttering step.                                                        *)
(***************************************************************************)
EXTENDS Integers

CONSTANTS
    Address,        \* accounts that can call the contract
    Deployer,       \* the account that deployed it (msg.sender of the constructor)
    Root,           \* bytes32 values passed as merkleRoot
    MaxSequence,    \* 2^64 - 1 in the contract: a sequence number is a uint64
    MaxBatches      \* bound on the number of batches, for model checking

ASSUME DeployerAssumption == Deployer \in Address
ASSUME SequenceAssumption == MaxSequence \in Nat
ASSUME BatchBoundAssumption == MaxBatches \in Nat

VARIABLES
    owner,                  \* address public owner
    authorizedAnchorers,    \* mapping(address => bool), the addresses mapped to true
    batchCount,             \* uint256 public batchCount
    lastToSequence,         \* uint64 public lastToSequence
    batches                 \* mapping(uint256 => Batch), a function on the keys written

vars == <<owner, authorizedAnchorers, batchCount, lastToSequence, batches>>

Sequence == 0 .. MaxSequence

\* block.timestamp is left out: nothing reads it.
Batch == [merkleRoot : Root, fromSequence : Sequence, toSequence : Sequence,
          anchorer : Address]

TypeOK ==
    /\ owner \in Address
    /\ authorizedAnchorers \in SUBSET Address
    /\ batchCount \in Nat
    /\ lastToSequence \in Sequence
    /\ DOMAIN batches \subseteq Nat
    /\ \A id \in DOMAIN batches : batches[id] \in Batch

-----------------------------------------------------------------------------

Init ==
    /\ owner = Deployer
    /\ authorizedAnchorers = {Deployer}
    /\ batchCount = 0
    /\ lastToSequence = 0
    /\ batches = [id \in {} |-> 0]

OnlyOwner(sender) == sender = owner

\* Defect: the onlyAnchorer modifier forgotten.
OnlyAnchorerMissing(sender) == TRUE

OnlyAnchorer(sender) == sender \in authorizedAnchorers

AddAnchorer(sender, anchorer) ==
    /\ OnlyOwner(sender)
    /\ authorizedAnchorers' = authorizedAnchorers \cup {anchorer}
    /\ UNCHANGED <<owner, batchCount, lastToSequence, batches>>

RemoveAnchorer(sender, anchorer) ==
    /\ OnlyOwner(sender)
    /\ authorizedAnchorers' = authorizedAnchorers \ {anchorer}
    /\ UNCHANGED <<owner, batchCount, lastToSequence, batches>>

InvalidSequenceRange(from, to) == from > to

\* Defect: a range may start where the previous one ended.
OverlappingSequenceOffByOne(from) == from < lastToSequence /\ batchCount > 0

\* The first batch may start at any number: lastToSequence still holds its
\* default value, zero, and says nothing.
OverlappingSequence(from) == from <= lastToSequence /\ batchCount > 0

\* Defect: lastToSequence taken for the next number expected, past the uint64.
StoreBatchPastEnd(batch) ==
    /\ batches' = [id \in DOMAIN batches \cup {batchCount} |->
                      IF id = batchCount THEN batch ELSE batches[id]]
    /\ lastToSequence' = batch.toSequence + 1
    /\ batchCount' = batchCount + 1

StoreBatch(batch) ==
    /\ batches' = [id \in DOMAIN batches \cup {batchCount} |->
                      IF id = batchCount THEN batch ELSE batches[id]]
    /\ lastToSequence' = batch.toSequence
    /\ batchCount' = batchCount + 1

AnchorRoot(sender, root, from, to) ==
    /\ OnlyAnchorer(sender)
    /\ ~InvalidSequenceRange(from, to)
    /\ ~OverlappingSequence(from)
    /\ StoreBatch([merkleRoot |-> root, fromSequence |-> from,
                    toSequence |-> to, anchorer |-> sender])
    /\ UNCHANGED <<owner, authorizedAnchorers>>

Next ==
    \/ \E sender, anchorer \in Address :
          \/ AddAnchorer(sender, anchorer)
          \/ RemoveAnchorer(sender, anchorer)
    \/ \E sender \in Address, root \in Root, from, to \in Sequence :
          /\ batchCount < MaxBatches
          /\ AnchorRoot(sender, root, from, to)

Spec == Init /\ [][Next]_vars

-----------------------------------------------------------------------------
\* Properties

\* What the two reverts are for: a later batch starts after every earlier one
\* ends, so no ledger sequence number is claimed by two roots.
RangesAreDisjointAndOrdered ==
    \A i, j \in DOMAIN batches :
        i < j => batches[i].toSequence < batches[j].fromSequence

\* A root once anchored is final: no call rewrites or removes a stored batch,
\* and a batch is stored only on behalf of an address authorised at that time.
AnchoredRootsAreFinal ==
    [][/\ \A id \in DOMAIN batches : id \in DOMAIN batches' /\ batches'[id] = batches[id]
       /\ \A id \in DOMAIN batches' \ DOMAIN batches :
             batches'[id].anchorer \in authorizedAnchorers]_vars

=============================================================================
