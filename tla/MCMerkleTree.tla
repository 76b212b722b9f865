---------------------------- MODULE MCMerkleTree -----------------------------
(***************************************************************************)
(* The Merkle tree over every sequence of up to MaxLeaves entry hashes,    *)
(* grown a leaf at a time, against a reference definition.                 *)
(***************************************************************************)
EXTENDS MerkleTree

CONSTANTS EntryHash, MaxLeaves

VARIABLE leafHashes

AddLeaf ==
    /\ Len(leafHashes) < MaxLeaves
    /\ \E h \in EntryHash : leafHashes' = Append(leafHashes, h)

Indices == 0 .. Len(leafHashes) - 1

-----------------------------------------------------------------------------
\* Reference definition: the Merkle tree hash of RFC 6962, which splits n > 1
\* leaves at the largest power of two below n.
IsPowerOfTwo(k) == \A d \in 2 .. k : k % d = 0 => d % 2 = 0

Split(n) == CHOOSE k \in 1 .. n - 1 : IsPowerOfTwo(k) /\ n <= 2 * k

\* mth[n][from] is the hash of the n leaves from the given one on.
ReferenceRoot ==
    LET mth[n \in 1 .. Len(leafHashes)] ==
            [from \in 1 .. Len(leafHashes) - n + 1 |->
                IF n = 1
                  THEN HashLeaf(leafHashes[from])
                  ELSE HashInternal(mth[Split(n)][from],
                                    mth[n - Split(n)][from + Split(n)])]
    IN  mth[Len(leafHashes)][1]

\* Pairing layer by layer and promoting the odd node, as the code does, gives
\* the tree of the reference definition for every number of leaves.
RootIsTheReferenceRoot ==
    leafHashes # << >> => MerkleRoot(leafHashes) = ReferenceRoot

\* Every leaf of every tree has a proof that verifies (get_proof and verify_proof
\* agree on sides and on the levels that are skipped), and it vouches for its own
\* leaf only: with another leaf hash in it, it no longer leads to the root.
ProofRefusesAnotherLeaf ==
    \A i \in Indices, h \in EntryHash :
        VerifyProof([GetProof(leafHashes, i) EXCEPT !.leafHash = h])
            <=> h = leafHashes[i + 1]

\* The root pins the batch down: no shorter sequence, and none that differs in
\* one leaf, has the same root.
RootCommitsToLeaves ==
    /\ \A n \in 1 .. Len(leafHashes) - 1 :
          MerkleRoot(SubSeq(leafHashes, 1, n)) # MerkleRoot(leafHashes)
    /\ \A i \in DOMAIN leafHashes, h \in EntryHash :
          h # leafHashes[i] =>
              MerkleRoot([leafHashes EXCEPT ![i] = h]) # MerkleRoot(leafHashes)

=============================================================================
