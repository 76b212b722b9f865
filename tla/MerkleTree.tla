----------------------------- MODULE MerkleTree ------------------------------
(***************************************************************************)
(* The Merkle tree of backend/app/services/integrity/merkle_tree.py.  As   *)
(* in LedgerDigest, a digest is represented by what it commits to.  The    *)
(* two domain prefixes 0x00 and 0x01 become two shapes of record, so a     *)
(* leaf digest never equals an internal one.                               *)
(*                                                                         *)
(* Layers and proofs are sequences, numbered from 1; leafIndex counts from *)
(* 0, as it does in the code.                                              *)
(***************************************************************************)
EXTENDS Integers, Sequences, SequencesExt

HashLeaf(entryHash) == [leaf |-> entryHash]

HashInternal(left, right) == [left |-> left, right |-> right]

\* Defect: the odd node out of a layer is lost.
NextLayerTruncated(layer) ==
    [i \in 1 .. Len(layer) \div 2 |-> HashInternal(layer[2 * i - 1], layer[2 * i])]

\* Defect: the odd node out is paired with itself.
NextLayerDuplicated(layer) ==
    [i \in 1 .. (Len(layer) + 1) \div 2 |->
        IF 2 * i <= Len(layer)
          THEN HashInternal(layer[2 * i - 1], layer[2 * i])
          ELSE HashInternal(layer[2 * i - 1], layer[2 * i - 1])]

\* The parents of a layer, in pairs; the odd node out is promoted as it is.
NextLayer(layer) ==
    [i \in 1 .. (Len(layer) + 1) \div 2 |->
        IF 2 * i <= Len(layer)
          THEN HashInternal(layer[2 * i - 1], layer[2 * i])
          ELSE layer[2 * i - 1]]

\* A round of _build_tree: the parents are added unless the last layer is one node.
WithParents(layers) ==
    IF Len(Last(layers)) > 1 THEN Append(layers, NextLayer(Last(layers))) ELSE layers

\* _build_tree takes fewer rounds than there are leaves.
Layers(leafHashes) ==
    LET leafNodes == [i \in DOMAIN leafHashes |-> HashLeaf(leafHashes[i])]
        build[round \in 1 .. Len(leafHashes)] ==
            IF round = 1 THEN <<leafNodes>> ELSE WithParents(build[round - 1])
    IN  build[Len(leafHashes)]

MerkleRoot(leafHashes) == Last(Layers(leafHashes))[1]

\* Defect: the sibling is put on the same side at every level.
SiblingOneSided(layer, idx) ==
    LET pairIdx == IF idx % 2 = 1 THEN idx - 1 ELSE idx + 1
    IN  IF pairIdx < Len(layer)
          THEN <<[position |-> "right", hash |-> layer[pairIdx + 1]]>>
          ELSE << >>

\* The proof step that a layer adds for the node at idx: none if the node is
\* promoted.
Sibling(layer, idx) ==
    LET isOdd == idx % 2 = 1
        pairIdx == IF isOdd THEN idx - 1 ELSE idx + 1
    IN  IF pairIdx < Len(layer)
          THEN <<[position |-> IF isOdd THEN "left" ELSE "right",
                  hash |-> layer[pairIdx + 1]]>>
          ELSE << >>

\* A round of the loop of get_proof, on idx and the proof steps so far.
Climb(layer, at) ==
    [idx |-> at.idx \div 2, proofSteps |-> at.proofSteps \o Sibling(layer, at.idx)]

\* get_proof, for 0 <= leafIndex < Len(leafHashes)
GetProof(leafHashes, leafIndex) ==
    LET layers == Layers(leafHashes)
        start == [idx |-> leafIndex, proofSteps |-> << >>]
        climb[d \in 1 .. Len(layers)] ==
            IF d = 1 THEN start ELSE Climb(layers[d - 1], climb[d - 1])
    IN  [leafHash |-> leafHashes[leafIndex + 1],
         proofSteps |-> climb[Len(layers)].proofSteps,
         root |-> MerkleRoot(leafHashes)]

\* A round of the loop of verify_proof.
Follow(step, current) ==
    IF step.position = "left" THEN HashInternal(step.hash, current)
                              ELSE HashInternal(current, step.hash)

\* The root that a proof leads to, from its leaf up.
RootOfProof(proof) ==
    LET current[n \in 0 .. Len(proof.proofSteps)] ==
            IF n = 0 THEN HashLeaf(proof.leafHash)
                     ELSE Follow(proof.proofSteps[n], current[n - 1])
    IN  current[Len(proof.proofSteps)]

VerifyProof(proof) == RootOfProof(proof) = proof.root

=============================================================================
