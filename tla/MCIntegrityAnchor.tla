-------------------------- MODULE MCIntegrityAnchor --------------------------
(***************************************************************************)
(* A small instance of the contract: two accounts, two roots, sequence     *)
(* numbers 0 .. 3 and up to three batches.  While nothing is anchored yet, *)
(* the leaves of the first batch are gathered in every possible way.       *)
(***************************************************************************)
EXTENDS IntegrityAnchor, MCMerkleTree, TLC

CONSTANTS deployer, other, r1, r2

MCAddress == {deployer, other}
MCRoot == {r1, r2}

MCInit == Init /\ leafHashes = << >>

MCNext ==
    \/ Next /\ leafHashes' = << >>
    \/ AddLeaf /\ batchCount = 0 /\ UNCHANGED vars

MCSpec == MCInit /\ [][MCNext]_<<vars, leafHashes>>

=============================================================================
