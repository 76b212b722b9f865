---------------------------- MODULE MCHashLedger -----------------------------
(***************************************************************************)
(* Three sessions race to append to a ledger of at most three entries with *)
(* two possible bodies: enough for a winner, a loser that waits and aborts,*)
(* a loser that gets its key because the winner rolled back, and a         *)
(* transaction of several entries.  No symmetry: a liveness property is    *)
(* checked too.                                                            *)
(***************************************************************************)
EXTENDS HashLedger

CONSTANTS s1, s2, s3, b1, b2

MCSession == {s1, s2, s3}
MCBody == {b1, b2}

=============================================================================
