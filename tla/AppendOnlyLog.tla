--------------------------- MODULE AppendOnlyLog ----------------------------
(***************************************************************************)
(* What the audit ledger promises to the rest of the platform ("append-    *)
(* only cryptographic hash chaining", hash_chain_ledger.py:46): one log,   *)
(* and the only thing that ever happens to it is that one or more items    *)
(* are added at its end.                                                   *)
(***************************************************************************)
EXTENDS Integers, Sequences

CONSTANT Item

VARIABLE log

Init == log = << >>

Extend ==
    /\ log' \in Seq(Item)
    /\ Len(log') > Len(log)
    /\ \A k \in 1 .. Len(log) : log'[k] = log[k]

Spec == Init /\ [][Extend]_log

=============================================================================
