----------------------------- MODULE MCAnchoring -----------------------------
(***************************************************************************)
(* The worker and one anchor-now request, a ledger of at most three        *)
(* entries in batches of at most two, and one anchoring that dies half     *)
(* way.                                                                    *)
(***************************************************************************)
EXTENDS Anchoring

CONSTANTS worker, request, wallet, recorded, forged

MCAnchorer == {worker, request}
MCBody == {recorded, forged}

=============================================================================
