--------------------------- MODULE MCVerification ----------------------------
(***************************************************************************)
(* One anchorer and one audit after the other, with a ledger of at most    *)
(* three entries in batches of at most two.                                *)
(***************************************************************************)
EXTENDS Verification

CONSTANTS worker, wallet, recorded, forged

MCAnchorer == {worker}
MCBody == {recorded, forged}

=============================================================================
