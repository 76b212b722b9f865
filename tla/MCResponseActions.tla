-------------------------- MODULE MCResponseActions --------------------------
(***************************************************************************)
(* The instance of the safety properties: two workers, two analysts with   *)
(* two requests between them, and two incidents that share an address, so  *)
(* that approvals and rollbacks of different actions meet at one row.  The *)
(* instance of the expiry worker: an incident about an address, which also *)
(* notifies, and one about an allowlisted address and a critical host.     *)
(***************************************************************************)
EXTENDS ResponseActions, TLC

CONSTANTS w1, w2, a1, a2, i1, i2, address, resolver, server, webhook

MCWorker == {w1, w2}
MCAnalyst == {a1, a2}
MCProposals == (i1 :> <<address>>) @@ (i2 :> <<address>>)
MCExpiryProposals == (i1 :> <<address, webhook>>) @@ (i2 :> <<resolver, server>>)

\* The workers are interchangeable, and so are the analysts and the two incidents of
\* MCProposals; no liveness is checked with it.
MCSymmetry == Permutations(MCWorker) \cup Permutations(MCAnalyst) \cup Permutations({i1, i2})

=============================================================================
