----------------------------- MODULE MCIncidents -----------------------------
(***************************************************************************)
(* Three alerts about one host, each more severe than the one before, with *)
(* the seeded playbooks; for MCTerminal the last of them alone.  The host  *)
(* faces the internet, so that the last suffices to isolate it; BLOCK_IP   *)
(* has no target on a host.                                                *)
(***************************************************************************)
EXTENDS IncidentReports, TLC

CONSTANTS scan, shell, ransom, w1, w2, u1, u2, r1

MCAlert == {scan, shell, ransom}
MCWorker == {w1, w2}
MCAnalyst == {u1, u2}
MCSymmetry == Permutations(MCWorker) \cup Permutations(MCAnalyst)
MCKeyOf == [a \in Alert |-> "workstation"]
MCSeverityOf ==
    [a \in Alert |-> CASE a = scan -> 500 [] a = shell -> 800 [] a = ransom -> 950]
MCConfidenceOf ==
    [a \in Alert |-> CASE a = scan -> 750 [] a = shell -> 850 [] a = ransom -> 900]
MCAssets ==
    [host \in {"workstation"} |->
        [criticality |-> 3, isProtected |-> FALSE, isInternetFacing |-> TRUE]]
MCReputation == [ip \in {} |-> 0]

Ask(type, atCriticality, ifProtected) ==
    [type |-> type, askAtCriticality |-> atCriticality, askIfProtected |-> ifProtected]

MCPlaybooks ==
    <<[minScore |-> 600, actions |-> <<Ask("BLOCK_IP", 5, FALSE), Ask("NOTIFY", 6, FALSE)>>],
      [minScore |-> 650, actions |-> <<Ask("BLOCK_IP", 6, FALSE),
                                       Ask("RESTRICT_ACCESS", 6, FALSE),
                                       Ask("NOTIFY", 6, FALSE)>>],
      [minScore |-> 700, actions |-> <<Ask("ISOLATE_HOST", 4, TRUE), Ask("NOTIFY", 6, FALSE)>>],
      [minScore |-> 800, actions |-> <<Ask("ISOLATE_HOST", 4, TRUE),
                                       Ask("DISABLE_USER", 6, TRUE),
                                       Ask("NOTIFY", 6, FALSE)>>]>>

=============================================================================
