----------------------------- MODULE RiskScoring -----------------------------
(***************************************************************************)
(* The risk score of an incident: calculate_risk_score and                 *)
(* determine_priority (backend/app/services/risk_scoring_service.py) with  *)
(* what they are fed: the context of the asset and the reputation of the   *)
(* source (services/enrichment, adapters/threat_intel).                    *)
(*                                                                         *)
(* Decimals become integers: a factor is in thousandths, a weight in       *)
(* hundredths, and a contribution, their product, in units of 10^-5.  A    *)
(* score is in tenths of a point, 0 .. 1000.  round(x, 1) of the code      *)
(* works on a binary fraction: a sum that lies right between two tenths    *)
(* may go to either, so scoring gives a set of one or two scores.          *)
(***************************************************************************)
EXTENDS Integers

CONSTANTS
    WSeverity, WConfidence, WAsset, WExposure, WIntel,  \* the weights
    Assets,         \* the inventory by hostname: criticality 1 .. 5, isProtected,
                    \* isInternetFacing
    Reputation      \* of the addresses the intelligence knows, in thousandths

Weights == {WSeverity, WConfidence, WAsset, WExposure, WIntel}

ASSUME WeightAssumption == Weights \subseteq Nat
ASSUME AssetAssumption ==
    Assets \in [DOMAIN Assets -> [criticality : Int, isProtected : BOOLEAN,
                                 isInternetFacing : BOOLEAN]]
ASSUME ReputationAssumption == Reputation \in [DOMAIN Reputation -> Int]

Clamp(v, low, high) ==
    IF v > high THEN high ELSE IF v < low THEN low ELSE v

\* Five points for each further alert, fifteen at most.
CorrelationBonus(additional) == Clamp(5000 * additional, 0, 15000)

\* The factors of a score, and their sum.
Factors(severity, confidence, criticality, exposure, intel, additional) ==
    [severity |-> Clamp(severity, 0, 1000),
     confidence |-> Clamp(confidence, 0, 1000),
     asset |-> Clamp(200 * criticality, 200, 1000),
     exposure |-> Clamp(exposure, 200, 1000),
     intel |-> Clamp(intel, 0, 1000),
     bonus |-> CorrelationBonus(additional)]

RawSum(f) ==
    WSeverity * f.severity + WConfidence * f.confidence + WAsset * f.asset
        + WExposure * f.exposure + WIntel * f.intel + f.bonus

\* The nearest tenths of a point: one, or two that are equally near.
Rounded(sum) ==
    {r \in {sum \div 100, sum \div 100 + 1} : 100 * r - sum \in -50 .. 50}

\* calculate_risk_score
Scores(f) == Rounded(Clamp(RawSum(f), 0, 100000))

\* determine_priority; P1 is the most urgent.
DeterminePriority(score) ==
    IF score >= 800 THEN 1 ELSE IF score >= 600 THEN 2 ELSE IF score >= 400 THEN 3 ELSE 4

-----------------------------------------------------------------------------
\* Enrichment

UnknownAsset ==
    [criticality |-> 3, isProtected |-> FALSE, isInternetFacing |-> FALSE]

\* get_context_by_host; NoHost is never in the inventory.
AssetContext(host) == IF host \in DOMAIN Assets THEN Assets[host] ELSE UnknownAsset

Exposure(asset) == IF asset.isInternetFacing THEN 1000 ELSE 500

\* lookup_ip
IpReputation(ip) == IF ip \in DOMAIN Reputation THEN Reputation[ip] ELSE 100

=============================================================================
