--------------------------- MODULE MCEventPipeline ---------------------------
(***************************************************************************)
(* Events from one address: a request that may be tried twice brings       *)
(* `first' and one without an event_id, which is another at the second     *)
(* try; the simulator brings `second', right at the end of the window of   *)
(* the first.  The first event matches a match rule.  A distinct_count     *)
(* rule asks for three ports: `first' has one, the nameless ones another,  *)
(* `second' none, so that it counts entries when that event is the last.   *)
(* The worker and the simulator are the processes that race; two faults,   *)
(* so that a process may count in memory what a retry has repeated.        *)
(***************************************************************************)
EXTENDS EventPipeline, TLC

CONSTANTS first, second, nameless1, nameless2, w1, q1, address, ssh, https

MCEvent == {first, second, nameless1, nameless2}
MCAt == [e \in MCEvent |-> IF e = first THEN 0 ELSE IF e = second THEN 3 ELSE 2]
MCBatch == q1 :> << <<first, nameless1>>, <<first, nameless2>> >>
MCScenario == <<second>>

OneKey == [e \in MCEvent |-> address]

Match ==
    [type |-> "match", window |-> 0, need |-> 1, key |-> OneKey,
     mark |-> [e \in MCEvent |-> e], fits |-> [e \in MCEvent |-> e = first]]

DistinctCount ==
    [type |-> "distinct_count", window |-> 3, need |-> 3, key |-> OneKey,
     mark |-> [e \in MCEvent |-> IF e = first THEN ssh ELSE IF e = second THEN e ELSE https],
     fits |-> [e \in MCEvent |-> TRUE]]

MCRules == <<Match, DistinctCount>>

=============================================================================
