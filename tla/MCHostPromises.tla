--------------------------- MODULE MCHostPromises ---------------------------
(* Two versions: two calls race within the first, one call of the second.  *)
EXTENDS HostPromises, TLC

CONSTANTS c1, c2, c3

MCCalls == {c1, c2, c3}
MCVersionOf == c1 :> 1 @@ c2 :> 1 @@ c3 :> 2

\* One call of each version, where liveness takes the larger behaviour graph.
MCTwoCalls == {c1, c3}
MCTwoVersionOf == c1 :> 1 @@ c3 :> 2
=============================================================================
