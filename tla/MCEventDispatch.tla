-------------------------- MODULE MCEventDispatch --------------------------
(* Two scripts of a group, one on its own and another of the group.        *)
EXTENDS EventDispatch, TLC

CONSTANTS h, k

MCGroupOf == <<"g", "g", Own, "g">>

Only(e, handlers) == <<[event |-> e, handlers |-> handlers]>>

MCListening == <<Only("e", <<h, k>>) \o Only("f", <<h>>), <<>>, Only("e", <<h>>), <<>>>>
=============================================================================
