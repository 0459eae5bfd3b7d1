----------------------------- MODULE MCDeferred -----------------------------
(* Two script versions, the deferred request r1 and the deferred call k1.  *)
EXTENDS Deferred

CONSTANTS r1, k1
=============================================================================
