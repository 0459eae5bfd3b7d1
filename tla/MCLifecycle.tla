---------------------------- MODULE MCLifecycle ----------------------------
(* Two scripts, loaded up to four times, in two groups or in none.         *)
EXTENDS Lifecycle, TLC

Symmetry == Permutations(Ids) \cup Permutations(Names)
=============================================================================
