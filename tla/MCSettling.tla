----------------------------- MODULE MCSettling -----------------------------
(* Three Promises, so that one may be awaited or owed to a handle, one     *)
(* rejected and handled late, and one left.                                *)
EXTENDS Settling, TLC

CONSTANTS p1, p2, p3

Symmetry == Permutations({p1, p2, p3})
=============================================================================
