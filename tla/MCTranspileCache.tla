-------------------------- MODULE MCTranspileCache --------------------------
(* Two engines; one text under two source types, one of them only for the  *)
(* older build, and one with a dynamic import, which the compiler takes.   *)
EXTENDS TranspileCache, TLC

CONSTANTS p, q, a, b

Anyone == Permutations(Engines) \cup Permutations(Ids)

MCProjects == {<<<<"ts", "view">>, <<"tsx", "view">>>>, <<<<"ts", "view">>, <<"ts", "lazy">>>>}

MCParses == Builds \X (Types \X {"view"})
MCTransforms == (Builds \X Modules) \ {<<"v2", <<"tsx", "view">>>>}
=============================================================================
