---------------------------- MODULE MCHotReload ----------------------------
(* A project whose entry may import `v`: src/main.ts, src/v.ts and         *)
(* src/v/index.ts.                                                         *)
EXTENDS HotReload, TLC

MCModules == {"main.ts", "v.ts", "v/index.ts"}
MCDirs == {"src", "src/v"}
MCDirsOf == "main.ts" :> <<"src">> @@ "v.ts" :> <<"src">> @@ "v/index.ts" :> <<"src/v", "src">>

\* Every candidate is next to a module, or comes after all that are.
MCNextToModules == "relative" :> <<"v.ts", "v/index.ts">> @@ "index" :> <<"v/index.ts">>
=============================================================================
