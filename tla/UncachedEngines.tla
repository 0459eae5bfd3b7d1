--------------------------- MODULE UncachedEngines ---------------------------
(***************************************************************************)
(* What the transpilation cache promises (runner/transpile.rs: "A cache    *)
(* only saves work"): engines load scripts as if each compiled the modules *)
(* of every load with its own build.  TranspileCache implements this.      *)
(***************************************************************************)
EXTENDS Integers, Sequences

CONSTANTS Engines, Ids,
          Builds,   \* versions of the compiler and the crate
          Loads,    \* what may be loaded: each a sequence of modules
          Accepts   \* build and module: those that compile

None == "none"

VARIABLES
  build,    \* of each engine, or None while it is not running
  scripts,  \* what each runs under each id: its modules, and what they compiled to
  job,      \* the load in progress, an id and its modules, or NoJob
  outcome   \* of its last load

vars == <<build, scripts, job, outcome>>

NoJob == [id |-> None, modules |-> <<>>]
Empty == [modules |-> <<>>, js |-> <<>>]
NoScripts == [id \in Ids |-> Empty]

Compiled(b, modules) == [i \in DOMAIN modules |-> <<b, modules[i]>>]

Init == /\ build = [e \in Engines |-> None]
        /\ scripts = [e \in Engines |-> NoScripts]
        /\ job = [e \in Engines |-> NoJob]
        /\ outcome = [e \in Engines |-> None]

Start(e, b) == /\ build[e] = None
               /\ build' = [build EXCEPT ![e] = b]
               /\ UNCHANGED <<scripts, job, outcome>>

Stop(stopped) == /\ build' = [e \in Engines |-> IF e \in stopped THEN None ELSE build[e]]
                 /\ scripts' = [e \in Engines |-> IF e \in stopped THEN NoScripts ELSE scripts[e]]
                 /\ job' = [e \in Engines |-> IF e \in stopped THEN NoJob ELSE job[e]]
                 /\ outcome' = [e \in Engines |-> IF e \in stopped THEN None ELSE outcome[e]]

Ask(e, id, modules) == /\ build[e] # None /\ job[e] = NoJob
                       /\ job' = [job EXCEPT ![e] = [id |-> id, modules |-> modules]]
                       /\ UNCHANGED <<build, scripts, outcome>>

Ended(e, how) == /\ job' = [job EXCEPT ![e] = NoJob]
                 /\ outcome' = [outcome EXCEPT ![e] = how]
                 /\ UNCHANGED build

Acceptable(e, modules) == \A i \in DOMAIN modules : <<build[e], modules[i]>> \in Accepts

\* A project may be refused as soon as it is asked for.
Refuse(e) == \E modules \in Loads :
               /\ build[e] # None
               /\ job[e] = NoJob \/ job[e].modules = modules
               /\ ~Acceptable(e, modules)
               /\ Ended(e, "refused")
               /\ UNCHANGED scripts

Mount(e) == /\ job[e] # NoJob
            /\ Acceptable(e, job[e].modules)
            /\ \/ /\ scripts' = [scripts EXCEPT ![e][job[e].id] =
                       [modules |-> job[e].modules, js |-> Compiled(build[e], job[e].modules)]]
                  /\ Ended(e, "loaded")
               \/ UNCHANGED scripts /\ Ended(e, "threw")

Unload(e, id) == /\ job[e] = NoJob
                 /\ scripts' = [scripts EXCEPT ![e][id] = Empty]
                 /\ UNCHANGED <<build, job, outcome>>

Next == \/ \E e \in Engines : \/ Refuse(e) \/ Mount(e)
                              \/ \E b \in Builds : Start(e, b)
                              \/ \E id \in Ids : Unload(e, id) \/ \E modules \in Loads : Ask(e, id, modules)
        \/ \E stopped \in SUBSET Engines : Stop(stopped)

Spec == Init /\ [][Next]_vars
=============================================================================
