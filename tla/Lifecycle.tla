------------------------------ MODULE Lifecycle ------------------------------
(***************************************************************************)
(* Loading, reloading and unloading scripts, in contexts of their own or   *)
(* in context groups: runner/engine/lifecycle.rs, with the module store    *)
(* and the environments of runner/module_loader.  An operation is split at *)
(* the points where JavaScript runs, which may fail, or meet a host        *)
(* function that panics: settle then unwinds out of the operation.         *)
(*                                                                         *)
(* A module id is a pair of the graph it belongs to (0: none) and a name.  *)
(***************************************************************************)
EXTENDS Integers, Sequences, FiniteSets

CONSTANTS Ids,       \* script ids
          Names,     \* names of context groups
          MaxLoads   \* bound on the graph ids

ASSUME MaxLoadsAssumption == MaxLoads \in Nat

None == 0                          \* no graph, no context, undefined
Own == "own"                       \* loaded without a group
Env == "rustts:env"
Hosts == {"host"}                  \* import modules of the registry
Shared == {<<None, name>> : name \in Hosts \cup {Env}}
NotFound == <<None, "not found">>
Engine == <<None, "">>             \* base of the engine's own imports

ASSUME NamesAssumption == Own \notin Names

VARIABLES
  scripts,      \* Engine::scripts, in load order
  groups,       \* Engine::groups
  nextGraph,    \* Engine::next_graph_id
  envs,         \* graphs in ScriptEnvs
  \* ModuleStoreInner.
  sources,      \* script modules
  resolutions,  \* triples of module, request and module
  grouped,      \* grouped_graphs
  hostImport,   \* host_import
  \* The operation in progress.
  pc,           \* idle, saving, preparing, importing, evaluating, disposing
  mounting,     \* the version being loaded
  created,      \* created_group
  retiring,     \* the version being retired
  \* History.
  disposed,     \* versions whose dispose hook was called
  lost          \* versions whose operation a panic unwound

storeVars == <<sources, resolutions, grouped, hostImport>>
vars == <<scripts, groups, nextGraph, envs, storeVars, pc, mounting, created, retiring,
          disposed, lost>>

NoGroup == [context |-> None, scripts |-> 0]
NoVersion == [id |-> Own, graph |-> None, group |-> Own, context |-> None, data |-> None,
              modules |-> {}]

Init == /\ scripts = <<>>
        /\ groups = [n \in Names |-> NoGroup]
        /\ nextGraph = 1
        /\ envs = {}
        /\ sources = {}
        /\ resolutions = {}
        /\ grouped = {}
        /\ hostImport = NotFound
        /\ pc = "idle"
        /\ mounting = NoVersion
        /\ created = FALSE
        /\ retiring = NoVersion
        /\ disposed = <<>>
        /\ lost = {}

-----------------------------------------------------------------------------
(* The module store.                                                       *)

Kinds == {{"entry"},          \* an inline script
          {"entry", "dep"}}   \* a project, whose entry imports ./dep

Entry(version) == <<version.graph, "entry">>
ModulesOf(version) == {version.graph} \X version.modules
ResolutionsOf(version) ==
  IF "dep" \in version.modules
  THEN {<<Entry(version), <<None, "./dep">>, <<version.graph, "dep">>>>}
  ELSE {}

Insert(version) == /\ sources' = sources \cup ModulesOf(version)
                   /\ resolutions' = resolutions \cup ResolutionsOf(version)
                   /\ UNCHANGED <<grouped, hostImport>>

\* A bug: resolutions of removed modules stay.
RemoveSourcesOnly(version) == /\ sources' = sources \ ModulesOf(version)
                              /\ grouped' = grouped \ {version.graph}
                              /\ UNCHANGED resolutions

Remove(version) == /\ sources' = sources \ ModulesOf(version)
                   /\ grouped' = grouped \ {version.graph}
                   /\ resolutions' = {r \in resolutions : {r[1], r[3]} \cap ModulesOf(version) = {}}

\* Shared modules are found by name, those of a graph from that graph.
InReach(base, name) == name \in sources \cup Shared /\ name[1] \in {None, base[1]}

Resolved(base, name) ==
  IF name = hostImport THEN name
  ELSE IF base[1] \in grouped /\ name \in Shared THEN <<base[1], name[2]>>
  ELSE IF InReach(base, name) THEN name
  ELSE IF \E r \in resolutions : r[1] = base /\ r[2] = name
       THEN (CHOOSE r \in resolutions : r[1] = base /\ r[2] = name)[3]
       ELSE NotFound

-----------------------------------------------------------------------------
(* Loads.                                                                  *)

At(id) == {i \in DOMAIN scripts : scripts[i].id = id}

\* load_script, load_project and their _in forms, once the script is transpiled.
Load(id, group, modules) ==
  LET version == [id |-> id, graph |-> nextGraph, group |-> group, context |-> None,
                  data |-> None, modules |-> modules]
  IN  /\ pc = "idle"
      /\ nextGraph <= MaxLoads
      /\ nextGraph' = nextGraph + 1
      /\ mounting' = version
      /\ Insert(version)
      /\ pc' = IF At(id) = {} THEN "preparing" ELSE "saving"
      /\ UNCHANGED <<scripts, groups, envs, created, retiring, disposed, lost>>

\* ctx.hot.save of the loaded version returns a value, or none was registered.
Save == /\ pc = "saving"
        /\ \E i \in At(mounting.id) : \E data \in {None, scripts[i].graph} :
              mounting' = [mounting EXCEPT !.data = data]
        /\ pc' = "preparing"
        /\ UNCHANGED <<scripts, groups, nextGraph, envs, storeVars, created, retiring, disposed,
                       lost>>

\* The graph is removed and its import over; the previous version stays.
Abandon == /\ pc' = "idle"
           /\ mounting' = NoVersion
           /\ created' = FALSE
           /\ hostImport' = NotFound
           /\ Remove(mounting)
           /\ UNCHANGED <<scripts, nextGraph, retiring, disposed, lost>>

SaveFails == pc = "saving" /\ Abandon /\ UNCHANGED <<groups, envs>>

\* No context, or no environment in it: a group made for it is gone again.
PrepareFails == pc = "preparing" /\ Abandon /\ UNCHANGED <<groups, envs>>

\* A new context, or that of the group, is given the environment, and the entry's
\* import begins.
Prepare ==
  /\ pc = "preparing"
  /\ pc' = "importing"
  /\ hostImport' = Entry(mounting)
  /\ IF mounting.group = Own
     THEN /\ mounting' = [mounting EXCEPT !.context = mounting.graph]
          /\ created' = FALSE
          /\ UNCHANGED <<groups, grouped, envs>>
     ELSE LET existing == groups[mounting.group]
              group == IF existing # NoGroup THEN existing
                       ELSE [context |-> mounting.graph, scripts |-> 0]
          IN  /\ created' = (existing = NoGroup)
              /\ groups' = [groups EXCEPT ![mounting.group] = group]
              /\ mounting' = [mounting EXCEPT !.context = group.context]
              /\ grouped' = grouped \cup {mounting.graph}
              /\ envs' = envs \cup {mounting.graph}
  /\ UNCHANGED <<scripts, nextGraph, sources, resolutions, retiring, disposed, lost>>

\* A bug: the engine's import stays open while the script runs.
AfterResolutionOpen(base, name) == hostImport

AfterResolution(base, name) == IF name = hostImport THEN NotFound ELSE hostImport

\* QuickJS resolves the entry: the first thing the import does.
ResolveEntry ==
  /\ pc = "importing"
  /\ Resolved(Engine, Entry(mounting)) \in sources
  /\ hostImport' = AfterResolution(Engine, Entry(mounting))
  /\ pc' = "evaluating"
  /\ UNCHANGED <<scripts, groups, nextGraph, envs, sources, resolutions, grouped, mounting,
                 created, retiring, disposed, lost>>

UndoneGroup == IF created THEN [groups EXCEPT ![mounting.group] = NoGroup] ELSE groups

\* The entry throws, or the budget or an interrupt stops it.
EvaluateFails == /\ pc = "evaluating"
                 /\ envs' = envs \ {mounting.graph}
                 /\ groups' = UndoneGroup
                 /\ Abandon

\* A bug: the version goes to the end.
SwappedLast(version) ==
  Append(SelectSeq(scripts, LAMBDA other : other.id # version.id), version)

\* IndexMap::insert.
Swapped(version) ==
  IF At(version.id) = {} THEN Append(scripts, version)
  ELSE [i \in DOMAIN scripts |-> IF i \in At(version.id) THEN version ELSE scripts[i]]

Swap == /\ pc = "evaluating"
        /\ hostImport' = NotFound
        /\ groups' = IF mounting.group = Own THEN groups
                     ELSE [groups EXCEPT ![mounting.group].scripts = @ + 1]
        /\ scripts' = Swapped(mounting)
        /\ IF At(mounting.id) = {}
           THEN pc' = "idle" /\ UNCHANGED retiring
           ELSE pc' = "disposing" /\ \E i \in At(mounting.id) : retiring' = scripts[i]
        /\ mounting' = NoVersion
        /\ created' = FALSE
        /\ UNCHANGED <<nextGraph, envs, sources, resolutions, grouped, disposed, lost>>

-----------------------------------------------------------------------------
(* Unloads and the end of a version.                                       *)

Unload(id) == /\ pc = "idle"
              /\ \E i \in At(id) :
                   /\ retiring' = scripts[i]
                   /\ scripts' = SubSeq(scripts, 1, i - 1) \o SubSeq(scripts, i + 1, Len(scripts))
              /\ pc' = "disposing"
              /\ UNCHANGED <<groups, nextGraph, envs, storeVars, mounting, created, disposed, lost>>

\* A bug: a group goes with the first of its scripts that goes.
ReleasedAtOnce(group) == NoGroup

\* A group's context goes with its last script.
Released(group) == IF group.scripts = 1 THEN NoGroup
                   ELSE [group EXCEPT !.scripts = @ - 1]

\* ctx.hot.dispose has run, whatever came of it; the rest of Engine::retire.
Retire == /\ pc = "disposing"
          /\ disposed' = Append(disposed, retiring.graph)
          /\ Remove(retiring)
          /\ envs' = envs \ {retiring.graph}
          /\ groups' = IF retiring.group = Own THEN groups
                       ELSE [groups EXCEPT ![retiring.group] = Released(@)]
          /\ retiring' = NoVersion
          /\ pc' = "idle"
          /\ UNCHANGED <<scripts, nextGraph, hostImport, mounting, created, lost>>

\* A host function panicked in the save hook, the entry or a dispose hook.
Panic == /\ pc \in {"saving", "evaluating", "disposing"}
         /\ pc' = "idle"
         /\ lost' = lost \cup {IF pc = "disposing" THEN retiring.graph ELSE mounting.graph}
         /\ disposed' = IF pc = "disposing" THEN Append(disposed, retiring.graph) ELSE disposed
         /\ hostImport' = NotFound
         /\ mounting' = NoVersion
         /\ created' = FALSE
         /\ retiring' = NoVersion
         /\ UNCHANGED <<scripts, groups, nextGraph, envs, sources, resolutions, grouped>>

-----------------------------------------------------------------------------
Next == \/ \E id \in Ids, group \in Names \cup {Own}, modules \in Kinds : Load(id, group, modules)
        \/ \E id \in Ids : Unload(id)
        \/ Save \/ SaveFails
        \/ Prepare \/ PrepareFails
        \/ ResolveEntry
        \/ EvaluateFails \/ Swap
        \/ Retire
        \/ Panic

Spec == Init /\ [][Next]_vars

-----------------------------------------------------------------------------
(* Properties.                                                             *)

Graphs == None .. MaxLoads
Version == [id : Ids, graph : Graphs \ {None}, group : Names \cup {Own}, context : Graphs,
            data : Graphs, modules : Kinds]

TypeOK == /\ scripts \in Seq(Version)
          /\ groups \in [Names -> [context : Graphs, scripts : Nat]]
          /\ nextGraph \in 1 .. MaxLoads + 1
          /\ envs \subseteq Graphs
          /\ sources \subseteq Graphs \X {"entry", "dep"}
          /\ grouped \subseteq Graphs
          /\ pc \in {"idle", "saving", "preparing", "importing", "evaluating", "disposing"}
          /\ mounting \in Version \/ (mounting = NoVersion /\ pc \in {"idle", "disposing"})
          /\ retiring \in Version \/ (retiring = NoVersion /\ pc # "disposing")
          /\ created \in BOOLEAN
          /\ disposed \in Seq(Graphs)
          /\ lost \subseteq Graphs

Loaded == {scripts[i] : i \in DOMAIN scripts}
Counted == Loaded \cup ({retiring} \ {NoVersion})  \* versions their group counts
Inserted == Counted \cup ({mounting} \ {NoVersion})
Prepared == {v \in Inserted : v.context # None}

\* The module store and the environments hold what the versions that are loaded, being
\* loaded or being retired need, and nothing else, unless a panic unwound an operation:
\* even then what those need is there.
StoreExact ==
  LET modules == UNION {ModulesOf(v) : v \in Inserted}
      requests == UNION {ResolutionsOf(v) : v \in Inserted}
      inGroups == {v.graph : v \in {v \in Prepared : v.group # Own}}
  IN  /\ modules \subseteq sources
      /\ requests \subseteq resolutions
      /\ inGroups \subseteq grouped \cap envs
      /\ lost = {} => /\ sources = modules
                      /\ resolutions = requests
                      /\ grouped = inGroups
                      /\ envs = inGroups

\* A group has one context, shared by all its scripts and no other, counts its scripts
\* and is there while one of them needs it, and no longer unless a panic unwound an
\* operation.
GroupsExact ==
  /\ \A v, w \in Prepared : v # w => (v.context = w.context <=> v.group = w.group /\ v.group # Own)
  /\ \A n \in Names :
       LET counted == Cardinality({v \in Counted : v.group = n})
           members == {v \in Prepared : v.group = n}
       IN  /\ groups[n].scripts >= counted
           /\ \A v \in members : groups[n].context = v.context
           /\ lost = {} => /\ groups[n].scripts = counted
                           /\ members = {} => groups[n] = NoGroup

\* Whenever script code may run, a module of any version, loaded or not, is handed only
\* modules of its own graph and host modules; and one of a loaded version finds its own
\* module, its own environment and its own host functions.
ModulesOfItsOwn ==
  pc \notin {"preparing", "importing"} =>
    /\ \A graph \in 1 .. nextGraph - 1, m \in {"entry", "dep"} \cup Hosts :
         \A name \in sources \cup Shared \cup {<<None, "./dep">>} :
           LET found == Resolved(<<graph, m>>, name)
           IN  found \in Shared \cup {NotFound} \/ found[1] = graph
    /\ \A v \in Counted :
         /\ "dep" \in v.modules => Resolved(Entry(v), <<None, "./dep">>) = <<v.graph, "dep">>
         /\ \A name \in Shared :
              Resolved(Entry(v), name) = <<IF v.group = Own THEN None ELSE v.graph, name[2]>>

\* Loads and unloads keep the promises of LoadedScripts: a failed load, or a panic, keeps
\* the previous version in its place, a reload takes that place and what was saved, and
\* a version is disposed of once, when it is no longer loaded and before another load.
Scripts == INSTANCE LoadedScripts
  WITH Versions <- 1 .. MaxLoads,
       scripts <- [i \in DOMAIN scripts |-> [id |-> scripts[i].id, graph |-> scripts[i].graph,
                                             data |-> scripts[i].data]],
       owed <- retiring.graph

IsLoadedScripts == Scripts!Spec

\* A group's context goes with its last script, also when a panic of its dispose hook
\* was caught: a group that counts scripts has one.
GroupGoesWithLastScript ==
  pc = "idle" => \A n \in Names : groups[n].scripts > 0 => \E v \in Loaded : v.group = n
=============================================================================
