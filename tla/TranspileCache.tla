---------------------------- MODULE TranspileCache ----------------------------
(***************************************************************************)
(* The memo and the disk cache of transpiled modules: runner/transpile.rs, *)
(* cache/store.rs, cache/identity.rs and Engine::forget_unused_modules.    *)
(* Engines in processes of their own, of one or several builds, share a    *)
(* cache directory; they are killed, the machine loses power, and somebody *)
(* damages or deletes artifacts.                                           *)
(*                                                                         *)
(* A module is its source type and its source.  What is memoized of its    *)
(* imports is left out: they are those of the source.  A dispose hook that *)
(* panics is in Lifecycle.  The compiler is external:                      *)
(* a build gives the same result for the same module, as the comment of    *)
(* module_cache_key has it.  Hashes do not collide.  The file system is    *)
(* external too: a rename is atomic, a power loss may undo it, and spares  *)
(* what a file holds only once it is synced.                               *)
(***************************************************************************)
EXTENDS Integers, Sequences

CONSTANTS Engines, Ids,
          Builds,    \* versions of the compiler and the crate
          Types,     \* source types, file extensions
          Sources,   \* texts of modules
          Inline,    \* the texts loaded as inline scripts
          Projects,  \* the graphs loaded as projects: sequences of modules
          Parses,    \* build and module: those with imports to extract, none of them dynamic
          Transforms,\* those the compiler itself takes
          MaxLoads,  \* bound on the loads
          MaxStops,  \* bound on kills and power losses
          MaxDamage  \* bound on artifacts damaged or deleted

Modules == Types \X Sources
InlineType == "ts"

ASSUME ProjectsAssumption == Projects \subseteq Seq(Modules) \ {<<>>}
ASSUME InlineAssumption == Inline \subseteq Sources /\ InlineType \in Types
ASSUME CompilerAssumption == Parses \cup Transforms \subseteq Builds \X Modules
ASSUME BoundsAssumption == MaxLoads \in Nat /\ MaxStops \in Nat /\ MaxDamage \in Nat

None == "none"

ASSUME BuildsAssumption == None \notin Builds

VARIABLES
  \* An engine and its process.
  build,     \* its build, or None while it is not running
  scripts,   \* Engine::scripts: the modules of each, and what they compiled to
  memo,      \* Transpiler::memo: what each key's module compiled to, or Nothing
  \* The load in progress.
  pc,        \* idle, lookup, store, mount
  job,       \* its id, modules and kind, or NoJob
  done,      \* its modules transpiled so far
  outcome,   \* of the last load
  \* The cache directory.
  disk,      \* artifact of each key
  \* History.
  loads, stops, damages,
  damaged,   \* keys whose artifact somebody damaged
  tried      \* keys of each engine's loads since it last forgot unused modules

engineVars == <<build, scripts, memo, pc, job, done, outcome, tried>>
diskVars == <<disk, stops, damages, damaged>>
vars == <<engineVars, loads, diskVars>>

\* A bug: artifacts outlive an upgrade of the compiler.
KeyOfAnyBuild(b, m) == <<"any", m>>

\* module_cache_key.
Key(b, m) == <<b, m>>

Keys == {Key(b, m) : b \in Builds, m \in Modules}

Nothing == <<>>  \* not transpiled
NoJob == [id |-> None, modules |-> <<>>, inline |-> FALSE]
NothingRemembered == [k \in {} |-> Nothing]
Empty == [modules |-> <<>>, js |-> <<>>]
NoScripts == [id \in Ids |-> Empty]

Missing == [js |-> Nothing, state |-> "missing"]

Init == /\ build = [e \in Engines |-> None]
        /\ scripts = [e \in Engines |-> NoScripts]
        /\ memo = [e \in Engines |-> NothingRemembered]
        /\ pc = [e \in Engines |-> "idle"]
        /\ job = [e \in Engines |-> NoJob]
        /\ done = [e \in Engines |-> <<>>]
        /\ outcome = [e \in Engines |-> None]
        /\ disk = [k \in Keys |-> Missing]
        /\ loads = 0
        /\ stops = 0
        /\ damages = 0
        /\ damaged = {}
        /\ tried = [e \in Engines |-> {}]

-----------------------------------------------------------------------------
(* The memo.                                                               *)

\* HashMap::entry and or_default.
WithEntries(entries, keys) ==
  [k \in DOMAIN entries \cup keys |-> IF k \in DOMAIN entries THEN entries[k] ELSE Nothing]

KeysOf(b, modules) == {Key(b, modules[i]) : i \in DOMAIN modules}

UsedBy(b, loaded) == UNION {KeysOf(b, loaded[id].modules) : id \in Ids}

\* retain_used: only what the scripts use stays.
Retained(entries, used) == [k \in DOMAIN entries \cap used |-> entries[k]]

-----------------------------------------------------------------------------
(* A load.                                                                 *)

Idle(e) == build[e] # None /\ pc[e] = "idle"

\* What is transpiled next, and its key.
Current(e) == job[e].modules[Len(done[e]) + 1]
CurrentKey(e) == Key(build[e], Current(e))

Ends(e, how) == /\ pc' = [pc EXCEPT ![e] = "idle"]
                /\ job' = [job EXCEPT ![e] = NoJob]
                /\ done' = [done EXCEPT ![e] = <<>>]
                /\ outcome' = [outcome EXCEPT ![e] = how]
                /\ UNCHANGED <<build, diskVars>>

Begins(e, id, modules, inline) ==
  /\ pc' = [pc EXCEPT ![e] = "lookup"]
  /\ job' = [job EXCEPT ![e] = [id |-> id, modules |-> modules, inline |-> inline]]
  /\ tried' = [tried EXCEPT ![e] = @ \cup KeysOf(build[e], modules)]
  /\ loads < MaxLoads
  /\ loads' = loads + 1
  /\ UNCHANGED <<build, scripts, done, outcome, diskVars>>

\* Engine::load_script.
LoadInline(e, id, s) == /\ Idle(e)
                        /\ Begins(e, id, <<<<InlineType, s>>>>, TRUE)
                        /\ UNCHANGED memo

\* Those of the modules at `asked` that discovery asks for their imports, in the order it
\* visits them: it stops at the first that does not parse.
Visited(b, modules, asked) ==
  {i \in asked : \A j \in asked : j < i => <<b, modules[j]>> \in Parses}

\* Engine::load_project, and reload_changed, up to the end of discovery: a module whose
\* file is unchanged is known from the last one and not asked for its imports.
LoadProject(e, id, modules) ==
  /\ Idle(e)
  /\ \E asked \in SUBSET DOMAIN modules :
       /\ \A i \in DOMAIN modules \ asked : <<build[e], modules[i]>> \in Parses
       /\ LET visited == {modules[i] : i \in Visited(build[e], modules, asked)}
          IN  memo' = [memo EXCEPT ![e] = WithEntries(@, {Key(build[e], m) : m \in visited})]
  /\ IF \A i \in DOMAIN modules : <<build[e], modules[i]>> \in Parses
     THEN Begins(e, id, modules, FALSE)
     ELSE /\ Ends(e, "refused")
          /\ tried' = [tried EXCEPT ![e] = @ \cup KeysOf(build[e], modules)]
          /\ loads < MaxLoads
          /\ loads' = loads + 1
          /\ UNCHANGED scripts

Transpiled(e, js) ==
  /\ done' = [done EXCEPT ![e] = Append(@, js)]
  /\ pc' = [pc EXCEPT ![e] = IF Len(done[e]) + 1 = Len(job[e].modules) THEN "mount" ELSE "lookup"]
  /\ UNCHANGED <<build, scripts, job, outcome, tried>>

InMemo(e) == /\ CurrentKey(e) \in DOMAIN memo[e]
             /\ memo[e][CurrentKey(e)] # Nothing

FromMemo(e) == /\ pc[e] = "lookup"
               /\ InMemo(e)
               /\ Transpiled(e, memo[e][CurrentKey(e)])
               /\ UNCHANGED <<memo, loads, diskVars>>

Remembered(e, js) ==
  memo' = [memo EXCEPT ![e] = [WithEntries(@, {CurrentKey(e)}) EXCEPT ![CurrentKey(e)] = js]]

\* verified_payload.
Verifies(artifact) == artifact.state \in {"unsynced", "synced"}

FromDisk(e) == /\ pc[e] = "lookup"
               /\ ~InMemo(e)
               /\ Verifies(disk[CurrentKey(e)])
               /\ Remembered(e, disk[CurrentKey(e)].js)
               /\ Transpiled(e, disk[CurrentKey(e)].js)
               /\ UNCHANGED <<loads, diskVars>>

\* compile_inline looks for dynamic imports first; compile_module leaves that to discovery.
Compiles(e) == /\ job[e].inline => <<build[e], Current(e)>> \in Parses
               /\ <<build[e], Current(e)>> \in Transforms

\* Missing, damaged, or not to be read now: a miss.
Compile(e) == /\ pc[e] = "lookup"
              /\ ~InMemo(e)
              /\ IF Compiles(e)
                 THEN /\ pc' = [pc EXCEPT ![e] = "store"]
                      /\ UNCHANGED <<build, scripts, memo, job, done, outcome, tried,
                                     loads, diskVars>>
                 ELSE Ends(e, "refused") /\ UNCHANGED <<scripts, memo, tried, loads>>

CompiledNow(e) == <<build[e], Current(e)>>

\* A bug: what was written is renamed before it is synced.
PersistUnsynced(e) == /\ pc[e] = "store"
                      /\ disk' = [disk EXCEPT ![CurrentKey(e)] =
                                    [js |-> CompiledNow(e), state |-> "unsynced"]]
                      /\ damaged' = damaged \ {CurrentKey(e)}
                      /\ Remembered(e, CompiledNow(e))
                      /\ Transpiled(e, CompiledNow(e))
                      /\ UNCHANGED <<loads, stops, damages>>

\* ScriptCache::store: a temporary file, which nobody else looks at, is written, synced
\* and renamed over any older artifact.
Persist(e) == /\ pc[e] = "store"
              /\ disk' = [disk EXCEPT ![CurrentKey(e)] =
                            [js |-> CompiledNow(e), state |-> "synced"]]
              /\ damaged' = damaged \ {CurrentKey(e)}
              /\ Remembered(e, CompiledNow(e))
              /\ Transpiled(e, CompiledNow(e))
              /\ UNCHANGED <<loads, stops, damages>>

\* A step of it fails: the temporary file goes, the module is remembered all the same.
\* Without a cache directory every store is this, and every look at it a miss.
StoreFails(e) == /\ pc[e] = "store"
                 /\ Remembered(e, CompiledNow(e))
                 /\ Transpiled(e, CompiledNow(e))
                 /\ UNCHANGED <<loads, diskVars>>

-----------------------------------------------------------------------------
(* Scripts come and go.                                                    *)

\* A bug: unused modules are forgotten before the new version is swapped in.
ForgetsBefore(e, loaded) ==
  /\ memo' = [memo EXCEPT ![e] = Retained(@, UsedBy(build[e], scripts[e]))]
  /\ tried' = [tried EXCEPT ![e] = {}]

\* forget_unused_modules, when `loaded` are the engine's scripts.
Forgets(e, loaded) ==
  /\ memo' = [memo EXCEPT ![e] = Retained(@, UsedBy(build[e], loaded))]
  /\ tried' = [tried EXCEPT ![e] = {}]

\* mount_graph: the version is swapped in, and the one it replaces retired.
Mount(e) ==
  LET id == job[e].id
      loaded == [scripts[e] EXCEPT ![id] = [modules |-> job[e].modules, js |-> done[e]]]
  IN  /\ pc[e] = "mount"
      /\ scripts' = [scripts EXCEPT ![e] = loaded]
      /\ IF scripts[e][id] = Empty THEN UNCHANGED <<memo, tried>> ELSE Forgets(e, loaded)
      /\ Ends(e, "loaded")
      /\ UNCHANGED loads

MountThrows(e) == /\ pc[e] = "mount"
                  /\ Ends(e, "threw")
                  /\ UNCHANGED <<scripts, memo, tried, loads>>

\* Engine::unload_script.
Unload(e, id) == /\ Idle(e)
                 /\ scripts[e][id] # Empty
                 /\ LET loaded == [scripts[e] EXCEPT ![id] = Empty]
                    IN  scripts' = [scripts EXCEPT ![e] = loaded] /\ Forgets(e, loaded)
                 /\ UNCHANGED <<build, pc, job, done, outcome, loads, diskVars>>

-----------------------------------------------------------------------------
(* Processes and the file system.                                          *)

\* Engine::new, in a process of any build.
Start(e, b) == /\ build[e] = None
               /\ build' = [build EXCEPT ![e] = b]
               /\ UNCHANGED <<scripts, memo, pc, job, done, outcome, tried, loads, diskVars>>

\* The memory of the processes `killed` is lost; a temporary file left behind has a name
\* nobody looks up.
Kill(killed) ==
  LET Lost(f, value) == [e \in Engines |-> IF e \in killed THEN value ELSE f[e]]
  IN  /\ stops < MaxStops
      /\ stops' = stops + 1
      /\ build' = Lost(build, None)
      /\ scripts' = Lost(scripts, NoScripts)
      /\ memo' = Lost(memo, NothingRemembered)
      /\ pc' = Lost(pc, "idle")
      /\ job' = Lost(job, NoJob)
      /\ done' = Lost(done, <<>>)
      /\ outcome' = Lost(outcome, None)
      /\ tried' = Lost(tried, {})

Killed(e) == /\ build[e] # None
             /\ Kill({e})
             /\ UNCHANGED <<disk, loads, damages, damaged>>

\* What is not synced is cut short.  A rename may be undone: what was there before was no
\* artifact, a damaged one, as Damage leaves it, or the same as now.
PowerLoss == /\ Kill(Engines)
             /\ \E undone \in SUBSET {k \in Keys : disk[k] # Missing} :
                  disk' = [k \in Keys |-> IF k \in undone THEN Missing
                                          ELSE IF disk[k].state = "unsynced"
                                               THEN [disk[k] EXCEPT !.state = "cut"]
                                               ELSE disk[k]]
             /\ UNCHANGED <<loads, damages, damaged>>

\* Somebody changes an artifact, or puts something else in its place,
Damage(k) == /\ disk[k] # Missing
             /\ damages < MaxDamage
             /\ damages' = damages + 1
             /\ disk' = [disk EXCEPT ![k] = [js |-> <<"damaged">>, state |-> "cut"]]
             /\ damaged' = damaged \cup {k}
             /\ UNCHANGED <<engineVars, loads, stops>>

\* or deletes it.
Delete(k) == /\ disk[k] # Missing
             /\ damages < MaxDamage
             /\ damages' = damages + 1
             /\ disk' = [disk EXCEPT ![k] = Missing]
             /\ UNCHANGED <<engineVars, loads, stops, damaged>>

-----------------------------------------------------------------------------
Transpile(e) == FromMemo(e) \/ FromDisk(e) \/ Compile(e)

Store(e) == Persist(e) \/ StoreFails(e)

Load(e, id) == \/ \E s \in Inline : LoadInline(e, id, s)
               \/ \E modules \in Projects : LoadProject(e, id, modules)
               \/ Unload(e, id)

Next == \/ \E e \in Engines : \/ Transpile(e) \/ Store(e) \/ Mount(e) \/ MountThrows(e) \/ Killed(e)
                              \/ \E id \in Ids : Load(e, id)
                              \/ \E b \in Builds : Start(e, b)
        \/ PowerLoss
        \/ \E k \in Keys : Damage(k) \/ Delete(k)

Spec == Init /\ [][Next]_vars

-----------------------------------------------------------------------------
(* Properties.                                                             *)

\* The kind of a load is the transpiler's business.
Uncached == INSTANCE UncachedEngines
              WITH job <- [e \in Engines |-> [id |-> job[e].id, modules |-> job[e].modules]],
                   Accepts <- Parses \cap Transforms,
                   Loads <- Projects \cup {<<<<InlineType, s>>>> : s \in Inline}

\* "A cache only saves work": each engine loads and refuses what it would without memo and
\* cache, and runs what its own build compiles from the modules it was given, whatever
\* other engines of other builds store in the directory, and whoever is killed, loses
\* power or damages artifacts in between.
IsUncached == Uncached!Spec

\* An artifact is whole, and of the module and the build its key is made of, also after a
\* kill or a power loss in the middle of any store; only somebody from outside damages it.
ArtifactsWhole ==
  \A k \in Keys \ damaged :
    disk[k] # Missing => /\ Verifies(disk[k])
                         /\ \E b \in Builds, m \in Modules : k = Key(b, m) /\ disk[k].js = <<b, m>>

\* "An Engine remembers in memory the transpiled modules of its loaded scripts, so reloads
\* within one run never transpile an unchanged module", and forgets the rest whenever a
\* version is retired: beyond them it knows only modules of loads that came since.
MemoExact ==
  \A e \in Engines :
    LET used == UsedBy(build[e], scripts[e])
    IN  /\ \A k \in used : k \in DOMAIN memo[e] /\ memo[e][k] # Nothing
        /\ DOMAIN memo[e] \subseteq used \cup tried[e]
=============================================================================
