# RustTS in TLA+

RustTS embeds TypeScript in a Rust program: an `Engine` loads scripts, calls their
functions, delivers events, fires timers and hands them host functions, on one thread.
This directory specifies that engine in TLA+. TLC checks every module on small
instances, and TLAPS proves the most important properties for every instance.

The specifications are written from the code (`src/src/**`, the context prelude
`src/assets/context_prelude.js`), read with its tests (`src/tests/**`) and guides
(`src/docs/**`). Paths below leave out the leading `src/src/` where that is clear.
`PROJECT.json` maps every definition to the lines it stands for, and lists the runs, the
mutants that each property refutes, the hazards and the findings.

Contents: [Inventory](#inventory) · [Modules](#modules) · [Runs](#runs) ·
[Fairness](#fairness) · [Proofs](#proofs) · [Findings and limits](#findings-and-known-limits) ·
[What is abstracted](#what-is-abstracted) · [Plan](#plan)

## Inventory

One `Engine` owns one QuickJS runtime and runs on one thread. Concurrency comes from five
places: other threads settle `HostResolver`s, other threads ask for an interrupt, somebody
edits project files, engines of other processes share a cache directory, and JavaScript calls
back into the engine (handlers, timer callbacks, hot reload hooks, host functions) in the
middle of an operation.

| component | state | operations | interacts with |
|---|---|---|---|
| Async host calls (`contract/host_resolver.rs`, `runner/host_promises.rs`, `pump`) | one inbox per script version (`ready`, `cancelled`) under a lock; `Scope::pending`; one wake flag for the engine | call, resolve, reject, drop, pump, cancel | other threads; retiring a version |
| Deferred calls and requests (`runner/tasks.rs`, `engine/host_driven.rs`) | a `PendingCall` per handle, reply slots, tasks and guards per version, `active_tasks` | `call_deferred`, `request_deferred`, harvest, take, cancel | settles after every operation; retiring a version |
| Execution budget and interrupts (`runner/execution.rs`, `runner/interrupt.rs`) | deadline, stop flag, atomic request flag | `enter`, `start_clock`, check, request | every operation that runs JavaScript |
| Script timers (`runner/timers.rs`, prelude) | `live` timers per script, a due time per script, one per engine | `setTimeout`, `setInterval`, `clear…`, `advance_timers` | the budget; callbacks |
| Event handlers and delivery (`runner/events.rs`, prelude, `engine/dispatch.rs`) | a `Map` of lists in JavaScript, a `Vec` of snapshots in Rust | `on`, `off`, `emit` | the budget; groups |
| Lifecycle, groups, module store (`engine/lifecycle.rs`, `runner/module_loader/**`) | loaded scripts in order, groups with counts, environments, sources, resolutions, `host_import` | load, reload, unload, import | every other component is created and dropped here |
| Hot reload (`compiler/project.rs`, `compiler/stamp.rs`, `runner/transpile.rs`) | watched files with stamps, the state of the last discovery, a resolver cache | `load_project`, `reload_changed` | the file system |
| Settling, Promise rejections (`dispatch.rs`, `promise_rejections.rs`) | rejections not handled yet, in order; QuickJS's job queue | await, settle, harvest, forget, take | every operation; deferred handles; QuickJS's rejection tracker |
| Host functions (`runner/host_fn.rs`, `registry/**/bindings.rs`) | a parked panic per thread | call, park, resume | settle, which raises it |
| Transpiler memo and disk cache (`runner/transpile.rs`, `cache/**`) | a memo by content, artifacts on disk | transpile, load, store, `retain_used` | other engines that share the directory |
| Contract registry (`registry/host_contracts/memory.rs`, `bindings.rs`, `import_modules.rs`) | descriptors and bindings, each under a lock | register, render the host modules, install, validate | loads; any thread |
| Schemas and validation (`contract/validation.rs`, `schema.rs`, `bridge.rs`) | none | snapshot, validate | validated calls |
| Derive macros (`rustts_macros/src/**`) | none | read attributes, derive a schema and codecs | schemas, codecs |
| Codecs (`contract/codec/**`, `rustts_macros/src/codec/**`) | none | encode, decode | every crossing between Rust and JavaScript |
| Declarations and SDK (`registry/host_contracts/sdk*`, `declarations.rs`) | none | render | descriptors, schemas |
| Compiler, imports, source maps (`compiler/**`) | none | transpile, resolve, map locations | oxc, oxc_resolver |
| Console, memory statistics, configuration | none that matters here | | |

### What is hard, and what correct means

* **Async host calls.** A pump lowers *one* wake flag for all versions, then looks at the
  inboxes one after the other, while other threads queue answers and raise the flag after
  unlocking. Correct: no answer of a version in use is forgotten, a Promise settles at most
  once and as its host answered, and a retired version keeps nothing alive.
* **Deferred.** Slots fill in any order over many operations; a version may be retired when it
  has answered and another has not. Correct: replies come from loaded versions only, in load
  order, one per slot; a request that has not finished waits for a task that exists; the
  hand-kept task count is exact.
* **Execution.** The clock of a budget starts late, the deadline is a sum of 64-bit integers
  with two reserved values, and a request may arrive between any two steps. Correct:
  JavaScript is stopped neither early nor late, and what stopped it is what is reported.
* **Settling.** A rejection may be handled, awaited or owed to a handle by the time an operation
  ends, in jobs and in getters of values being decoded; a panic waits while scripts catch its
  exception. Correct: an operation fails for each reason that is left, in a fixed order, and the
  next one starts clean.
* **Timers.** Callbacks add and clear timers while the due ones fire, a stop leaves the rest or
  cuts a timer function short, and most calls look at one cached time only. Correct: it behaves
  like the plain service the guide describes, and the cached times are late only for a script
  that was stopped inside `addTimer`.
* **Events.** Handlers change the lists being delivered, their own and those of their group.
  Correct: the snapshots equal the lists, and a delivery calls what was registered.
* **Lifecycle.** Loads fail, or unwind by a panic, at each point where JavaScript runs, after
  some of four structures were changed. Correct: those hold exactly what the loaded versions
  need, and no module sees another graph's modules.
* **Hot reload.** Files change between the stamp, the read, the resolution and the next look.
  Correct: while no change is reported, what runs is what is on the disk.
* **Transpilation cache.** Engines of several builds store and look up artifacts in one directory,
  and are killed in the middle of it. Correct: an engine does what it would without cache.
* **Host contracts.** A contract is registered in two steps under two locks, from any thread,
  while a load reads the two stores at two moments; and one Rust type is read four times
  over: by the codec the macros generate, by the schema they derive, by the validator that
  checks a value against it, and by the predicates of the SDK. Correct: what runs is
  described, what is imported runs, and the four readings agree on every value.

`PROJECT.json` lists the hazards line by line with the properties that would catch each.

## Modules

Each component is a module of its own. They share the shape of the engine: what the engine
thread does between two points where another thread, or a callback, could see the state is
one step. `op`, `pc` and `phase` say where the engine thread is.

| module | models | abstract specification it implements |
|---|---|---|
| `HostPromises` | resolvers, inboxes, wake flag, `pump`, cancel | `OneShotReply` |
| `Deferred` | `tasks.rs`, the operations that start, harvest and cancel | |
| `Execution` | `ExecutionControl` and the operations around JavaScript | |
| `Settling` | jobs, awaited Promises, rejections, deferred replies and parked panics, from an entry to `settle` | |
| `Timers` | prelude timers, `earliest_timer`, `advance_timers` | `TimerService` |
| `EventDispatch` | prelude lists, `ListenedEvents`, `Engine::dispatch` | |
| `Lifecycle` | loads, reloads, unloads, groups, module store | `LoadedScripts` |
| `HotReload` | discovery of a project, stamps, `reload_changed` | |
| `TranspileCache` | the memo, the disk cache and the keys of transpiled modules | `UncachedEngines` |
| `ContractRegistry` | registration, the render of the host modules, installation | |
| `HostNumbers` | numbers: the integer codecs, their JSON and their snapshot | |
| `HostSchemas` | schemas, the snapshot of a JavaScript value, the validator | |
| `DerivedTypes` | serde and `rustts` attributes, the checks of the macros, schemas of types | |
| `HostCodecs` | the codecs of the library and those that are derived | |
| `SdkPredicates` | the predicates the SDK renders | |
| `SdkTrees` | the objects the SDK exports, and what each leads to | |
| `GeneratedTypes` | declarations and SDK: the types they declare and mention | |
| `HostCalls` | a call of a host function between registrations and loads; the data is a parameter | |
| `HostContracts` | the same with the codecs, schemas and predicates of the types; it composes the eight above | |
| `HostPromises_proofs`, `Deferred_proofs`, `Settling_proofs`, `EventDispatch_proofs`, `Lifecycle_proofs`, `TranspileCache_proofs` | the proofs about one module each | |
| `Execution_proofs` | the proofs about what keeps time: `Execution` and `Timers` | |
| `ContractRegistry_proofs` | the proofs about what a load is made from and calls: `ContractRegistry`, with `SdkTrees` and `HostCalls`, and `HotReload` | |
| `MC…` | the instances TLC checks | |

**`HostPromises`.** `ready[v]` and `cancelled[v]` are `InboxState`, `wake` is
`Engine::host_wake`, `pending[v]` is `Scope::pending`. `resolver[c]` is how far the thread
that owns the resolver of call `c` is: `Resolve`, `Encode`, `Push` and `RaiseWake` are the
four things it does that others may come between. `StartPump` lowers the flag, `Skip` and
`Enter` visit one version, `Deliver`, `SettleFails` and `EncoderPanics` handle one answer,
`EndPump` raises the flag again if something may be left. `Retire` and `Cancel` are apart
because `ctx.hot.dispose` callbacks run between them, and may start calls.
`OneShotReply` is what the script was promised; `HostSide` maps a resolver and the verdict
of its push to the abstract host.

**`Deferred`.** `request[r]` is `RequestResults`, `result[h]` the cell of a `PendingCall`,
`tasks[s]` and `guards[s]` are those of `EngineScript`. A delivery is `StartRequest`, one
action per outcome of a handler, `NextScript`, `EndDelivery`, `FinishRequest`; `Harvest` is
`harvest_tasks`, which every settle runs; `Retire` is a reload's or an unload's cancellation.

**`Execution`.** `deadline` keeps the two reserved values of the atomic (`NO_DEADLINE`,
`PENDING`), with `Max` for `u64::MAX`. An operation has phases (a load has up to three, each
with a new budget), a phase has entries into JavaScript, then awaits or settles Promise jobs.
`check` is a history variable: what the last QuickJS check decided, and what was due.

**`Settling`.** `tracked` is `UnhandledRejections`, `parked` the thread's `PANIC`, `tasks` the
Promises deferred handles wait for, `jobs` the length of QuickJS's queue. What scripts do to Promises
(`Fulfil`, `Reject`, `Handle`, `EnqueueJob`, and `HostPanics`) may happen wherever JavaScript runs: in
an entry, in a job of `finish` or of `settle`, in the getters of a value being decoded, and while the
harvest decodes a reply. `EntryAwaits` and `AwaitEnds` are `await_returned`, `StartHarvest` and `Poll`
the harvest, `Outcome` and `Report` what follows it. Promises outlive operations, so that one rejected
or owed in one may be handled in another. A script may override `catch`, with which `Watch` gives a
Promise its handler. `Execution` has the budget of the same loops, `Deferred` the handles.

**`Timers`.** `live[s]` is the prelude's array, in creation order with cancelled timers still
in it, `known[s]` the prelude's own `earliest`, `next[s]` the time it reported through
`schedule`, `earliest` the engine's. QuickJS may stop any of the functions at a call or a branch.
`AddTimer`, `ClearTimer` and `EndRun` are those that run to their end; `AddCut`, `ClearCut`,
`RunCut`, `FireCut`, `SweepCut` and `RescheduleCut` those that are left in between, with every
state a stop may leave: the timer in the array and the time lowered in the prelude but not in the
engine, a timer marked and not deleted from the `Map`, entries moved to the front and not
cut off. A stop takes effect where JavaScript was entered: inside `advance_timers` it ends the
loop over the scripts (`Stopped`), elsewhere the operation that ran the script. `unheard` and
`outdated` are history: the scripts in which a stop left a timer the engine has not heard of, and
those with an old time or a half swept list, until they reschedule. `Doubled(s)` reads
off the array that a stop in the sweep left an entry twice.

**`EventDispatch`.** `lists` is the prelude's `Map`, `heard` the `Vec` of `ListenedEvents`,
whose order a `swap_remove` changes. Between a change of a list and the call of `setHandlers`
there is a QuickJS check: `Changes`, then `Tell` or `StoppedTelling`. A visit serves the
scripts of a group that follow one another.

**`Lifecycle`.** Module ids are pairs of a graph and a name. An operation is cut where
JavaScript runs (`saving`, `importing`, `evaluating`, `disposing`), and there it may succeed,
fail or unwind by the panic of a host function. `LoadedScripts` is the host's view.

**`HotReload`.** A project whose entry imports one request; the configuration maps it to an
ordered list of candidates (`First` of those a resolver sees is the module imported). A module
imports at most that one, so what is left to visit is one `path`; a module visited before,
as in a cycle, is not visited again (`VisitNext`). `Visit`, `Read` and `Resolve` are the three
looks at the disk between which an edit may come.

**`TranspileCache`.** Engines of several builds, each in a process of its own, share `disk`, the
artifacts of a cache directory. A load takes its modules one by one: from `memo`
(`FromMemo`), from the directory (`FromDisk`) or by `Compile`, after which the store succeeds
(`Persist`, one rename) or fails at any of its steps (`StoreFails`). Between any two of these
another engine stores, a process is killed, the machine loses power, or somebody damages or
deletes an artifact. What a store does before its rename is part of `Persist`: the temporary
file has a name nobody else looks up. `UncachedEngines` is the same loads without memo and
cache.

**`ContractRegistry`.** `offers` are the calls of `register_*`, one per thread; `stage[i]` says
which of its steps thread `i` has done. `descriptors` and `bindings` are the two `by_name`
maps. A load renders the host modules (`RenderModules`, from `descriptors`) and installs the
natives later (`InstallNatives`, from `bindings`), with any registrations between.

**`SdkTrees`.** The `ObjectTree`s of the SDK are functions from paths to contracts: `Inserting` adds
contracts in the order of their names, the last of a path stays. `DomainTree` has the functions
and, over them, the aliases of the events; `Place` is where the rendered object has what is bound
at a path, which may be its `default`.

**`HostNumbers`, `HostSchemas`, `DerivedTypes`, `HostCodecs`, `SdkPredicates`, `GeneratedTypes`** have no
variables of their own: they are functions. A JavaScript value is a pair of a kind and its
content, a Rust value likewise; numbers are integers scaled down (`MaxSafe` stands for 2^53 - 1,
`U64Max` for 2^64 - 1) with `odd` ones beside them: a fraction, -0, NaN, an infinity. A type
is written as its declaration is: a container with a shape, fields, and the attributes on each;
`DerivedTypes` resolves the attributes into facts (names, directions, presence), refuses what
the macros refuse, and derives the schema. `HostCodecs!Encode` and `Decode` follow the generated
code: the order of the branches, what flattening leaves over, what a missing key becomes.

**`HostCalls`.** `CallNative`, `CheckInput`, `DecodeInput`, `Handle`, `EncodeOutput` and `CheckOutput`
are the places a call may end at. The native that runs belongs to the load; the contract that
checks it is the one registered under its name at that moment. What the conversions of a value give
and what a schema accepts are constants (`SnapshotOf`, `Reads`, `Writes`, `FitsSchema`): the steps of a
call do not look into it.

**`HostContracts`** defines them, from `HostSchemas`, `HostCodecs` and `GeneratedTypes`, and says of
which types the readings differ by design (`TypeDiffers`, `TypeReadsMore`); the configuration gives
the constants these definitions.

## Runs

All passing runs explore their whole state space; their bounds are constants named in the
modules. "Needs" says what the bounds must allow for the question to be asked at all.

| run | instance | checks | needs |
|---|---|---|---|
| `host_promises_safety` | 2 versions, calls 2 + 1, all faults | `SafetyInv`, refinement `OneShotSpec` | two answers racing in one inbox, another version before or behind the pump |
| `host_promises_delivery` | 2 versions, 1 call each, interrupts | `NoLostWake`, `WaitingCanSettle`, liveness `AnswerReachesScript` | one version answered behind the pump while it is at the other |
| `deferred` | 2 versions, 1 request with 2 handlers each, 1 call, `watch_fails` | `ActiveTasksExact`, `AnswerIsFinal`, `UnfinishedRequestHasTask`, `RepliesOfLoadedVersions`, `RepliesInOrder` | four slots over two versions, of which either is retired first |
| `execution` | all kinds of operation, timeouts 0, 2 and around the reserved values | `StopsExactly`, `SeenStopIsReported`, liveness `DeliveryEnds` | time that passes a deadline, sums that overflow, two entries and a job |
| `settling` | 3 Promises, 2 entries, 2 jobs at once, 2 deferred tasks, an overridden `catch` | `RejectionsReported`, `PanicSurfaces`, `NothingLeaks` | a Promise awaited, one owed to a handle and one rejected beside them; a second operation after a failed one |
| `timers` | 2 scripts with 2 timers and 1, delays and steps 0 and 1, a clock to 1 | `EarliestIsEarly`, `NextIsExact`, refinement `IsTimerService` | a timer added and one cleared by a callback, a script reached after a stop, a stop at each place of `addTimer`, `clearTimer` and the sweep, a list with a timer twice |
| `events` | 4 scripts (two of a group, one alone, one of the group again), 2 events, 2 changes | `SnapshotExact`, `DeliversAsListed`, `CountsServed` | a visit of two scripts, a group split by another script, `swap_remove` of an entry that is not last |
| `lifecycle` | 2 ids, 2 groups, 4 loads | `StoreExact`, `GroupsExact`, `ModulesOfItsOwn`, refinement `IsLoadedScripts` | a reload from one group into another while the first has another member |
| `hot_reload` | entry, two candidates, a configuration, 3 edits | `UnchangedIsFresh`, `FixIsSeen`, `ReportedOnce` | an edit that breaks, one that fixes, one that races |
| `transpile_cache` | 2 engines, 2 builds, 2 ids, 3 loads, 2 kills or power losses, 1 damaged artifact; a text under two source types, of which one build refuses one, and a text with a dynamic import | `ArtifactsWhole`, `MemoExact`, refinement `IsUncached` | an artifact of another build or source type in the way, a restart, a failed load between two others, scripts that share a module |
| `host_contracts` | up to 3 racing registrations, 2 loads, 3 policies, the types of `MCHostCalls` with every value of each | `EveryCallIsChecked`, `ImportsInstalled`, `DeclarationsClosed`, `SdkBindsItsOwn`, `OwnReplyPasses`, `RoundTrip`, `AcceptsWhatDecodes`, `SdkAcceptsReply` | two registrations of one name, a load between the steps of one; each attribute serde and the macros tell apart, alone and where two of them meet |
| `lifecycle_panic` | as `lifecycle`, 3 loads | `GroupGoesWithLastScript`, violated | a panic in a `dispose` callback; see [Findings](#findings-and-known-limits) |

Why the bounds are enough to be meaningful: the hazards are races between two parties, or
between a pass over a list and its element before or behind. Two versions, scripts or groups
give a before and a behind, two elements give an order, and a third (the third call, the
fourth script) gives one the pass has not to touch. `execution` scales 64-bit time down to
`0 .. 9`: only the distance of a sum to the two reserved values and to the wrap-around
decides, and the timeouts 7, 8 and 12 sit on both sides of each. The proofs lift the bounds
where they exist.

`host_contracts` explores the functions by exploring the calls: its initial states choose a small
set of contracts and a policy, each call then takes one of the values of its type, and the
invariants compare the readings of that value. The values of a type are its own and their
neighbours: a key missing, one too many, `null`, `undefined`, the wrong kind, and for numbers
both sides of each range. The types nest one level, which is where two attributes meet
(`flatten` over `skip`, `tag` over a newtype, `default` over `Option`). Where the readings
differ by design, the properties name the shapes (`ConvertsOneWay`, `SkipsElement`,
`Reversible`, `MisreadBySdk`), and [the limits](#findings-and-known-limits) say why.

`CHECK_DEADLOCK FALSE` stands in every configuration, because each system may stop: a host
may run no further operation, and the counters are bounded. `lifecycle` and
`lifecycle_panic` use symmetry (ids and group names are only compared), and so do
`transpile_cache` (engines and ids) and `settling` (Promises); their properties are safety
properties. No other run does.

The type invariants `TypeOK` of the modules are what the proofs start from (`TypeCorrect`); the
runs check what can go wrong with the types right.

Every property of a passing run has a mutant in `PROJECT.json`: a definition, marked
`A bug:` in the module, that replaces one translated from the code and that the property
then refutes. They are there for that and are used by no specification.

### The properties, by what they relate

* Both ends of a hand-over: `NoLostWake` (inbox, flag, pump), `WaitingCanSettle` (Promise,
  held functions, resolver), `SnapshotExact` (list in JavaScript, snapshot in Rust),
  `EarliestIsEarly` (engine, script, timers), `UnfinishedRequestHasTask` (slot, task).
* Bookkeeping kept by hand: `ActiveTasksExact`, `StoreExact`, `GroupsExact`, `CountsServed`.
* A result and the history before it: `RepliesOfLoadedVersions`, `RepliesInOrder`,
  `AnswerIsFinal`, `DeliversAsListed`, `StopsExactly`, `SeenStopIsReported`, `PanicSurfaces`.
* What an operation ends with and all that happened in it: `RejectionsReported`, `NothingLeaks`.
* The program and the world: `UnchangedIsFresh`, `FixIsSeen`, `ReportedOnce`, `ArtifactsWhole`.
* What is remembered and what is used: `MemoExact`.
* Two readings of one type: `OwnReplyPasses` (codec and validator), `AcceptsWhatDecodes`
  (validator and codec), `SdkAcceptsReply` (codec and SDK), `RoundTrip` (both directions).
* What is generated, called and registered: `EveryCallIsChecked` (a call never lacks a contract, and what
  it returned is what its contract accepts), `ImportsInstalled`,
  `DeclarationsClosed` (a declaration mentions declared types only), `SdkBindsItsOwn` (every
  function is exported, and a name leads to the contract it is named after).
* Everything at once, as a refinement: `OneShotSpec`, `IsTimerService`, `IsLoadedScripts`,
  `IsUncached`.

## Fairness

Only two specifications need fairness.

`HostPromises!FairSpec`, for `AnswerReachesScript` (what the inbox accepted reaches the
script, if its version stays):

* weak fairness of `Pumping`: the guide tells hosts to call `pump` from their loop, and a
  pump that runs returns;
* strong fairness of `Skip` and `Enter`: a budget or an interrupt may stop any pump, and the
  next starts again from the first version, so they must not stop every pump at the same one;
* weak fairness of `HandlerReturns`, and of `Mounted` and `Cancel`: a handler, and the rest of
  a load or unload, end;
* weak fairness of what a thread does after it started to settle (`Encode`, `Push`,
  `RaiseWake`): it is straight-line code. Nothing forces a host to settle at all.

`Execution!FairSpec`, for `DeliveryEnds` (with a time limit, `emit` stops entering handlers):

* weak fairness of `Tick`: time passes;
* weak fairness of `Check`: QuickJS looks at its interrupt handler every so many
  interpreter steps, so JavaScript that runs forever reaches a check;
* weak fairness of the engine thread between entries. JavaScript itself need never end.

## Proofs

`tlapm` checks the following for every value of the constants that satisfies the assumptions
named in the modules. No bound of a configuration enters a proof: where a model bounds a clock or a
count (`Execution!MaxTime`, `Timers!MaxClock`, `Lifecycle!MaxLoads`, `HotReload!MaxEdits`), the bound
is a parameter and the theorem holds for each of its values. The one number is `Timers!Infinity`, which
stands for `f64::INFINITY`: every clock plus every delay is below it, and an interval whose next due
time would reach it does not fire in the model.

| theorem | statement |
|---|---|
| `HostPromises_proofs!TypeCorrect`, `Safety` | `Spec => []TypeOK`, `Spec => []SafetyInv` |
| `HostPromises_proofs!NoLostWakeHolds` | `Spec => []NoLostWake`, if no conversion of an answer panics |
| `HostPromises_proofs!WaitingCanSettleHolds` | `Spec => []WaitingCanSettle`, if moreover QuickJS can call the Promise functions |
| `HostPromises_proofs!ImplementsOneShotReply` | `Spec => OneShotSpec` |
| `Execution_proofs!TypeCorrect`, `StopsExactlyHolds` | `Spec => []TypeOK`, `Spec => []StopsExactly` |
| `Execution_proofs!SeenStopIsReportedHolds` | `Spec => []SeenStopIsReported` |
| `Execution_proofs!StopsOnlyWhenDueHolds`, `BudgetEnforcedHolds`, `InterruptedWasAskedHolds` | two parts of `StopsExactly`; that only an operation that ran when the interrupt was asked for reports it |
| `Execution_proofs!TimersTypeCorrect`, `EarliestIsEarlyHolds`, `NextIsExactHolds` | `TimersSpec => []TimersTypeOK` and the two properties of `timers` |
| `Execution_proofs!ImplementsTimerService` | `TimersSpec => IsTimerService` |
| `Deferred_proofs!TypeCorrect`, `ActiveTasksExactHolds`, `AnswerIsFinalHolds`, `UnfinishedRequestHasTaskHolds`, `RepliesInOrderHolds` | `Spec => []TypeOK` and the four invariants of `deferred` |
| `Deferred_proofs!RepliesOfLoadedVersionsHold` | `Spec => RepliesOfLoadedVersions`, an action property |
| `Lifecycle_proofs!TypeCorrect`, `StoreExactHolds`, `GroupsExactHolds`, `ModulesOfItsOwnHolds` | `Spec => []TypeOK` and the three invariants of `lifecycle` |
| `Lifecycle_proofs!ImplementsLoadedScripts` | `Spec => IsLoadedScripts` |
| `Settling_proofs!TypeCorrect`, `RejectionsReportedHolds`, `PanicSurfacesHolds`, `NothingLeaksHolds` | `Spec => []TypeOK` and the three properties of `settling` |
| `EventDispatch_proofs!SpecSnapshotExact` | `Spec => []SnapshotExact` |
| `EventDispatch_proofs!TypeCorrect`, `DeliversAsListedHolds`, `CountsServedHolds` | `Spec => []TypeOK` and the other two invariants of `events` |
| `ContractRegistry_proofs!NativesAreDescribed`, `ImportsAreInstalled` | `RegistrySpec => []NativesDescribed`, `RegistrySpec => []ImportsInstalled` |
| `ContractRegistry_proofs!CallsKeepTheRegistry` | `CallsSpec => RegistrySpec` |
| `ContractRegistry_proofs!CallsTypeCorrect`, `EveryCallIsCheckedHolds` | `CallsSpec => []CallTypes`, `CallsSpec => []EveryCallIsChecked` |
| `ContractRegistry_proofs!NamesTellApart` | each call is checked by its own contract, where no two contracts have one name |
| `ContractRegistry_proofs!OwnReplyPassesHolds`, `AcceptsWhatDecodesHolds` | `CallsSpec => []OwnReplyPasses`, `CallsSpec => []AcceptsWhatDecodes`, if each value that is written, or read, fits the schema of its type (`AnswersFit`, `ArgumentsFit`) |
| `ContractRegistry_proofs!StandInsTellApart`, `LiteralsAreExact` | a snapshot keeps every number, -0 as 0, and a literal of a contract accepts only its own |
| `ContractRegistry_proofs!IntegersCrossExactly`, `JsonNumbersCrossExactly` | an integer of any type, and a number of an untyped boundary, crosses exactly or fails, in both directions |
| `ContractRegistry_proofs!FilesTypeCorrect`, `FixIsSeenHolds`, `ReportedOnceHolds` | `Spec => []TypeOK` of `HotReload`, and two properties of `hot_reload` |
| `ContractRegistry_proofs!UnchangedIsFreshHolds` | `Spec => []UnchangedIsFresh`, if candidates that precede another are next to the entry or above it (`NextToEntry`) |
| `ContractRegistry_proofs!SdkBindsItsOwnHolds` | `RegistrySpec => []SdkBindsItsOwn`, if no segment of a name is `default` (`NoDefaults`) |
| `TranspileCache_proofs!ArtifactsAreWhole`, `MemoIsExact` | `Spec => []ArtifactsWhole`, `Spec => []MemoExact` |
| `TranspileCache_proofs!ImplementsUncached` | `Spec => IsUncached` |

**`HostPromises`.** `SafetyInv` is inductive, given `TypeOK`. It says how the life of a version and the
pump relate (`PhaseInv`: the pump runs between loads), how a resolver's thread, its answer
and the verdict relate (`CallInv`), and that an inbox holds only its own version's accepted
answers and `pending` only Promises that wait (`ScopeInv`). `RetiredHoldsNothing` rests on
them: a push looks at `cancelled` under the lock that `Cancel` takes. `NoLostWake` is inductive
together with `SafetyInv`: when the pump lowers the flag it is before the first version, so
`PumpWillSee` holds for all; when it goes past a version, either that inbox was empty, or
`raise` was set, or the thread that queued since is about to raise the flag. The panic of a
conversion breaks exactly this step, which is why it is excluded by assumption. The
refinement proof maps every step to a step or a stutter of `OneShotReply`; only `Push`
decides the abstract host's side.

**`Execution`.** The invariant adds to the types `ClockInv`: the deadline is `PENDING` exactly
until the clock starts, then the sum with that start (or `NO_DEADLINE` where the sum
reaches a reserved value); and `RequestInv`: a request still standing was made during this operation.
`BudgetEnforced` then compares the same two numbers as the code. For `NextCheckStops`, the third part
of `StopsExactly`, `AskedInv` turns that around: outside loads, a request made during the operation
still stands, because only a new phase clears it. `SeenStopIsReported` needs to know what is behind each
flag of the phase (`SeenInv`): what stopped an entry has failed the phase, a check stopped JavaScript for
a reason that lasts until the phase ends, and entries were left out only after one of the two or on
request.

**`Timers`.** `TimersInv` says of each script that its times are early (`EarlyAt`: the engine's, then
the script's reported one, then the prelude's own, then the timers, unless the script is `unheard`)
and that its own is exact, or the script torn, or the time not in the future (`LooseAt`): a time that is
not in the future is one the next call enters the script for, and its `reschedule` puts it right. Behind
the place the loop over the scripts has reached, and between calls, nothing of a call that was not
stopped is merely loose (`SettledInv`); this is why `NextIsExact` recovers from a stop between timers.
What `runTimers` has left is due and in order (`PendingInv`): a timer that fires was due when the call
began, whatever the callbacks before it did. Where a list has a timer twice, that is said of its first
place, and of a timeout that the first place is fired before the second. In the refinement the
service's due timers are those still to fire from their first place (`StillToFire`); firing from another is
the service's `FireAgain`. A sweep, complete or cut, keeps the same timers alive
(`MovedList`), so that it changes nothing of the service but `doubled`. A script passed over, the sweep
and the end of a run without stop are stutters or forget what was late (`LookThrough`); a call that
returns at once is one with nothing due; a stop, at a check or by request, is the service's `Stop`, or the
stopped form of its `Add` and `Clear`.

**`Deferred`.** A task belongs to one loaded version and to a handle that was started (`OwnedInv`), so a
harvest lowers the count by exactly the tasks it ends. `TaskInv` ties the task of an unfinished request
to a slot that waits and to a guard of the same version; `WatchedInv` is the converse, and the reason
why the host cannot wait for nothing. `AnswerInv` says that an answer is given only when no task is left
that could give another. The order of the replies is that of the slots (`OrderInv`), which are made in
load order. The one assumption on `MaxHandlers` is that it is at least one.

**`Lifecycle`.** The invariant is about sets of versions: those loaded, with the one being retired
(`Counted`) and the one being loaded (`Inserted`). What they need is in the store (`StoreInv`), and while
no panic unwound an operation nothing else is (`NothingElseInv`). The graph ids of the inserted versions
differ and are below `nextGraph` (`VersionInv`), so dropping one version drops nothing of another. Versions
share a context exactly when they are of one group because no two groups have one context, nor a group
that of a script by itself (`ContextInv`); `CountInv` compares a group's count with a cardinality. In the
refinement `Swap` is the load or reload, `Unload` the unload and the end of a retirement the disposal; all
other cuts of an operation, failures and panics before the swap among them, are stutters.

**`Settling`.** `TrackedExact` is the invariant behind `RejectionsReported`: while an operation runs, the
tracked Promises are rejected in it and not handled, every such Promise that the host was not given
is tracked, and one the host was given is still tracked only in a load that has an error of its
own. A Promise is tracked once (`Once`, because it is rejected once), so that `WithoutRemoves` and
`AppendTracked` say what `forget`, a late handler and a rejection do to the list. `PanicInv` ties the
parked panic to the operation, and `JobsInv` says that past the job loop only replies queue jobs.

**`EventDispatch`.** For the copies, `Inv` has the types of both copies, that no event is listed twice
(`Distinct`, without which the position found is not the one), that a hand-over in progress is
of an existing list, and that the copies agree otherwise. The lemmas `LookupPushed`,
`LookupReplaced` and `LookupRemoved` say what each branch of `record` does to every event's
look-up; the last is about `swap_remove`, which moves another event's entry. For a delivery, `DeliveryInv` splits
the scripts at the one being served: those behind have their entries in the log; those ahead have none,
and their lists are as they were unless a handler touched them (`AheadInv`); the one served has its
handlers in a copy of which the last entries of the log are the first (`ServedInv`). Two scripts of a group
that follow one another are one visit, but their entries never mix.

**`ContractRegistry`.** The invariant follows a registration through its steps (`StepsOK`: what has
left `idle` is under its name in `descriptors`, a function that is `done` in `bindings`, and nothing
is bound that is not described), and a load through its two (`PendingOK`: each rendered
function is bound, or was half registered). That what a module exports is always a listed
contract is `RenderedIsListed`, from the way the tree picks the last name of a path; it exists
because there are finitely many (`LatestExists`). The assumptions are that the names have a
finite order (`NameOrderAssumption`) and that it has those of all offers (`OffersAssumption`). `RegistrySpec`
is the registry by itself; `HostCalls` only adds steps that leave it unchanged (`CallsKeepTheRegistry`).

**`HostCalls`.** `CallInv` says what each phase of a call holds: an argument of its type, what the codec
wrote for an answer, and, of a check that was made, what the function's own contract says of the value. The
difficulty is that a check is made against the contract of that moment, and the property speaks of a
later one. `TakenForGood` settles it: a contract that took another's place keeps it, because an offer
is made once, and a function that can be called has been offered (`BoundInv`). So if the contract is
the function's own now, it was at the check. `OwnReplyPasses` and `AcceptsWhatDecodes` are then reduced
to one value at a time (`AnswersFit`, `ArgumentsFit`), for any policies, types and codecs: no
registration, load or order of the steps makes a call fail that its values do not. On the
types of `MCHostCalls` the run shows both: it calls a function of each type with each value under each policy,
with no other contract in the way, and finds the two properties true. That a returned value was accepted
(the last part of `EveryCallIsChecked`) needs no hypothesis. The assumption is that a
policy is three flags (`PoliciesAssumption`).

**`HostNumbers`.** Four theorems about how one number crosses, for any safe range that ends below the
three stand-ins (`SafeRange`) and any range of an integer type. `StandInsTellApart` is what the comment on the
stand-ins claims (`bridge.rs:15`): an integral number outside the safe range stays a float in a snapshot, so
none can be `<<"int", U64Max>>`. `LiteralsAreExact` follows. The only number that does not come back as it
went is -0, which becomes 0. These are the leaves of `RoundTrip` and of the two hypotheses above, and they hold for the
real 2^53 - 1 where the run takes a small `MaxSafe`.

**`SdkTrees`.** `SdkBindsItsOwn` follows from `NamedInv`: a descriptor describes one of the offers, under
that offer's name, whichever thread registered it last. `FunctionTreeIs` and `DomainTreeIs` say what is at a
path of the trees (`InsertingIs` is what inserting does to any tree). Two paths have two places
in the rendered object, since a path that goes to the `default` of its object can only meet one that
ends in a segment `default`. `NoDefaults` excludes that: the code lets a contract be called
`player.default`, and would render the key twice. It also says that no alias is called `default`, of
which the prover knows nothing because a name is made from text (`on` and the segments); `event_alias_path`
makes none.

**`TranspileCache`.** The three theorems rest on one invariant (`InvHolds`). An entry of a memo with a
result, and an artifact that verifies, hold what the build of the key makes of its module, and
it takes that module (`MemoOK`, `DiskOK`). A load in progress has compiled the first of its
modules to just that, and remembers them (`JobOK`): a load that is mounted is therefore what an
engine without cache would mount, and one module the build refuses can have come from neither
memo nor disk. `MemoFits` is `MemoExact`; it survives a retirement because the modules of the
new version are already remembered when `Forgets` looks at what is used. That no artifact is
ever `unsynced` is part of `TypeOK`, and is why a power loss cuts nothing short. The assumptions
are the module's own: the keys have the build in them, a compiler is a function, and a
project's graph is not empty.

**`HotReload`.** `FilesInv` follows what was learned about a file with a stamp through every edit, kept
memo and failed attempt. While a file has the stamp it was read with, it holds what was read (`ReadInv`).
A file missing when it was stamped and read all the same has made its directory change (`ThereInv`). A
resolver's view is right while the configuration and the directories above the entry have the stamps
they were watched with (`ViewInv`), in the memo as in the discovery that takes it over, which is why
`structure_unchanged` may keep the resolutions. `VersionInv` says the same of what runs, and
`UnchangedIsFresh` follows when nothing watched has changed. `NextToEntry` is necessary: where
`v/index.ts` precedes `v.ts` and nothing in `v/` is loaded, TLC finds a new `v/index.ts` unseen (see the
[limits](#findings-and-known-limits)). `CurrentInv` says that an attempt without an edit has stamped what is
there: `FixIsSeen` and `ReportedOnce` rest on it. The assumptions are that a path is a file, a directory or
the configuration (`PathsAssumption`), and that no module is called `None` (`NoneAssumption`).

**Only model-checked.** Liveness (`AnswerReachesScript`, `DeliveryEnds`), out of the prover's reach. Three
properties of `host_contracts` about types and values (`DeclarationsClosed`, `RoundTrip`, `SdkAcceptsReply`), and
the hypotheses of the theorems about two others (`AnswersFit`, `ArgumentsFit`): they are about
functions that are recursive over types, and would need induction over data.

## Findings and known limits

A disagreement between the code and what its documentation says, shown by a run:

* `lifecycle_panic`: after the panic of a host function in a `dispose` callback was caught, the
  group keeps counting a script that is gone, and its context stays
  (`runner/engine/lifecycle.rs:587`).

Limits met on the way that the properties exclude by name:

* `HostPromises`: if QuickJS fails to call a Promise function (`settle_fails`, out of memory),
  that Promise never settles. If the conversion of an answer panics (`encoder_panics`), the
  pump unwinds with the flag lowered (`host_driven.rs:147`), and queued answers wait for
  the next one to raise it. Both faults are in `host_promises_safety` and outside
  `NoLostWake` and `WaitingCanSettle`.
* `Deferred`: a request over two versions, cancelled when the first is retired and taken by the
  host, completes again when the second is retired: `take` gives a second cancellation
  (`runner/tasks.rs:143`), although it promises the result once (`tasks.rs:52`).
  `AnswerIsFinal` says that this is the only way.
* `Deferred`: if observing a returned Promise fails (`watch_fails`; a script may replace
  `Promise.prototype.catch`), the request has a slot nobody fills (`tasks.rs:229`), and stays
  pending. `unwatched` excludes those requests from `UnfinishedRequestHasTask`.
* `Execution`: an interrupt during a handler too short to reach a QuickJS check makes `deliver` and
  `dispatch` leave out the remaining handlers, and `emit` returns `Ok` (`runner/events.rs:146`),
  although `dispatch.rs:108` says that the error is already recorded. `SeenStopIsReported` says that
  this is the only way entries are left out without an error: an interrupt that no check saw.
* `Execution`: each phase of a load forgets interrupt requests made before it
  (`execution.rs:107`), although `interrupt.rs:12` promises to stop the load in progress;
  `NextCheckStops` leaves out loads. A chain of Promise jobs that never ends is not ended
  by the budget, since a check stops one job only; hence `DeliveryEnds` and no more.
* `HotReload`: an edit that races a *failed* reload is taken as seen by the stamps taken after
  it (`lifecycle.rs:215`, against `stamp.rs:28`); `FixIsSeen` excludes raced attempts. A
  `package.json` is stamped after resolution read it (`project.rs:221`); not modelled.
* `HotReload`: with a `paths` fallback, a new file in a directory without loaded modules stays
  unseen by an explicit load as well (`project.rs:99`), although `docs/guides/engine.md:294` asks
  for one. The run checks `UnchangedIsFresh`, and the theorem proves it, for candidates
  next to the entry or above it (`NextToEntry`).
* `EventDispatch`: a stop between the change of a list and `setHandlers` tears the two copies
  (`context_prelude.js:85`, `:97`): a handler removed from the list may stay in the engine's.
  `torn` names those lists, until the next change of the same list heals them.
* `Timers`: a stop in `addTimer` before `schedule` (`context_prelude.js:184`) leaves a live timer the
  engine never hears of, and where the prelude's own time was lowered already, later timers that
  are not earlier stay unheard with it. It is passed over until the script reschedules, although
  `timers.rs:47` says that the engine's time "only ever errs early". `unheard` names those scripts;
  `EarliestIsEarly` says that there is no other way to be late.
* `Timers`: a stop in the sweep (`context_prelude.js:265`) leaves an entry of the array twice, and an
  interval listed twice fires twice in a call, although `host_driven.rs:25` says "at most once per
  call". Only a clear or a reload ends that. The service has it as `FireAgain`, for scripts in
  `doubled` and intervals alone: a timeout is marked when it fires. A stop in `clearTimer` before
  `reschedule` leaves an old time, which is early: the next call that reaches it puts it right.
* Declarations and SDK: a schema without a name is not pushed, and neither are its dependencies
  (`declarations.rs:56`, `sdk.rs:206`): a function over `Vec<Item>` or `Option<Item>` is declared
  with an `Item` that nothing declares, although `docs/guides/generate-sdk-files.md:87` promises the
  input and output types. `DeclarationsClosed` is about contracts that are named or plain
  (`WrittenInFull`).
* SDK names: an event alias replaces a function at its path; two roots that are no identifiers
  both become `sdk`; reserved words and roots called `events`, `models`, `ctx` or `call` collide with
  what the file has already; a context below a root (`player.state`) is not exported by itself,
  while the aggregate refers to its root's constant; a segment `default` meets the `default` of the
  object it is in; a context `player` and a function
  `player.hit` both export `player`. Two contracts imported from one path: the later name wins
  (`import_modules.rs:76`). Two schemas of one name: the first is declared.
* Registry: two threads that register one name may leave the descriptor of one with the handler of
  the other (the two `by_name` locks); a contract that is no function, registered over
  one, lets its calls through unchecked (`memory.rs:295`); a loaded script keeps its handler and
  is checked by the newest descriptor. The properties about values ask that the contract is the
  one called.
* Schema and codec, by design or by omission: a type converted by serde `into` or `from` in one
  direction is described by the other type and crosses as itself (`model.rs:145`,
  `ConvertsOneWay`); a tuple's element skipped in one direction stays in the schema
  (`SkipsElement`); aliases and the second name of a one-sided rename decode and are refused
  by a check (`NamedOnce`); a missing `()` or `Json` decodes, against the comment at `derive.rs:74`;
  a flattened map beside another flattened field sees the same keys, unlike in serde
  (`shape.rs:207`, `SharesFlattened`); a newtype of `()` merged into an internal tag does not
  read back. A snapshot takes `undefined` for null and a function for `{}`, and fails for
  symbols; the codecs take all three for absent.
* SDK predicates: `()` is asked to be `undefined` and crosses as `null`, a tagged enum without fields
  is asked to be a string, and NaN and the infinities are refused (`MisreadBySdk`).
* `TranspileCache`: a failed load leaves its modules in the memo until some version is retired
  (`transpile.rs:186`), so a session of edits that all fail does grow it, although
  `lifecycle.rs:613` says that editing files does not. `MemoExact` allows for it (`tried`).
  That a source type is the file extension is the assumption of `cache/identity.rs:9`;
  whether the compiler reads `x.d.ts` differently from `x.ts` is its own business.
* `Settling`: deferred replies are decoded after the job loop (`dispatch.rs:246`), so a getter that
  queues a job leaves it to the next operation, although `dispatch.rs:228` says that nothing leaks
  into it. `late` counts those jobs, and `NothingLeaks` allows for no others.

## What is abstracted

* Values, payloads, messages and error texts; encodings appear only as steps that may fail.
* QuickJS: JavaScript is a choice of the calls it may make. A stop of code the engine entered
  unwinds it, uncatchable; a stopped Promise job ends with an error or a rejection. Host
  functions that panic are in `Settling`, in `Lifecycle` and, as conversions, in `HostPromises`;
  no host function runs an operation of another engine. The reason of a rejection is described
  without running script code.
* Time: naturals up to a bound. `Timers` lets the engine's clock jump by any of `Steps`. In the run an
  interval is late by one period at most; that one late by several stays in phase is part of the
  refinement, and proved for all steps.
* Timer callbacks call the timer functions of their own script only. A function that one script of a
  group hands to another is not followed. An id that a stop leaves unused (before `live.push`) changes
  nothing else and is left out; that a stop before `byId.set` leaves a timer no clear finds is one
  that is never cleared.
* The file system: a stamp identifies an edit. Edits that keep size and modification time are
  the known limit of stamps and are left out.
* Memory: reference counts and finalizers. Allocation failure appears as the faults above.
* `request` differs from `emit` in what it does with returned values only; `Execution` and
  `Settling` have that.

* Names, types and texts of contracts: those of `MCHostCalls`. Words and rename rules are sequences of
  words, so that `rename_all` is modelled by what it does; letters are not.

Not modelled, and why:

* fields that go through `serde_json` (`json`, `with`) and the codecs of `chrono`, `uuid` and
  `glam`: what they do is the other crate's; a type that uses one is excluded from `RoundTrip`;
* the fast paths of the codecs (small integers, borrowed strings, arrays read in place) and
  their unsafe memory access: questions about memory, with the results of the plain path;
* parsing and quoting of tokens in the macros, generics, and the text around what is generated;
* conversion of segments to identifiers (`sdk/ident.rs`) and files written by `rustts-sdk`;
* transpilation (oxc), source maps, console, memory statistics and configuration: the first
  is external, the others have no behaviour of their own that a step could contradict.

## Plan

Done: the modules above, with eight proof modules. Next, in this order:

1. **Resolution** (`compiler/resolver.rs`): several modules and `package.json` in `HotReload`.
2. **Source maps** (`source_map.rs`): encoding and decoding as inverses.

Proofs to add: that a declaration mentions declared types only, and that a schema accepts what
the codec writes, for the types that are not recursive.
