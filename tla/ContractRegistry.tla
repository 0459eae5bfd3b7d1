-------------------------- MODULE ContractRegistry --------------------------
(* The registry of host contracts (registry/host_contracts/memory.rs and       *)
(* bindings.rs). Threads register contracts in two steps under two locks, the  *)
(* descriptor and then, for a function, its binding, while the engine thread   *)
(* loads a script: it renders the host modules from the descriptors and later  *)
(* installs a snapshot of the bindings as the script's native functions.       *)
(*                                                                             *)
(* An offer is one call to register_*: the contract's name, as the sequence of *)
(* its dotted segments, its kind, the module and path scripts import it from,  *)
(* and the types of what goes in (`ty`: an input, a payload or a context) and  *)
(* of what comes out (`out`: an output or a reply).                            *)
EXTENDS Integers, Sequences, FiniteSets, TLC, SequencesExt

CONSTANTS Offers,       \* the sequences of offers a run may start with
          NameOrder,    \* every contract name, in the order of its text
          MaxLoads      \* how often the script is loaded

\* list() goes through a map: its order is that of finitely many names.
ASSUME NameOrderAssumption == NameOrder \in Seq(Seq(STRING))
ASSUME OffersAssumption == \A made \in Offers : \A i \in DOMAIN made :
                             made[i].name \in {NameOrder[k] : k \in DOMAIN NameOrder}

VARIABLES offers,       \* offers[i] is made by thread i, once
          stage,        \* "idle", "described" or "done", for each offer
          descriptors,  \* by_name of the registry: name |-> the offer it describes
          bindings,     \* by_name of the binding store: name |-> the offer that runs
          script        \* the loaded script, and the load under way

registryVars == <<offers, stage, descriptors, bindings, script>>

IsFunction(i) == offers[i].kind \in {"function", "async"}

\* BTreeMap::insert: a later contract of one name replaces the one before it.
Inserted(store, name, i) ==
  [n \in DOMAIN store \cup {name} |-> IF n = name THEN i ELSE store[n]]

-----------------------------------------------------------------------------
(* import_modules.rs *)

\* list: the descriptors in the order of their names.
Listed == SelectSeq(NameOrder, LAMBDA n : n \in DOMAIN descriptors)

\* binding_for_descriptor and render_host_import_modules, up to the tree of one module:
\* export path |-> offer. A context is not exported, and of two contracts with one path
\* the later name wins.
OfferNamed(k) == descriptors[NameOrder[k]]
Exported(module) ==
  {k \in DOMAIN NameOrder :
     /\ NameOrder[k] \in DOMAIN descriptors
     /\ offers[OfferNamed(k)].module = module
     /\ offers[OfferNamed(k)].kind # "context"
     /\ offers[OfferNamed(k)].path # <<>>}
Latest(indices) == CHOOSE k \in indices : \A j \in indices : j <= k
At(module, path) == {k \in Exported(module) : offers[OfferNamed(k)].path = path}
ModuleTree(module) ==
  [path \in {offers[OfferNamed(k)].path : k \in Exported(module)} |-> OfferNamed(Latest(At(module, path)))]

\* render_node: a contract whose path leads on to others is the `default` of their object.
ExportPath(tree, path) ==
  IF \E other \in DOMAIN tree : path # other /\ IsPrefix(path, other) THEN Append(path, "default") ELSE path
Exports(tree) == [p \in {ExportPath(tree, path) : path \in DOMAIN tree} |->
                    tree[CHOOSE path \in DOMAIN tree : ExportPath(tree, path) = p]]

ModuleNames == {offers[descriptors[n]].module : n \in DOMAIN descriptors}
HostModules == [m \in ModuleNames |-> Exports(ModuleTree(m))]

-----------------------------------------------------------------------------
NoScript == [loads |-> 0, resolving |-> FALSE, modules |-> <<>>, unbound |-> {}, natives |-> <<>>]

RegistryInit ==
  /\ offers \in Offers
  /\ stage = [i \in DOMAIN offers |-> "idle"]
  /\ descriptors = <<>>
  /\ bindings = <<>>
  /\ script = NoScript

\* A bug: the handler is stored before its descriptor.
BindFirst(i) ==
  /\ stage[i] = "idle"
  /\ IF IsFunction(i) THEN /\ bindings' = Inserted(bindings, offers[i].name, i)
                           /\ stage' = [stage EXCEPT ![i] = "described"]
                           /\ UNCHANGED descriptors
                      ELSE /\ descriptors' = Inserted(descriptors, offers[i].name, i)
                           /\ stage' = [stage EXCEPT ![i] = "done"]
                           /\ UNCHANGED bindings
  /\ UNCHANGED <<offers, script>>

\* insert_descriptor: all there is to register for a callback, a request or a context.
Describe(i) ==
  /\ stage[i] = "idle"
  /\ descriptors' = Inserted(descriptors, offers[i].name, i)
  /\ stage' = [stage EXCEPT ![i] = IF IsFunction(i) THEN "described" ELSE "done"]
  /\ UNCHANGED <<offers, bindings, script>>

\* FunctionBindingStore::insert, for a function whose descriptor is in.
Bind(i) ==
  /\ stage[i] = "described"
  /\ bindings' = Inserted(bindings, offers[i].name, i)
  /\ stage' = [stage EXCEPT ![i] = "done"]
  /\ UNCHANGED <<offers, descriptors, script>>

\* install_host_modules, early in a load. `unbound` remembers, for the properties, the
\* functions whose registration is between its two steps.
RenderModules ==
  /\ ~script.resolving
  /\ script.loads < MaxLoads
  /\ script' = [script EXCEPT !.resolving = TRUE,
                              !.modules = HostModules,
                              !.unbound = {offers[i].name : i \in {i \in DOMAIN offers : stage[i] = "described"}}]
  /\ UNCHANGED <<offers, stage, descriptors, bindings>>

\* A bug: the async functions are not installed.
SyncOnly ==
  /\ script.resolving
  /\ script' = [script EXCEPT !.resolving = FALSE, !.loads = @ + 1,
                  !.natives = [n \in {n \in DOMAIN bindings : offers[bindings[n]].kind = "function"} |-> bindings[n]]]
  /\ UNCHANGED <<offers, stage, descriptors, bindings>>

\* install_native_functions: the script owns the bindings of this moment.
InstallNatives ==
  /\ script.resolving
  /\ script' = [script EXCEPT !.resolving = FALSE, !.loads = @ + 1, !.natives = bindings]
  /\ UNCHANGED <<offers, stage, descriptors, bindings>>

RegistryNext ==
  \/ \E i \in DOMAIN offers : Describe(i) \/ Bind(i)
  \/ RenderModules
  \/ InstallNatives

RegistrySpec == RegistryInit /\ [][RegistryNext]_registryVars

-----------------------------------------------------------------------------
\* A native function always has a descriptor to be validated against: the validator
\* lets through whatever has none (memory.rs:284), so a handler stored before its
\* descriptor would run unchecked in a script loaded in between.
NativesDescribed == DOMAIN script.natives \subseteq DOMAIN descriptors

\* What a loaded script imports as a function is installed for it, unless that function
\* was between its two registration steps as the load rendered the modules
\* (lifecycle.rs:161 and :497 read the registry apart): the import of any other would be
\* `undefined` in a load that succeeds.
ImportsInstalled ==
  (script.loads > 0 /\ ~script.resolving) =>
    \A m \in DOMAIN script.modules : \A p \in DOMAIN script.modules[m] :
      LET i == script.modules[m][p]
      IN IsFunction(i) => offers[i].name \in DOMAIN script.natives \cup script.unbound
=============================================================================
