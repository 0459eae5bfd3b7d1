----------------------- MODULE ContractRegistry_proofs -----------------------
(***************************************************************************)
(* Proofs about what a load is made from, and about calls.                 *)
(*                                                                         *)
(* ContractRegistry, for any offers, any order of the names and any number *)
(* of loads: the natives a load gets and the modules it may import.        *)
(* SdkTrees, the same: the SDK generated of what is registered.            *)
(*                                                                         *)
(* HostCalls, for any types, codecs and policies: the contract a call is   *)
(* checked against while others are registered.                            *)
(*                                                                         *)
(* HostNumbers, for any safe range: how a number crosses the boundary.     *)
(*                                                                         *)
(* HotReload, for any files, directories, configurations and edits: what   *)
(* reload_changed watches tells whether the loaded version is still that   *)
(* of the files.                                                           *)
(***************************************************************************)
EXTENDS SdkTrees, HostCalls, HostNumbers, HotReload, FiniteSetTheorems, WellFoundedInduction, TLAPS

-----------------------------------------------------------------------------
(* The last of the contracts with one path.                                *)

LEMMA LatestExists ==
  ASSUME NEW bound \in Nat, NEW indices, indices \subseteq 1 .. bound, indices # {}
  PROVE  Latest(indices) \in indices
<1> DEFINE After(k) == {j \in indices : j > k}
           Tails == {After(k) : k \in indices}
           Shrinks == StrictSubsetOrdering(indices)
<1>1. IsFiniteSet(indices)
  BY FS_Interval, FS_Subset, 1 \in Int, bound \in Int
<1>2. IsWellFoundedOn(Shrinks, SUBSET indices)
  BY <1>1, FS_StrictSubsetOrderingWellFounded, FS_FiniteSubsetsOfFinite
<1>3. Tails \subseteq SUBSET indices /\ Tails # {}
  BY Zenon
<1>4. PICK least \in Tails : \A tail \in Tails : ~(<<tail, least>> \in Shrinks)
  <2> HIDE DEF Tails, Shrinks
  <2> QED
    BY <1>2, <1>3, WFMin, Zenon
<1>5. PICK k \in indices : least = After(k)
  BY <1>4
<1>6. ASSUME NEW j \in indices, j > k PROVE FALSE
  <2>1. \A i \in indices : i \in Int
    OBVIOUS
  <2>2. After(j) \subseteq After(k)
    <3>1. ASSUME NEW i \in indices, i > j PROVE i > k
      BY <1>6, <2>1, <3>1
    <3> QED
      BY <3>1, Zenon
  <2>3. j \in After(k) /\ j \notin After(j)
    BY <1>6, <2>1
  <2>4. <<After(j), After(k)>> \in Shrinks
    BY <2>2, <2>3 DEF StrictSubsetOrdering
  <2> QED
    BY <1>4, <1>5, <2>4
<1>7. \A j \in indices : j <= k
  BY <1>6
<1> QED
  BY <1>7 DEF Latest

\* A rendered export is a contract the registry describes.
LEMMA RenderedIsListed ==
  ASSUME NEW m \in DOMAIN HostModules, NEW p \in DOMAIN HostModules[m]
  PROVE  \E n \in DOMAIN descriptors : HostModules[m][p] = descriptors[n]
<1> DEFINE tree == ModuleTree(m)
<1>1. HostModules[m] = Exports(tree)
  BY DEF HostModules
<1>2. PICK named \in DOMAIN tree : HostModules[m][p] = tree[named]
  <2> HIDE DEF tree
  <2> QED
    BY <1>1 DEF Exports
<1>3. named \in {offers[OfferNamed(k)].path : k \in Exported(m)}
  BY <1>2, Zenon DEF ModuleTree
<1>4. At(m, named) # {} /\ At(m, named) \subseteq DOMAIN NameOrder
  BY <1>3, Zenon DEF At, Exported
<1>5. Len(NameOrder) \in Nat /\ DOMAIN NameOrder = 1 .. Len(NameOrder)
  BY NameOrderAssumption
<1>6. Latest(At(m, named)) \in At(m, named)
  BY <1>4, <1>5, LatestExists
<1>7. NameOrder[Latest(At(m, named))] \in DOMAIN descriptors
  BY <1>6, Zenon DEF At, Exported
<1>8. tree[named] = OfferNamed(Latest(At(m, named)))
  BY <1>3, Zenon DEF ModuleTree
<1> QED
  BY <1>2, <1>7, <1>8 DEF OfferNamed

-----------------------------------------------------------------------------
(* The inductive invariant, one part at a time.                            *)

\* The fields of the script, which the actions change one by one.
ScriptOK == script = [loads |-> script.loads, resolving |-> script.resolving,
                      modules |-> script.modules, unbound |-> script.unbound,
                      natives |-> script.natives]

\* What the two steps of a registration leave behind, and in which order.
StepsOK ==
  /\ stage \in [DOMAIN offers -> {"idle", "described", "done"}]
  /\ \A i \in DOMAIN offers : stage[i] # "idle" => offers[i].name \in DOMAIN descriptors
  /\ \A i \in DOMAIN offers : stage[i] = "done" /\ IsFunction(i) => offers[i].name \in DOMAIN bindings
  /\ \A n \in DOMAIN descriptors : /\ descriptors[n] \in DOMAIN offers
                                   /\ stage[descriptors[n]] # "idle"
  /\ DOMAIN bindings \subseteq DOMAIN descriptors

\* A function among the rendered exports is bound, or was between its steps.
RenderedOK(installed) ==
  \A m \in DOMAIN script.modules : \A p \in DOMAIN script.modules[m] :
    LET i == script.modules[m][p]
    IN IsFunction(i) => offers[i].name \in installed \cup script.unbound

\* Between rendering and installing, the bindings hold what the natives will.
PendingOK == script.resolving => RenderedOK(DOMAIN bindings)

RegistryInv == ScriptOK /\ StepsOK /\ PendingOK /\ NativesDescribed /\ ImportsInstalled

LEMMA ScriptStep == ScriptOK /\ RegistryNext => ScriptOK'
<1> SUFFICES ASSUME ScriptOK, RegistryNext PROVE ScriptOK'
  OBVIOUS
<1>1. ASSUME NEW i \in DOMAIN offers, Describe(i) \/ Bind(i) PROVE ScriptOK'
  BY <1>1 DEF Describe, Bind, ScriptOK
<1>2. CASE RenderModules
  BY <1>2 DEF RenderModules, ScriptOK
<1>3. CASE InstallNatives
  BY <1>3 DEF InstallNatives, ScriptOK
<1> QED
  BY <1>1, <1>2, <1>3 DEF RegistryNext

LEMMA StepsStep == StepsOK /\ RegistryNext => StepsOK'
<1> SUFFICES ASSUME StepsOK, RegistryNext PROVE StepsOK'
  OBVIOUS
<1>1. ASSUME NEW i \in DOMAIN offers, Describe(i) PROVE StepsOK'
  BY <1>1 DEF Describe, StepsOK, IsFunction, Inserted
<1>2. ASSUME NEW i \in DOMAIN offers, Bind(i) PROVE StepsOK'
  BY <1>2 DEF Bind, StepsOK, IsFunction, Inserted
<1>3. CASE RenderModules
  BY <1>3 DEF RenderModules, StepsOK, IsFunction
<1>4. CASE InstallNatives
  BY <1>4 DEF InstallNatives, StepsOK, IsFunction
<1> QED
  BY <1>1, <1>2, <1>3, <1>4 DEF RegistryNext

LEMMA PendingStep == RegistryInv /\ RegistryNext => PendingOK'
<1> SUFFICES ASSUME RegistryInv, RegistryNext PROVE PendingOK'
  OBVIOUS
<1>1. ASSUME NEW i \in DOMAIN offers, Describe(i) PROVE PendingOK'
  BY <1>1 DEF Describe, RegistryInv, PendingOK, RenderedOK, IsFunction
<1>2. ASSUME NEW i \in DOMAIN offers, Bind(i) PROVE PendingOK'
  BY <1>2 DEF Bind, RegistryInv, PendingOK, RenderedOK, IsFunction, Inserted
<1>3. CASE RenderModules
  <2>1. script'.modules = HostModules
    BY <1>3 DEF RegistryInv, ScriptOK, RenderModules
  <2>2. script'.unbound = {offers[i].name : i \in {i \in DOMAIN offers : stage[i] = "described"}}
    BY <1>3 DEF RegistryInv, ScriptOK, RenderModules
  <2>3. ASSUME NEW m \in DOMAIN HostModules, NEW p \in DOMAIN HostModules[m],
               IsFunction(HostModules[m][p])
        PROVE  offers[HostModules[m][p]].name \in DOMAIN bindings \cup script'.unbound
    <3>1. PICK n \in DOMAIN descriptors : HostModules[m][p] = descriptors[n]
      BY RenderedIsListed
    <3> HIDE DEF IsFunction
    <3> QED
      BY <2>2, <2>3, <3>1 DEF RegistryInv, StepsOK
  <2>4. offers' = offers /\ bindings' = bindings
    BY <1>3 DEF RenderModules
  <2> QED
    BY <2>1, <2>3, <2>4 DEF PendingOK, RenderedOK, IsFunction
<1>4. CASE InstallNatives
  BY <1>4 DEF InstallNatives, RegistryInv, ScriptOK, PendingOK
<1> QED
  BY <1>1, <1>2, <1>3, <1>4 DEF RegistryNext

LEMMA NativesStep == RegistryInv /\ RegistryNext => NativesDescribed'
<1> SUFFICES ASSUME RegistryInv, RegistryNext PROVE NativesDescribed'
  OBVIOUS
<1> USE DEF RegistryInv, NativesDescribed
<1>1. ASSUME NEW i \in DOMAIN offers, Describe(i) PROVE NativesDescribed'
  BY <1>1 DEF Describe, Inserted
<1>2. ASSUME NEW i \in DOMAIN offers, Bind(i) PROVE NativesDescribed'
  BY <1>2 DEF Bind
<1>3. CASE RenderModules
  BY <1>3 DEF RenderModules, ScriptOK
<1>4. CASE InstallNatives
  BY <1>4 DEF InstallNatives, ScriptOK, StepsOK
<1> QED
  BY <1>1, <1>2, <1>3, <1>4 DEF RegistryNext

LEMMA ImportsStep == RegistryInv /\ RegistryNext => ImportsInstalled'
<1> SUFFICES ASSUME RegistryInv, RegistryNext PROVE ImportsInstalled'
  OBVIOUS
<1> USE DEF RegistryInv, ImportsInstalled
<1>1. ASSUME NEW i \in DOMAIN offers, Describe(i) \/ Bind(i) PROVE ImportsInstalled'
  BY <1>1 DEF Describe, Bind, IsFunction
<1>2. CASE RenderModules
  BY <1>2 DEF RenderModules, ScriptOK
<1>3. CASE InstallNatives
  <2>1. /\ script.resolving
        /\ script'.modules = script.modules /\ script'.unbound = script.unbound
        /\ script'.natives = bindings
        /\ offers' = offers
    BY <1>3 DEF InstallNatives, ScriptOK
  <2>2. RenderedOK(DOMAIN bindings)
    BY <2>1 DEF PendingOK
  <2> QED
    BY <2>1, <2>2 DEF RenderedOK, IsFunction
<1> QED
  BY <1>1, <1>2, <1>3 DEF RegistryNext

THEOREM RegistryInvariant == RegistrySpec => []RegistryInv
<1>1. RegistryInit => RegistryInv
  BY DEF RegistryInit, RegistryInv, NoScript, ScriptOK, StepsOK, PendingOK, NativesDescribed, ImportsInstalled
<1>2. RegistryInv /\ [RegistryNext]_registryVars => RegistryInv'
  <2> SUFFICES ASSUME RegistryInv, [RegistryNext]_registryVars PROVE RegistryInv'
    OBVIOUS
  <2>1. CASE RegistryNext
    BY <2>1, ScriptStep, StepsStep, PendingStep, NativesStep, ImportsStep DEF RegistryInv
  <2>2. CASE UNCHANGED registryVars
    BY <2>2 DEF registryVars, RegistryInv, ScriptOK, StepsOK, PendingOK, RenderedOK,
                NativesDescribed, ImportsInstalled, IsFunction
  <2> QED
    BY <2>1, <2>2
<1> QED
  BY <1>1, <1>2, PTL DEF RegistrySpec

-----------------------------------------------------------------------------
(* What the registry promises a loaded script.                             *)

\* Every native function of a script has a contract to be checked against, whichever
\* steps the registering threads are between (memory.rs:284 lets the others through).
THEOREM NativesAreDescribed == RegistrySpec => []NativesDescribed
<1>1. RegistryInv => NativesDescribed
  BY DEF RegistryInv
<1> QED
  BY <1>1, RegistryInvariant, PTL

\* A function a script imports is installed for it, unless it was half registered as
\* the load rendered the host modules (lifecycle.rs:161 and :497).
THEOREM ImportsAreInstalled == RegistrySpec => []ImportsInstalled
<1>1. RegistryInv => ImportsInstalled
  BY DEF RegistryInv
<1> QED
  BY <1>1, RegistryInvariant, PTL

-----------------------------------------------------------------------------
(* SdkTrees.                                                               *)

\* An object may have a `default` of its own: no segment of a name, and none of an alias
\* (they start with `on`), is called that.
NoDefaults == \A k \in DOMAIN NameOrder :
  /\ NameOrder[k] # <<>>
  /\ \A i \in DOMAIN NameOrder[k] : NameOrder[k][i] # "default"
  /\ AliasPath(NameOrder[k])[2] # "default"

\* Who is described is one of the offers, under its name.
NamedInv == /\ offers \in Offers
            /\ \A n \in DOMAIN descriptors : /\ descriptors[n] \in DOMAIN offers
                                             /\ offers[descriptors[n]].name = n

LEMMA SpecKeepsNamedInv == RegistrySpec => []NamedInv
<1>1. RegistryInit => NamedInv
  BY DEF RegistryInit, NamedInv
<1>2. NamedInv /\ [RegistryNext]_registryVars => NamedInv'
  <2> SUFFICES ASSUME NamedInv, [RegistryNext]_registryVars PROVE NamedInv'
    OBVIOUS
  <2>1. ASSUME NEW i \in DOMAIN offers, Describe(i) PROVE NamedInv'
    BY <2>1 DEF Describe, Inserted, NamedInv
  <2>2. ASSUME UNCHANGED <<offers, descriptors>> PROVE NamedInv'
    BY <2>2 DEF NamedInv
  <2> QED
    BY <2>1, <2>2 DEF RegistryNext, Bind, RenderModules, InstallNatives, registryVars
<1> QED
  BY <1>1, <1>2, PTL DEF RegistrySpec

LEMMA NamesListed ==
  ASSUME NamedInv, NEW n \in DOMAIN descriptors
  PROVE  \E k \in DOMAIN NameOrder : NameOrder[k] = n
BY OffersAssumption DEF NamedInv

\* The last contract inserted at a path is one of them.
LEMMA InsertingIs ==
  ASSUME NEW tree, NEW paths, DOMAIN paths \subseteq DOMAIN NameOrder, NEW sort,
         NEW added, added = Inserting(tree, paths, sort)
  PROVE  /\ \A p : p \in DOMAIN added <=> p \in DOMAIN tree \/ \E k \in DOMAIN paths : paths[k] = p
         /\ \A p \in DOMAIN added :
              IF InsertedAt(paths, p) = {} THEN added[p] = tree[p]
              ELSE \E k \in DOMAIN paths :
                     paths[k] = p /\ added[p] = [kind |-> sort, name |-> NameOrder[k]]
<1>1. /\ DOMAIN added = DOMAIN tree \cup {paths[k] : k \in DOMAIN paths}
      /\ \A p \in DOMAIN added :
           added[p] = IF InsertedAt(paths, p) = {} THEN tree[p]
                      ELSE [kind |-> sort, name |-> NameOrder[Latest(InsertedAt(paths, p))]]
  BY DEF Inserting
<1>2. Len(NameOrder) \in Nat /\ DOMAIN NameOrder = 1 .. Len(NameOrder)
  BY NameOrderAssumption
<1>3. ASSUME NEW p \in DOMAIN added, InsertedAt(paths, p) # {}
      PROVE  \E k \in DOMAIN paths :
               paths[k] = p /\ added[p] = [kind |-> sort, name |-> NameOrder[k]]
  <2>1. InsertedAt(paths, p) \subseteq 1 .. Len(NameOrder)
    BY <1>2 DEF InsertedAt
  <2>2. Latest(InsertedAt(paths, p)) \in InsertedAt(paths, p)
    BY <1>2, <1>3, <2>1, LatestExists
  <2>3. Latest(InsertedAt(paths, p)) \in DOMAIN paths /\ paths[Latest(InsertedAt(paths, p))] = p
    BY <2>2 DEF InsertedAt
  <2> QED
    BY <1>1, <1>3, <2>3
<1>4. ASSUME NEW p \in DOMAIN added, InsertedAt(paths, p) = {} PROVE added[p] = tree[p]
  BY <1>1, <1>4
<1>5. \A p : p \in DOMAIN added <=> p \in DOMAIN tree \/ \E k \in DOMAIN paths : paths[k] = p
  BY <1>1
<1> QED
  BY <1>3, <1>4, <1>5

LEMMA OwnPathsAre ==
  ASSUME NEW kinds
  PROVE  /\ DOMAIN OwnPaths(kinds) \subseteq DOMAIN NameOrder
         /\ \A k \in DOMAIN NameOrder :
              k \in DOMAIN OwnPaths(kinds) <=> /\ NameOrder[k] \in DOMAIN descriptors
                                               /\ offers[descriptors[NameOrder[k]]].kind \in kinds
         /\ \A k \in DOMAIN OwnPaths(kinds) : OwnPaths(kinds)[k] = NameOrder[k]
BY DEF OwnPaths, OfferNamed

\* A function is at its own path, and nothing else is in its tree.
LEMMA FunctionTreeIs ==
  ASSUME NamedInv
  PROVE  /\ \A n \in DOMAIN descriptors : IsFunction(descriptors[n]) => n \in DOMAIN FunctionTree
         /\ \A p \in DOMAIN FunctionTree : /\ \E k \in DOMAIN NameOrder : p = NameOrder[k]
                                           /\ FunctionTree[p] = [kind |-> "function", name |-> p]
<1> DEFINE paths == OwnPaths({"function", "async"})
           none == <<>>
<1>1. /\ DOMAIN paths \subseteq DOMAIN NameOrder
      /\ \A k \in DOMAIN NameOrder :
           k \in DOMAIN paths <=> /\ NameOrder[k] \in DOMAIN descriptors
                                  /\ offers[descriptors[NameOrder[k]]].kind \in {"function", "async"}
      /\ \A k \in DOMAIN paths : paths[k] = NameOrder[k]
  BY OwnPathsAre
<1>2. FunctionTree = Inserting(none, paths, "function") /\ DOMAIN none = {}
  BY DEF FunctionTree
<1> HIDE DEF paths, none
<1>3. /\ \A p : p \in DOMAIN FunctionTree <=> \E k \in DOMAIN paths : paths[k] = p
      /\ \A p \in DOMAIN FunctionTree :
           InsertedAt(paths, p) # {} =>
             \E k \in DOMAIN paths :
               /\ paths[k] = p
               /\ FunctionTree[p] = [kind |-> "function", name |-> NameOrder[k]]
  <2>1. \A added : added = Inserting(none, paths, "function") =>
          /\ \A p : p \in DOMAIN added <=> p \in DOMAIN none \/ \E k \in DOMAIN paths : paths[k] = p
          /\ \A p \in DOMAIN added :
               IF InsertedAt(paths, p) = {} THEN added[p] = none[p]
               ELSE \E k \in DOMAIN paths :
                      /\ paths[k] = p
                      /\ added[p] = [kind |-> "function", name |-> NameOrder[k]]
    BY <1>1, InsertingIs
  <2> QED
    BY <1>2, <2>1
<1>4. ASSUME NEW n \in DOMAIN descriptors, IsFunction(descriptors[n]) PROVE n \in DOMAIN FunctionTree
  <2>1. PICK k \in DOMAIN NameOrder : NameOrder[k] = n
    BY NamesListed
  <2>2. k \in DOMAIN paths /\ paths[k] = n
    BY <1>1, <1>4, <2>1 DEF IsFunction
  <2> QED
    BY <1>3, <2>2
<1>5. ASSUME NEW p \in DOMAIN FunctionTree
      PROVE  /\ \E k \in DOMAIN NameOrder : p = NameOrder[k]
             /\ FunctionTree[p] = [kind |-> "function", name |-> p]
  <2>1. PICK k \in DOMAIN paths : paths[k] = p
    BY <1>3
  <2>2. InsertedAt(paths, p) # {}
    BY <2>1 DEF InsertedAt
  <2> QED
    BY <1>1, <1>3, <2>2
<1> QED
  BY <1>4, <1>5

LEMMA AliasPathsAre ==
  /\ DOMAIN AliasPaths \subseteq DOMAIN NameOrder
  /\ \A k \in DOMAIN AliasPaths : /\ AliasPaths[k] = AliasPath(NameOrder[k])
                                  /\ NameOrder[k] \in AliasesTo(AliasPaths[k])
  /\ NamedInv => \A p : \A n \in AliasesTo(p) : \E k \in DOMAIN AliasPaths : AliasPaths[k] = p
<1> DEFINE events == OwnPaths({"callback", "request"})
<1>1. /\ DOMAIN events \subseteq DOMAIN NameOrder
      /\ \A k \in DOMAIN NameOrder :
           k \in DOMAIN events <=> /\ NameOrder[k] \in DOMAIN descriptors
                                   /\ offers[descriptors[NameOrder[k]]].kind \in {"callback", "request"}
  BY OwnPathsAre
<1>2. AliasPaths = [k \in {k \in DOMAIN events : Len(NameOrder[k]) > 1} |-> AliasPath(NameOrder[k])]
  BY DEF AliasPaths
<1> HIDE DEF events
<1>3. /\ \A k : k \in DOMAIN AliasPaths <=> k \in DOMAIN events /\ Len(NameOrder[k]) > 1
      /\ \A k \in DOMAIN AliasPaths : AliasPaths[k] = AliasPath(NameOrder[k])
  BY <1>2
<1>4. ASSUME NamedInv, NEW p, NEW n \in AliasesTo(p)
      PROVE  \E k \in DOMAIN AliasPaths : AliasPaths[k] = p
  <2>1. /\ n \in DOMAIN descriptors /\ offers[descriptors[n]].kind \in {"callback", "request"}
        /\ Len(n) > 1 /\ AliasPath(n) = p
    BY <1>4 DEF AliasesTo
  <2>2. PICK k \in DOMAIN NameOrder : NameOrder[k] = n
    BY <1>4, <2>1, NamesListed
  <2> QED
    BY <1>1, <1>3, <2>1, <2>2
<1>5. \A k \in DOMAIN AliasPaths : NameOrder[k] \in AliasesTo(AliasPaths[k])
  BY <1>1, <1>3 DEF AliasesTo
<1> QED
  BY <1>1, <1>3, <1>4, <1>5

LEMMA DomainTreeHas ==
  /\ \A p : p \in DOMAIN DomainTree <=>
       p \in DOMAIN FunctionTree \/ \E k \in DOMAIN AliasPaths : AliasPaths[k] = p
  /\ \A p \in DOMAIN DomainTree :
       IF InsertedAt(AliasPaths, p) = {} THEN DomainTree[p] = FunctionTree[p]
       ELSE \E k \in DOMAIN AliasPaths :
              /\ AliasPaths[k] = p
              /\ DomainTree[p] = [kind |-> "event", name |-> NameOrder[k]]
<1>1. DOMAIN AliasPaths \subseteq DOMAIN NameOrder
  BY AliasPathsAre
<1>2. DomainTree = Inserting(FunctionTree, AliasPaths, "event")
  BY DEF DomainTree
<1> QED
  BY <1>1, <1>2, InsertingIs

\* What is at a path of the SDK: its own function, or an event with its alias there.
LEMMA DomainTreeIs ==
  ASSUME NamedInv, NEW p \in DOMAIN DomainTree
  PROVE  /\ IF AliasesTo(p) # {} THEN /\ DomainTree[p].kind = "event"
                                      /\ DomainTree[p].name \in AliasesTo(p)
                                 ELSE DomainTree[p] = [kind |-> "function", name |-> p]
         /\ \E k \in DOMAIN NameOrder : p = NameOrder[k] \/ p = AliasPath(NameOrder[k])
<1>1. /\ p \in DOMAIN FunctionTree \/ \E k \in DOMAIN AliasPaths : AliasPaths[k] = p
      /\ IF InsertedAt(AliasPaths, p) = {} THEN DomainTree[p] = FunctionTree[p]
         ELSE \E k \in DOMAIN AliasPaths :
                /\ AliasPaths[k] = p
                /\ DomainTree[p] = [kind |-> "event", name |-> NameOrder[k]]
  BY DomainTreeHas
<1>2. CASE AliasesTo(p) # {}
  <2>1. InsertedAt(AliasPaths, p) # {}
    BY <1>2, AliasPathsAre DEF InsertedAt
  <2>2. PICK k \in DOMAIN AliasPaths : /\ AliasPaths[k] = p
                                       /\ DomainTree[p] = [kind |-> "event", name |-> NameOrder[k]]
    BY <1>1, <2>1
  <2>3. NameOrder[k] \in AliasesTo(p) /\ k \in DOMAIN NameOrder /\ p = AliasPath(NameOrder[k])
    BY <2>2, AliasPathsAre
  <2> QED
    BY <1>2, <2>2, <2>3
<1>3. CASE AliasesTo(p) = {}
  <2>1. InsertedAt(AliasPaths, p) = {}
    BY <1>3, AliasPathsAre DEF InsertedAt
  <2>2. p \in DOMAIN FunctionTree /\ DomainTree[p] = FunctionTree[p]
    BY <1>1, <2>1 DEF InsertedAt
  <2> QED
    BY <1>3, <2>2, FunctionTreeIs
<1> QED
  BY <1>2, <1>3

LEMMA AppendedDiffer ==
  ASSUME NEW A, NEW p \in Seq(A), NEW q \in Seq(A), NEW e, Append(p, e) = Append(q, e)
  PROVE  p = q
<1>1. Len(p) = Len(q)
  BY Len(Append(p, e)) = Len(p) + 1, Len(Append(q, e)) = Len(q) + 1
<1>2. ASSUME NEW i \in 1 .. Len(p) PROVE p[i] = q[i]
  BY <1>1, Append(p, e)[i] = p[i], Append(q, e)[i] = q[i]
<1> QED
  BY <1>1, <1>2

\* What the SDK offers at a place is what its path says, unless a segment is `default`:
\* each registered function, under the name a script calls it by, or an event that
\* has its alias there (render_domain_exports, render_exported_tree).
THEOREM SdkBindsItsOwnHolds == ASSUME NoDefaults PROVE RegistrySpec => []SdkBindsItsOwn
<1>1. ASSUME NamedInv PROVE SdkBindsItsOwn
  <2> DEFINE tree == DomainTree
  <2>1. \A n \in DOMAIN descriptors : IsFunction(descriptors[n]) => n \in DOMAIN tree
    BY <1>1, FunctionTreeIs, DomainTreeHas
  <2>2. \E A : \A p \in DOMAIN tree : /\ p \in Seq(A) /\ p # <<>> /\ p[Len(p)] # "default"
    <3> DEFINE A == STRING \cup UNION {{AliasPath(NameOrder[k])[i] : i \in {1, 2}} : k \in DOMAIN NameOrder}
    <3>1. ASSUME NEW k \in DOMAIN NameOrder
          PROVE  /\ NameOrder[k] \in Seq(A) /\ NameOrder[k] # <<>>
                 /\ NameOrder[k][Len(NameOrder[k])] # "default"
      <4>1. NameOrder[k] \in Seq(STRING)
        BY <3>1, NameOrderAssumption
      <4>2. NameOrder[k] \in Seq(A)
        BY <4>1
      <4>3. NameOrder[k] # <<>> /\ Len(NameOrder[k]) \in DOMAIN NameOrder[k]
        BY <3>1, <4>1 DEF NoDefaults
      <4> QED
        BY <3>1, <4>2, <4>3 DEF NoDefaults
    <3>2. ASSUME NEW k \in DOMAIN NameOrder
          PROVE  LET p == AliasPath(NameOrder[k])
                 IN  p \in Seq(A) /\ p # <<>> /\ p[Len(p)] # "default"
      <4> DEFINE p == AliasPath(NameOrder[k])
      <4>1. \E a, b : p = <<a, b>>
        BY DEF AliasPath
      <4>2. PICK a, b : p = <<a, b>>
        BY <4>1
      <4>3. p[1] \in A /\ p[2] \in A /\ p[2] # "default"
        BY <3>2 DEF NoDefaults
      <4> HIDE DEF p, A
      <4>4. p \in Seq(A) /\ p # <<>> /\ Len(p) = 2
        BY <4>2, <4>3
      <4> QED
        BY <4>3, <4>4 DEF p
    <3> HIDE DEF A
    <3>3. \A p \in DOMAIN tree : p \in Seq(A) /\ p # <<>> /\ p[Len(p)] # "default"
      BY <1>1, <3>1, <3>2, DomainTreeIs
    <3> QED
      BY <3>3
  <2>3. PICK A : \A p \in DOMAIN tree : p \in Seq(A) /\ p # <<>> /\ p[Len(p)] # "default"
    BY <2>2
  <2>4. ASSUME NEW p \in DOMAIN tree, NEW q \in DOMAIN tree, Place(tree, p) = Place(tree, q)
        PROVE  p = q
    <3>1. /\ Place(tree, p) = p \/ Place(tree, p) = Append(p, "default")
          /\ Place(tree, q) = q \/ Place(tree, q) = Append(q, "default")
      BY DEF Place
    <3>2. p \in Seq(A) /\ q \in Seq(A) /\ p[Len(p)] # "default" /\ q[Len(q)] # "default"
      BY <2>3
    <3>3. \A r \in Seq(A) : Append(r, "default")[Len(Append(r, "default"))] = "default"
      OBVIOUS
    <3>4. CASE Append(p, "default") = Append(q, "default")
      BY <3>2, <3>4, AppendedDiffer
    <3> QED
      BY <2>4, <3>1, <3>2, <3>3, <3>4
  <2>5. ASSUME NEW p \in DOMAIN tree PROVE Objects(tree)[Place(tree, p)] = tree[p]
    <3> DEFINE at == CHOOSE q \in DOMAIN tree : Place(tree, q) = Place(tree, p)
    <3>1. at \in DOMAIN tree /\ Place(tree, at) = Place(tree, p)
      OBVIOUS
    <3>2. at = p
      BY <2>4, <3>1
    <3>3. Objects(tree)[Place(tree, p)] = tree[at]
      BY DEF Objects
    <3> QED
      BY <3>2, <3>3
  <2>6. \A p \in DOMAIN tree :
          IF AliasesTo(p) # {} THEN tree[p].kind = "event" /\ tree[p].name \in AliasesTo(p)
          ELSE tree[p] = [kind |-> "function", name |-> p]
    BY <1>1, DomainTreeIs
  <2>7. AggregateRefs \ SdkExports \subseteq Roots(ContextTree) \ ContextExports
    <3>1. DOMAIN FunctionTree \subseteq DOMAIN tree
      BY DomainTreeHas
    <3>2. Roots(FunctionTree) \subseteq Roots(tree)
      BY <3>1 DEF Roots
    <3> QED
      BY <3>2 DEF AggregateRefs, SdkExports
  <2> HIDE DEF tree
  <2>8. \A p \in DOMAIN tree :
          LET bound == Objects(tree)[Place(tree, p)]
          IN IF AliasesTo(p) # {} THEN bound.kind = "event" /\ bound.name \in AliasesTo(p)
             ELSE bound = [kind |-> "function", name |-> p]
    BY <2>5, <2>6
  <2> QED
    BY <2>1, <2>7, <2>8 DEF SdkBindsItsOwn, tree
<1> QED
  BY <1>1, SpecKeepsNamedInv, PTL

-----------------------------------------------------------------------------
(* HostCalls.                                                              *)

\* A call of a host function leaves the registry and the loaded script alone: whatever
\* scripts call, registrations and loads go as they do by themselves.
THEOREM CallsKeepTheRegistry == CallsSpec => RegistrySpec
<1>1. CallsInit => RegistryInit
  BY DEF CallsInit
<1>2. [CallsNext]_callsVars => [RegistryNext]_registryVars
  BY DEF CallsNext, callsVars, CallNative, CheckInput, DecodeInput, Handle, EncodeOutput,
         CheckOutput, RegistryStays
<1> QED
  BY <1>1, <1>2, PTL DEF CallsSpec, RegistrySpec

\* What the registry promises holds between the steps of calls as well.
COROLLARY CallsKeepItsPromises ==
  CallsSpec => [](RegistryInv /\ NamedInv /\ ImportsInstalled)
<1>1. RegistryInv => ImportsInstalled
  BY DEF RegistryInv
<1> QED
  BY <1>1, CallsKeepTheRegistry, RegistryInvariant, SpecKeepsNamedInv, PTL

\* A function that may be called is one whose registration is complete.
IsRegistered(i) == i \in DOMAIN offers /\ IsFunction(i) /\ stage[i] = "done"

BoundInv == /\ \A i \in DOMAIN offers : stage[i] = "described" => IsFunction(i)
            /\ \A n \in DOMAIN bindings : IsRegistered(bindings[n])
            /\ \A n \in DOMAIN script.natives : IsRegistered(script.natives[n])

Phases == {"none", "called", "admitted", "handling", "answered", "encoded", "returned", "threw"}
Refusals == {"", "input", "decode", "handler", "encode", "output"}

CallTypes ==
  /\ policy \in Policies
  /\ call = [phase |-> call.phase, bound |-> call.bound, js |-> call.js, out |-> call.out,
             refused |-> call.refused]
  /\ call.phase \in Phases
  /\ call.refused \in Refusals
  /\ call.phase = "threw" <=> call.refused # ""

\* The value a check has is one of the type of the function called, or what the codec of
\* its type wrote for an answer.
HasArgument == call.js \in Arguments(Called.ty)
HasReply == /\ call.out \in Answers(Called.out)
            /\ call.js = Writes(Called.out, call.out)
            /\ call.js # Failed

\* What the contract of the function itself says of the value.
Fits(type) == SnapshotOf(call.js) # Failed /\ FitsSchema(type, SnapshotOf(call.js), policy.strict)

CallInv ==
  /\ CallTypes
  /\ call.phase # "none" => IsRegistered(call.bound)
  /\ call.phase \in {"called", "admitted"} \/ call.refused = "input" => HasArgument
  /\ call.phase = "answered" => call.out \in Answers(Called.out)
  /\ call.phase \in {"encoded", "returned"} \/ call.refused = "output" => HasReply
  /\ call.refused = "input" => (IsItsOwn => ~Fits(Called.ty))
  /\ call.refused = "output" => (IsItsOwn => ~Fits(Called.out))
  /\ call.phase = "returned" => (policy.output /\ IsItsOwn => Fits(Called.out))

LEMMA RegistryKeepsBound == BoundInv /\ RegistryInv /\ RegistryNext => BoundInv'
<1> SUFFICES ASSUME BoundInv, RegistryInv, RegistryNext PROVE BoundInv'
  OBVIOUS
<1>1. stage \in [DOMAIN offers -> {"idle", "described", "done"}] /\ ScriptOK
  BY DEF RegistryInv, StepsOK
<1>2. ASSUME NEW i \in DOMAIN offers, Describe(i) PROVE BoundInv'
  BY <1>1, <1>2 DEF Describe, BoundInv, IsRegistered, IsFunction
<1>3. ASSUME NEW i \in DOMAIN offers, Bind(i) PROVE BoundInv'
  <2>1. stage' = [stage EXCEPT ![i] = "done"] /\ stage[i] = "described"
        /\ bindings' = Inserted(bindings, offers[i].name, i) /\ UNCHANGED <<offers, script>>
    BY <1>3 DEF Bind
  <2>2. \A j : IsRegistered(j) => IsRegistered(j)'
    BY <1>1, <2>1 DEF IsRegistered, IsFunction
  <2>3. IsFunction(i)
    BY <2>1 DEF BoundInv
  <2> QED
    BY <1>1, <2>1, <2>2, <2>3 DEF BoundInv, Inserted, IsRegistered, IsFunction
<1>4. CASE RenderModules
  BY <1>1, <1>4 DEF RenderModules, ScriptOK, BoundInv, IsRegistered, IsFunction
<1>5. CASE InstallNatives
  BY <1>1, <1>5 DEF InstallNatives, ScriptOK, BoundInv, IsRegistered, IsFunction
<1> QED
  BY <1>2, <1>3, <1>4, <1>5 DEF RegistryNext

\* A contract that took another's place keeps it: its offer is not made again.
LEMMA TakenForGood ==
  ASSUME RegistryInv, IsRegistered(call.bound), RegistryNext, UNCHANGED call, IsItsOwn'
  PROVE  IsItsOwn
<1>1. ASSUME NEW i \in DOMAIN offers, Describe(i) PROVE IsItsOwn
  <2>1. stage[i] = "idle" /\ descriptors' = Inserted(descriptors, offers[i].name, i) /\ offers' = offers
    BY <1>1 DEF Describe
  <2>2. i # call.bound
    BY <2>1 DEF IsRegistered
  <2>3. Called.name \in DOMAIN descriptors
    BY DEF RegistryInv, StepsOK, IsRegistered, Called
  <2> QED
    BY <2>1, <2>2, <2>3 DEF Inserted, IsItsOwn, Called
<1>2. ASSUME UNCHANGED <<offers, descriptors>> PROVE IsItsOwn
  BY <1>2 DEF IsItsOwn, Called
<1> QED
  BY <1>1, <1>2 DEF RegistryNext, Bind, RenderModules, InstallNatives

LEMMA RegistryKeepsCall ==
  CallInv /\ BoundInv /\ RegistryInv /\ RegistryNext /\ UNCHANGED <<policy, call>> => CallInv'
<1> SUFFICES ASSUME CallInv, BoundInv, RegistryInv, RegistryNext, UNCHANGED <<policy, call>>
             PROVE  CallInv'
  OBVIOUS
<1>1. offers' = offers
  BY DEF RegistryNext, Describe, Bind, RenderModules, InstallNatives
<1>2. \A i : IsRegistered(i) => IsRegistered(i)'
  BY <1>1 DEF RegistryNext, Describe, Bind, RenderModules, InstallNatives, IsRegistered, IsFunction,
              RegistryInv, StepsOK
<1>3. call.phase # "none" /\ IsItsOwn' => IsItsOwn
  BY TakenForGood DEF CallInv
<1>4. /\ Called' = Called /\ CallTypes' /\ (HasArgument' <=> HasArgument) /\ (HasReply' <=> HasReply)
      /\ (Fits(Called.ty)' <=> Fits(Called.ty)) /\ (Fits(Called.out)' <=> Fits(Called.out))
  BY <1>1 DEF CallInv, CallTypes, Called, HasArgument, HasReply, Fits
<1>5. call.refused # "" => call.phase # "none"
  BY DEF CallInv, CallTypes
<1>6. call.phase' = call.phase /\ call.refused' = call.refused /\ call.out' = call.out
      /\ policy.output' = policy.output /\ call.bound' = call.bound
  OBVIOUS
<1> QED
  BY <1>1, <1>2, <1>3, <1>4, <1>5, <1>6 DEF CallInv

\* The two checks, while the contract is the function's own.
LEMMA ChecksAgainstItsOwn ==
  ASSUME CallInv, BoundInv, RegistryInv, call.phase # "none", IsItsOwn
  PROVE  /\ Passes("input", call.js) <=> (policy.input => Fits(Called.ty))
         /\ Passes("output", call.js) <=> (policy.output => Fits(Called.out))
<1>1. /\ IsRegistered(call.bound) /\ policy \in [input : BOOLEAN, output : BOOLEAN, strict : BOOLEAN]
      /\ Called.name \in DOMAIN descriptors
  BY PoliciesAssumption DEF CallInv, CallTypes, RegistryInv, StepsOK, IsRegistered, Called
<1>2. IsFunction(descriptors[Called.name]) /\ offers[descriptors[Called.name]] = Called
  BY <1>1 DEF IsItsOwn, IsRegistered, Called
<1>3. /\ Admits("input", call.js) <=> FitsSchema(Called.ty, SnapshotOf(call.js), policy.strict)
      /\ Admits("output", call.js) <=> FitsSchema(Called.out, SnapshotOf(call.js), policy.strict)
  BY <1>1, <1>2 DEF Admits
<1>4. policy["input"] = policy.input /\ policy["output"] = policy.output
  OBVIOUS
<1> QED
  BY <1>1, <1>3, <1>4 DEF Passes, Fits

\* A step of the call, which the registry does not see.
LEMMA CallKeepsInv ==
  ASSUME CallInv, BoundInv, RegistryInv, CallsNext, RegistryStays
  PROVE  CallInv'
<1>1. /\ UNCHANGED <<offers, stage, descriptors, bindings, script, policy>>
      /\ \A i : IsRegistered(i)' <=> IsRegistered(i)
  BY DEF RegistryStays, registryVars, IsRegistered, IsFunction
<1>2. /\ CallTypes
      /\ call.phase # "none" => IsRegistered(call.bound)
  BY DEF CallInv
<1>3. ASSUME NEW n \in DOMAIN script.natives, NEW js \in Arguments(offers[script.natives[n]].ty),
             CallNative(n, js)
      PROVE  CallInv'
  <2>1. call' = [phase |-> "called", bound |-> script.natives[n], js |-> js, out |-> <<>>, refused |-> ""]
    BY <1>3 DEF CallNative, NoCall
  <2>2. IsRegistered(script.natives[n])
    BY DEF BoundInv
  <2> QED
    BY <1>1, <1>2, <2>1, <2>2 DEF CallInv, CallTypes, Phases, Refusals, HasArgument, Called
<1>4. CASE CheckInput
  <2>1. call.phase = "called" /\ call.refused = "" /\ HasArgument /\ IsRegistered(call.bound)
    BY <1>4 DEF CheckInput, CallInv, CallTypes
  <2>2. CASE Passes("input", call.js)
    <3>1. call' = [call EXCEPT !.phase = "admitted"]
      BY <1>4, <2>2 DEF CheckInput, To
    <3> QED
      BY <1>1, <1>2, <2>1, <3>1 DEF CallInv, CallTypes, Phases, Refusals, HasArgument, Called
  <2>3. CASE ~Passes("input", call.js)
    <3>1. call' = [call EXCEPT !.phase = "threw", !.refused = "input"]
      BY <1>4, <2>3 DEF CheckInput, Refuse
    <3>2. IsItsOwn => ~Fits(Called.ty)
      BY <2>1, <2>3, ChecksAgainstItsOwn
    <3>3. /\ call'.phase = "threw" /\ call'.refused = "input" /\ call'.bound = call.bound /\ call'.js = call.js
          /\ CallTypes'
      BY <1>1, <1>2, <3>1 DEF CallTypes, Phases, Refusals
    <3>4. (IsItsOwn' <=> IsItsOwn) /\ (Fits(Called.ty)' <=> Fits(Called.ty)) /\ HasArgument'
      BY <1>1, <2>1, <3>3 DEF IsItsOwn, Fits, Called, HasArgument
    <3> QED
      BY <1>1, <2>1, <3>2, <3>3, <3>4 DEF CallInv
  <2> QED
    BY <2>2, <2>3
<1>5. CASE DecodeInput
  <2>1. call.phase = "admitted" /\ call.refused = "" /\ IsRegistered(call.bound)
    BY <1>5 DEF DecodeInput, CallInv, CallTypes
  <2>2. \/ call' = [call EXCEPT !.phase = "handling", !.js = <<>>]
        \/ call' = [call EXCEPT !.phase = "threw", !.refused = "decode"]
    BY <1>5 DEF DecodeInput, Refuse
  <2> QED
    BY <1>1, <1>2, <2>1, <2>2 DEF CallInv, CallTypes, Phases, Refusals
<1>6. CASE Handle
  <2>1. call.phase = "handling" /\ call.refused = "" /\ IsRegistered(call.bound)
    BY <1>6 DEF Handle, CallInv, CallTypes
  <2>2. CASE Refuse("handler")
    BY <1>1, <1>2, <2>1, <2>2 DEF Refuse, CallInv, CallTypes, Phases, Refusals
  <2>3. ASSUME NEW out \in Answers(Called.out), call' = [call EXCEPT !.phase = "answered", !.out = out]
        PROVE  CallInv'
    BY <1>1, <1>2, <2>1, <2>3 DEF CallInv, CallTypes, Phases, Refusals, Called
  <2> QED
    BY <1>6, <2>2, <2>3 DEF Handle
<1>7. CASE EncodeOutput
  <2>1. /\ call.phase = "answered" /\ call.refused = "" /\ IsRegistered(call.bound)
        /\ call.out \in Answers(Called.out)
    BY <1>7 DEF EncodeOutput, CallInv, CallTypes
  <2>2. CASE Writes(Called.out, call.out) = Failed
    <3>1. call' = [call EXCEPT !.phase = "threw", !.refused = "encode"]
      BY <1>7, <2>2 DEF EncodeOutput, Refuse
    <3> QED
      BY <1>1, <1>2, <2>1, <3>1 DEF CallInv, CallTypes, Phases, Refusals
  <2>3. CASE Writes(Called.out, call.out) # Failed
    <3>1. call' = [call EXCEPT !.phase = "encoded", !.js = Writes(Called.out, call.out)]
      BY <1>7, <2>3 DEF EncodeOutput
    <3> QED
      BY <1>1, <1>2, <2>1, <2>3, <3>1 DEF CallInv, CallTypes, Phases, Refusals, HasReply, Called
  <2> QED
    BY <2>2, <2>3
<1>8. CASE CheckOutput
  <2>1. call.phase = "encoded" /\ call.refused = "" /\ HasReply /\ IsRegistered(call.bound)
    BY <1>8 DEF CheckOutput, CallInv, CallTypes
  <2>2. \/ Passes("output", call.js) /\ call' = [call EXCEPT !.phase = "returned"]
        \/ ~Passes("output", call.js) /\ call' = [call EXCEPT !.phase = "threw", !.refused = "output"]
    BY <1>8 DEF CheckOutput, To, Refuse
  <2>3. IsItsOwn => (Passes("output", call.js) <=> (policy.output => Fits(Called.out)))
    BY <2>1, ChecksAgainstItsOwn
  <2>4. /\ call'.bound = call.bound /\ call'.js = call.js /\ call'.out = call.out /\ CallTypes'
        /\ \/ Passes("output", call.js) /\ call'.phase = "returned" /\ call'.refused = ""
           \/ ~Passes("output", call.js) /\ call'.phase = "threw" /\ call'.refused = "output"
    BY <1>1, <1>2, <2>1, <2>2 DEF CallTypes, Phases, Refusals
  <2>5. (IsItsOwn' <=> IsItsOwn) /\ (Fits(Called.out)' <=> Fits(Called.out)) /\ HasReply'
        /\ policy'.output = policy.output
    BY <1>1, <2>1, <2>4 DEF IsItsOwn, Fits, Called, HasReply
  <2> QED
    BY <1>1, <2>1, <2>3, <2>4, <2>5 DEF CallInv
<1>9. CASE RegistryNext /\ UNCHANGED <<policy, call>>
  BY <1>9, RegistryKeepsCall
<1> QED
  BY <1>3, <1>4, <1>5, <1>6, <1>7, <1>8, <1>9 DEF CallsNext

LEMMA CallsInvariant == CallsSpec => [](CallInv /\ BoundInv /\ RegistryInv /\ NamedInv)
<1>1. CallsInit => CallInv /\ BoundInv
  <2> SUFFICES ASSUME CallsInit PROVE CallInv /\ BoundInv
    OBVIOUS
  <2>1. CallInv
    BY DEF CallsInit, NoCall, CallInv, CallTypes, Phases, Refusals
  <2>2. /\ \A i \in DOMAIN offers : stage[i] = "idle"
        /\ DOMAIN bindings = {} /\ DOMAIN script.natives = {}
    BY DEF CallsInit, RegistryInit, NoScript
  <2> QED
    BY <2>1, <2>2 DEF BoundInv
<1>2. CallInv /\ BoundInv /\ RegistryInv /\ [CallsNext]_callsVars => CallInv' /\ BoundInv'
  <2> SUFFICES ASSUME CallInv, BoundInv, RegistryInv, [CallsNext]_callsVars PROVE CallInv' /\ BoundInv'
    OBVIOUS
  <2>1. CASE RegistryNext /\ UNCHANGED <<policy, call>>
    BY <2>1, RegistryKeepsCall, RegistryKeepsBound
  <2>2. CASE CallsNext /\ RegistryStays
    <3>1. BoundInv'
      BY <2>2 DEF RegistryStays, registryVars, BoundInv, IsRegistered, IsFunction
    <3> QED
      BY <2>2, <3>1, CallKeepsInv
  <2>3. CASE UNCHANGED callsVars
    BY <2>3 DEF callsVars, registryVars, CallInv, CallTypes, BoundInv, IsRegistered, IsFunction,
                HasArgument, HasReply, Fits, IsItsOwn, Called
  <2> QED
    BY <2>1, <2>2, <2>3 DEF CallsNext, CallNative, CheckInput, DecodeInput, Handle, EncodeOutput, CheckOutput
<1> QED
  BY <1>1, <1>2, CallsKeepItsPromises, PTL DEF CallsSpec

\* The call is in one phase with what belongs to it, and has failed in one way at most.
THEOREM CallsTypeCorrect == CallsSpec => []CallTypes
<1>1. CallInv => CallTypes
  BY DEF CallInv
<1> QED
  BY <1>1, CallsInvariant, PTL

\* No call of a host function goes unchecked for want of a contract, and what was returned
\* has been accepted by the function's contract while no other took its place
\* (memory.rs:278-332).
THEOREM EveryCallIsCheckedHolds == CallsSpec => []EveryCallIsChecked
<1>1. CallInv /\ RegistryInv => EveryCallIsChecked
  <2> SUFFICES ASSUME CallInv, RegistryInv PROVE EveryCallIsChecked
    OBVIOUS
  <2>1. NativesDescribed
    BY DEF RegistryInv
  <2>2. call.phase # "none" => Called.name \in DOMAIN descriptors
    BY DEF CallInv, RegistryInv, StepsOK, IsRegistered, Called
  <2> QED
    BY <2>1, <2>2 DEF EveryCallIsChecked, CallInv, Fits
<1> QED
  BY <1>1, CallsInvariant, PTL

\* Where no two contracts have one name, the contract that checks a call is its own.
THEOREM NamesTellApart ==
  CallsSpec => []((\A i, j \in DOMAIN offers : offers[i].name = offers[j].name => i = j)
                    => (call.phase # "none" => IsItsOwn))
<1>1. CallInv /\ RegistryInv /\ NamedInv =>
        ((\A i, j \in DOMAIN offers : offers[i].name = offers[j].name => i = j)
           => (call.phase # "none" => IsItsOwn))
  BY DEF CallInv, RegistryInv, StepsOK, NamedInv, IsRegistered, Called, IsItsOwn
<1> QED
  BY <1>1, CallsInvariant, PTL

-----------------------------------------------------------------------------
(* What the types agree on value by value they agree on in every call.     *)

\* What the codec of a type writes, its schema accepts.
AnswersFit ==
  \A made \in Offers : \A i \in DOMAIN made : \A out \in Answers(made[i].out) :
    LET type == made[i].out
        js == Writes(type, out)
    IN (js # Failed /\ ~SchemaDiffers(type)) =>
         /\ SnapshotOf(js) # Failed
         /\ \A p \in Policies : FitsSchema(type, SnapshotOf(js), p.strict)

\* What the codec of a type reads, its schema accepts.
ArgumentsFit ==
  \A made \in Offers : \A i \in DOMAIN made : \A js \in Arguments(made[i].ty) :
    LET type == made[i].ty
    IN (Reads(type, js) # Failed /\ ~ReadsMore(type, js)) =>
         SnapshotOf(js) # Failed /\ FitsSchema(type, SnapshotOf(js), FALSE)

\* No reply of a handler is refused while the contract is its own, whatever is registered
\* and loaded meanwhile, if the schemas accept what the codecs write (bindings.rs:104).
THEOREM OwnReplyPassesHolds == ASSUME AnswersFit PROVE CallsSpec => []OwnReplyPasses
<1>1. CallInv /\ NamedInv => OwnReplyPasses
  <2> SUFFICES ASSUME CallInv, NamedInv, call.refused = "output", IsItsOwn, ~SchemaDiffers(Called.out)
               PROVE  FALSE
    BY DEF OwnReplyPasses
  <2>1. HasReply /\ ~Fits(Called.out) /\ policy \in Policies
    BY DEF CallInv, CallTypes
  <2>2. call.bound \in DOMAIN offers /\ offers \in Offers
    BY DEF CallInv, CallTypes, IsRegistered, NamedInv
  <2>3. Fits(Called.out)
    BY <2>1, <2>2 DEF AnswersFit, HasReply, Fits, Called
  <2> QED
    BY <2>1, <2>3
<1> QED
  BY <1>1, CallsInvariant, PTL

\* No argument the codec reads is refused while the contract is its own, whatever is
\* registered and loaded meanwhile, if the schemas accept what the codecs read
\* (bindings.rs:90).
THEOREM AcceptsWhatDecodesHolds == ASSUME ArgumentsFit PROVE CallsSpec => []AcceptsWhatDecodes
<1>1. CallInv /\ NamedInv => AcceptsWhatDecodes
  <2> SUFFICES ASSUME CallInv, NamedInv, call.refused = "input", ~policy.strict, IsItsOwn,
                      Reads(Called.ty, call.js) # Failed, ~ReadsMore(Called.ty, call.js)
               PROVE  FALSE
    BY DEF AcceptsWhatDecodes
  <2>1. HasArgument /\ ~Fits(Called.ty) /\ policy.strict = FALSE
    BY PoliciesAssumption DEF CallInv, CallTypes
  <2>2. call.bound \in DOMAIN offers /\ offers \in Offers
    BY DEF CallInv, CallTypes, IsRegistered, NamedInv
  <2>3. Fits(Called.ty)
    BY <2>1, <2>2 DEF ArgumentsFit, HasArgument, Fits, Called
  <2> QED
    BY <2>1, <2>3
<1> QED
  BY <1>1, CallsInvariant, PTL

-----------------------------------------------------------------------------
(* HostNumbers. -0 is the integer 0 wherever integers are read.               *)

Unsigned(js) == IF js = <<"odd", "-0">> THEN Num(0) ELSE js
JsonNumbers == {<<"int", n>> : n \in Int} \cup {<<"float", n>> : n \in Int \ -MaxSafe .. MaxSafe}
                 \cup {<<"fraction">>}

LEMMA NumberCases ==
  ASSUME NEW js \in JsNumbers
  PROVE  \/ \E n \in Int : js = Num(n)
         \/ js = <<"odd", "fraction">>
         \/ js = <<"odd", "-0">>
         \/ \E odd \in NonFinite : js = <<"odd", odd>>
BY DEF JsNumbers, OddNumbers

LEMMA NumberIsOne ==
  ASSUME NEW n, NEW purpose
  PROVE  /\ NumberToJson(Num(n), purpose) = IF ExactInteger(n) THEN <<"int", n>> ELSE <<"float", n>>
         /\ Unsigned(Num(n)) = Num(n)
BY DEF NumberToJson, Num, Unsigned

LEMMA OddIsOne ==
  ASSUME NEW purpose
  PROVE  /\ NumberToJson(<<"odd", "fraction">>, purpose) = <<"fraction">>
         /\ NumberToJson(<<"odd", "-0">>, purpose) = <<"int", 0>>
         /\ \A odd \in NonFinite :
              NumberToJson(<<"odd", odd>>, purpose)
                = IF purpose = "json" THEN Fail ELSE <<"int", StandIn(odd)>>
<1>1. ASSUME NEW odd PROVE NumberToJson(<<"odd", odd>>, purpose) = OddToJson(odd, purpose)
  BY DEF NumberToJson
<1>2. OddToJson("fraction", purpose) = <<"fraction">>
  BY DEF OddToJson, NonFinite
<1>3. OddToJson("-0", purpose) = <<"int", 0>>
  BY DEF OddToJson, NonFinite
<1>4. ASSUME NEW odd \in NonFinite
      PROVE  OddToJson(odd, purpose) = IF purpose = "json" THEN Fail ELSE <<"int", StandIn(odd)>>
  <2>1. odd # "fraction" /\ odd # "-0"
    BY DEF NonFinite
  <2> QED
    BY <2>1 DEF OddToJson
<1> QED
  BY <1>1, <1>2, <1>3, <1>4

LEMMA StandInsStandFor ==
  /\ \A odd \in NonFinite : SnapshotNumber(<<"int", StandIn(odd)>>) = <<"odd", odd>>
  /\ SnapshotNumber(<<"int", 0>>) = Num(0)
  /\ SnapshotNumber(<<"fraction">>) = <<"odd", "fraction">>
<1>1. NanStandIn # InfinityStandIn /\ NanStandIn # NegInfinityStandIn /\ InfinityStandIn # NegInfinityStandIn
  BY SafeRange DEF NanStandIn, InfinityStandIn, NegInfinityStandIn
<1>2. 0 # NanStandIn /\ 0 # InfinityStandIn /\ 0 # NegInfinityStandIn
  BY SafeRange DEF NanStandIn, InfinityStandIn, NegInfinityStandIn
<1>3. SnapshotNumber(<<"int", NanStandIn>>) = <<"odd", "NaN">> /\ StandIn("NaN") = NanStandIn
  BY <1>1 DEF SnapshotNumber, StandIn
<1>4. SnapshotNumber(<<"int", InfinityStandIn>>) = <<"odd", "Infinity">> /\ StandIn("Infinity") = InfinityStandIn
  BY <1>1 DEF SnapshotNumber, StandIn
<1>5. /\ SnapshotNumber(<<"int", NegInfinityStandIn>>) = <<"odd", "-Infinity">>
      /\ StandIn("-Infinity") = NegInfinityStandIn
  BY <1>1 DEF SnapshotNumber, StandIn
<1>6. SnapshotNumber(<<"int", 0>>) = Num(0)
  BY <1>2 DEF SnapshotNumber
<1>7. SnapshotNumber(<<"fraction">>) = <<"odd", "fraction">>
  BY DEF SnapshotNumber
<1> QED
  BY <1>3, <1>4, <1>5, <1>6, <1>7 DEF NonFinite

\* No JavaScript number becomes an integer above the safe range, so none is taken for
\* NaN or an infinity: the number a snapshot's number stands for is the number itself,
\* -0 read as 0, and a snapshot never fails on a number (to_json, snapshot_number).
THEOREM StandInsTellApart ==
  \A js \in JsNumbers : /\ ValidNumber(NumberToJson(js, "validation"))
                        /\ SnapshotNumber(NumberToJson(js, "validation")) = Unsigned(js)
<1> TAKE js \in JsNumbers
<1> DEFINE json == NumberToJson(js, "validation")
<1>1. CASE \E n \in Int : js = Num(n)
  <2>1. PICK n \in Int : js = Num(n)
    BY <1>1
  <2>2. CASE ExactInteger(n)
    <3>1. json = <<"int", n>>
      BY <2>1, <2>2, NumberIsOne
    <3>2. n # NanStandIn /\ n # InfinityStandIn /\ n # NegInfinityStandIn
      BY <2>2, SafeRange DEF ExactInteger, NanStandIn, InfinityStandIn, NegInfinityStandIn
    <3>3. json # <<"int", NanStandIn>> /\ json # <<"int", InfinityStandIn>> /\ json # <<"int", NegInfinityStandIn>>
      BY <3>1, <3>2
    <3> QED
      BY <2>1, <3>1, <3>3, NumberIsOne DEF SnapshotNumber, ValidNumber
  <2>3. CASE ~ExactInteger(n)
    <3>1. json = <<"float", n>>
      BY <2>1, <2>3, NumberIsOne
    <3> QED
      BY <2>1, <3>1, NumberIsOne DEF SnapshotNumber, ValidNumber
  <2> QED
    BY <2>2, <2>3
<1>2. CASE js = <<"odd", "fraction">>
  <2>1. json = <<"fraction">> /\ Unsigned(js) = js
    BY <1>2, OddIsOne DEF Unsigned
  <2> QED
    BY <1>2, <2>1, StandInsStandFor DEF ValidNumber
<1>3. CASE js = <<"odd", "-0">>
  <2>1. json = <<"int", 0>> /\ Unsigned(js) = Num(0)
    BY <1>3, OddIsOne DEF Unsigned
  <2> QED
    BY <2>1, StandInsStandFor DEF ValidNumber
<1>4. CASE \E odd \in NonFinite : js = <<"odd", odd>>
  <2>1. PICK odd \in NonFinite : js = <<"odd", odd>>
    BY <1>4
  <2>2. json = <<"int", StandIn(odd)>>
    BY <2>1, OddIsOne
  <2>3. Unsigned(js) = js
    BY <2>1 DEF Unsigned, NonFinite
  <2> QED
    BY <2>1, <2>2, <2>3, StandInsStandFor DEF ValidNumber
<1> QED
  BY <1>1, <1>2, <1>3, <1>4, NumberCases

\* A literal of a contract accepts its own number and no other, -0 beside 0: neither a
\* stand-in nor a number that rounds takes its place (validate_literal).
THEOREM LiteralsAreExact ==
  \A n \in Int, js \in JsNumbers :
    ValidLiteralNumber(Num(n), NumberToJson(js, "validation")) <=> Unsigned(js) = Num(n)
BY StandInsTellApart DEF ValidLiteralNumber

\* An integer of any type crosses exactly or not at all: what is encoded decodes to the
\* same integer, and what decodes encodes to the same number, -0 as 0 (encode_integer,
\* decode_integer).
THEOREM IntegersCrossExactly ==
  \A range \in SUBSET Int :
    /\ \A n \in range : EncodeInteger(n) # Fail => DecodeInteger(range, EncodeInteger(n)) = Ok(n)
    /\ 0 \in range =>
         \A js \in JsNumbers :
           DecodeInteger(range, js) # Fail =>
             \E n \in range : DecodeInteger(range, js) = Ok(n) /\ EncodeInteger(n) = Unsigned(js)
<1> TAKE range \in SUBSET Int
<1>1. ASSUME NEW n \in range, EncodeInteger(n) # Fail
      PROVE  DecodeInteger(range, EncodeInteger(n)) = Ok(n)
  <2>1. EncodeInteger(n) = Num(n) /\ ExactInteger(n)
    BY <1>1 DEF EncodeInteger
  <2> QED
    BY <2>1 DEF DecodeInteger, Num, OkIf
<1>2. ASSUME 0 \in range, NEW js \in JsNumbers, DecodeInteger(range, js) # Fail
      PROVE  \E n \in range : DecodeInteger(range, js) = Ok(n) /\ EncodeInteger(n) = Unsigned(js)
  <2>1. CASE js = <<"odd", "-0">>
    <3>1. DecodeInteger(range, js) = Ok(0) /\ Unsigned(js) = Num(0)
      BY <2>1 DEF DecodeInteger, Unsigned
    <3>2. EncodeInteger(0) = Num(0)
      BY SafeRange DEF EncodeInteger, ExactInteger
    <3> QED
      BY <1>2, <3>1, <3>2
  <2>2. CASE js # <<"odd", "-0">>
    <3>1. js[1] = "num" /\ ExactInteger(js[2]) /\ js[2] \in range /\ DecodeInteger(range, js) = Ok(js[2])
      BY <1>2, <2>2 DEF DecodeInteger, OkIf
    <3>2. PICK n \in Int : js = Num(n)
      BY <3>1 DEF JsNumbers, Num
    <3>3. js[2] = n
      BY <3>2 DEF Num
    <3> QED
      BY <2>2, <3>1, <3>2, <3>3 DEF EncodeInteger, Unsigned
  <2> QED
    BY <2>1, <2>2
<1> QED
  BY <1>1, <1>2

\* A number crosses an untyped boundary unchanged, -0 as 0: a finite one that is read as
\* JSON is written back as itself, NaN and the infinities fail; and what JSON writes is
\* read back as the same JSON (to_json, json_to_js_value).
THEOREM JsonNumbersCrossExactly ==
  /\ \A js \in JsNumbers :
       IF \E odd \in NonFinite : js = <<"odd", odd>>
       THEN NumberToJson(js, "json") = Fail
       ELSE NumberToJs(NumberToJson(js, "json")) = Unsigned(js)
  /\ \A json \in JsonNumbers :
       NumberToJs(json) # Fail => NumberToJson(NumberToJs(json), "json") = json
<1>1. ASSUME NEW js \in JsNumbers
      PROVE  IF \E odd \in NonFinite : js = <<"odd", odd>>
             THEN NumberToJson(js, "json") = Fail
             ELSE NumberToJs(NumberToJson(js, "json")) = Unsigned(js)
  <2>1. CASE \E n \in Int : js = Num(n)
    <3>1. PICK n \in Int : js = Num(n)
      BY <2>1
    <3>2. NumberToJs(NumberToJson(js, "json")) = Num(n)
      <4>1. CASE ExactInteger(n)
        <5>1. NumberToJson(js, "json") = <<"int", n>>
          BY <3>1, <4>1, NumberIsOne
        <5> QED
          BY <4>1, <5>1 DEF NumberToJs, EncodeInteger
      <4>2. CASE ~ExactInteger(n)
        <5>1. NumberToJson(js, "json") = <<"float", n>>
          BY <3>1, <4>2, NumberIsOne
        <5> QED
          BY <5>1 DEF NumberToJs
      <4> QED
        BY <4>1, <4>2
    <3>3. ~\E odd \in NonFinite : js = <<"odd", odd>>
      BY <3>1 DEF Num
    <3> QED
      BY <3>1, <3>2, <3>3, NumberIsOne
  <2>2. CASE js = <<"odd", "fraction">>
    <3>1. NumberToJs(NumberToJson(js, "json")) = js
      BY <2>2, OddIsOne DEF NumberToJs
    <3> QED
      BY <2>2, <3>1 DEF Unsigned, NonFinite
  <2>3. CASE js = <<"odd", "-0">>
    <3>1. EncodeInteger(0) = Num(0)
      BY SafeRange DEF EncodeInteger, ExactInteger
    <3>2. NumberToJs(NumberToJson(js, "json")) = Num(0)
      BY <2>3, <3>1, OddIsOne DEF NumberToJs
    <3> QED
      BY <2>3, <3>2 DEF Unsigned, NonFinite
  <2>4. CASE \E odd \in NonFinite : js = <<"odd", odd>>
    BY <2>4, OddIsOne
  <2> QED
    BY <2>1, <2>2, <2>3, <2>4, NumberCases
<1>2. ASSUME NEW json \in JsonNumbers, NumberToJs(json) # Fail
      PROVE  NumberToJson(NumberToJs(json), "json") = json
  <2>1. CASE \E n \in Int : json = <<"int", n>>
    <3>1. PICK n \in Int : json = <<"int", n>>
      BY <2>1
    <3>2. ExactInteger(n) /\ NumberToJs(json) = Num(n)
      BY <1>2, <3>1 DEF NumberToJs, EncodeInteger
    <3> QED
      BY <3>1, <3>2, NumberIsOne
  <2>2. CASE \E n \in Int \ -MaxSafe .. MaxSafe : json = <<"float", n>>
    <3>1. PICK n \in Int \ -MaxSafe .. MaxSafe : json = <<"float", n>>
      BY <2>2
    <3>2. ~ExactInteger(n) /\ NumberToJs(json) = Num(n)
      BY <3>1 DEF NumberToJs, ExactInteger
    <3> QED
      BY <3>1, <3>2, NumberIsOne
  <2>3. CASE json = <<"fraction">>
    <3>1. NumberToJs(json) = <<"odd", "fraction">>
      BY <2>3 DEF NumberToJs
    <3> QED
      BY <2>3, <3>1, OddIsOne
  <2> QED
    BY <2>1, <2>2, <2>3 DEF JsonNumbers
<1> QED
  BY <1>1, <1>2

-----------------------------------------------------------------------------
(* HotReload: the invariant of the files and what is stamped.              *)

\* Where candidates that come before another one are: next to the entry, or above it.  A
\* new file elsewhere can take precedence unseen.
NextToEntry ==
  \A c \in Configs : \A i \in DOMAIN Targets[c] : \A j \in 1 .. i - 1 :
     Home(Targets[c][j]) \in DirsAbove(Entry)

Recorded == {Unwatched, Missing} \cup 0 .. edits
Resolvers == [saw : [Modules -> {"unknown", "there", "absent"}], config : Configs \cup {None}]
Readings == Recorded \ {Unwatched}
Records == [stamp : Recorded, read : Readings, kind : Kinds, target : Modules \cup {None}]

DiskTypes == /\ edits \in Nat /\ edits <= MaxEdits
             /\ kind \in [Modules -> Kinds]
             /\ config \in Configs
             /\ stamp \in [Paths -> {Missing} \cup 0 .. edits]
             /\ \A p \in Dirs \cup {Config} : stamp[p] # Missing

LoadTypes == /\ watched \in [Paths -> Recorded]
             /\ version \in [read : [Modules -> Readings], target : Modules \cup {None}]
             /\ memo \in [held : BOOLEAN, structure : [Paths -> Recorded],
                          known : [Modules -> Records], resolver : Resolvers]
             /\ pc \in {"idle", "visit", "read", "resolve", "failed", "restamp"}
             /\ outcome \in {"none", "ok", "failed"}

DiscoveryTypes == /\ known \in [Modules -> Records]
                  /\ resolver \in Resolvers
                  /\ structure \in [Paths -> Recorded]
                  /\ modules \in [Modules -> Records]
                  /\ path \in Modules \cup {None}
                  /\ current \in Recorded
                  /\ source \in [read : Readings, kind : Kinds]

\* What was read with a stamp is what the file holds while that is its stamp.
ReadInv(files) ==
  \A m \in Modules : files[m].stamp = stamp[m] /\ stamp[m] # Missing =>
     files[m].read = stamp[m] /\ files[m].kind = kind[m]

\* A file that was read although it was missing when it was stamped has made its
\* directory change.
ThereInv(files, dirs) ==
  \A m \in Modules : files[m].stamp = Missing /\ stamp[m] = Missing =>
     dirs[Home(m)] # stamp[Home(m)]

\* The file a resolver finds for the request, with what it has seen.
Finds(r, t) ==
  /\ r.config \in Configs
  /\ \E i \in DOMAIN Targets[r.config] :
       /\ t = Targets[r.config][i]
       /\ r.saw[t] = "there"
       /\ \A j \in 1 .. i - 1 : r.saw[Targets[r.config][j]] = "absent"

ResolvedInv(r, files) ==
  \A m \in Modules : IF files[m].kind = "imports" THEN Finds(r, files[m].target)
                                                   ELSE files[m].target = None

\* The resolver's view is right while the configuration and the directories above the
\* entry are as they were stamped.
ViewInv(r, files) ==
  /\ r.config # None => /\ files[Config] # Unwatched
                        /\ files[Config] = stamp[Config] => r.config = config
  /\ \A m \in Modules : r.saw[m] # "unknown" /\ Home(m) \in DirsAbove(Entry) =>
       /\ files[Home(m)] # Unwatched
       /\ files[Home(m)] = stamp[Home(m)] => (r.saw[m] = "there" <=> stamp[m] # Missing)

MemoInv == /\ ReadInv(memo.known)
           /\ memo.held => /\ ResolvedInv(memo.resolver, memo.known)
                           /\ ViewInv(memo.resolver, memo.structure)

Finding == pc \in {"visit", "read", "resolve"}

IsVisited(m) == modules[m].stamp # Unwatched

\* What the discovery has visited, and what comes next.
VisitInv ==
  Finding => /\ structure[Config] # Unwatched
             /\ path # None => ~IsVisited(path)
             /\ pc \in {"read", "resolve"} => /\ path # None /\ current # Unwatched
                                              /\ \A d \in DirsAbove(path) : structure[d] # Unwatched
             /\ \A m \in Modules : IsVisited(m) =>
                  /\ m \in {Entry, modules[Entry].target}
                  /\ \A d \in DirsAbove(m) : structure[d] # Unwatched
             /\ \/ path = Entry /\ \A m \in Modules : ~IsVisited(m)
                \/ /\ IsVisited(Entry)
                   /\ path = modules[Entry].target \/ path = None
                   /\ path = None => modules[Entry].target = None \/ IsVisited(modules[Entry].target)
             /\ \A m \in Modules : ~IsVisited(m) => modules[m] = NotVisited

FindInv ==
  Finding => /\ ReadInv(known)
             /\ reuse => ResolvedInv(resolver, known)
             /\ ViewInv(resolver, structure)
             /\ ReadInv(modules) /\ ThereInv(modules, structure) /\ ResolvedInv(resolver, modules)
             /\ pc = "resolve" =>
                  /\ current = stamp[path] /\ stamp[path] # Missing =>
                       source.read = stamp[path] /\ source.kind = kind[path]
                  /\ current = Missing /\ stamp[path] = Missing =>
                       structure[Home(path)] # stamp[Home(path)]

\* What is watched tells whether the loaded version is still that of the files.
EntryIsRead ==
  watched[Entry] = stamp[Entry] /\ watched[Home(Entry)] = stamp[Home(Entry)] =>
     /\ stamp[Entry] # Missing
     /\ version.read[Entry] = stamp[Entry]
     /\ (version.target = None) <=> (kind[Entry] # "imports")

TargetIsRead ==
  LET t == version.target
  IN  t # None /\ watched[t] = stamp[t] /\ watched[Home(t)] = stamp[Home(t)] =>
         stamp[t] # Missing /\ version.read[t] = stamp[t]

TargetIsFirst ==
  version.target # None /\ watched[Config] = stamp[Config]
    /\ (\A d \in DirsAbove(Entry) : watched[d] = stamp[d]) =>
       \E i \in DOMAIN Targets[config] :
          /\ version.target = Targets[config][i]
          /\ \A j \in 1 .. i - 1 : stamp[Targets[config][j]] = Missing

VersionInv ==
  pc = "idle" /\ outcome = "ok" =>
     /\ watched[Config] # Unwatched
     /\ \A m \in Modules : IF m = Entry \/ m = version.target
                           THEN /\ watched[m] # Unwatched
                                /\ \A d \in DirsAbove(m) : watched[d] # Unwatched
                           ELSE version.read[m] = Missing
     /\ EntryIsRead /\ TargetIsRead /\ TargetIsFirst

\* Without an edit since the attempt began, all it stamped is current.
CurrentInv ==
  /\ pc # "idle" => edited = raced
  /\ pc # "idle" /\ ~edited =>
       /\ \A p \in Paths : AttemptWatched[p] \in {Unwatched, stamp[p]}
       /\ \A p \in Paths : structure[p] \in {Unwatched, stamp[p]}
       /\ pc \in {"read", "resolve"} => current = stamp[path]
  /\ pc = "restamp" \/ (pc = "idle" /\ loaded /\ outcome = "failed" /\ ~raced) =>
       \A m \in Modules : AttemptWatched[m] \in {Unwatched, watched[m]}
  /\ pc = "restamp" => byReload /\ loaded /\ outcome = "failed"
  /\ pc # "idle" /\ byReload => loaded

FilesInv == /\ DiskTypes /\ LoadTypes /\ DiscoveryTypes
            /\ MemoInv /\ VisitInv /\ FindInv
            /\ CurrentInv /\ ReportedOnce
            /\ NextToEntry => VersionInv

-----------------------------------------------------------------------------
(* Paths, and what an edit may do.                                         *)

LEMMA PathsAre ==
  /\ Modules \subseteq Paths /\ Dirs \subseteq Paths /\ Config \in Paths
  /\ \A d \in Dirs \cup {Config} : d \notin Modules
  /\ \A m \in Modules : /\ Home(m) \in DirsAbove(m) /\ DirsAbove(m) \subseteq Dirs
                        /\ Home(m) \in Dirs
<1>1. ASSUME NEW m \in Modules PROVE Home(m) \in DirsAbove(m) /\ DirsAbove(m) \subseteq Dirs
  <2>1. DirsOf[m] \in Seq(Dirs) /\ DirsOf[m] # <<>>
    BY DirsAssumption
  <2>2. 1 \in DOMAIN DirsOf[m] /\ \A i \in DOMAIN DirsOf[m] : DirsOf[m][i] \in Dirs
    BY <2>1
  <2> QED
    BY <2>2 DEF Home, DirsAbove
<1> QED
  BY <1>1, PathsAssumption DEF Paths

\* What changes on the disk gets a new stamp, or is gone; a file that comes or goes gives
\* its directory a new one.
DiskStep ==
  /\ edits' = edits + 1
  /\ \A p \in Paths : \/ stamp'[p] = stamp[p] \/ stamp'[p] = edits + 1
                      \/ p \in Modules /\ stamp'[p] = Missing
  /\ \A m \in Modules : kind'[m] = kind[m] \/ stamp'[m] = edits + 1
  /\ config' = config \/ stamp'[Config] = edits + 1
  /\ \A m \in Modules : \/ stamp'[m] = Missing <=> stamp[m] = Missing
                        \/ stamp'[Home(m)] = edits + 1
  /\ edited' = TRUE /\ raced' = (raced \/ pc # "idle")
  /\ UNCHANGED <<versionVars, memo, pc, discoveryVars, outcome>>

LEMMA EditedIs ==
  ASSUME DiskTypes, NEW touched \in SUBSET Paths, NEW gone \in SUBSET Modules,
         Edited(touched, gone)
  PROVE  /\ edits' = edits + 1 /\ edits' \in Nat /\ edits' <= MaxEdits /\ edits + 1 # Missing
         /\ \A p \in Paths : stamp'[p] = IF p \in gone THEN Missing
                                         ELSE IF p \in touched THEN edits + 1 ELSE stamp[p]
         /\ stamp' \in [Paths -> {Missing} \cup 0 .. edits']
         /\ \A p \in Dirs \cup {Config} : stamp'[p] # Missing
         /\ edited' = TRUE /\ raced' = (raced \/ pc # "idle")
         /\ UNCHANGED <<versionVars, memo, pc, discoveryVars, outcome>>
<1>1. /\ edits' = edits + 1
      /\ stamp' = [p \in Paths |-> IF p \in gone THEN Missing
                                   ELSE IF p \in touched THEN edits + 1 ELSE stamp[p]]
  BY DEF Edited
<1>2. edits \in Nat /\ edits' \in Nat /\ edits' <= MaxEdits /\ edits + 1 # Missing
  BY <1>1, EditsAssumption DEF DiskTypes, Missing, Edited
<1>3. \A p \in Paths : stamp'[p] \in {Missing} \cup 0 .. edits'
  <2> SUFFICES ASSUME NEW p \in Paths PROVE stamp'[p] \in {Missing} \cup 0 .. edits'
    OBVIOUS
  <2>1. stamp[p] \in {Missing} \cup 0 .. edits
    BY DEF DiskTypes
  <2>2. stamp'[p] \in {Missing, edits + 1, stamp[p]}
    BY <1>1
  <2> QED
    BY <1>1, <1>2, <2>1, <2>2
<1>4. stamp' \in [Paths -> {Missing} \cup 0 .. edits']
  BY <1>1, <1>3
<1>5. \A p \in Dirs \cup {Config} : stamp'[p] # Missing
  BY <1>1, <1>2, PathsAre DEF DiskTypes
<1> QED
  BY <1>1, <1>2, <1>4, <1>5 DEF Edited

LEMMA EditIsDiskStep ==
  ASSUME DiskTypes, Edit
  PROVE  DiskStep /\ DiskTypes'
<1>1. ASSUME NEW m \in Modules, NEW k \in Edits, Write(m, k) PROVE DiskStep /\ DiskTypes'
  <2> DEFINE touched == {m} \cup IF stamp[m] = Missing THEN {Home(m)} ELSE {}
             gone == {}
  <2>1. Edited(touched, gone) /\ kind' = [kind EXCEPT ![m] = k] /\ UNCHANGED config
    BY <1>1 DEF Write
  <2>2. touched \in SUBSET Paths /\ gone \in SUBSET Modules /\ k \in Kinds /\ \A p : p \notin gone
    BY PathsAre, EditsAssumption
  <2>3. m \in touched /\ (stamp[m] = Missing => Home(m) \in touched)
    OBVIOUS
  <2>4. \A p \in Modules : p # m => p \notin touched
    BY PathsAre
  <2> HIDE DEF touched, gone
  <2>5. /\ edits' = edits + 1 /\ edits' \in Nat /\ edits' <= MaxEdits /\ edits + 1 # Missing
        /\ \A p \in Paths : stamp'[p] = IF p \in touched THEN edits + 1 ELSE stamp[p]
        /\ stamp' \in [Paths -> {Missing} \cup 0 .. edits']
        /\ \A p \in Dirs \cup {Config} : stamp'[p] # Missing
        /\ edited' = TRUE /\ raced' = (raced \/ pc # "idle")
        /\ UNCHANGED <<versionVars, memo, pc, discoveryVars, outcome>>
    <3>1. /\ edits' = edits + 1 /\ edits' \in Nat /\ edits' <= MaxEdits /\ edits + 1 # Missing
          /\ \A p \in Paths : stamp'[p] = IF p \in gone THEN Missing
                                          ELSE IF p \in touched THEN edits + 1 ELSE stamp[p]
          /\ stamp' \in [Paths -> {Missing} \cup 0 .. edits']
          /\ \A p \in Dirs \cup {Config} : stamp'[p] # Missing
          /\ edited' = TRUE /\ raced' = (raced \/ pc # "idle")
          /\ UNCHANGED <<versionVars, memo, pc, discoveryVars, outcome>>
      BY <2>1, <2>2, EditedIs
    <3> QED
      BY <2>2, <3>1
  <2>6. DiskTypes'
    BY <2>1, <2>2, <2>5 DEF DiskTypes
  <2>7. \A p \in Modules : kind'[p] = kind[p] \/ stamp'[p] = edits + 1
    BY <2>1, <2>3, <2>5, PathsAre DEF DiskTypes
  <2>8. \A p \in Modules : \/ stamp'[p] = Missing <=> stamp[p] = Missing
                           \/ stamp'[Home(p)] = edits + 1
    BY <2>3, <2>4, <2>5, PathsAre
  <2> QED
    BY <2>1, <2>5, <2>6, <2>7, <2>8 DEF DiskStep
<1>2. ASSUME NEW m \in Modules, RemoveFile(m) PROVE DiskStep /\ DiskTypes'
  <2>1. Edited({Home(m)}, {m}) /\ UNCHANGED <<kind, config>>
    BY <1>2 DEF RemoveFile
  <2>2. {Home(m)} \in SUBSET Paths /\ {m} \in SUBSET Modules
    BY PathsAre
  <2>3. /\ edits' = edits + 1 /\ edits' \in Nat /\ edits' <= MaxEdits /\ edits + 1 # Missing
        /\ \A p \in Paths : stamp'[p] = IF p \in {m} THEN Missing
                                        ELSE IF p \in {Home(m)} THEN edits + 1 ELSE stamp[p]
        /\ stamp' \in [Paths -> {Missing} \cup 0 .. edits']
        /\ \A p \in Dirs \cup {Config} : stamp'[p] # Missing
        /\ edited' = TRUE /\ raced' = (raced \/ pc # "idle")
        /\ UNCHANGED <<versionVars, memo, pc, discoveryVars, outcome>>
    BY <2>1, <2>2, EditedIs
  <2>4. DiskTypes'
    BY <2>1, <2>3 DEF DiskTypes
  <2>5. \A p \in Modules : \/ stamp'[p] = Missing <=> stamp[p] = Missing
                           \/ stamp'[Home(p)] = edits + 1
    <3>1. Home(m) # m /\ Home(m) \in Paths /\ \A p \in Modules : p # Home(m) /\ p \in Paths
      BY PathsAre
    <3> QED
      BY <2>3, <3>1
  <2> QED
    BY <2>1, <2>3, <2>4, <2>5 DEF DiskStep
<1>3. ASSUME NEW c \in Configs, Configure(c) PROVE DiskStep /\ DiskTypes'
  <2> DEFINE touched == {Config}
             gone == {}
  <2>1. Edited(touched, gone) /\ config' = c /\ UNCHANGED kind
    BY <1>3 DEF Configure
  <2>2. /\ touched \in SUBSET Paths /\ gone \in SUBSET Modules /\ \A p : p \notin gone
        /\ \A p : p \in touched <=> p = Config
    BY PathsAre
  <2> HIDE DEF touched, gone
  <2>3. /\ edits' = edits + 1 /\ edits' \in Nat /\ edits' <= MaxEdits /\ edits + 1 # Missing
        /\ \A p \in Paths : stamp'[p] = IF p \in touched THEN edits + 1 ELSE stamp[p]
        /\ stamp' \in [Paths -> {Missing} \cup 0 .. edits']
        /\ \A p \in Dirs \cup {Config} : stamp'[p] # Missing
        /\ edited' = TRUE /\ raced' = (raced \/ pc # "idle")
        /\ UNCHANGED <<versionVars, memo, pc, discoveryVars, outcome>>
    BY <2>1, <2>2, EditedIs
  <2>4. DiskTypes'
    BY <2>1, <2>3 DEF DiskTypes
  <2>5. \A p \in Modules : stamp'[p] = stamp[p]
    BY <2>2, <2>3, PathsAre
  <2> QED
    BY <2>1, <2>2, <2>3, <2>4, <2>5, PathsAre DEF DiskStep
<1> QED
  BY <1>1, <1>2, <1>3 DEF Edit

\* What was stamped before an edit and still has its stamp is as it was.
LEMMA StampsTell ==
  ASSUME DiskTypes, DiskStep
  PROVE  /\ \A x \in Recorded : x # edits + 1 /\ x \in Recorded'
         /\ \A p \in Dirs \cup {Config} : \A x \in Recorded : x = stamp'[p] => stamp'[p] = stamp[p]
         /\ \A x \in Recorded : x = stamp'[Config] => config' = config
         /\ \A m \in Modules : \A x \in Recorded : x = stamp'[m] /\ stamp'[m] # Missing =>
              stamp'[m] = stamp[m] /\ kind'[m] = kind[m]
         /\ \A m \in Modules : \A x \in Recorded : x = stamp'[Home(m)] =>
              /\ stamp'[Home(m)] = stamp[Home(m)]
              /\ stamp'[m] = Missing <=> stamp[m] = Missing
<1>1. \A x \in Recorded : x # edits + 1 /\ x \in Recorded'
  BY DEF Recorded, DiskTypes, DiskStep, Missing, Unwatched
<1>2. \A p \in Dirs \cup {Config} : stamp'[p] = stamp[p] \/ stamp'[p] = edits + 1
  BY PathsAre DEF DiskStep
<1>3. \A m \in Modules : stamp'[m] = stamp[m] \/ stamp'[m] = edits + 1 \/ stamp'[m] = Missing
  BY PathsAre DEF DiskStep
<1> QED
  BY <1>1, <1>2, <1>3, PathsAre DEF DiskStep

LEMMA EditKeepsInv ==
  ASSUME FilesInv, Edit
  PROVE  FilesInv'
<1> USE DEF FilesInv
<1>1. DiskStep /\ DiskTypes'
  BY EditIsDiskStep
<1>2. UNCHANGED <<loaded, version, watched, memo, pc, byReload, reuse, known, resolver, structure,
                  modules, path, current, source, outcome>>
  BY <1>1 DEF DiskStep, versionVars, discoveryVars
<1>3. /\ \A x \in Recorded : x # edits + 1 /\ x \in Recorded'
      /\ \A p \in Dirs \cup {Config} : \A x \in Recorded : x = stamp'[p] => stamp'[p] = stamp[p]
      /\ \A x \in Recorded : x = stamp'[Config] => config' = config
      /\ \A m \in Modules : \A x \in Recorded : x = stamp'[m] /\ stamp'[m] # Missing =>
           stamp'[m] = stamp[m] /\ kind'[m] = kind[m]
      /\ \A m \in Modules : \A x \in Recorded : x = stamp'[Home(m)] =>
           /\ stamp'[Home(m)] = stamp[Home(m)]
           /\ stamp'[m] = Missing <=> stamp[m] = Missing
  BY <1>1, StampsTell
<1>4. Readings \subseteq Readings' /\ Records \subseteq Records' /\ Resolvers' = Resolvers
  BY <1>3 DEF Records, Resolvers, Readings
<1>5. LoadTypes' /\ DiscoveryTypes'
  <2>1. /\ memo.structure \in [Paths -> Recorded'] /\ memo.known \in [Modules -> Records']
        /\ watched \in [Paths -> Recorded']
        /\ version \in [read : [Modules -> Readings'], target : Modules \cup {None}]
    BY <1>3, <1>4 DEF LoadTypes
  <2>2. LoadTypes'
    BY <1>2, <1>4, <2>1 DEF LoadTypes
  <2>3. DiscoveryTypes'
    BY <1>2, <1>3, <1>4 DEF DiscoveryTypes
  <2> QED
    BY <2>2, <2>3
<1>6. \A m \in Modules : /\ known[m].stamp \in Recorded /\ modules[m].stamp \in Recorded
                         /\ memo.known[m].stamp \in Recorded
  <2>1. \A r \in Records : r.stamp \in Recorded
    BY DEF Records
  <2>2. /\ known \in [Modules -> Records] /\ modules \in [Modules -> Records]
        /\ memo.known \in [Modules -> Records]
    BY DEF DiscoveryTypes, LoadTypes
  <2> QED
    BY <2>1, <2>2
<1>7. \A p \in Paths : /\ watched[p] \in Recorded /\ structure[p] \in Recorded
                       /\ memo.structure[p] \in Recorded
  BY DEF DiscoveryTypes, LoadTypes
<1>8. MemoInv'
  <2>1. ReadInv(memo.known)'
    BY <1>2, <1>3, <1>6 DEF MemoInv, ReadInv
  <2>2. ASSUME memo.held PROVE ResolvedInv(memo.resolver, memo.known)'
    BY <1>2, <2>2 DEF MemoInv, ResolvedInv, Finds
  <2>3. ASSUME memo.held PROVE ViewInv(memo.resolver, memo.structure)'
    BY <1>2, <1>3, <1>7, <2>3, PathsAre DEF MemoInv, ViewInv
  <2> QED
    BY <1>2, <2>1, <2>2, <2>3 DEF MemoInv
<1>9. VisitInv'
  BY <1>2 DEF VisitInv, Finding, IsVisited
<1>10. FindInv'
  <2> SUFFICES ASSUME Finding PROVE FindInv'
    BY <1>2 DEF FindInv, Finding
  <2>1. ReadInv(known)' /\ ReadInv(modules)'
    BY <1>2, <1>3, <1>6 DEF FindInv, ReadInv
  <2>2. (reuse => ResolvedInv(resolver, known))' /\ ResolvedInv(resolver, modules)'
    BY <1>2 DEF FindInv, ResolvedInv, Finds
  <2>3. ViewInv(resolver, structure)'
    BY <1>2, <1>3, <1>7, PathsAre DEF FindInv, ViewInv
  <2>4. ThereInv(modules, structure)'
    BY <1>2, <1>3, <1>7, PathsAre DEF FindInv, ThereInv
  <2>5. (pc = "resolve" =>
           /\ current = stamp[path] /\ stamp[path] # Missing =>
                source.read = stamp[path] /\ source.kind = kind[path]
           /\ current = Missing /\ stamp[path] = Missing =>
                structure[Home(path)] # stamp[Home(path)])'
    <3> SUFFICES ASSUME pc = "resolve"
                 PROVE  /\ current = stamp'[path] /\ stamp'[path] # Missing =>
                             source.read = stamp'[path] /\ source.kind = kind'[path]
                        /\ current = Missing /\ stamp'[path] = Missing =>
                             structure[Home(path)] # stamp'[Home(path)]
      BY <1>2
    <3>1. path \in Modules /\ current \in Recorded
      BY DEF VisitInv, Finding, DiscoveryTypes
    <3> QED
      BY <1>3, <1>7, <3>1, PathsAre DEF FindInv
  <2> QED
    BY <2>1, <2>2, <2>3, <2>4, <2>5 DEF FindInv
<1>11. CurrentInv'
  <2>1. edited' = TRUE /\ raced' = (raced \/ pc # "idle")
    BY <1>1 DEF DiskStep
  <2>2. UNCHANGED AttemptWatched
    BY <1>2 DEF AttemptWatched
  <2> QED
    BY <1>2, <2>1, <2>2 DEF CurrentInv
<1>12. ReportedOnce'
  BY <1>1 DEF DiskStep, ReportedOnce
<1>13. (NextToEntry => VersionInv)'
  <2> SUFFICES ASSUME NextToEntry, pc = "idle", outcome = "ok" PROVE VersionInv'
    BY <1>2 DEF VersionInv, NextToEntry
  <2>1. Entry \in Modules /\ version.target \in Modules \cup {None}
    BY EntryAssumption DEF LoadTypes
  <2>2. EntryIsRead'
    BY <1>2, <1>3, <1>7, <2>1, PathsAre DEF VersionInv, EntryIsRead
  <2>3. TargetIsRead'
    BY <1>2, <1>3, <1>7, <2>1, PathsAre DEF VersionInv, TargetIsRead
  <2>4. TargetIsFirst'
    <3> SUFFICES ASSUME version.target # None, watched[Config] = stamp'[Config],
                        \A d \in DirsAbove(Entry) : watched[d] = stamp'[d]
                 PROVE  \E i \in DOMAIN Targets[config'] :
                           /\ version.target = Targets[config'][i]
                           /\ \A j \in 1 .. i - 1 : stamp'[Targets[config'][j]] = Missing
      BY <1>2 DEF TargetIsFirst
    <3>1. config' = config /\ watched[Config] = stamp[Config]
      BY <1>3, <1>7, PathsAre
    <3>2. \A d \in DirsAbove(Entry) : watched[d] = stamp[d]
      BY <1>3, <1>7, <2>1, PathsAre
    <3>3. PICK i \in DOMAIN Targets[config] :
             /\ version.target = Targets[config][i]
             /\ \A j \in 1 .. i - 1 : stamp[Targets[config][j]] = Missing
      BY <3>1, <3>2 DEF VersionInv, TargetIsFirst
    <3>4. ASSUME NEW j \in 1 .. i - 1 PROVE stamp'[Targets[config][j]] = Missing
      <4>1. config \in Configs /\ j \in DOMAIN Targets[config]
        <5>1. config \in Configs /\ Targets[config] \in Seq(Modules \ {Entry})
          BY TargetsAssumption DEF DiskTypes
        <5> QED
          BY <3>3, <5>1
      <4>2. Targets[config][j] \in Modules /\ Home(Targets[config][j]) \in DirsAbove(Entry)
        BY <3>3, <4>1, TargetsAssumption DEF NextToEntry
      <4>3. watched[Home(Targets[config][j])] = stamp'[Home(Targets[config][j])]
        BY <4>2
      <4> QED
        BY <1>3, <1>7, <3>3, <4>2, <4>3, PathsAre
    <3> QED
      BY <3>1, <3>3, <3>4
  <2> QED
    BY <1>2, <2>2, <2>3, <2>4 DEF VersionInv
<1> QED
  BY <1>1, <1>5, <1>8, <1>9, <1>10, <1>11, <1>12, <1>13

-----------------------------------------------------------------------------
(* A discovery begins.                                                     *)

LEMMA StampIs ==
  ASSUME DiskTypes, NEW p \in Paths
  PROVE  stamp[p] \in Recorded /\ stamp[p] # Unwatched
BY DEF DiskTypes, Recorded, Missing, Unwatched

LEMMA WatchIs ==
  ASSUME DiskTypes, NEW files \in [Paths -> Recorded], NEW paths \in SUBSET Paths
  PROVE  /\ Watch(files, paths) \in [Paths -> Recorded]
         /\ \A p \in paths : Watch(files, paths)[p] # Unwatched
         /\ \A p \in Paths : /\ files[p] # Unwatched => Watch(files, paths)[p] = files[p]
                             /\ Watch(files, paths)[p] \in {files[p], stamp[p]}
<1>1. \A p \in Paths : stamp[p] \in Recorded /\ stamp[p] # Unwatched
  BY StampIs
<1> QED
  BY <1>1 DEF Watch

\* A resolver's view stays right when more is watched.
LEMMA ViewKept ==
  ASSUME NEW r, NEW files, NEW more,
         \A p \in Paths : files[p] # Unwatched => more[p] = files[p], ViewInv(r, files)
  PROVE  ViewInv(r, more)
BY PathsAre DEF ViewInv

LEMMA NothingVisited ==
  /\ \A m \in Modules : NoModules[m] = NotVisited
  /\ NotVisited.stamp = Unwatched /\ NotVisited.kind = "plain" /\ NotVisited.target = None
  /\ NotVisited.read = Missing
  /\ NoModules \in [Modules -> Records] /\ NewResolver \in Resolvers
  /\ NothingWatched \in [Paths -> Recorded] /\ \A p \in Paths : NothingWatched[p] = Unwatched
<1>1. NotVisited \in Records
  BY DEF NotVisited, Records, Readings, Recorded, Missing, Unwatched, Kinds
<1> QED
  BY <1>1 DEF NotVisited, NoModules, NewResolver, Resolvers, NothingWatched, Recorded

LEMMA BeginKeepsInv ==
  ASSUME FilesInv, pc = "idle", NEW reload \in BOOLEAN, reload => loaded, Begin(reload)
  PROVE  FilesInv'
<1> USE DEF FilesInv
<1> DEFINE before == IF Reusable THEN memo.structure ELSE NothingWatched
<1>1. /\ byReload' = reload /\ memo' = NoMemo /\ known' = memo.known /\ reuse' = Reusable
      /\ resolver' = IF Reusable THEN memo.resolver ELSE NewResolver
      /\ modules' = NoModules
      /\ \/ pc' = "failed" /\ path' = None /\ structure' = NothingWatched
         \/ pc' = "visit" /\ path' = Entry /\ structure' = Watch(before, {Config})
      /\ edited' = FALSE /\ raced' = FALSE
      /\ UNCHANGED <<kind, config, stamp, edits, loaded, version, watched, current, source, outcome>>
  BY DEF Begin, diskVars, versionVars
<1>2. before \in [Paths -> Recorded] /\ {Config} \in SUBSET Paths
  BY NothingVisited, PathsAre DEF LoadTypes
<1>3. \A p \in Paths : before[p] \in {Unwatched, stamp[p]}
  BY NothingVisited DEF Reusable, Changed
<1>4. Reusable => memo.held
  BY DEF Reusable
<1>5. resolver' \in Resolvers /\ ViewInv(resolver', before)
  <2>1. ViewInv(NewResolver, NothingWatched)
    BY DEF ViewInv, NewResolver
  <2> QED
    BY <1>1, <1>4, <2>1, NothingVisited DEF MemoInv, LoadTypes
<1> HIDE DEF before
<1>6. structure' \in [Paths -> Recorded] /\ \A p \in Paths : structure'[p] \in {Unwatched, stamp[p]}
  <2>1. /\ Watch(before, {Config}) \in [Paths -> Recorded]
        /\ \A p \in Paths : Watch(before, {Config})[p] \in {before[p], stamp[p]}
    BY <1>2, WatchIs
  <2> QED
    BY <1>1, <1>3, <2>1, NothingVisited
<1>7. DiskTypes' /\ LoadTypes' /\ DiscoveryTypes'
  <2>1. Recorded' = Recorded /\ Readings' = Readings
    BY <1>1 DEF Recorded, Readings
  <2>2. DiskTypes'
    BY <1>1 DEF DiskTypes
  <2>3. NoMemo \in [held : BOOLEAN, structure : [Paths -> Recorded],
                    known : [Modules -> Records], resolver : Resolvers]
    BY NothingVisited DEF NoMemo
  <2>4. Records' = Records /\ Resolvers' = Resolvers
    BY <2>1 DEF Records, Resolvers
  <2>5. LoadTypes'
    BY <1>1, <2>1, <2>3, <2>4 DEF LoadTypes
  <2>6. path' \in Modules \cup {None} /\ memo.known \in [Modules -> Records]
    BY <1>1, EntryAssumption DEF LoadTypes
  <2>7. DiscoveryTypes'
    BY <1>1, <1>5, <1>6, <2>1, <2>4, <2>6, NothingVisited DEF DiscoveryTypes
  <2> QED
    BY <2>2, <2>5, <2>7
<1>8. \A m \in Modules : /\ modules'[m] = NotVisited /\ modules'[m].stamp = Unwatched
                         /\ modules'[m].kind = "plain" /\ modules'[m].target = None
  BY <1>1, NothingVisited
<1>9. \A m \in Modules : stamp[m] # Unwatched
  BY PathsAre, StampIs
<1>10. MemoInv'
  <2>1. memo'.held = FALSE /\ memo'.known = NoModules
    BY <1>1 DEF NoMemo
  <2> QED
    BY <1>1, <1>9, <2>1, NothingVisited DEF MemoInv, ReadInv
<1>11. VisitInv'
  <2> SUFFICES ASSUME Finding' PROVE VisitInv'
    BY DEF VisitInv
  <2>1. pc' = "visit" /\ path' = Entry /\ structure' = Watch(before, {Config})
    BY <1>1 DEF Finding
  <2>2. structure'[Config] # Unwatched
    BY <1>2, <2>1, WatchIs
  <2> QED
    BY <1>8, <2>1, <2>2, EntryAssumption DEF VisitInv, IsVisited
<1>12. FindInv'
  <2> SUFFICES ASSUME Finding' PROVE FindInv'
    BY DEF FindInv
  <2>1. pc' = "visit" /\ structure' = Watch(before, {Config})
    BY <1>1 DEF Finding
  <2>2. ReadInv(known)' /\ (reuse => ResolvedInv(resolver, known))'
    BY <1>1, <1>4 DEF MemoInv, ReadInv, ResolvedInv, Finds
  <2>3. ViewInv(resolver', structure')
    <3>1. \A p \in Paths : before[p] # Unwatched => structure'[p] = before[p]
      BY <1>2, <2>1, WatchIs
    <3> QED
      BY <1>5, <3>1, ViewKept
  <2>4. ViewInv(resolver, structure)'
    BY <1>1, <2>3 DEF ViewInv
  <2>5. ReadInv(modules)' /\ ThereInv(modules, structure)' /\ ResolvedInv(resolver, modules)'
    BY <1>1, <1>8, <1>9 DEF ReadInv, ThereInv, ResolvedInv, Missing, Unwatched
  <2> QED
    BY <2>1, <2>2, <2>4, <2>5 DEF FindInv
<1>13. CurrentInv'
  <2>1. \A p \in Paths : AttemptWatched'[p] \in {Unwatched, stamp[p]}
    BY <1>6, <1>8 DEF AttemptWatched, Merge
  <2> QED
    BY <1>1, <1>6, <2>1 DEF CurrentInv
<1>14. ReportedOnce' /\ VersionInv'
  BY <1>1 DEF ReportedOnce, VersionInv
<1> QED
  BY <1>7, <1>10, <1>11, <1>12, <1>13, <1>14

LEMMA VisitKeepsInv ==
  ASSUME FilesInv, Visit
  PROVE  FilesInv'
<1> USE DEF FilesInv
<1>1. /\ pc = "visit" /\ path # None /\ pc' = "read" /\ current' = stamp[path]
      /\ structure' = Watch(structure, DirsAbove(path))
      /\ UNCHANGED <<kind, config, stamp, edits, loaded, version, watched, memo, byReload, reuse,
                     known, resolver, modules, path, source, outcome, edited, raced>>
  BY DEF Visit, diskVars, versionVars, historyVars
<1>2. path \in Modules /\ DirsAbove(path) \in SUBSET Paths /\ Finding
  BY <1>1, PathsAre DEF DiscoveryTypes, Finding
<1>3. /\ structure' \in [Paths -> Recorded]
      /\ \A p \in DirsAbove(path) : structure'[p] # Unwatched
      /\ \A p \in Paths : /\ structure[p] # Unwatched => structure'[p] = structure[p]
                          /\ structure'[p] \in {structure[p], stamp[p]}
  BY <1>1, <1>2, WatchIs DEF DiscoveryTypes
<1>4. current' \in Recorded /\ current' # Unwatched
  BY <1>1, <1>2, PathsAre, StampIs
<1>5. Recorded' = Recorded /\ Readings' = Readings /\ Records' = Records /\ Resolvers' = Resolvers
  BY <1>1 DEF Recorded, Records, Readings, Resolvers
<1>6. DiskTypes' /\ LoadTypes' /\ DiscoveryTypes' /\ MemoInv'
  <2>1. DiskTypes'
    BY <1>1 DEF DiskTypes
  <2>2. LoadTypes'
    BY <1>1, <1>5 DEF LoadTypes
  <2>3. DiscoveryTypes'
    BY <1>1, <1>3, <1>4, <1>5 DEF DiscoveryTypes
  <2>4. MemoInv'
    BY <1>1 DEF MemoInv, ReadInv, ResolvedInv, ViewInv, Finds
  <2> QED
    BY <2>1, <2>2, <2>3, <2>4
<1>7. VisitInv'
  <2>1. structure'[Config] # Unwatched
    BY <1>2, <1>3, PathsAre DEF VisitInv
  <2>2. \A m \in Modules : IsVisited(m) => \A d \in DirsAbove(m) : structure'[d] # Unwatched
    BY <1>2, <1>3, PathsAre DEF VisitInv
  <2>3. \A m \in Modules : IsVisited(m)' <=> IsVisited(m)
    BY <1>1 DEF IsVisited
  <2> QED
    BY <1>1, <1>2, <1>3, <1>4, <2>1, <2>2, <2>3, EntryAssumption DEF VisitInv, IsVisited
<1>8. FindInv'
  <2>1. ViewInv(resolver, structure')
    BY <1>2, <1>3, ViewKept DEF FindInv
  <2>2. ViewInv(resolver, structure)'
    BY <1>1, <2>1 DEF ViewInv
  <2>3. ThereInv(modules, structure)'
    <3>1. \A m \in Modules : modules[m].stamp = Missing => structure'[Home(m)] = structure[Home(m)]
      BY <1>2, <1>3, PathsAre DEF VisitInv, IsVisited, Missing, Unwatched
    <3> QED
      BY <1>1, <1>2, <3>1 DEF FindInv, ThereInv
  <2>4. /\ ReadInv(known)' /\ (reuse => ResolvedInv(resolver, known))' /\ ReadInv(modules)'
        /\ ResolvedInv(resolver, modules)'
    BY <1>1, <1>2 DEF FindInv, ReadInv, ResolvedInv, Finds
  <2> QED
    BY <1>1, <2>2, <2>3, <2>4 DEF FindInv
<1>9. CurrentInv'
  <2>1. ASSUME ~edited, NEW p \in Paths
        PROVE  AttemptWatched'[p] \in {Unwatched, stamp[p]} /\ structure'[p] \in {Unwatched, stamp[p]}
    <3>1. AttemptWatched[p] \in {Unwatched, stamp[p]} /\ structure[p] \in {Unwatched, stamp[p]}
      BY <1>1, <2>1 DEF CurrentInv
    <3>2. structure'[p] \in {structure[p], stamp[p]}
      BY <1>3
    <3> QED
      BY <1>1, <3>1, <3>2 DEF AttemptWatched, Merge
  <2> QED
    BY <1>1, <2>1 DEF CurrentInv
<1>10. ReportedOnce' /\ VersionInv'
  BY <1>1 DEF ReportedOnce, VersionInv
<1> QED
  BY <1>6, <1>7, <1>8, <1>9, <1>10

-----------------------------------------------------------------------------
(* What a resolver finds.                                                  *)

\* A set of numbers from one on has a least one.
LEMMA LeastIndex ==
  ASSUME NEW T \in SUBSET (Nat \ {0}), T # {}
  PROVE  \E m \in T : \A i \in T : m <= i
<1> DEFINE R == {p \in Nat \X Nat : p[1] < p[2]}
<1>1. IsWellFoundedOn(R, Nat)
  BY NatLessThanWellFounded DEF OpToRel
<1>2. PICK m \in T : \A i \in T : <<i, m>> \notin R
  BY <1>1, WFMin
<1>3. \A i \in T : i < m => <<i, m>> \in R
  OBVIOUS
<1>4. \A i \in T : ~(i < m)
  BY <1>2, <1>3
<1> QED
  BY <1>4

LEMMA CandidatesAre ==
  ASSUME NEW c \in Configs
  PROVE  /\ DOMAIN Targets[c] = 1 .. Len(Targets[c]) /\ Len(Targets[c]) \in Nat
         /\ \A i \in DOMAIN Targets[c] : Targets[c][i] \in Modules /\ Targets[c][i] # Entry
         /\ \A i \in DOMAIN Targets[c] : \A j \in 1 .. i - 1 : j \in DOMAIN Targets[c]
<1>1. Targets[c] \in Seq(Modules \ {Entry})
  BY TargetsAssumption
<1> QED
  BY <1>1

\* The first candidate among files that are there.
IsFirst(c, files, t) ==
  \E i \in DOMAIN Targets[c] : /\ t = Targets[c][i] /\ t \in files
                               /\ \A j \in 1 .. i - 1 : Targets[c][j] \notin files

LEMMA FirstIs ==
  ASSUME NEW c \in Configs, NEW files
  PROVE  First(Targets[c], files) # None => IsFirst(c, files, First(Targets[c], files))
<1> DEFINE there == {i \in DOMAIN Targets[c] : Targets[c][i] \in files}
<1>1. CASE there = {}
  BY <1>1 DEF First
<1>2. CASE there # {}
  <2>1. there \in SUBSET (Nat \ {0})
    BY CandidatesAre
  <2>2. \E i \in there : \A j \in there : i <= j
    BY <1>2, <2>1, LeastIndex
  <2> DEFINE n == CHOOSE i \in there : \A j \in there : i <= j
  <2>3. n \in there /\ \A j \in there : n <= j
    BY <2>2
  <2>4. First(Targets[c], files) = Targets[c][n]
    BY <1>2 DEF First
  <2> HIDE DEF n
  <2>5. ASSUME NEW j \in 1 .. n - 1 PROVE Targets[c][j] \notin files
    <3>1. j \in DOMAIN Targets[c] /\ ~(n <= j)
      BY <2>3, <2>1, CandidatesAre
    <3> QED
      BY <2>3, <3>1
  <2> QED
    BY <2>3, <2>4, <2>5 DEF IsFirst
<1> QED
  BY <1>1, <1>2

LEMMA FirstIsUnique ==
  ASSUME NEW c \in Configs, NEW files, NEW t, IsFirst(c, files, t)
  PROVE  First(Targets[c], files) = t
<1> DEFINE there == {i \in DOMAIN Targets[c] : Targets[c][i] \in files}
           n == CHOOSE i \in there : \A j \in there : i <= j
<1>1. PICK i \in DOMAIN Targets[c] : /\ t = Targets[c][i] /\ t \in files
                                     /\ \A j \in 1 .. i - 1 : Targets[c][j] \notin files
  BY DEF IsFirst
<1>2. i \in there /\ there \in SUBSET (Nat \ {0})
  BY <1>1, CandidatesAre
<1>3. \E k \in there : \A j \in there : k <= j
  BY <1>2, LeastIndex
<1>4. n \in there /\ \A j \in there : n <= j
  BY <1>3
<1>5. First(Targets[c], files) = Targets[c][n]
  BY <1>2 DEF First
<1> HIDE DEF n
<1>6. ~(n < i)
  <2> SUFFICES ASSUME n < i PROVE FALSE
    OBVIOUS
  <2>1. n \in 1 .. i - 1
    BY <1>2, <1>4
  <2> QED
    BY <1>1, <1>4, <2>1
<1>7. n = i
  BY <1>2, <1>4, <1>6
<1> QED
  BY <1>1, <1>5, <1>7

LEMMA FindsOne ==
  ASSUME NEW r, NEW t, NEW u, Finds(r, t), Finds(r, u)
  PROVE  t = u
<1>1. r.config \in Configs
  BY DEF Finds
<1>2. PICK i \in DOMAIN Targets[r.config] :
         /\ t = Targets[r.config][i] /\ r.saw[t] = "there"
         /\ \A k \in 1 .. i - 1 : r.saw[Targets[r.config][k]] = "absent"
  BY DEF Finds
<1>3. PICK j \in DOMAIN Targets[r.config] :
         /\ u = Targets[r.config][j] /\ r.saw[u] = "there"
         /\ \A k \in 1 .. j - 1 : r.saw[Targets[r.config][k]] = "absent"
  BY DEF Finds
<1>4. i \in Nat \ {0} /\ j \in Nat \ {0}
  BY <1>1, <1>2, <1>3, CandidatesAre
<1>5. ~(i < j)
  <2>1. i < j => i \in 1 .. j - 1
    BY <1>4
  <2> QED
    BY <1>2, <1>3, <2>1
<1>6. ~(j < i)
  <2>1. j < i => j \in 1 .. i - 1
    BY <1>4
  <2> QED
    BY <1>2, <1>3, <2>1
<1>7. i = j
  BY <1>4, <1>5, <1>6
<1> QED
  BY <1>2, <1>3, <1>7

LEMMA FoundIsModule ==
  ASSUME NEW r, NEW t, Finds(r, t)
  PROVE  t \in Modules /\ t # Entry /\ t # None
BY CandidatesAre, NoneAssumption DEF Finds

-----------------------------------------------------------------------------
(* A module is visited, or fails.                                          *)

LEMMA VisitFailsKeepsInv ==
  ASSUME FilesInv, pc \in {"read", "resolve"}, VisitFails, resolver' \in Resolvers,
         UNCHANGED <<diskVars, versionVars, memo, byReload, reuse, known, current, historyVars>>
  PROVE  FilesInv'
<1> USE DEF FilesInv
<1>1. /\ pc' = "failed" /\ structure' = [structure EXCEPT ![path] = current]
      /\ UNCHANGED <<kind, config, stamp, edits, loaded, version, watched, memo, byReload, reuse,
                     known, modules, path, current, source, outcome, edited, raced>>
  BY DEF VisitFails, diskVars, versionVars, historyVars
<1>2. path \in Modules /\ ~IsVisited(path) /\ Finding /\ path \in Paths
  BY PathsAre DEF VisitInv, Finding, DiscoveryTypes
<1>3. Recorded' = Recorded /\ Readings' = Readings /\ Records' = Records /\ Resolvers' = Resolvers
  BY <1>1 DEF Recorded, Records, Readings, Resolvers
<1>4. structure' \in [Paths -> Recorded]
      /\ \A p \in Paths : structure'[p] = IF p = path THEN current ELSE structure[p]
  BY <1>1, <1>2 DEF DiscoveryTypes
<1>5. DiskTypes' /\ LoadTypes' /\ DiscoveryTypes' /\ MemoInv'
  <2>1. DiskTypes' /\ LoadTypes'
    BY <1>1, <1>3 DEF DiskTypes, LoadTypes
  <2>2. DiscoveryTypes'
    BY <1>1, <1>3, <1>4 DEF DiscoveryTypes
  <2>3. MemoInv'
    BY <1>1 DEF MemoInv, ReadInv, ResolvedInv, ViewInv, Finds
  <2> QED
    BY <2>1, <2>2, <2>3
<1>6. CurrentInv'
  <2>1. ASSUME ~edited, NEW p \in Paths
        PROVE  AttemptWatched'[p] \in {Unwatched, stamp[p]} /\ structure'[p] \in {Unwatched, stamp[p]}
    <3>1. /\ AttemptWatched[p] \in {Unwatched, stamp[p]} /\ structure[p] \in {Unwatched, stamp[p]}
          /\ current = stamp[path]
      BY <2>1 DEF CurrentInv
    <3> QED
      BY <1>1, <1>4, <3>1 DEF AttemptWatched, Merge
  <2> QED
    BY <1>1, <2>1 DEF CurrentInv
<1>7. VisitInv' /\ FindInv' /\ ReportedOnce' /\ VersionInv'
  BY <1>1 DEF VisitInv, FindInv, Finding, ReportedOnce, VersionInv
<1> QED
  BY <1>5, <1>6, <1>7

\* A module is read, and its import resolved.
LEMMA VisitedKeepsInv ==
  ASSUME FilesInv, pc \in {"read", "resolve"}, NEW module \in Records, Visited(module),
         module.stamp = current,
         current = stamp[path] /\ stamp[path] # Missing =>
            module.read = stamp[path] /\ module.kind = kind[path],
         current = Missing /\ stamp[path] = Missing => structure[Home(path)] # stamp[Home(path)],
         resolver' \in Resolvers, ViewInv(resolver', structure),
         \A t : Finds(resolver, t) => Finds(resolver', t),
         IF module.kind = "imports" THEN Finds(resolver', module.target) ELSE module.target = None,
         UNCHANGED <<diskVars, versionVars, memo, byReload, reuse, known, current, historyVars>>
  PROVE  FilesInv'
<1> USE DEF FilesInv
<1>1. /\ pc' = "visit" /\ modules' = [modules EXCEPT ![path] = module]
      /\ path' = IF module.target # None /\ modules'[module.target].stamp = Unwatched
                 THEN module.target ELSE None
      /\ UNCHANGED <<kind, config, stamp, edits, loaded, version, watched, memo, byReload, reuse,
                     known, structure, current, source, outcome, edited, raced>>
  BY DEF Visited, VisitNext, diskVars, versionVars, historyVars
<1>2. /\ path \in Modules /\ ~IsVisited(path) /\ Finding /\ path \in Paths /\ current # Unwatched
      /\ module.target \in Modules \cup {None}
  BY PathsAre DEF VisitInv, Finding, DiscoveryTypes, Records
<1>3. Recorded' = Recorded /\ Readings' = Readings /\ Records' = Records /\ Resolvers' = Resolvers
  BY <1>1 DEF Recorded, Records, Readings, Resolvers
<1>4. /\ modules' \in [Modules -> Records] /\ modules'[path] = module
      /\ \A m \in Modules : m # path => modules'[m] = modules[m]
  BY <1>1, <1>2 DEF DiscoveryTypes
<1>5. DiskTypes' /\ LoadTypes' /\ DiscoveryTypes' /\ MemoInv'
  <2>1. DiskTypes' /\ LoadTypes'
    BY <1>1, <1>3 DEF DiskTypes, LoadTypes
  <2>2. path' \in Modules \cup {None}
    BY <1>1, <1>2
  <2>3. DiscoveryTypes'
    BY <1>1, <1>3, <1>4, <2>2 DEF DiscoveryTypes
  <2>4. MemoInv'
    BY <1>1 DEF MemoInv, ReadInv, ResolvedInv, ViewInv, Finds
  <2> QED
    BY <2>1, <2>3, <2>4
<1>6. ResolvedInv(resolver', modules')
  <2> SUFFICES ASSUME NEW m \in Modules
               PROVE  IF modules'[m].kind = "imports" THEN Finds(resolver', modules'[m].target)
                                                      ELSE modules'[m].target = None
    BY DEF ResolvedInv
  <2>1. CASE m = path
    BY <1>4, <2>1
  <2>2. CASE m # path
    BY <1>2, <1>4, <2>2 DEF FindInv, ResolvedInv
  <2> QED
    BY <2>1, <2>2
<1>7. VisitInv'
  <2>1. \A m \in Modules : IsVisited(m)' <=> IsVisited(m) \/ m = path
    BY <1>2, <1>4 DEF IsVisited
  <2>2. \A m \in Modules : IsVisited(m)' => \A d \in DirsAbove(m) : structure'[d] # Unwatched
    BY <1>1, <1>2, <2>1 DEF VisitInv
  <2>3. structure'[Config] # Unwatched /\ (path' # None => ~IsVisited(path)')
    BY <1>1, <1>2 DEF VisitInv, IsVisited
  <2>4. \A m \in Modules : ~IsVisited(m)' => modules'[m] = NotVisited
    BY <1>2, <1>4, <2>1 DEF VisitInv
  <2>5. module.target # None => path' = module.target \/ IsVisited(module.target)'
    BY <1>1, <1>2 DEF IsVisited
  <2>6. /\ IsVisited(Entry)'
        /\ path' = modules'[Entry].target \/ path' = None
        /\ path' = None => modules'[Entry].target = None \/ IsVisited(modules[Entry].target)'
        /\ \A m \in Modules : IsVisited(m)' => m \in {Entry, modules'[Entry].target}
    <3>1. CASE path = Entry /\ \A m \in Modules : ~IsVisited(m)
      <4>1. modules'[Entry] = module /\ IsVisited(Entry)' /\ \A m \in Modules : IsVisited(m)' => m = Entry
        BY <1>4, <2>1, <3>1, EntryAssumption
      <4>2. path' = module.target \/ path' = None
        BY <1>1
      <4> QED
        BY <2>5, <4>1, <4>2
    <3>2. CASE IsVisited(Entry) /\ path = modules[Entry].target
      <4>1. path # Entry /\ modules'[Entry] = modules[Entry] /\ IsVisited(Entry)'
        BY <1>2, <1>4, <2>1, <3>2, EntryAssumption
      <4>2. \A m \in Modules : IsVisited(m)' => m \in {Entry, path}
        BY <1>2, <2>1, <3>2 DEF VisitInv
      <4>3. Finds(resolver', path)
        <5>1. path # None
          BY <1>2, NoneAssumption
        <5>2. Finds(resolver, path)
          BY <1>2, <3>2, <5>1, EntryAssumption DEF FindInv, ResolvedInv
        <5> QED
          BY <5>2
      <4>4. module.target = None \/ module.target = path
        BY <4>3, FindsOne
      <4>5. modules'[path].stamp # Unwatched
        BY <1>2, <1>4
      <4>6. path' = None
        BY <1>1, <4>4, <4>5
      <4>7. IsVisited(modules[Entry].target)'
        BY <3>2, <4>1, <4>5 DEF IsVisited
      <4> QED
        BY <3>2, <4>1, <4>2, <4>6, <4>7
    <3>3. path # None
      BY <1>2, NoneAssumption
    <3> QED
      BY <1>2, <3>1, <3>2, <3>3 DEF VisitInv
  <2> QED
    BY <1>1, <2>2, <2>3, <2>4, <2>6 DEF VisitInv
<1>8. FindInv'
  <2>1. ReadInv(known)'
    BY <1>1, <1>2 DEF FindInv, ReadInv
  <2>2. (reuse => ResolvedInv(resolver, known))'
    <3>1. ASSUME reuse PROVE ResolvedInv(resolver', known)
      BY <1>2, <3>1 DEF FindInv, ResolvedInv
    <3> QED
      BY <1>1, <3>1 DEF ResolvedInv, Finds
  <2>3. ViewInv(resolver, structure)' /\ ResolvedInv(resolver, modules)'
    BY <1>1, <1>6 DEF ViewInv, ResolvedInv, Finds
  <2>4. ReadInv(modules)'
    BY <1>1, <1>2, <1>4 DEF FindInv, ReadInv
  <2>5. ThereInv(modules, structure)'
    BY <1>1, <1>2, <1>4 DEF FindInv, ThereInv
  <2> QED
    BY <1>1, <2>1, <2>2, <2>3, <2>4, <2>5 DEF FindInv
<1>9. CurrentInv'
  <2>1. ASSUME ~edited, NEW p \in Paths
        PROVE  AttemptWatched'[p] \in {Unwatched, stamp[p]} /\ structure'[p] \in {Unwatched, stamp[p]}
    <3>1. /\ AttemptWatched[p] \in {Unwatched, stamp[p]} /\ structure[p] \in {Unwatched, stamp[p]}
          /\ current = stamp[path]
      BY <2>1 DEF CurrentInv
    <3>2. CASE p = path
      BY <1>1, <1>2, <1>4, <3>1, <3>2 DEF AttemptWatched, Merge
    <3>3. CASE p # path
      BY <1>1, <1>4, <3>1, <3>3 DEF AttemptWatched, Merge
    <3> QED
      BY <3>2, <3>3
  <2> QED
    BY <1>1, <2>1 DEF CurrentInv
<1>10. ReportedOnce' /\ VersionInv'
  BY <1>1 DEF ReportedOnce, VersionInv
<1> QED
  BY <1>5, <1>7, <1>8, <1>9, <1>10

-----------------------------------------------------------------------------
(* Read and Resolve.                                                       *)

LEMMA SourceReadKeepsInv ==
  ASSUME FilesInv, pc = "read", NEW content \in [read : Readings, kind : Kinds], SourceRead(content),
         current = stamp[path] /\ stamp[path] # Missing =>
            content.read = stamp[path] /\ content.kind = kind[path],
         ~(current = Missing /\ stamp[path] = Missing),
         UNCHANGED <<diskVars, versionVars, memo, byReload, reuse, known, resolver, current,
                     historyVars>>
  PROVE  FilesInv'
<1> USE DEF FilesInv
<1>1. /\ pc' = "resolve" /\ source' = content
      /\ UNCHANGED <<kind, config, stamp, edits, loaded, version, watched, memo, byReload, reuse,
                     known, resolver, structure, modules, path, current, outcome, edited, raced>>
  BY DEF SourceRead, diskVars, versionVars, historyVars
<1>2. Recorded' = Recorded /\ Readings' = Readings /\ Records' = Records /\ Resolvers' = Resolvers
  BY <1>1 DEF Recorded, Records, Readings, Resolvers
<1>3. DiskTypes' /\ LoadTypes' /\ DiscoveryTypes' /\ MemoInv'
  <2>1. DiskTypes' /\ LoadTypes'
    BY <1>1, <1>2 DEF DiskTypes, LoadTypes
  <2>2. DiscoveryTypes'
    BY <1>1, <1>2 DEF DiscoveryTypes
  <2>3. MemoInv'
    BY <1>1 DEF MemoInv, ReadInv, ResolvedInv, ViewInv, Finds
  <2> QED
    BY <2>1, <2>2, <2>3
<1>4. VisitInv'
  BY <1>1 DEF VisitInv, Finding, IsVisited
<1>5. FindInv'
  <2>1. /\ ReadInv(known)' /\ (reuse => ResolvedInv(resolver, known))' /\ ViewInv(resolver, structure)'
        /\ ReadInv(modules)' /\ ThereInv(modules, structure)' /\ ResolvedInv(resolver, modules)'
    BY <1>1 DEF FindInv, Finding, ReadInv, ResolvedInv, ViewInv, ThereInv, Finds
  <2> QED
    BY <1>1, <2>1 DEF FindInv
<1>6. CurrentInv'
  <2>1. AttemptWatched' = AttemptWatched
    BY <1>1 DEF AttemptWatched
  <2> QED
    BY <1>1, <2>1 DEF CurrentInv
<1>7. ReportedOnce' /\ VersionInv'
  BY <1>1 DEF ReportedOnce, VersionInv
<1> QED
  BY <1>3, <1>4, <1>5, <1>6, <1>7

LEMMA ReadKeepsInv ==
  ASSUME FilesInv, Read
  PROVE  FilesInv'
<1> DEFINE same == current # Missing /\ known[path].stamp = current
           old == [read |-> known[path].read, kind |-> known[path].kind]
           new == [read |-> stamp[path], kind |-> kind[path]]
<1>1. /\ pc = "read"
      /\ \/ same /\ reuse /\ Visited(known[path])
         \/ same /\ SourceRead(old)
         \/ VisitFails
         \/ stamp[path] # Missing /\ SourceRead(new)
      /\ UNCHANGED <<diskVars, versionVars, memo, byReload, reuse, known, resolver, current,
                     historyVars>>
  BY DEF Read
<1>2. /\ path \in Modules /\ path \in Paths /\ Finding /\ known[path] \in Records
      /\ resolver \in Resolvers /\ FindInv /\ DiskTypes
  BY <1>1, PathsAre DEF FilesInv, VisitInv, Finding, DiscoveryTypes
<1>3. same => (current = stamp[path] /\ stamp[path] # Missing =>
                  known[path].read = stamp[path] /\ known[path].kind = kind[path])
  BY <1>2 DEF FindInv, ReadInv
<1>4. old \in [read : Readings, kind : Kinds] /\ new \in [read : Readings, kind : Kinds]
  <2>1. known[path].read \in Readings /\ known[path].kind \in Kinds
    BY <1>2 DEF Records
  <2>2. stamp[path] \in Readings /\ kind[path] \in Kinds
    BY <1>2, StampIs DEF DiskTypes, Readings
  <2> QED
    BY <2>1, <2>2
<1>5. CASE same /\ reuse /\ Visited(known[path])
  <2>1. /\ ViewInv(resolver', structure) /\ \A t : Finds(resolver, t) => Finds(resolver', t)
        /\ resolver' \in Resolvers
    BY <1>1, <1>2 DEF FindInv, ViewInv, Finds
  <2>2. IF known[path].kind = "imports" THEN Finds(resolver', known[path].target)
                                        ELSE known[path].target = None
    BY <1>2, <1>5, <2>1 DEF FindInv, ResolvedInv
  <2> QED
    BY <1>1, <1>2, <1>3, <1>5, <2>1, <2>2, VisitedKeepsInv
<1>6. CASE same /\ SourceRead(old)
  <2>1. old.read = known[path].read /\ old.kind = known[path].kind
    OBVIOUS
  <2> HIDE DEF old
  <2> QED
    BY <1>1, <1>3, <1>4, <1>6, <2>1, SourceReadKeepsInv
<1>7. CASE VisitFails
  <2>1. resolver' \in Resolvers
    BY <1>1, <1>2
  <2> QED
    BY <1>1, <1>7, <2>1, VisitFailsKeepsInv
<1>8. CASE stamp[path] # Missing /\ SourceRead(new)
  <2>1. new.read = stamp[path] /\ new.kind = kind[path]
    OBVIOUS
  <2> HIDE DEF new
  <2> QED
    BY <1>1, <1>4, <1>8, <2>1, SourceReadKeepsInv
<1> QED
  BY <1>1, <1>5, <1>6, <1>7, <1>8

\* What the resolver has seen it does not look at again; what it looks at now is as on
\* the disk.
LEMMA LookedIs ==
  ASSUME DiskTypes, resolver \in Resolvers, NEW r, r = Looked(Targets[ReadConfig])
  PROVE  /\ ReadConfig \in Configs /\ r \in Resolvers /\ r.config = ReadConfig
         /\ \A m \in Modules : /\ resolver.saw[m] # "unknown" => r.saw[m] = resolver.saw[m]
                               /\ r.saw[m] # resolver.saw[m] =>
                                    r.saw[m] = IF stamp[m] # Missing THEN "there" ELSE "absent"
                               /\ m \in LookedAt(Targets[ReadConfig]) =>
                                    r.saw[m] = IF Sees(m) THEN "there" ELSE "absent"
<1>1. ReadConfig \in Configs
  BY DEF ReadConfig, DiskTypes, Resolvers
<1>2. /\ r.config = ReadConfig
      /\ r.saw = [m \in Modules |-> IF m \notin LookedAt(Targets[ReadConfig]) THEN resolver.saw[m]
                                    ELSE IF Sees(m) THEN "there" ELSE "absent"]
      /\ r = [saw |-> r.saw, config |-> ReadConfig]
  BY DEF Looked
<1>3. \A m \in Modules : resolver.saw[m] \in {"unknown", "there", "absent"}
  BY DEF Resolvers
<1>4. r.saw \in [Modules -> {"unknown", "there", "absent"}]
  BY <1>2, <1>3
<1>5. r \in Resolvers
  BY <1>1, <1>2, <1>4 DEF Resolvers
<1>6. ASSUME NEW m \in Modules, m \in LookedAt(Targets[ReadConfig])
      PROVE  r.saw[m] = IF Sees(m) THEN "there" ELSE "absent"
  BY <1>2, <1>6
<1>7. ASSUME NEW m \in Modules, m \notin LookedAt(Targets[ReadConfig])
      PROVE  r.saw[m] = resolver.saw[m]
  BY <1>2, <1>7
<1>8. \A m \in Modules : IF resolver.saw[m] = "unknown" THEN Sees(m) <=> stamp[m] # Missing
                                                        ELSE Sees(m) <=> resolver.saw[m] = "there"
  BY DEF Sees
<1> QED
  BY <1>1, <1>2, <1>3, <1>5, <1>6, <1>7, <1>8

LEMMA ResolveKeepsInv ==
  ASSUME FilesInv, Resolve
  PROVE  FilesInv'
<1> DEFINE candidates == Targets[ReadConfig]
           target == First(candidates, {m \in Modules : Sees(m)})
           module(t) == [stamp |-> current, read |-> source.read, kind |-> source.kind, target |-> t]
<1>1. /\ pc = "resolve"
      /\ \/ source.kind # "imports" /\ Visited(module(None)) /\ UNCHANGED resolver
         \/ resolver' = Looked(candidates) /\ VisitFails
         \/ /\ source.kind = "imports" /\ resolver' = Looked(candidates)
            /\ target # None /\ Visited(module(target))
      /\ UNCHANGED <<diskVars, versionVars, memo, byReload, reuse, known, current, historyVars>>
  BY DEF Resolve
<1>2. /\ path \in Modules /\ Finding /\ resolver \in Resolvers /\ FindInv /\ DiskTypes
      /\ current \in Recorded /\ source.read \in Readings /\ source.kind \in Kinds /\ VisitInv
  BY <1>1 DEF FilesInv, VisitInv, Finding, DiscoveryTypes
<1>3. \A t \in Modules \cup {None} :
         /\ module(t) \in Records /\ module(t).stamp = current /\ module(t).target = t
         /\ module(t).kind = source.kind /\ module(t).read = source.read
  BY <1>2 DEF Records
<1>4. /\ current = stamp[path] /\ stamp[path] # Missing =>
           source.read = stamp[path] /\ source.kind = kind[path]
      /\ current = Missing /\ stamp[path] = Missing => structure[Home(path)] # stamp[Home(path)]
  BY <1>1, <1>2 DEF FindInv
<1> HIDE DEF module
<1>5. CASE source.kind # "imports" /\ Visited(module(None)) /\ UNCHANGED resolver
  <2>1. /\ ViewInv(resolver', structure) /\ \A t : Finds(resolver, t) => Finds(resolver', t)
        /\ resolver' \in Resolvers
    BY <1>2, <1>5 DEF FindInv, ViewInv, Finds
  <2>2. IF module(None).kind = "imports" THEN Finds(resolver', module(None).target)
                                         ELSE module(None).target = None
    BY <1>3, <1>5
  <2> QED
    BY <1>1, <1>3, <1>4, <1>5, <2>1, <2>2, VisitedKeepsInv
<1>6. ASSUME resolver' = Looked(candidates)
      PROVE  /\ resolver' \in Resolvers /\ ViewInv(resolver', structure)
             /\ \A t : Finds(resolver, t) => Finds(resolver', t)
             /\ target # None => Finds(resolver', target) /\ target \in Modules
  <2>1. /\ ReadConfig \in Configs /\ resolver' \in Resolvers /\ resolver'.config = ReadConfig
        /\ \A m \in Modules : /\ resolver.saw[m] # "unknown" => resolver'.saw[m] = resolver.saw[m]
                              /\ resolver'.saw[m] # resolver.saw[m] =>
                                   resolver'.saw[m] = IF stamp[m] # Missing THEN "there" ELSE "absent"
                              /\ m \in LookedAt(candidates) =>
                                   resolver'.saw[m] = IF Sees(m) THEN "there" ELSE "absent"
    BY <1>2, <1>6, LookedIs
  <2>2. resolver.config # None => resolver'.config = resolver.config
    BY <2>1 DEF ReadConfig
  <2>3. ViewInv(resolver', structure)
    <3>1. structure[Config] # Unwatched /\ \A d \in DirsAbove(Entry) : structure[d] # Unwatched
      BY <1>1, <1>2, EntryAssumption DEF VisitInv
    <3>2. resolver'.config # None /\ structure[Config] = stamp[Config] => resolver'.config = config
      BY <1>2, <2>1 DEF ReadConfig, FindInv, ViewInv
    <3>3. ASSUME NEW m \in Modules, resolver'.saw[m] # "unknown", Home(m) \in DirsAbove(Entry),
                 structure[Home(m)] = stamp[Home(m)]
          PROVE  resolver'.saw[m] = "there" <=> stamp[m] # Missing
      <4>1. CASE resolver.saw[m] # "unknown"
        BY <1>2, <2>1, <3>3, <4>1 DEF FindInv, ViewInv
      <4>2. CASE resolver.saw[m] = "unknown"
        BY <2>1, <3>3, <4>2
      <4> QED
        BY <4>1, <4>2
    <3> QED
      BY <3>1, <3>2, <3>3 DEF ViewInv
  <2>4. ASSUME NEW t, Finds(resolver, t) PROVE Finds(resolver', t)
    <3>1. resolver'.config = resolver.config
      BY <2>2, <2>4, NoneAssumption DEF Finds
    <3>2. PICK i \in DOMAIN Targets[resolver.config] :
             /\ t = Targets[resolver.config][i] /\ resolver.saw[t] = "there"
             /\ \A j \in 1 .. i - 1 : resolver.saw[Targets[resolver.config][j]] = "absent"
      BY <2>4 DEF Finds
    <3>3. /\ \A j \in 1 .. i - 1 : Targets[resolver.config][j] \in Modules
          /\ Targets[resolver.config][i] \in Modules /\ resolver.config \in Configs
      BY <2>4, CandidatesAre DEF Finds
    <3>4. /\ resolver'.saw[t] = "there"
          /\ \A j \in 1 .. i - 1 : resolver'.saw[Targets[resolver.config][j]] = "absent"
      BY <2>1, <3>2, <3>3
    <3> QED
      BY <3>1, <3>2, <3>3, <3>4 DEF Finds
  <2>5. ASSUME target # None PROVE Finds(resolver', target) /\ target \in Modules
    <3>1. IsFirst(ReadConfig, {m \in Modules : Sees(m)}, target)
      BY <2>1, <2>5, FirstIs
    <3> HIDE DEF target
    <3>2. PICK i \in DOMAIN candidates :
             /\ target = candidates[i] /\ target \in Modules /\ Sees(target)
             /\ \A j \in 1 .. i - 1 : candidates[j] \notin {m \in Modules : Sees(m)}
      BY <3>1 DEF IsFirst
    <3>3. ASSUME NEW j \in 1 .. i - 1
          PROVE  j \in DOMAIN candidates /\ candidates[j] \in Modules /\ ~Sees(candidates[j])
      BY <2>1, <3>2, CandidatesAre
    <3>4. target \in LookedAt(candidates)
      BY <3>2, <3>3 DEF LookedAt
    <3>5. ASSUME NEW j \in 1 .. i - 1 PROVE candidates[j] \in LookedAt(candidates)
      <4>1. 1 .. j - 1 \subseteq 1 .. i - 1
        BY <2>1, <3>2, CandidatesAre
      <4> QED
        BY <3>3, <4>1 DEF LookedAt
    <3>6. resolver'.saw[target] = "there"
      BY <2>1, <3>2, <3>4
    <3>7. \A j \in 1 .. i - 1 : resolver'.saw[candidates[j]] = "absent"
      BY <2>1, <3>3, <3>5
    <3> QED
      BY <2>1, <3>2, <3>6, <3>7 DEF Finds
  <2> QED
    BY <2>1, <2>3, <2>4, <2>5
<1>7. CASE resolver' = Looked(candidates) /\ VisitFails
  BY <1>1, <1>6, <1>7, VisitFailsKeepsInv
<1>8. CASE /\ source.kind = "imports" /\ resolver' = Looked(candidates)
           /\ target # None /\ Visited(module(target))
  <2>1. /\ resolver' \in Resolvers /\ ViewInv(resolver', structure)
        /\ \A t : Finds(resolver, t) => Finds(resolver', t)
        /\ Finds(resolver', target) /\ target \in Modules
    BY <1>6, <1>8
  <2> HIDE DEF target
  <2>2. IF module(target).kind = "imports" THEN Finds(resolver', module(target).target)
                                           ELSE module(target).target = None
    BY <1>3, <1>8, <2>1
  <2> QED
    BY <1>1, <1>3, <1>4, <1>8, <2>1, <2>2, VisitedKeepsInv
<1> QED
  BY <1>1, <1>5, <1>7, <1>8

-----------------------------------------------------------------------------
(* An attempt ends.                                                        *)

LEMMA AttemptWatchedIs ==
  ASSUME DiscoveryTypes
  PROVE  /\ AttemptWatched \in [Paths -> Recorded]
         /\ \A p \in Dirs \cup {Config} : AttemptWatched[p] = structure[p]
         /\ \A m \in Modules : IsVisited(m) => AttemptWatched[m] = modules[m].stamp
<1>1. \A m \in Modules : modules[m].stamp \in Recorded
  BY DEF DiscoveryTypes, Records
<1>2. \A p \in Paths : AttemptWatched[p] =
        IF p \notin Modules \/ modules[p].stamp = Unwatched THEN structure[p] ELSE modules[p].stamp
  BY DEF AttemptWatched, Merge
<1>3. \A p \in Paths : AttemptWatched[p] \in Recorded
  BY <1>1, <1>2 DEF DiscoveryTypes
<1>4. AttemptWatched \in [Paths -> Recorded]
  BY <1>3 DEF AttemptWatched, Merge
<1> QED
  BY <1>2, <1>4, PathsAre DEF IsVisited

\* What is watched after a discovery tells whether the version is still that of the files.
LEMMA VersionMounted ==
  ASSUME FilesInv, NextToEntry, pc = "visit", path = None,
         version' = [read |-> [m \in Modules |-> modules[m].read], target |-> modules[Entry].target],
         watched' = AttemptWatched, UNCHANGED <<kind, config, stamp>>
  PROVE  VersionInv'
<1> DEFINE target == modules[Entry].target
<1>1. FindInv /\ VisitInv /\ DiscoveryTypes /\ DiskTypes /\ Finding /\ Entry # None /\ Entry \in Modules
  BY EntryAssumption, NoneAssumption DEF FilesInv, Finding
<1>2. /\ IsVisited(Entry) /\ (target # None => IsVisited(target)) /\ structure[Config] # Unwatched
      /\ \A m \in Modules : IsVisited(m) => /\ m \in {Entry, target}
                                            /\ \A d \in DirsAbove(m) : structure[d] # Unwatched
      /\ \A m \in Modules : ~IsVisited(m) => modules[m] = NotVisited
  BY <1>1 DEF VisitInv
<1>3. /\ ViewInv(resolver, structure) /\ ReadInv(modules) /\ ThereInv(modules, structure)
      /\ ResolvedInv(resolver, modules)
  BY <1>1 DEF FindInv
<1>4. /\ target \in Modules \cup {None}
      /\ modules[Entry].kind = "imports" => Finds(resolver, target) /\ target # None
      /\ modules[Entry].kind # "imports" => target = None
  BY <1>1, <1>3, FoundIsModule DEF ResolvedInv, DiscoveryTypes, Records
<1>5. /\ version'.target = target
      /\ \A m \in Modules : version'.read[m] = modules[m].read
  OBVIOUS
<1> HIDE DEF target
<1>6. /\ \A p \in Dirs \cup {Config} : watched'[p] = structure[p]
      /\ \A m \in Modules : IsVisited(m) => watched'[m] = modules[m].stamp
  BY <1>1, AttemptWatchedIs
<1>7. ASSUME NEW m \in Modules, IsVisited(m), watched'[m] = stamp[m],
             watched'[Home(m)] = stamp[Home(m)]
      PROVE  stamp[m] # Missing /\ modules[m].read = stamp[m] /\ modules[m].kind = kind[m]
  <2>1. modules[m].stamp = stamp[m] /\ structure[Home(m)] = stamp[Home(m)]
    BY <1>6, <1>7, PathsAre
  <2>2. stamp[m] # Missing
    BY <1>3, <2>1 DEF ThereInv
  <2> QED
    BY <1>3, <2>1, <2>2 DEF ReadInv
<1>8. watched'[Config] # Unwatched
  BY <1>2, <1>6
<1>9. ASSUME NEW m \in Modules
      PROVE  IF m = Entry \/ m = target
             THEN watched'[m] # Unwatched /\ \A d \in DirsAbove(m) : watched'[d] # Unwatched
             ELSE version'.read[m] = Missing
  <2>1. CASE m = Entry \/ m = target
    <3>1. IsVisited(m)
      BY <1>2, <2>1, NoneAssumption
    <3>2. watched'[m] # Unwatched
      BY <1>6, <3>1 DEF IsVisited
    <3>3. \A d \in DirsAbove(m) : watched'[d] # Unwatched
      BY <1>2, <1>6, <3>1, PathsAre
    <3> QED
      BY <2>1, <3>2, <3>3
  <2>2. CASE ~(m = Entry \/ m = target)
    BY <1>2, <1>5, <2>2 DEF NotVisited
  <2> QED
    BY <2>1, <2>2
<1>10. EntryIsRead'
  <2> SUFFICES ASSUME watched'[Entry] = stamp[Entry], watched'[Home(Entry)] = stamp[Home(Entry)]
               PROVE  /\ stamp[Entry] # Missing /\ modules[Entry].read = stamp[Entry]
                      /\ (target = None) <=> (kind[Entry] # "imports")
    BY <1>1, <1>5 DEF EntryIsRead
  <2>1. stamp[Entry] # Missing /\ modules[Entry].read = stamp[Entry] /\ modules[Entry].kind = kind[Entry]
    BY <1>1, <1>2, <1>7
  <2> QED
    BY <1>4, <2>1
<1>11. TargetIsRead'
  <2> SUFFICES ASSUME target # None, watched'[target] = stamp[target],
                      watched'[Home(target)] = stamp[Home(target)]
               PROVE  stamp[target] # Missing /\ modules[target].read = stamp[target]
    BY <1>4, <1>5 DEF TargetIsRead
  <2> QED
    BY <1>2, <1>4, <1>7
<1>12. TargetIsFirst'
  <2> SUFFICES ASSUME target # None, watched'[Config] = stamp[Config],
                      \A d \in DirsAbove(Entry) : watched'[d] = stamp[d]
               PROVE  \E i \in DOMAIN Targets[config] :
                         /\ target = Targets[config][i]
                         /\ \A j \in 1 .. i - 1 : stamp[Targets[config][j]] = Missing
    BY <1>5 DEF TargetIsFirst
  <2>1. Finds(resolver, target)
    BY <1>4
  <2>2. resolver.config = config /\ config \in Configs
    BY <1>3, <1>6, <2>1, NoneAssumption DEF ViewInv, Finds
  <2>3. PICK i \in DOMAIN Targets[config] :
           /\ target = Targets[config][i]
           /\ \A j \in 1 .. i - 1 : resolver.saw[Targets[config][j]] = "absent"
    BY <2>1, <2>2 DEF Finds
  <2>4. ASSUME NEW j \in 1 .. i - 1 PROVE stamp[Targets[config][j]] = Missing
    <3>1. Targets[config][j] \in Modules /\ Home(Targets[config][j]) \in DirsAbove(Entry)
      BY <2>2, <2>3, CandidatesAre DEF NextToEntry
    <3>2. structure[Home(Targets[config][j])] = stamp[Home(Targets[config][j])]
      BY <1>1, <1>6, <3>1, PathsAre
    <3> QED
      BY <1>3, <2>3, <3>1, <3>2 DEF ViewInv
  <2> QED
    BY <2>3, <2>4
<1> QED
  BY <1>5, <1>8, <1>9, <1>10, <1>11, <1>12 DEF VersionInv

LEMMA MountKeepsInv ==
  ASSUME FilesInv, Mount
  PROVE  FilesInv'
<1> USE DEF FilesInv
<1>1. /\ pc = "visit" /\ path = None
      /\ memo' = [held |-> TRUE, structure |-> structure, known |-> modules, resolver |-> resolver]
      /\ \/ pc' = "failed" /\ UNCHANGED <<loaded, version, watched, outcome>>
         \/ /\ pc' = "idle" /\ outcome' = "ok" /\ loaded' = TRUE /\ watched' = AttemptWatched
            /\ version' = [read |-> [m \in Modules |-> modules[m].read],
                           target |-> modules[Entry].target]
      /\ UNCHANGED <<kind, config, stamp, edits, byReload, reuse, known, resolver, structure, modules,
                     path, current, source, edited, raced>>
  BY DEF Mount, versionVars, diskVars, discoveryVars
<1>2. Recorded' = Recorded /\ Readings' = Readings /\ Records' = Records /\ Resolvers' = Resolvers
  BY <1>1 DEF Recorded, Records, Readings, Resolvers
<1>3. /\ AttemptWatched \in [Paths -> Recorded] /\ modules \in [Modules -> Records]
      /\ resolver \in Resolvers /\ structure \in [Paths -> Recorded] /\ Entry \in Modules
  BY AttemptWatchedIs, EntryAssumption DEF DiscoveryTypes
<1>4. UNCHANGED AttemptWatched
  BY <1>1 DEF AttemptWatched
<1>5. DiskTypes' /\ DiscoveryTypes'
  BY <1>1, <1>2 DEF DiskTypes, DiscoveryTypes
<1>6. LoadTypes'
  <2>1. memo' \in [held : BOOLEAN, structure : [Paths -> Recorded], known : [Modules -> Records],
                   resolver : Resolvers]
    BY <1>1, <1>3
  <2>2. \A m \in Modules : modules[m].read \in Readings /\ modules[m].target \in Modules \cup {None}
    BY <1>3 DEF Records
  <2>3. version' \in [read : [Modules -> Readings], target : Modules \cup {None}]
    BY <1>1, <1>3, <2>2 DEF LoadTypes
  <2>4. watched' \in [Paths -> Recorded]
    BY <1>1, <1>3 DEF LoadTypes
  <2> QED
    BY <1>1, <1>2, <2>1, <2>3, <2>4 DEF LoadTypes
<1>7. MemoInv'
  <2>1. /\ memo'.known = modules /\ memo'.resolver = resolver /\ memo'.structure = structure
    BY <1>1
  <2>2. ReadInv(modules) /\ ResolvedInv(resolver, modules) /\ ViewInv(resolver, structure)
    BY <1>1 DEF FindInv, Finding
  <2>3. ReadInv(memo.known)' /\ ResolvedInv(memo.resolver, memo.known)'
    BY <1>1, <2>1, <2>2 DEF ReadInv, ResolvedInv, Finds
  <2>4. ViewInv(memo.resolver, memo.structure)'
    BY <1>1, <2>1, <2>2 DEF ViewInv
  <2> QED
    BY <2>3, <2>4 DEF MemoInv
<1>8. VisitInv' /\ FindInv'
  BY <1>1 DEF VisitInv, FindInv, Finding
<1>9. CurrentInv'
  BY <1>1, <1>4 DEF CurrentInv
<1>10. ReportedOnce'
  BY <1>1 DEF ReportedOnce, CurrentInv, Changed
<1>11. (NextToEntry => VersionInv)'
  <2>1. ASSUME NextToEntry, pc' = "idle" PROVE VersionInv'
    BY <1>1, <2>1, VersionMounted
  <2> QED
    BY <2>1 DEF VersionInv, NextToEntry
<1> QED
  BY <1>5, <1>6, <1>7, <1>8, <1>9, <1>10, <1>11

LEMMA FailLoadKeepsInv ==
  ASSUME FilesInv, FailLoad
  PROVE  FilesInv'
<1> USE DEF FilesInv
<1>1. /\ pc = "failed" /\ outcome' = "failed" /\ pc' = IF byReload THEN "restamp" ELSE "idle"
      /\ watched' = IF loaded THEN Merge(watched, AttemptWatched) ELSE watched
      /\ UNCHANGED <<kind, config, stamp, edits, loaded, version, memo, byReload, reuse, known,
                     resolver, structure, modules, path, current, source, edited, raced>>
  BY DEF FailLoad, WatchFailedAttempt, diskVars, discoveryVars
<1>2. Recorded' = Recorded /\ Readings' = Readings /\ Records' = Records /\ Resolvers' = Resolvers
  BY <1>1 DEF Recorded, Records, Readings, Resolvers
<1>3. AttemptWatched \in [Paths -> Recorded] /\ watched \in [Paths -> Recorded]
  BY AttemptWatchedIs DEF LoadTypes
<1>4. UNCHANGED AttemptWatched
  BY <1>1 DEF AttemptWatched
<1>5. watched' \in [Paths -> Recorded]
  BY <1>1, <1>3 DEF Merge
<1>6. DiskTypes' /\ LoadTypes' /\ DiscoveryTypes' /\ MemoInv'
  <2>1. DiskTypes' /\ DiscoveryTypes'
    BY <1>1, <1>2 DEF DiskTypes, DiscoveryTypes
  <2>2. LoadTypes'
    BY <1>1, <1>2, <1>5 DEF LoadTypes
  <2>3. MemoInv'
    BY <1>1 DEF MemoInv, ReadInv, ResolvedInv, ViewInv, Finds
  <2> QED
    BY <2>1, <2>2, <2>3
<1>7. CurrentInv'
  <2>1. loaded => \A m \in Modules : AttemptWatched[m] \in {Unwatched, watched'[m]}
    BY <1>1, PathsAre DEF Merge
  <2> QED
    BY <1>1, <1>4, <2>1 DEF CurrentInv
<1>8. VisitInv' /\ FindInv' /\ VersionInv'
  BY <1>1 DEF VisitInv, FindInv, Finding, VersionInv
<1>9. ReportedOnce'
  BY <1>1 DEF ReportedOnce
<1> QED
  BY <1>6, <1>7, <1>8, <1>9

LEMMA RestampKeepsInv ==
  ASSUME FilesInv, Restamp
  PROVE  FilesInv'
<1> USE DEF FilesInv
<1>1. /\ pc = "restamp" /\ pc' = "idle"
      /\ watched' = [p \in Paths |-> IF watched[p] = Unwatched THEN Unwatched ELSE stamp[p]]
      /\ UNCHANGED <<kind, config, stamp, edits, loaded, version, memo, byReload, reuse, known,
                     resolver, structure, modules, path, current, source, outcome, edited, raced>>
  BY DEF Restamp, Restamped, diskVars, discoveryVars, historyVars
<1>2. Recorded' = Recorded /\ Readings' = Readings /\ Records' = Records /\ Resolvers' = Resolvers
  BY <1>1 DEF Recorded, Records, Readings, Resolvers
<1>3. watched' \in [Paths -> Recorded]
  <2>1. \A p \in Paths : stamp[p] \in Recorded
    BY StampIs
  <2>2. Unwatched \in Recorded
    BY DEF Recorded
  <2> QED
    BY <1>1, <2>1, <2>2
<1>4. DiskTypes' /\ LoadTypes' /\ DiscoveryTypes' /\ MemoInv'
  <2>1. DiskTypes' /\ DiscoveryTypes'
    BY <1>1, <1>2 DEF DiskTypes, DiscoveryTypes
  <2>2. LoadTypes'
    BY <1>1, <1>2, <1>3 DEF LoadTypes
  <2>3. MemoInv'
    BY <1>1 DEF MemoInv, ReadInv, ResolvedInv, ViewInv, Finds
  <2> QED
    BY <2>1, <2>2, <2>3
<1>5. CurrentInv'
  <2>1. UNCHANGED AttemptWatched
    BY <1>1 DEF AttemptWatched
  <2>2. ASSUME ~raced, NEW m \in Modules PROVE AttemptWatched[m] \in {Unwatched, watched'[m]}
    <3>1. AttemptWatched[m] \in {Unwatched, stamp[m]} /\ AttemptWatched[m] \in {Unwatched, watched[m]}
      BY <1>1, <2>2, PathsAre DEF CurrentInv
    <3> QED
      BY <1>1, <3>1, PathsAre
  <2> QED
    BY <1>1, <2>1, <2>2 DEF CurrentInv
<1>6. VisitInv' /\ FindInv'
  BY <1>1 DEF VisitInv, FindInv, Finding
<1>7. ReportedOnce'
  BY <1>1 DEF ReportedOnce, Changed
<1>8. outcome # "ok"
  BY <1>1 DEF CurrentInv
<1> QED
  BY <1>1, <1>4, <1>5, <1>6, <1>7, <1>8 DEF VersionInv

-----------------------------------------------------------------------------
(* The theorems.                                                           *)

LEMMA FilesInvInitially == ASSUME Init PROVE FilesInv
<1> USE DEF Init
<1>1. Entry \in Modules /\ Entry \in Paths /\ Config \in Paths
  BY EntryAssumption, PathsAre
<1>2. NothingWatched \in [Paths -> Recorded] /\ Missing \in Readings /\ Missing \in Recorded
  BY NothingVisited DEF Readings, Recorded, Missing, Unwatched
<1>3. DiskTypes
  <2>1. kind \in [Modules -> Kinds]
    BY DEF Kinds
  <2>2. \A p \in Paths : stamp[p] = IF p \in Modules \ {Entry} THEN Missing ELSE 0
    OBVIOUS
  <2>3. stamp \in [Paths -> {Missing} \cup 0 .. edits]
    BY <2>2
  <2>4. \A p \in Dirs \cup {Config} : stamp[p] # Missing
    BY <2>2, PathsAre DEF Missing
  <2>5. edits \in Nat /\ edits <= MaxEdits /\ config \in Configs
    BY EditsAssumption
  <2> QED
    BY <2>1, <2>3, <2>4, <2>5 DEF DiskTypes
<1>4. LoadTypes
  <2>1. memo \in [held : BOOLEAN, structure : [Paths -> Recorded], known : [Modules -> Records],
                  resolver : Resolvers]
    BY NothingVisited DEF NoMemo
  <2>2. version \in [read : [Modules -> Readings], target : Modules \cup {None}]
    BY <1>2
  <2>3. watched \in [Paths -> Recorded]
    BY <1>2
  <2> QED
    BY <2>1, <2>2, <2>3 DEF LoadTypes
<1>5. DiscoveryTypes
  BY <1>2, NothingVisited DEF DiscoveryTypes, Kinds
<1>6. MemoInv
  <2>1. memo.held = FALSE /\ memo.known = NoModules
    BY DEF NoMemo
  <2>2. \A m \in Modules : stamp[m] # Unwatched
    BY <1>3, StampIs, PathsAre
  <2> QED
    BY <2>1, <2>2, NothingVisited DEF MemoInv, ReadInv
<1>7. pc = "idle" /\ outcome = "none" /\ byReload = FALSE /\ loaded = FALSE
  OBVIOUS
<1>8. VisitInv /\ FindInv /\ CurrentInv /\ ReportedOnce /\ VersionInv
  BY <1>7 DEF VisitInv, FindInv, CurrentInv, ReportedOnce, VersionInv, Finding
<1> QED
  BY <1>3, <1>4, <1>5, <1>6, <1>8 DEF FilesInv

LEMMA FilesInvKept == ASSUME FilesInv, [Next]_vars PROVE FilesInv'
<1>1. CASE Edit
  BY <1>1, EditKeepsInv
<1>2. CASE Load
  BY <1>2, BeginKeepsInv DEF Load
<1>3. CASE ReloadChanged
  BY <1>3, BeginKeepsInv DEF ReloadChanged
<1>4. CASE Visit
  BY <1>4, VisitKeepsInv
<1>5. CASE Read
  BY <1>5, ReadKeepsInv
<1>6. CASE Resolve
  BY <1>6, ResolveKeepsInv
<1>7. CASE Mount
  BY <1>7, MountKeepsInv
<1>8. CASE FailLoad
  BY <1>8, FailLoadKeepsInv
<1>9. CASE Restamp
  BY <1>9, RestampKeepsInv
<1>10. CASE UNCHANGED vars
  <2>1. UNCHANGED <<kind, config, stamp, edits, loaded, version, watched, memo, pc, byReload, reuse,
                    known, resolver, structure, modules, path, current, source, outcome, edited, raced>>
    BY <1>10 DEF vars, diskVars, versionVars, discoveryVars, historyVars
  <2>2. Recorded' = Recorded /\ Readings' = Readings /\ Records' = Records /\ Resolvers' = Resolvers
    BY <2>1 DEF Recorded, Records, Readings, Resolvers
  <2>3. (DiskTypes /\ LoadTypes /\ DiscoveryTypes)'
    BY <2>1, <2>2 DEF FilesInv, DiskTypes, LoadTypes, DiscoveryTypes
  <2>4. MemoInv' /\ VisitInv'
    BY <2>1 DEF FilesInv, MemoInv, VisitInv, Finding, IsVisited, ReadInv, ResolvedInv, ViewInv, Finds
  <2>5. FindInv'
    BY <2>1 DEF FilesInv, FindInv, Finding, ReadInv, ResolvedInv, ThereInv, ViewInv, Finds
  <2>6. UNCHANGED AttemptWatched
    BY <2>1 DEF AttemptWatched
  <2>7. CurrentInv' /\ ReportedOnce'
    BY <2>1, <2>6 DEF FilesInv, CurrentInv, ReportedOnce, Changed
  <2>8. (NextToEntry => VersionInv)'
    BY <2>1 DEF FilesInv, VersionInv, EntryIsRead, TargetIsRead, TargetIsFirst, NextToEntry
  <2> QED
    BY <2>3, <2>4, <2>5, <2>7, <2>8 DEF FilesInv
<1> QED
  BY <1>1, <1>2, <1>3, <1>4, <1>5, <1>6, <1>7, <1>8, <1>9, <1>10 DEF Next

LEMMA SpecKeepsFilesInv == Spec => []FilesInv
<1>1. Init => FilesInv
  BY FilesInvInitially
<1>2. FilesInv /\ [Next]_vars => FilesInv'
  BY FilesInvKept
<1> QED
  BY <1>1, <1>2, PTL DEF Spec

LEMMA TypeFromInv == ASSUME FilesInv PROVE TypeOK
<1> USE DEF FilesInv
<1>1. Recorded \subseteq Stamps /\ Readings \subseteq Stamps \ {Unwatched} /\ Readings \subseteq Stamps
  BY EditsAssumption DEF DiskTypes, Recorded, Readings, Stamps
<1>2. {Missing} \cup 0 .. edits \subseteq Stamps \ {Unwatched}
  BY EditsAssumption DEF DiskTypes, Stamps, Missing, Unwatched
<1>3. Records \subseteq Known
  BY <1>1 DEF Records, Known
<1>4. watched \in [Paths -> Stamps] /\ structure \in [Paths -> Stamps]
  BY <1>1 DEF LoadTypes, DiscoveryTypes
<1>5. known \in [Modules -> Known] /\ modules \in [Modules -> Known]
  BY <1>3 DEF DiscoveryTypes
<1>6. version.read \in [Modules -> Stamps \ {Unwatched}] /\ version.target \in Modules \cup {None}
  BY <1>1 DEF LoadTypes
<1>7. stamp \in [Paths -> Stamps \ {Unwatched}]
  BY <1>2 DEF DiskTypes
<1>8. pc \in {"read", "resolve"} => path # None
  BY DEF VisitInv, Finding
<1> QED
  BY <1>4, <1>5, <1>6, <1>7, <1>8 DEF TypeOK, DiskTypes, LoadTypes, DiscoveryTypes

\* Every stamp, record and resolution of a load has its type, and a file is visited
\* whenever one is read or resolved: discover_project and its memo.
THEOREM FilesTypeCorrect == Spec => []TypeOK
BY SpecKeepsFilesInv, TypeFromInv, PTL

\* After a failed attempt, watch_failed_attempt has watched every file it looked at as it
\* was stamped: no fix to one of them goes unseen.
THEOREM FixIsSeenHolds == Spec => []FixIsSeen
<1>1. ASSUME FilesInv PROVE FixIsSeen
  <2> SUFFICES ASSUME pc = "idle", loaded, outcome = "failed", ~raced, ~Changed(watched),
                      NEW m \in Modules
               PROVE  AttemptWatched[m] \in {Unwatched, stamp[m]}
    BY DEF FixIsSeen
  <2>1. AttemptWatched[m] \in {Unwatched, watched[m]}
    BY <1>1 DEF FilesInv, CurrentInv
  <2>2. watched[m] \in {Unwatched, stamp[m]}
    BY PathsAre DEF Changed
  <2> QED
    BY <2>1, <2>2
<1> QED
  BY <1>1, SpecKeepsFilesInv, PTL

\* reload_changed reports an edit once: what it watches when it returns is as it is on
\* the disk, unless there was another edit.
THEOREM ReportedOnceHolds == Spec => []ReportedOnce
<1>1. FilesInv => ReportedOnce
  BY DEF FilesInv
<1> QED
  BY <1>1, SpecKeepsFilesInv, PTL

LEMMA FreshFromInv == ASSUME FilesInv, NextToEntry PROVE UnchangedIsFresh
<1> SUFFICES ASSUME pc = "idle", outcome = "ok", ~Changed(watched) PROVE version = Fresh
  BY DEF UnchangedIsFresh
<1>1. /\ version \in [read : [Modules -> Readings], target : Modules \cup {None}]
      /\ config \in Configs /\ Entry \in Modules /\ VersionInv
  BY EntryAssumption DEF FilesInv, LoadTypes, DiskTypes
<1>2. \A p \in Paths : watched[p] # Unwatched => watched[p] = stamp[p]
  BY DEF Changed
<1>3. /\ watched[Config] = stamp[Config]
      /\ \A m \in Modules : m = Entry \/ m = version.target =>
           /\ watched[m] = stamp[m]
           /\ \A d \in DirsAbove(m) : watched[d] = stamp[d]
      /\ \A m \in Modules : m # Entry /\ m # version.target => version.read[m] = Missing
  BY <1>1, <1>2, PathsAre DEF VersionInv
<1>4. /\ stamp[Entry] # Missing /\ version.read[Entry] = stamp[Entry]
      /\ (version.target = None) <=> (kind[Entry] # "imports")
  BY <1>1, <1>3, PathsAre DEF VersionInv, EntryIsRead
<1>5. version.target # None =>
        stamp[version.target] # Missing /\ version.read[version.target] = stamp[version.target]
  BY <1>1, <1>3, PathsAre DEF VersionInv, TargetIsRead
<1>6. version.target # None => First(Targets[config], Present) = version.target
  <2> SUFFICES ASSUME version.target # None PROVE First(Targets[config], Present) = version.target
    OBVIOUS
  <2>1. PICK i \in DOMAIN Targets[config] :
           /\ version.target = Targets[config][i]
           /\ \A j \in 1 .. i - 1 : stamp[Targets[config][j]] = Missing
    BY <1>1, <1>3 DEF VersionInv, TargetIsFirst
  <2>2. version.target \in Present /\ \A j \in 1 .. i - 1 : Targets[config][j] \notin Present
    BY <1>1, <1>5, <2>1 DEF Present
  <2>3. IsFirst(config, Present, version.target)
    BY <2>1, <2>2 DEF IsFirst
  <2> QED
    BY <1>1, <2>3, FirstIsUnique
<1>7. FreshTarget = version.target
  BY <1>4, <1>6 DEF FreshTarget
<1>8. \A m \in Modules : version.read[m] = IF m \in {Entry, version.target} THEN stamp[m] ELSE Missing
  BY <1>3, <1>4, <1>5, NoneAssumption
<1>9. version.read = [m \in Modules |-> IF m \in {Entry, version.target} THEN stamp[m] ELSE Missing]
  BY <1>1, <1>8
<1> QED
  BY <1>1, <1>7, <1>9 DEF Fresh

\* While reload_changed sees no change, the version it keeps is the one a load that reads
\* everything would make: of the files as they are, with the import resolved to the file
\* that takes precedence.  This needs the files that precede another candidate to be next
\* to the entry or above it, where discover_project watches the directories.
THEOREM UnchangedIsFreshHolds == ASSUME NextToEntry PROVE Spec => []UnchangedIsFresh
<1>1. FilesInv => UnchangedIsFresh
  BY FreshFromInv
<1> QED
  BY <1>1, SpecKeepsFilesInv, PTL
=============================================================================
