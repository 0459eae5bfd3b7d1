-------------------------- MODULE Lifecycle_proofs --------------------------
(***************************************************************************)
(* That the module store, the environments and the context groups are      *)
(* exact, that a module is handed only modules of its own graph, and that  *)
(* loads and unloads are those of LoadedScripts, for any scripts, groups   *)
(* and number of loads.                                                    *)
(*                                                                         *)
(* The properties are about sets of versions: those that are loaded, with  *)
(* the one being retired (Counted) and the one being loaded (Inserted).    *)
(* They are kept because the graph ids of the inserted versions differ and *)
(* are below nextGraph (VersionInv), and because no two groups have one    *)
(* context, nor a group the graph of a script without one (ContextInv).    *)
(***************************************************************************)
EXTENDS Lifecycle, SequenceTheorems, FiniteSetTheorems, TLAPS

-----------------------------------------------------------------------------
(* The inductive invariant.                                                *)

Phases == {"idle", "saving", "preparing", "importing", "evaluating", "disposing"}

EngineTypes == /\ scripts \in Seq(Version)
               /\ groups \in [Names -> [context : Graphs, scripts : Nat]]
               /\ nextGraph \in 1 .. MaxLoads + 1
               /\ disposed \in Seq(Graphs)
               /\ lost \subseteq Graphs

StoreTypes == /\ envs \subseteq Graphs
              /\ sources \subseteq Graphs \X {"entry", "dep"}
              /\ grouped \subseteq Graphs

OperationTypes ==
  /\ pc \in Phases
  /\ mounting \in Version \/ (mounting = NoVersion /\ pc \in {"idle", "disposing"})
  /\ retiring \in Version \/ (retiring = NoVersion /\ pc # "disposing")
  /\ created \in BOOLEAN

TypeInv == EngineTypes /\ StoreTypes /\ OperationTypes

Loading == {"saving", "preparing", "importing", "evaluating"}
Entering == {"importing", "evaluating"}  \* the version has its context

\* What an operation holds in each of its phases.
PhaseInv ==
  /\ mounting # NoVersion <=> pc \in Loading
  /\ retiring # NoVersion <=> pc = "disposing"
  /\ pc \in Loading => (mounting.context # None <=> pc \in Entering)
  /\ created => /\ pc \in Entering
                /\ mounting.group # Own
                /\ groups[mounting.group] = [context |-> mounting.graph, scripts |-> 0]
  /\ pc = "importing" => hostImport = Entry(mounting)
  /\ pc # "importing" => hostImport = NotFound

\* A graph id is of one version, and the graphs to come are of none.
VersionInv ==
  /\ \A i, j \in DOMAIN scripts : scripts[i].id = scripts[j].id => i = j
  /\ \A i, j \in DOMAIN scripts : scripts[i].graph = scripts[j].graph => i = j
  /\ \A v, w \in Inserted : v.graph = w.graph => v = w
  /\ \A v \in Inserted : v.graph < nextGraph
  /\ \A v \in Counted : v.context # None
  /\ retiring \notin Loaded
  /\ mounting \notin Counted

\* What the version being loaded was handed over, and that it is a new one.
HandoverInv ==
  /\ pc \in Loading /\ mounting.data # None =>
       \E i \in At(mounting.id) : mounting.data = scripts[i].graph
  /\ \A i \in DOMAIN disposed : disposed[i] \in 1 .. nextGraph - 1 /\ disposed[i] # mounting.graph

DepOf(graph) == <<<<graph, "entry">>, <<None, "./dep">>, <<graph, "dep">>>>

\* What is in the store belongs to a version, and what a version needs is there.
StoreInv ==
  /\ \A v \in Inserted : /\ ModulesOf(v) \subseteq sources
                         /\ "dep" \in v.modules => DepOf(v.graph) \in resolutions
                         /\ v.group = Own => v.graph \notin grouped
  /\ \A v \in Prepared : v.group # Own => v.graph \in grouped /\ v.graph \in envs
  /\ \A m \in sources : m[1] \in 1 .. nextGraph - 1
  /\ \A r \in resolutions : \E graph \in 1 .. nextGraph - 1 : r = DepOf(graph)
  /\ \A graph \in grouped \cup envs : graph \in 1 .. nextGraph - 1

\* No panic unwound an operation: nothing else is there.
NothingElseInv ==
  lost = {} =>
    /\ \A m \in sources : \E v \in Inserted : m \in ModulesOf(v)
    /\ \A r \in resolutions : \E v \in Inserted : "dep" \in v.modules /\ r = DepOf(v.graph)
    /\ \A graph \in grouped \cup envs : \E v \in Prepared : v.group # Own /\ v.graph = graph

\* Whose context is whose.
ContextInv ==
  /\ \A n \in Names : /\ groups[n].context < nextGraph
                      /\ groups[n].context = None => groups[n].scripts = 0
  /\ \A n, m \in Names : groups[n].context = groups[m].context /\ groups[n].context # None => n = m
  /\ \A v \in Inserted : v.group = Own \/ v.context = None =>
       \A n \in Names : groups[n].context # v.graph
  /\ \A v \in Prepared : /\ v.group = Own => v.context = v.graph
                         /\ v.group # Own => v.context = groups[v.group].context

CountOf(n) == Cardinality({v \in Counted : v.group = n})

\* How many scripts a group counts, and which groups there are.
CountInv ==
  /\ IsFiniteSet(Counted)
  /\ \A n \in Names : groups[n].scripts >= CountOf(n)
  /\ lost = {} =>
       /\ \A n \in Names : groups[n].scripts = CountOf(n)
       /\ \A n \in Names : groups[n].context # None => \E v \in Prepared : v.group = n
       /\ pc \in Entering /\ mounting.group # Own /\ ~created => groups[mounting.group].scripts # 0

IInv == /\ TypeInv /\ PhaseInv /\ VersionInv /\ HandoverInv
        /\ StoreInv /\ NothingElseInv /\ ContextInv /\ CountInv

-----------------------------------------------------------------------------
(* Versions and the sets of them.                                          *)

\* What a version is made of; NoVersion is none.
LEMMA VersionFields ==
  /\ NoVersion \notin Version
  /\ \A v \in Version : /\ v.id \in Ids
                        /\ v.graph \in 1 .. MaxLoads
                        /\ v.group \in Names \cup {Own}
                        /\ v.context \in Graphs
                        /\ v.data \in Graphs
                        /\ "entry" \in v.modules
                        /\ v.modules \subseteq {"entry", "dep"}
<1>1. \A v \in Version : v.graph \in 1 .. MaxLoads
  BY MaxLoadsAssumption DEF Version, Graphs, None
<1>2. NoVersion.graph \notin 1 .. MaxLoads
  BY DEF NoVersion, None
<1> QED
  BY <1>1, <1>2 DEF Version, Kinds

LEMMA Memberships ==
  ASSUME TypeInv
  PROVE  /\ DOMAIN scripts = 1 .. Len(scripts) /\ Len(scripts) \in Nat
         /\ \A i \in DOMAIN scripts : scripts[i] \in Version /\ scripts[i] \in Loaded
         /\ \A v \in Loaded : \E i \in DOMAIN scripts : v = scripts[i]
         /\ \A v : v \in Counted <=> v \in Loaded \/ (v = retiring /\ retiring # NoVersion)
         /\ \A v : v \in Inserted <=> v \in Counted \/ (v = mounting /\ mounting # NoVersion)
         /\ \A v : v \in Prepared <=> v \in Inserted /\ v.context # None
         /\ Inserted \subseteq Version /\ Counted \subseteq Inserted
<1>1. DOMAIN scripts = 1 .. Len(scripts) /\ Len(scripts) \in Nat
      /\ \A i \in DOMAIN scripts : scripts[i] \in Version
  BY DEF TypeInv, EngineTypes
<1>2. /\ \A i \in DOMAIN scripts : scripts[i] \in Loaded
      /\ \A v \in Loaded : \E i \in DOMAIN scripts : v = scripts[i]
  BY DEF Loaded
<1>3. /\ \A v : v \in Counted <=> v \in Loaded \/ (v = retiring /\ retiring # NoVersion)
      /\ \A v : v \in Inserted <=> v \in Counted \/ (v = mounting /\ mounting # NoVersion)
      /\ \A v : v \in Prepared <=> v \in Inserted /\ v.context # None
  BY DEF Counted, Inserted, Prepared
<1>4. (retiring # NoVersion => retiring \in Version) /\ (mounting # NoVersion => mounting \in Version)
  BY DEF TypeInv, OperationTypes
<1> QED
  BY <1>1, <1>2, <1>3, <1>4

\* The parts of a version's module ids and resolutions.
LEMMA ModulesAre ==
  ASSUME NEW v \in Version
  PROVE  /\ \A m : m \in ModulesOf(v) <=> \E name \in v.modules : m = <<v.graph, name>>
         /\ \A r : r \in ResolutionsOf(v) <=> "dep" \in v.modules /\ r = DepOf(v.graph)
         /\ Entry(v) = <<v.graph, "entry">> /\ Entry(v) \in ModulesOf(v)
<1>1. \A m : m \in ModulesOf(v) <=> \E name \in v.modules : m = <<v.graph, name>>
  BY DEF ModulesOf
<1> QED
  BY <1>1, VersionFields DEF ResolutionsOf, DepOf, Entry

-----------------------------------------------------------------------------
(* The properties follow from the invariant.                               *)

LEMMA StoreIsExact == ASSUME IInv PROVE StoreExact
<1> USE DEF IInv
<1> DEFINE modules == UNION {ModulesOf(v) : v \in Inserted}
           requests == UNION {ResolutionsOf(v) : v \in Inserted}
           inGroups == {v.graph : v \in {v \in Prepared : v.group # Own}}
<1>1. /\ \A m : m \in modules <=> \E v \in Inserted : m \in ModulesOf(v)
      /\ \A r : r \in requests <=> \E v \in Inserted : r \in ResolutionsOf(v)
      /\ \A graph : graph \in inGroups <=> \E v \in Prepared : v.group # Own /\ v.graph = graph
  OBVIOUS
<1> HIDE DEF modules, requests, inGroups
<1>2. /\ \A r : r \in requests <=> \E v \in Inserted : "dep" \in v.modules /\ r = DepOf(v.graph)
  BY <1>1, Memberships, ModulesAre
<1>3. modules \subseteq sources /\ requests \subseteq resolutions /\ inGroups \subseteq grouped \cap envs
  BY <1>1, <1>2 DEF StoreInv
<1>4. ASSUME lost = {}
      PROVE  sources \subseteq modules /\ resolutions \subseteq requests /\ grouped \cup envs \subseteq inGroups
  BY <1>1, <1>2, <1>4 DEF NothingElseInv
<1>5. lost = {} => /\ sources = modules /\ resolutions = requests
                   /\ grouped = inGroups /\ envs = inGroups
  BY <1>3, <1>4
<1> QED
  BY <1>3, <1>5 DEF StoreExact, modules, requests, inGroups

LEMMA GroupsAreExact == ASSUME IInv PROVE GroupsExact
<1> USE DEF IInv
<1>1. ASSUME NEW v \in Prepared, NEW w \in Prepared, v # w
      PROVE  v.context = w.context <=> v.group = w.group /\ v.group # Own
  <2>1. /\ v \in Inserted /\ w \in Inserted /\ v \in Version /\ w \in Version
        /\ v.context # None /\ w.context # None /\ v.graph # w.graph
    BY <1>1, Memberships DEF VersionInv
  <2>2. v.group \in Names \cup {Own} /\ w.group \in Names \cup {Own}
    BY <2>1, VersionFields
  <2>3. CASE v.group = Own
    <3>1. CASE w.group = Own
      BY <2>1, <2>3, <3>1 DEF ContextInv
    <3>2. CASE w.group # Own
      BY <2>1, <2>2, <2>3, <3>2 DEF ContextInv
    <3> QED BY <3>1, <3>2
  <2>4. CASE v.group # Own
    <3>1. CASE w.group = Own
      BY <2>1, <2>2, <2>4, <3>1 DEF ContextInv
    <3>2. CASE w.group # Own
      BY <2>1, <2>2, <2>4, <3>2 DEF ContextInv
    <3> QED BY <3>1, <3>2
  <2> QED BY <2>3, <2>4
<1>2. ASSUME NEW n \in Names
      PROVE  LET counted == Cardinality({v \in Counted : v.group = n})
                 members == {v \in Prepared : v.group = n}
             IN  /\ groups[n].scripts >= counted
                 /\ \A v \in members : groups[n].context = v.context
                 /\ lost = {} => /\ groups[n].scripts = counted
                                 /\ members = {} => groups[n] = NoGroup
  <2>1. /\ groups[n].scripts >= CountOf(n)
        /\ lost = {} => groups[n].scripts = CountOf(n)
    BY DEF CountInv
  <2>2. ASSUME NEW v \in Prepared, v.group = n PROVE groups[n].context = v.context
    BY <2>2, NamesAssumption DEF ContextInv
  <2>3. ASSUME lost = {}, {v \in Prepared : v.group = n} = {} PROVE groups[n] = NoGroup
    <3>1. groups[n].context = None
      BY <2>3 DEF CountInv
    <3>2. groups[n].scripts = 0
      BY <3>1 DEF ContextInv
    <3>3. groups[n] \in [context : Graphs, scripts : Nat]
      BY DEF TypeInv, EngineTypes
    <3> QED
      BY <3>1, <3>2, <3>3 DEF NoGroup
  <2> QED
    BY <2>1, <2>2, <2>3 DEF CountOf
<1> QED
  BY <1>1, <1>2 DEF GroupsExact

LEMMA ModulesAreOwn == ASSUME IInv PROVE ModulesOfItsOwn
<1> USE DEF IInv
<1> SUFFICES ASSUME pc \notin {"preparing", "importing"} PROVE ModulesOfItsOwn
  BY DEF ModulesOfItsOwn
<1>1. hostImport = NotFound /\ NotFound[1] = 0 /\ NotFound[2] = "not found"
  BY DEF PhaseInv, NotFound, None
<1>2. /\ \A name \in Shared : name = <<0, name[2]>> /\ name[1] = 0 /\ name # NotFound
      /\ \A name \in sources : name[1] # 0 /\ name \notin Shared /\ name # NotFound
      /\ <<None, "./dep">> \notin sources \cup Shared /\ <<None, "./dep">> # NotFound
  <2>1. \A name \in Shared : name = <<0, "host">> \/ name = <<0, "rustts:env">>
    BY DEF Shared, Hosts, Env, None
  <2>2. \A name \in Shared : /\ name = <<0, name[2]>> /\ name[1] = 0 /\ name # NotFound
                              /\ name # <<None, "./dep">>
    <3> TAKE name \in Shared
    <3>1. name[2] = "host" \/ name[2] = "rustts:env"
      BY <2>1
    <3>2. name[2] # "not found" /\ name[2] # "./dep"
      BY <3>1
    <3>3. <<None, "./dep">>[2] = "./dep" /\ NotFound[2] = "not found"
      BY <1>1
    <3>4. CASE name = <<0, "host">>
      BY <3>2, <3>3, <3>4
    <3>5. CASE name = <<0, "rustts:env">>
      BY <3>2, <3>3, <3>5
    <3> QED
      BY <2>1, <3>4, <3>5
  <2>3. <<None, "./dep">> # NotFound
    BY DEF NotFound
  <2>4. \A name \in sources : name[1] # 0
    BY DEF StoreInv
  <2> QED
    BY <2>2, <2>3, <2>4, <1>1 DEF None
<1>3. \A r \in resolutions : r[1] = <<r[1][1], "entry">> /\ r[2] = <<None, "./dep">> /\ r[3] = <<r[1][1], "dep">>
  BY DEF StoreInv, DepOf
<1>4. ASSUME NEW graph \in 1 .. nextGraph - 1, NEW m \in {"entry", "dep"} \cup Hosts,
             NEW name \in sources \cup Shared \cup {<<None, "./dep">>}
      PROVE  LET found == Resolved(<<graph, m>>, name)
             IN  found \in Shared \cup {NotFound} \/ found[1] = graph
  <2> DEFINE base == <<graph, m>>
             rs == {r \in resolutions : r[1] = base /\ r[2] = name}
  <2>1. name # hostImport /\ base[1] = graph
    BY <1>1, <1>2
  <2>2. CASE base[1] \in grouped /\ name \in Shared
    BY <2>1, <2>2 DEF Resolved
  <2>3. CASE ~(base[1] \in grouped /\ name \in Shared) /\ InReach(base, name)
    BY <1>2, <2>1, <2>3 DEF Resolved, InReach, None
  <2>4. CASE ~(base[1] \in grouped /\ name \in Shared) /\ ~InReach(base, name)
    <3>1. CASE \E r \in resolutions : r[1] = base /\ r[2] = name
      <4> DEFINE r0 == CHOOSE r \in resolutions : r[1] = base /\ r[2] = name
      <4>1. r0 \in resolutions /\ r0[1] = base
        BY <3>1
      <4>2. r0[3][1] = graph
        BY <1>3, <2>1, <4>1
      <4>3. Resolved(base, name) = r0[3]
        BY <2>1, <2>4, <3>1 DEF Resolved
      <4> QED
        BY <4>2, <4>3
    <3>2. CASE ~\E r \in resolutions : r[1] = base /\ r[2] = name
      BY <2>1, <2>4, <3>2 DEF Resolved
    <3> QED BY <3>1, <3>2
  <2> QED BY <2>2, <2>3, <2>4
<1>5. ASSUME NEW v \in Counted
      PROVE  /\ "dep" \in v.modules => Resolved(Entry(v), <<None, "./dep">>) = <<v.graph, "dep">>
             /\ \A name \in Shared :
                  Resolved(Entry(v), name) = <<IF v.group = Own THEN None ELSE v.graph, name[2]>>
  <2>1. v \in Inserted /\ v \in Prepared /\ Entry(v)[1] = v.graph /\ Entry(v) = <<v.graph, "entry">>
    BY Memberships DEF VersionInv, Entry
  <2>2. ASSUME "dep" \in v.modules
        PROVE  Resolved(Entry(v), <<None, "./dep">>) = <<v.graph, "dep">>
    <3> DEFINE name == <<None, "./dep">>
               r0 == CHOOSE r \in resolutions : r[1] = Entry(v) /\ r[2] = name
    <3>1. DepOf(v.graph) \in resolutions
      BY <2>1, <2>2 DEF StoreInv
    <3>2. DepOf(v.graph)[1] = Entry(v) /\ DepOf(v.graph)[2] = name
      BY <2>1 DEF DepOf
    <3>3. r0 \in resolutions /\ r0[1] = Entry(v) /\ r0[2] = name
      BY <3>1, <3>2
    <3>4. r0[3] = <<v.graph, "dep">>
      BY <1>3, <2>1, <3>3
    <3>5. Resolved(Entry(v), name) = r0[3]
      BY <1>1, <1>2, <3>1, <3>2 DEF Resolved, InReach
    <3> QED
      BY <3>4, <3>5
  <2>3. ASSUME NEW name \in Shared
        PROVE  Resolved(Entry(v), name) = <<IF v.group = Own THEN None ELSE v.graph, name[2]>>
    <3>1. CASE v.group = Own
      <4>1. v.graph \notin grouped
        BY <2>1, <3>1 DEF StoreInv
      <4>2. InReach(Entry(v), name)
        BY <1>2 DEF InReach, None
      <4>3. Resolved(Entry(v), name) = name
        BY <1>1, <1>2, <2>1, <4>1, <4>2 DEF Resolved
      <4> QED
        BY <1>2, <3>1, <4>3 DEF None
    <3>2. CASE v.group # Own
      <4>1. v.graph \in grouped
        BY <2>1, <3>2 DEF StoreInv
      <4> QED
        BY <1>1, <1>2, <2>1, <3>2, <4>1 DEF Resolved
    <3> QED BY <3>1, <3>2
  <2> QED BY <2>2, <2>3
<1> QED
  BY <1>4, <1>5 DEF ModulesOfItsOwn

-----------------------------------------------------------------------------
(* The first state, and the beginning of a load.                           *)

LEMMA InitHolds == Init => IInv
<1> SUFFICES ASSUME Init PROVE IInv
  OBVIOUS
<1>1. TypeInv
  <2>1. EngineTypes
    BY MaxLoadsAssumption, EmptySeq DEF Init, EngineTypes, NoGroup, Graphs, None
  <2>2. StoreTypes /\ OperationTypes
    BY DEF Init, StoreTypes, OperationTypes, Phases
  <2> QED BY <2>1, <2>2 DEF TypeInv
<1>2. Loaded = {} /\ Counted = {} /\ Inserted = {} /\ Prepared = {}
  BY DEF Init, Loaded, Counted, Inserted, Prepared
<1>3. PhaseInv
  BY DEF Init, PhaseInv, Loading, Entering
<1>4. VersionInv /\ StoreInv /\ NothingElseInv
  BY <1>2 DEF Init, VersionInv, StoreInv, NothingElseInv
<1>5. HandoverInv
  BY DEF Init, HandoverInv, Loading
<1>6. ContextInv
  BY <1>2 DEF Init, ContextInv, NoGroup, None
<1>7. \A n \in Names : CountOf(n) = 0
  <2>1. ASSUME NEW n \in Names PROVE {v \in Counted : v.group = n} = {}
    BY <1>2
  <2> QED BY <2>1, FS_EmptySet DEF CountOf
<1>8. CountInv
  BY <1>2, <1>7, FS_EmptySet DEF Init, CountInv, NoGroup, Entering, None
<1> QED
  BY <1>1, <1>3, <1>4, <1>5, <1>6, <1>8 DEF IInv

LEMMA LoadKeeps ==
  ASSUME IInv, NEW id \in Ids, NEW group \in Names \cup {Own}, NEW modules \in Kinds,
         Load(id, group, modules)
  PROVE  IInv'
<1> USE DEF IInv
<1> DEFINE version == [id |-> id, graph |-> nextGraph, group |-> group, context |-> None,
                       data |-> None, modules |-> modules]
<1>1. /\ pc = "idle" /\ nextGraph <= MaxLoads /\ nextGraph' = nextGraph + 1
      /\ mounting' = version /\ Insert(version) /\ pc' \in {"saving", "preparing"}
      /\ UNCHANGED <<scripts, groups, envs, created, retiring, disposed, lost>>
  BY DEF Load
<1>2. nextGraph \in 1 .. MaxLoads /\ MaxLoads \in Nat /\ nextGraph' \in 1 .. MaxLoads + 1
  BY <1>1, MaxLoadsAssumption DEF TypeInv, EngineTypes
<1>3. version \in Version /\ version # NoVersion
  <2>1. version \in Version
    BY <1>2 DEF Version, Graphs, None
  <2> QED BY <2>1, VersionFields
<1>4. /\ version.id = id /\ version.graph = nextGraph /\ version.group = group
      /\ version.context = None /\ version.data = None /\ version.modules = modules
  OBVIOUS
<1> HIDE DEF version
<1>5. mounting = NoVersion /\ created = FALSE /\ hostImport = NotFound
  BY <1>1 DEF PhaseInv, Loading, Entering
<1>6. /\ sources' = sources \cup ModulesOf(version)
      /\ resolutions' = resolutions \cup ResolutionsOf(version)
      /\ grouped' = grouped /\ hostImport' = hostImport
  BY <1>1 DEF Insert
<1>7. \A m : m \in ModulesOf(version) <=> \E name \in version.modules : m = <<nextGraph, name>>
  BY <1>3, <1>4, ModulesAre
<1>8. TypeInv'
  <2>1. EngineTypes'
    BY <1>1, <1>2 DEF TypeInv, EngineTypes
  <2>2. ModulesOf(version) \subseteq Graphs \X {"entry", "dep"}
    BY <1>2, <1>3, <1>7, VersionFields DEF Graphs, None
  <2>3. StoreTypes'
    BY <1>1, <1>6, <2>2 DEF TypeInv, StoreTypes
  <2>4. OperationTypes'
    BY <1>1, <1>3, <1>5 DEF TypeInv, OperationTypes, Phases
  <2> QED BY <2>1, <2>3, <2>4 DEF TypeInv
<1>9. /\ Loaded' = Loaded /\ Counted' = Counted /\ Inserted = Counted
      /\ \A v : v \in Inserted' <=> v \in Inserted \/ v = version
      /\ \A v : v \in Prepared' <=> v \in Prepared
  <2>1. Loaded' = Loaded
    BY <1>1 DEF Loaded
  <2>2. Counted' = Counted
    BY <1>1, <2>1 DEF Counted
  <2>3. Inserted = Counted /\ \A v : v \in Inserted' <=> v \in Inserted \/ v = version
    BY <1>1, <1>3, <1>5, <2>2 DEF Inserted
  <2>4. \A v : v \in Prepared' <=> v \in Prepared
    BY <1>4, <2>3 DEF Prepared
  <2> QED BY <2>1, <2>2, <2>3, <2>4
<1>10. \A v \in Inserted : v.graph < nextGraph /\ v.graph # nextGraph /\ v \in Version /\ v.graph \in Nat
  BY <1>2, Memberships, VersionFields DEF VersionInv
<1>11. PhaseInv'
  BY <1>1, <1>3, <1>4, <1>5, <1>6 DEF PhaseInv, Loading, Entering
<1>12. VersionInv'
  <2>1. version \notin Inserted
    BY <1>4, <1>10
  <2>2. /\ \A v, w \in Inserted' : v.graph = w.graph => v = w
        /\ \A v \in Inserted' : v.graph < nextGraph'
    BY <1>1, <1>2, <1>4, <1>9, <1>10 DEF VersionInv
  <2> QED
    BY <1>1, <1>9, <2>1, <2>2 DEF VersionInv
<1>13. HandoverInv'
  <2>1. \A i \in DOMAIN disposed : disposed[i] \in 1 .. nextGraph - 1
    BY DEF HandoverInv
  <2> QED
    BY <1>1, <1>2, <1>4, <2>1 DEF HandoverInv
<1>14. StoreInv'
  <2>1. \A v \in Inserted' : /\ ModulesOf(v) \subseteq sources'
                             /\ "dep" \in v.modules => DepOf(v.graph) \in resolutions'
                             /\ v.group = Own => v.graph \notin grouped'
    <3>1. \A v \in Inserted : /\ ModulesOf(v) \subseteq sources'
                              /\ "dep" \in v.modules => DepOf(v.graph) \in resolutions'
                              /\ v.group = Own => v.graph \notin grouped'
      BY <1>6 DEF StoreInv
    <3>2. ModulesOf(version) \subseteq sources' /\ nextGraph \notin grouped'
      BY <1>2, <1>6 DEF StoreInv
    <3>3. "dep" \in version.modules => DepOf(version.graph) \in resolutions'
      BY <1>3, <1>6, ModulesAre
    <3> QED
      BY <1>4, <1>9, <3>1, <3>2, <3>3
  <2>2. \A v \in Prepared' : v.group # Own => v.graph \in grouped' /\ v.graph \in envs'
    BY <1>1, <1>6, <1>9 DEF StoreInv
  <2>3. \A m \in sources' : m[1] \in 1 .. nextGraph' - 1
    BY <1>1, <1>2, <1>6, <1>7 DEF StoreInv
  <2>4. \A r \in resolutions' : \E graph \in 1 .. nextGraph' - 1 : r = DepOf(graph)
    <3>1. \A r \in ResolutionsOf(version) : r = DepOf(nextGraph)
      BY <1>3, <1>4, ModulesAre
    <3>2. nextGraph \in 1 .. nextGraph' - 1 /\ 1 .. nextGraph - 1 \subseteq 1 .. nextGraph' - 1
      BY <1>1, <1>2
    <3> QED
      BY <1>6, <3>1, <3>2 DEF StoreInv
  <2>5. \A graph \in grouped' \cup envs' : graph \in 1 .. nextGraph' - 1
    BY <1>1, <1>2, <1>6 DEF StoreInv
  <2> QED
    BY <2>1, <2>2, <2>3, <2>4, <2>5 DEF StoreInv
<1>15. NothingElseInv'
  <2> SUFFICES ASSUME lost' = {}
               PROVE  /\ \A m \in sources' : \E v \in Inserted' : m \in ModulesOf(v)
                      /\ \A r \in resolutions' : \E v \in Inserted' : "dep" \in v.modules /\ r = DepOf(v.graph)
                      /\ \A graph \in grouped' \cup envs' :
                           \E v \in Prepared' : v.group # Own /\ v.graph = graph
    BY DEF NothingElseInv
  <2>1. \A m \in sources' : \E v \in Inserted' : m \in ModulesOf(v)
    BY <1>1, <1>6, <1>9 DEF NothingElseInv
  <2>2. \A r \in resolutions' : \E v \in Inserted' : "dep" \in v.modules /\ r = DepOf(v.graph)
    <3>1. \A r \in ResolutionsOf(version) : "dep" \in version.modules /\ r = DepOf(version.graph)
      BY <1>3, ModulesAre
    <3> QED
      BY <1>1, <1>6, <1>9, <3>1 DEF NothingElseInv
  <2>3. \A graph \in grouped' \cup envs' : \E v \in Prepared' : v.group # Own /\ v.graph = graph
    BY <1>1, <1>6, <1>9 DEF NothingElseInv
  <2> QED BY <2>1, <2>2, <2>3
<1>16. ContextInv'
  <2>1. \A n \in Names : groups[n].context < nextGraph /\ groups[n].context \in Nat
    BY MaxLoadsAssumption DEF ContextInv, TypeInv, EngineTypes, Graphs, None
  <2>2. \A n \in Names : groups[n].context < nextGraph' /\ groups[n].context # nextGraph
    BY <1>1, <1>2, <2>1
  <2> QED
    BY <1>1, <1>4, <1>9, <2>2 DEF ContextInv
<1>17. CountInv'
  <2>1. \A n : CountOf(n)' = CountOf(n)
    BY <1>9 DEF CountOf
  <2> QED
    BY <1>1, <1>9, <2>1 DEF CountInv, Entering
<1> QED
  BY <1>8, <1>11, <1>12, <1>13, <1>14, <1>15, <1>16, <1>17

-----------------------------------------------------------------------------
(* The version being loaded is handed data, and gets its context.          *)

\* It is still the same version: only its data or its context change.
SameVersion == /\ mounting' \in Version
               /\ mounting'.id = mounting.id /\ mounting'.graph = mounting.graph
               /\ mounting'.group = mounting.group /\ mounting'.modules = mounting.modules
               /\ UNCHANGED <<scripts, retiring, nextGraph, disposed, lost>>

LEMMA VersionKept ==
  ASSUME IInv, pc \in Loading, SameVersion
  PROVE  /\ mounting \in Version /\ mounting \in Inserted /\ mounting' # NoVersion
         /\ Loaded' = Loaded /\ Counted' = Counted
         /\ \A v : v \in Inserted <=> v \in Counted \/ v = mounting
         /\ \A v : v \in Inserted' <=> v \in Counted \/ v = mounting'
         /\ \A v : v \in Prepared <=> v \in Counted \/ (v = mounting /\ v.context # None)
         /\ \A v : v \in Prepared' <=> v \in Counted \/ (v = mounting' /\ v.context # None)
         /\ \A n : CountOf(n)' = CountOf(n)
         /\ VersionInv'
<1> USE DEF IInv
<1>1. /\ mounting \in Version /\ mounting # NoVersion /\ mounting' # NoVersion
      /\ mounting \in Inserted /\ mounting \notin Counted
  BY VersionFields, Memberships DEF SameVersion, PhaseInv, TypeInv, OperationTypes, VersionInv
<1>2. Loaded' = Loaded
  BY DEF SameVersion, Loaded
<1>3. Counted' = Counted
  BY <1>2 DEF SameVersion, Counted
<1>4. /\ \A v : v \in Inserted <=> v \in Counted \/ v = mounting
      /\ \A v : v \in Inserted' <=> v \in Counted \/ v = mounting'
  BY <1>1, <1>3 DEF Inserted
<1>5. /\ \A v : v \in Prepared <=> v \in Counted \/ (v = mounting /\ v.context # None)
      /\ \A v : v \in Prepared' <=> v \in Counted \/ (v = mounting' /\ v.context # None)
  BY <1>4 DEF Prepared, VersionInv
<1>6. \A n : CountOf(n)' = CountOf(n)
  BY <1>3 DEF CountOf
<1>7. \A v \in Counted : v.graph # mounting'.graph
  BY <1>1, <1>4 DEF VersionInv, SameVersion
<1>8. VersionInv'
  <2>1. /\ \A v, w \in Inserted' : v.graph = w.graph => v = w
        /\ \A v \in Inserted' : v.graph < nextGraph'
    BY <1>1, <1>4, <1>7 DEF VersionInv, SameVersion
  <2> QED
    BY <1>1, <1>2, <1>3, <1>7, <2>1 DEF VersionInv, SameVersion
<1> QED
  BY <1>1, <1>2, <1>3, <1>4, <1>5, <1>6, <1>8

LEMMA SaveKeeps ==
  ASSUME IInv, Save
  PROVE  IInv'
<1> USE DEF IInv
<1>0. PICK i \in At(mounting.id) : \E data \in {None, scripts[i].graph} :
        mounting' = [mounting EXCEPT !.data = data]
  BY DEF Save
<1>1. PICK data \in {None, scripts[i].graph} : mounting' = [mounting EXCEPT !.data = data]
  BY <1>0
<1>2. /\ pc = "saving" /\ pc' = "preparing"
      /\ UNCHANGED <<scripts, groups, nextGraph, envs, sources, resolutions, grouped, hostImport,
                     created, retiring, disposed, lost>>
  BY DEF Save, storeVars
<1>3. mounting \in Version /\ i \in DOMAIN scripts /\ data \in Graphs
  <2>1. mounting \in Version
    BY <1>2 DEF TypeInv, OperationTypes
  <2>2. i \in DOMAIN scripts /\ scripts[i] \in Version
    BY Memberships DEF At
  <2>3. scripts[i].graph \in Graphs /\ None \in Graphs
    BY <2>2, VersionFields, MaxLoadsAssumption DEF Graphs, None
  <2> QED
    BY <2>1, <2>2, <2>3
<1>4. /\ SameVersion /\ mounting'.context = mounting.context /\ mounting'.data = data
  BY <1>1, <1>2, <1>3 DEF SameVersion, Version
<1>5. pc \in Loading
  BY <1>2 DEF Loading
<1>6. /\ mounting.context = None /\ created = FALSE
  BY <1>2, <1>5 DEF PhaseInv, Entering, TypeInv, OperationTypes
<1>7. TypeInv'
  BY <1>2, <1>4 DEF TypeInv, EngineTypes, StoreTypes, OperationTypes, Phases, SameVersion
<1>8. PhaseInv'
  BY <1>2, <1>4, <1>5, <1>6, VersionKept DEF PhaseInv, Loading, Entering
<1>9. VersionInv'
  BY <1>4, <1>5, VersionKept
<1>10. HandoverInv'
  <2>1. At(mounting.id)' = At(mounting.id)
    BY <1>2, <1>4 DEF At, SameVersion
  <2> QED
    BY <1>1, <1>2, <1>4, <2>1 DEF HandoverInv, SameVersion
<1>11. \A v : v \in Prepared' <=> v \in Prepared
  BY <1>4, <1>5, <1>6, VersionKept
<1>12. ModulesOf(mounting)' = ModulesOf(mounting)
  BY <1>4 DEF ModulesOf, SameVersion
<1>13. StoreInv'
  BY <1>2, <1>4, <1>5, <1>11, <1>12, VersionKept DEF StoreInv, SameVersion
<1>14. NothingElseInv'
  BY <1>2, <1>4, <1>5, <1>11, <1>12, VersionKept DEF NothingElseInv, SameVersion
<1>15. ContextInv'
  BY <1>2, <1>4, <1>5, <1>6, <1>11, VersionKept DEF ContextInv, SameVersion
<1>16. CountInv'
  BY <1>2, <1>4, <1>5, <1>6, <1>11, VersionKept DEF CountInv, SameVersion, Entering
<1> QED
  BY <1>7, <1>8, <1>9, <1>10, <1>13, <1>14, <1>15, <1>16

LEMMA PrepareKeeps ==
  ASSUME IInv, Prepare
  PROVE  IInv'
<1> USE DEF IInv
<1>1. /\ pc = "preparing" /\ pc' = "importing" /\ hostImport' = Entry(mounting)
      /\ UNCHANGED <<scripts, nextGraph, sources, resolutions, retiring, disposed, lost>>
  BY DEF Prepare
<1>2. pc \in Loading /\ mounting \in Version /\ mounting.context = None /\ created = FALSE
  BY <1>1 DEF PhaseInv, Loading, Entering, TypeInv, OperationTypes
<1>3. /\ mounting.graph \in Graphs \ {None} /\ mounting.graph < nextGraph /\ mounting.graph \in Nat
      /\ mounting.group \in Names \cup {Own} /\ mounting \in Inserted
  <2>1. mounting \in Inserted
    BY <1>1, <1>2, Memberships DEF PhaseInv
  <2> QED
    BY <1>2, <2>1, VersionFields, MaxLoadsAssumption DEF VersionInv, Graphs, None, Version
<1>4. \A n \in Names : groups[n].context # mounting.graph
  BY <1>2, <1>3 DEF ContextInv
<1>5. PICK context \in Graphs \ {None} :
        /\ mounting' = [mounting EXCEPT !.context = context]
        /\ groups' \in [Names -> [context : Graphs, scripts : Nat]] /\ created' \in BOOLEAN
        /\ \A n \in Names : n # mounting.group => groups'[n] = groups[n]
        /\ \/ /\ mounting.group = Own /\ context = mounting.graph /\ created' = FALSE
              /\ UNCHANGED <<groups, grouped, envs>>
           \/ /\ mounting.group \in Names /\ context = groups'[mounting.group].context
              /\ grouped' = grouped \cup {mounting.graph}
              /\ envs' = envs \cup {mounting.graph}
              /\ \/ groups' = groups /\ created' = FALSE /\ groups[mounting.group].context # None
                 \/ /\ created' = TRUE /\ context = mounting.graph
                    /\ groups[mounting.group] = NoGroup
                    /\ groups'[mounting.group] = [context |-> mounting.graph, scripts |-> 0]
  <2>1. CASE mounting.group = Own
    BY <1>3, <2>1, NamesAssumption DEF Prepare, TypeInv, EngineTypes
  <2>2. CASE mounting.group # Own
    <3> DEFINE existing == groups[mounting.group]
               group == IF existing # NoGroup THEN existing
                        ELSE [context |-> mounting.graph, scripts |-> 0]
    <3>1. /\ created' = (existing = NoGroup)
          /\ groups' = [groups EXCEPT ![mounting.group] = group]
          /\ mounting' = [mounting EXCEPT !.context = group.context]
          /\ grouped' = grouped \cup {mounting.graph}
          /\ envs' = envs \cup {mounting.graph}
      BY <2>2 DEF Prepare
    <3>2. mounting.group \in Names
      BY <1>3, <2>2
    <3>3. existing \in [context : Graphs, scripts : Nat]
      BY <3>2 DEF TypeInv, EngineTypes
    <3>4. CASE existing = NoGroup
      <4>1. group = [context |-> mounting.graph, scripts |-> 0]
        BY <3>4
      <4> QED
        BY <1>3, <3>1, <3>2, <3>4, <4>1 DEF TypeInv, EngineTypes, Graphs, None
    <3>5. CASE existing # NoGroup
      <4>1. existing.context # None
        BY <3>2, <3>3, <3>5 DEF ContextInv, NoGroup, None
      <4>2. group = existing
        BY <3>5
      <4>3. groups' = groups
        BY <3>1, <3>2, <4>2 DEF TypeInv, EngineTypes
      <4> QED
        BY <3>1, <3>2, <3>3, <3>5, <4>1, <4>2, <4>3 DEF TypeInv, EngineTypes
    <3> QED BY <3>4, <3>5
  <2> QED BY <2>1, <2>2
<1>6. /\ SameVersion /\ mounting'.context = context /\ mounting'.data = mounting.data
  BY <1>1, <1>2, <1>5 DEF SameVersion, Version
<1>7. TypeInv'
  <2>1. EngineTypes'
    BY <1>1, <1>5 DEF TypeInv, EngineTypes
  <2>2. StoreTypes'
    BY <1>1, <1>3, <1>5 DEF TypeInv, StoreTypes
  <2>3. OperationTypes'
    BY <1>1, <1>5, <1>6 DEF TypeInv, OperationTypes, Phases, SameVersion
  <2> QED BY <2>1, <2>2, <2>3 DEF TypeInv
<1>8. PhaseInv'
  <2>1. mounting' # NoVersion /\ retiring' = retiring /\ retiring = NoVersion
    BY <1>1, <1>2, <1>6, VersionKept DEF PhaseInv, SameVersion
  <2>2. created' => mounting'.group # Own
                    /\ groups'[mounting'.group] = [context |-> mounting'.graph, scripts |-> 0]
    BY <1>5, <1>6, NamesAssumption DEF SameVersion
  <2>3. hostImport' = Entry(mounting)'
    BY <1>1, <1>6 DEF Entry, SameVersion
  <2> QED
    BY <1>1, <1>5, <1>6, <2>1, <2>2, <2>3 DEF PhaseInv, Loading, Entering
<1>9. VersionInv'
  BY <1>2, <1>6, VersionKept
<1>10. HandoverInv'
  <2>1. At(mounting.id)' = At(mounting.id)
    BY <1>6 DEF At, SameVersion
  <2> QED
    BY <1>1, <1>2, <1>6, <2>1 DEF HandoverInv, SameVersion
<1>11. /\ \A v : v \in Prepared' <=> v \in Prepared \/ v = mounting'
       /\ \A v : v \in Inserted' <=> v \in Counted \/ v = mounting'
       /\ \A v : v \in Inserted <=> v \in Counted \/ v = mounting
       /\ \A v : v \in Prepared <=> v \in Counted
       /\ \A v \in Counted : v.graph # mounting.graph
  BY <1>2, <1>5, <1>6, VersionKept DEF VersionInv
<1>12. ModulesOf(mounting)' = ModulesOf(mounting)
  BY <1>6 DEF ModulesOf, SameVersion
<1>13. StoreInv'
  <2>1. \A v \in Inserted' : /\ ModulesOf(v) \subseteq sources'
                             /\ "dep" \in v.modules => DepOf(v.graph) \in resolutions'
    BY <1>1, <1>6, <1>11, <1>12 DEF StoreInv, SameVersion
  <2>2. \A v \in Inserted' : v.group = Own => v.graph \notin grouped'
    <3>1. CASE mounting.group = Own
      BY <1>5, <1>6, <1>11, <3>1, NamesAssumption DEF StoreInv, SameVersion
    <3>2. CASE mounting.group # Own
      <4>1. \A v \in Counted : v.group = Own => v.graph \notin grouped /\ v.graph # mounting.graph
        BY <1>11 DEF StoreInv
      <4>2. grouped' = grouped \cup {mounting.graph} /\ mounting'.group # Own
        BY <1>5, <1>6, <3>2 DEF SameVersion
      <4> QED
        BY <1>11, <4>1, <4>2
    <3> QED BY <3>1, <3>2
  <2>3. \A v \in Prepared' : v.group # Own => v.graph \in grouped' /\ v.graph \in envs'
    BY <1>5, <1>6, <1>11 DEF StoreInv, SameVersion
  <2>4. \A graph \in grouped' \cup envs' : graph \in 1 .. nextGraph' - 1
    BY <1>1, <1>3, <1>5 DEF StoreInv, Graphs, None, TypeInv, EngineTypes
  <2> QED
    BY <1>1, <2>1, <2>2, <2>3, <2>4 DEF StoreInv
<1>14. NothingElseInv'
  <2> SUFFICES ASSUME lost' = {}
               PROVE  /\ \A m \in sources' : \E v \in Inserted' : m \in ModulesOf(v)
                      /\ \A r \in resolutions' : \E v \in Inserted' : "dep" \in v.modules /\ r = DepOf(v.graph)
                      /\ \A graph \in grouped' \cup envs' :
                           \E v \in Prepared' : v.group # Own /\ v.graph = graph
    BY DEF NothingElseInv
  <2>1. \A m \in sources' : \E v \in Inserted' : m \in ModulesOf(v)
    BY <1>1, <1>6, <1>11, <1>12 DEF NothingElseInv
  <2>2. \A r \in resolutions' : \E v \in Inserted' : "dep" \in v.modules /\ r = DepOf(v.graph)
    BY <1>1, <1>6, <1>11 DEF NothingElseInv, SameVersion
  <2>3. \A graph \in grouped' \cup envs' : \E v \in Prepared' : v.group # Own /\ v.graph = graph
    BY <1>1, <1>5, <1>6, <1>11, NamesAssumption DEF NothingElseInv, SameVersion
  <2> QED BY <2>1, <2>2, <2>3
<1>15. ContextInv'
  <2>1. /\ \A n \in Names : groups'[n].context < nextGraph'
                            /\ (groups'[n].context = None => groups'[n].scripts = 0)
        /\ \A n, m \in Names : groups'[n].context = groups'[m].context /\ groups'[n].context # None => n = m
    BY <1>1, <1>3, <1>4, <1>5 DEF ContextInv, NoGroup, None
  <2>2. \A v \in Inserted' : v.group = Own \/ v.context = None =>
          \A n \in Names : groups'[n].context # v.graph
    <3>1. ASSUME NEW v \in Counted, v.group = Own, NEW n \in Names PROVE groups'[n].context # v.graph
      <4>1. groups[n].context # v.graph
        BY <1>11, <3>1 DEF ContextInv
      <4>2. groups'[n].context \in {groups[n].context, mounting.graph}
        BY <1>5
      <4> QED
        BY <1>11, <4>1, <4>2
    <3>2. ASSUME mounting.group = Own, NEW n \in Names PROVE groups'[n].context # mounting.graph
      BY <1>4, <1>5, <3>2, NamesAssumption
    <3>3. mounting'.context # None /\ mounting'.group = mounting.group /\ mounting'.graph = mounting.graph
          /\ \A v \in Counted : v.context # None
      BY <1>5, <1>6 DEF SameVersion, VersionInv
    <3> QED
      BY <1>11, <3>1, <3>2, <3>3
  <2>3. \A v \in Prepared' : /\ v.group = Own => v.context = v.graph
                             /\ v.group # Own => v.context = groups'[v.group].context
    <3>1. ASSUME NEW v \in Counted
          PROVE  /\ v.group = Own => v.context = v.graph
                 /\ v.group # Own => v.context = groups'[v.group].context
      <4>1. v \in Prepared /\ v \in Version /\ v.context # None
        BY <1>11, Memberships DEF VersionInv
      <4>2. CASE v.group = Own
        BY <4>1, <4>2 DEF ContextInv
      <4>3. CASE v.group # Own
        <5>1. v.group \in Names /\ v.context = groups[v.group].context
          BY <4>1, <4>3, VersionFields DEF ContextInv
        <5>2. groups'[v.group] = groups[v.group]
          BY <1>5, <4>1, <5>1 DEF NoGroup
        <5> QED BY <4>3, <5>1, <5>2
      <4> QED BY <4>2, <4>3
    <3> QED
      BY <1>5, <1>6, <1>11, <3>1, NamesAssumption DEF SameVersion
  <2> QED
    BY <2>1, <2>2, <2>3 DEF ContextInv
<1>16. CountInv'
  <2>1. \A n \in Names : groups'[n].scripts = groups[n].scripts
    BY <1>5 DEF NoGroup
  <2>2. \A n : CountOf(n)' = CountOf(n)
    BY <1>2, <1>6, VersionKept
  <2>3. IsFiniteSet(Counted)'
    BY <1>2, <1>6, VersionKept DEF CountInv
  <2>4. ASSUME lost = {}, NEW n \in Names, groups'[n].context # None
        PROVE  \E v \in Prepared' : v.group = n
    <3>1. CASE n = mounting.group
      BY <1>6, <1>11, <3>1 DEF SameVersion
    <3>2. CASE n # mounting.group
      BY <1>5, <1>11, <2>4, <3>2 DEF CountInv
    <3> QED BY <3>1, <3>2
  <2>5. ASSUME lost = {}, mounting.group # Own, ~created' PROVE groups'[mounting.group].scripts # 0
    <3>1. /\ mounting.group \in Names /\ groups' = groups /\ groups[mounting.group].context # None
      BY <1>5, <2>5
    <3>2. PICK v \in Counted : v.group = mounting.group
      BY <1>11, <2>5, <3>1 DEF CountInv
    <3>3. groups[mounting.group].scripts = CountOf(mounting.group)
      BY <2>5, <3>1 DEF CountInv
    <3>4. {w \in Counted : w.group = mounting.group} # {} /\ IsFiniteSet({w \in Counted : w.group = mounting.group})
      <4>1. {w \in Counted : w.group = mounting.group} \in SUBSET Counted
        OBVIOUS
      <4> QED BY <3>2, <4>1, FS_Subset DEF CountInv
    <3> QED
      BY <3>1, <3>3, <3>4, FS_EmptySet DEF CountOf
  <2> QED
    BY <1>6, <2>1, <2>2, <2>3, <2>4, <2>5 DEF CountInv, SameVersion
<1> QED
  BY <1>7, <1>8, <1>9, <1>10, <1>13, <1>14, <1>15, <1>16

LEMMA ResolveEntryKeeps ==
  ASSUME IInv, ResolveEntry
  PROVE  IInv'
<1> USE DEF IInv
<1>1. /\ pc = "importing" /\ pc' = "evaluating"
      /\ UNCHANGED <<scripts, groups, nextGraph, envs, sources, resolutions, grouped, mounting,
                     created, retiring, disposed, lost>>
      /\ hostImport' = NotFound
  BY DEF ResolveEntry, AfterResolution, PhaseInv
<1>2. Loaded' = Loaded /\ Counted' = Counted /\ Inserted' = Inserted /\ Prepared' = Prepared
  BY <1>1 DEF Loaded, Counted, Inserted, Prepared
<1>3. TypeInv'
  BY <1>1 DEF TypeInv, EngineTypes, StoreTypes, OperationTypes, Phases
<1>4. PhaseInv'
  BY <1>1 DEF PhaseInv, Loading, Entering
<1>5. VersionInv'
  BY <1>1, <1>2 DEF VersionInv
<1>6. HandoverInv'
  <2>1. At(mounting.id)' = At(mounting.id)
    BY <1>1 DEF At
  <2> QED BY <1>1, <2>1 DEF HandoverInv, Loading
<1>7. StoreInv' /\ NothingElseInv'
  BY <1>1, <1>2 DEF StoreInv, NothingElseInv
<1>8. ContextInv'
  BY <1>1, <1>2 DEF ContextInv
<1>9. CountInv'
  BY <1>1, <1>2 DEF CountInv, CountOf, Entering
<1> QED
  BY <1>3, <1>4, <1>5, <1>6, <1>7, <1>8, <1>9

-----------------------------------------------------------------------------
(* A version leaves: its load fails, it is retired, or a panic unwinds.    *)

\* What its removal leaves in the store is what the others need.
LEMMA StoreAfterRemoval ==
  ASSUME IInv, NEW w \in Inserted, Remove(w),
         \A v : v \in Inserted' <=> v \in Inserted /\ v # w,
         nextGraph' = nextGraph, lost' = lost,
         envs' = envs \ {w.graph} \/ (w.context = None /\ envs' = envs)
  PROVE  StoreTypes' /\ StoreInv' /\ NothingElseInv'
<1> USE DEF IInv
<1>1. /\ sources' = sources \ ModulesOf(w) /\ grouped' = grouped \ {w.graph}
      /\ resolutions' = {r \in resolutions : {r[1], r[3]} \cap ModulesOf(w) = {}}
  BY DEF Remove
<1>2. StoreTypes'
  BY <1>1 DEF TypeInv, StoreTypes
<1>3. w \in Version /\ Inserted \subseteq Version /\ Inserted' \subseteq Inserted
      /\ \A v \in Inserted' : v # w /\ v.graph # w.graph
  BY Memberships DEF VersionInv
<1>4. /\ \A v : v \in Prepared <=> v \in Inserted /\ v.context # None
      /\ \A v : v \in Prepared' <=> v \in Prepared /\ v # w
  BY DEF Prepared
<1>5. \A m \in ModulesOf(w) : m[1] = w.graph
  BY <1>3, ModulesAre
<1>6. ASSUME NEW v \in Inserted'
      PROVE  ModulesOf(v) \subseteq sources'
  <2>1. \A m \in ModulesOf(v) : m[1] = v.graph
    BY <1>3, ModulesAre
  <2> QED
    BY <1>1, <1>3, <1>5, <2>1 DEF StoreInv
<1>7. ASSUME NEW v \in Inserted', "dep" \in v.modules
      PROVE  DepOf(v.graph) \in resolutions'
  <2>1. DepOf(v.graph) \in resolutions
    BY <1>3, <1>7 DEF StoreInv
  <2>2. DepOf(v.graph)[1] \notin ModulesOf(w) /\ DepOf(v.graph)[3] \notin ModulesOf(w)
    <3>1. DepOf(v.graph)[1][1] = v.graph /\ DepOf(v.graph)[3][1] = v.graph
      BY DEF DepOf
    <3> QED
      BY <1>3, <1>5, <3>1
  <2> QED
    BY <1>1, <2>1, <2>2
<1>8. StoreInv'
  <2>1. \A v \in Inserted' : v.group = Own => v.graph \notin grouped'
    BY <1>1, <1>3 DEF StoreInv
  <2>2. \A v \in Prepared' : v.group # Own => v.graph \in grouped' /\ v.graph \in envs'
    BY <1>1, <1>3, <1>4 DEF StoreInv
  <2>3. /\ \A m \in sources' : m[1] \in 1 .. nextGraph' - 1
        /\ \A r \in resolutions' : \E graph \in 1 .. nextGraph' - 1 : r = DepOf(graph)
        /\ \A graph \in grouped' \cup envs' : graph \in 1 .. nextGraph' - 1
    BY <1>1 DEF StoreInv
  <2> QED
    BY <1>6, <1>7, <2>1, <2>2, <2>3 DEF StoreInv
<1>9. NothingElseInv'
  <2> SUFFICES ASSUME lost = {}
               PROVE  /\ \A m \in sources' : \E v \in Inserted' : m \in ModulesOf(v)
                      /\ \A r \in resolutions' : \E v \in Inserted' : "dep" \in v.modules /\ r = DepOf(v.graph)
                      /\ \A graph \in grouped' \cup envs' :
                           \E v \in Prepared' : v.group # Own /\ v.graph = graph
    BY DEF NothingElseInv
  <2>1. \A m \in sources' : \E v \in Inserted' : m \in ModulesOf(v)
    BY <1>1 DEF NothingElseInv
  <2>2. ASSUME NEW r \in resolutions'
        PROVE  \E v \in Inserted' : "dep" \in v.modules /\ r = DepOf(v.graph)
    <3>1. PICK v \in Inserted : "dep" \in v.modules /\ r = DepOf(v.graph)
      BY <1>1, <2>2 DEF NothingElseInv
    <3>2. v # w
      <4>1. r[1] \notin ModulesOf(w)
        BY <1>1, <2>2
      <4>2. r[1] = <<v.graph, "entry">>
        BY <3>1 DEF DepOf
      <4> QED
        BY <1>3, <4>1, <4>2, ModulesAre
    <3> QED BY <3>1, <3>2
  <2>3. ASSUME NEW graph \in grouped' \cup envs'
        PROVE  \E v \in Prepared' : v.group # Own /\ v.graph = graph
    <3>1. PICK v \in Prepared : v.group # Own /\ v.graph = graph
      BY <1>1, <2>3 DEF NothingElseInv
    <3>2. v # w
      BY <1>1, <1>4, <2>3, <3>1 DEF NothingElseInv, VersionInv
    <3> QED
      BY <1>4, <3>1, <3>2
  <2> QED BY <2>1, <2>2, <2>3
<1> QED
  BY <1>2, <1>8, <1>9

\* Groups keep their contexts, or go when no version has theirs.
LEMMA ContextsKept ==
  ASSUME IInv, Inserted' \subseteq Inserted, nextGraph' = nextGraph,
         \A n \in Names : \/ /\ groups'[n].context = groups[n].context
                             /\ groups'[n].context = None => groups'[n].scripts = 0
                          \/ groups'[n] = NoGroup /\ \A v \in Prepared' : v.group # n
  PROVE  ContextInv'
<1> USE DEF IInv
<1>1. Prepared' \subseteq Prepared /\ Inserted' \subseteq Version /\ Prepared' \subseteq Inserted'
  BY Memberships DEF Prepared
<1>2. \A n \in Names : groups'[n].context = groups[n].context \/ groups'[n].context = None
  BY DEF NoGroup
<1>3. \A n \in Names : groups'[n].context = None => groups'[n].scripts = 0
  BY DEF NoGroup
<1>4. nextGraph > 0 /\ \A v \in Inserted : v.graph # None
  BY Memberships, VersionFields DEF TypeInv, EngineTypes, None
<1>5. /\ \A n \in Names : groups'[n].context < nextGraph'
      /\ \A n, m \in Names : groups'[n].context = groups'[m].context /\ groups'[n].context # None => n = m
      /\ \A v \in Inserted' : v.group = Own \/ v.context = None =>
           \A n \in Names : groups'[n].context # v.graph
  BY <1>2, <1>4 DEF ContextInv, None
<1>6. ASSUME NEW v \in Prepared', v.group # Own PROVE v.context = groups'[v.group].context
  <2>1. v.group \in Names
    BY <1>1, <1>6, VersionFields
  <2> QED
    BY <1>1, <1>6, <2>1 DEF ContextInv
<1> QED
  BY <1>1, <1>3, <1>5, <1>6 DEF ContextInv

\* A group counts a script when some counted version is in it.
LEMMA CountsAre ==
  ASSUME CountInv, NEW n
  PROVE  /\ CountOf(n) \in Nat /\ IsFiniteSet({v \in Counted : v.group = n})
         /\ CountOf(n) = 0 <=> \A v \in Counted : v.group # n
<1>1. {v \in Counted : v.group = n} \in SUBSET Counted
  OBVIOUS
<1>2. IsFiniteSet({v \in Counted : v.group = n})
  BY <1>1, FS_Subset DEF CountInv
<1>3. CountOf(n) = 0 <=> {v \in Counted : v.group = n} = {}
  BY <1>2, FS_EmptySet DEF CountOf
<1> QED
  BY <1>2, <1>3, FS_CardinalityType DEF CountOf

LEMMA AbandonKeeps ==
  ASSUME IInv, SaveFails \/ PrepareFails \/ EvaluateFails
  PROVE  IInv'
<1> USE DEF IInv
<1>1. /\ pc \in Loading /\ pc' = "idle" /\ mounting' = NoVersion /\ created' = FALSE
      /\ hostImport' = NotFound /\ Remove(mounting)
      /\ UNCHANGED <<scripts, nextGraph, retiring, disposed, lost>>
  BY DEF SaveFails, PrepareFails, EvaluateFails, Abandon, Loading
<1>2. /\ mounting \in Version /\ mounting # NoVersion /\ mounting \in Inserted /\ mounting \notin Counted
      /\ mounting.group \in Names \cup {Own} /\ retiring = NoVersion
  BY <1>1, Memberships, VersionFields DEF PhaseInv, VersionInv, Loading
<1>3. \/ mounting.context = None /\ created = FALSE /\ envs' = envs /\ groups' = groups
      \/ /\ pc \in Entering /\ envs' = envs \ {mounting.graph} /\ created = FALSE /\ groups' = groups
      \/ /\ pc \in Entering /\ envs' = envs \ {mounting.graph}
         /\ created = TRUE /\ mounting.group \in Names
         /\ groups' = [groups EXCEPT ![mounting.group] = NoGroup]
         /\ groups[mounting.group].scripts = 0
  <2>1. CASE SaveFails \/ PrepareFails
    BY <2>1 DEF SaveFails, PrepareFails, PhaseInv, Loading, Entering, TypeInv, OperationTypes
  <2>2. CASE EvaluateFails
    <3>1. pc \in Entering /\ envs' = envs \ {mounting.graph} /\ groups' = UndoneGroup
      BY <2>2 DEF EvaluateFails, Entering
    <3>2. CASE created = TRUE
      BY <1>2, <3>1, <3>2 DEF UndoneGroup, PhaseInv
    <3>3. CASE created = FALSE
      BY <3>1, <3>3 DEF UndoneGroup
    <3> QED
      BY <3>2, <3>3 DEF TypeInv, OperationTypes
  <2> QED BY <2>1, <2>2
<1>4. /\ Loaded' = Loaded /\ Counted' = Counted
      /\ \A v : v \in Inserted' <=> v \in Inserted /\ v # mounting
      /\ \A v : v \in Inserted <=> v \in Counted \/ v = mounting
      /\ \A v : v \in Prepared' <=> v \in Counted
      /\ \A v : v \in Prepared <=> v \in Counted \/ (v = mounting /\ v.context # None)
  <2>1. Loaded' = Loaded
    BY <1>1 DEF Loaded
  <2>2. Counted' = Counted
    BY <1>1, <2>1 DEF Counted
  <2>3. /\ \A v : v \in Inserted <=> v \in Counted \/ v = mounting
        /\ \A v : v \in Inserted' <=> v \in Counted
    BY <1>1, <1>2, <2>2 DEF Inserted
  <2>4. /\ \A v : v \in Prepared' <=> v \in Counted
        /\ \A v : v \in Prepared <=> v \in Counted \/ (v = mounting /\ v.context # None)
    BY <2>3 DEF Prepared, VersionInv
  <2> QED
    BY <1>2, <2>1, <2>2, <2>3, <2>4
<1>5. StoreTypes' /\ StoreInv' /\ NothingElseInv'
  BY <1>1, <1>2, <1>3, <1>4, StoreAfterRemoval
<1>6. groups' \in [Names -> [context : Graphs, scripts : Nat]]
      /\ \A n \in Names : \/ groups'[n] = groups[n]
                          \/ /\ created = TRUE /\ n = mounting.group /\ groups'[n] = NoGroup
                             /\ groups[n].scripts = 0
  <2>1. NoGroup \in [context : Graphs, scripts : Nat]
    BY MaxLoadsAssumption DEF NoGroup, Graphs, None
  <2>2. groups \in [Names -> [context : Graphs, scripts : Nat]]
    BY DEF TypeInv, EngineTypes
  <2>3. CASE groups' = groups
    BY <2>2, <2>3
  <2>4. CASE /\ created = TRUE /\ mounting.group \in Names
             /\ groups' = [groups EXCEPT ![mounting.group] = NoGroup]
             /\ groups[mounting.group].scripts = 0
    BY <2>1, <2>2, <2>4
  <2> QED
    BY <1>3, <2>3, <2>4
<1>7. TypeInv'
  BY <1>1, <1>2, <1>5, <1>6 DEF TypeInv, EngineTypes, OperationTypes, Phases
<1>8. PhaseInv'
  BY <1>1, <1>2 DEF PhaseInv, Loading, Entering
<1>9. VersionInv'
  <2>1. NoVersion \notin Counted
    BY Memberships, VersionFields
  <2> QED
    BY <1>1, <1>4, <2>1 DEF VersionInv
<1>10. HandoverInv'
  BY <1>1 DEF HandoverInv, Loading, NoVersion, None
<1>11. ASSUME NEW n \in Names, groups[n].scripts = 0
       PROVE  CountOf(n) = 0 /\ \A v \in Counted : v.group # n
  <2>1. 0 >= CountOf(n)
    BY <1>11 DEF CountInv
  <2>2. CountOf(n) \in Nat /\ (CountOf(n) = 0 <=> \A v \in Counted : v.group # n)
    BY CountsAre
  <2> QED
    BY <2>1, <2>2
<1>12. ContextInv'
  <2>1. Inserted' \subseteq Inserted
    BY <1>4
  <2>2. \A n \in Names : \/ /\ groups'[n].context = groups[n].context
                            /\ groups'[n].context = None => groups'[n].scripts = 0
                         \/ groups'[n] = NoGroup /\ \A v \in Prepared' : v.group # n
    BY <1>4, <1>6, <1>11 DEF ContextInv
  <2> QED
    BY <1>1, <2>1, <2>2, ContextsKept
<1>13. CountInv'
  <2>1. \A n : CountOf(n)' = CountOf(n)
    BY <1>4 DEF CountOf
  <2>2. \A n \in Names : /\ groups'[n].scripts >= CountOf(n)
                         /\ lost = {} => groups'[n].scripts = CountOf(n)
    BY <1>6, <1>11 DEF CountInv, NoGroup
  <2>3. ASSUME lost = {}, NEW n \in Names, groups'[n].context # None
        PROVE  \E v \in Prepared' : v.group = n
    <3>1. groups'[n] = groups[n] /\ ~(created = TRUE /\ n = mounting.group)
      BY <1>3, <1>6, <2>3 DEF NoGroup, TypeInv, EngineTypes
    <3>2. PICK v \in Prepared : v.group = n
      BY <2>3, <3>1 DEF CountInv
    <3>3. CASE v = mounting
      <4>1. pc \in Entering /\ mounting.group = n /\ n # Own /\ ~created
        BY <1>2, <1>3, <1>4, <3>1, <3>2, <3>3, NamesAssumption
      <4>2. CountOf(n) # 0
        BY <2>3, <4>1 DEF CountInv
      <4> QED
        BY <1>4, <4>2, CountsAre
    <3> QED
      BY <1>4, <3>2, <3>3
  <2> QED
    BY <1>1, <1>4, <2>1, <2>2, <2>3 DEF CountInv, Entering
<1> QED
  BY <1>5, <1>7, <1>8, <1>9, <1>10, <1>12, <1>13

LEMMA RetireKeeps ==
  ASSUME IInv, Retire
  PROVE  IInv'
<1> USE DEF IInv
<1>1. /\ pc = "disposing" /\ pc' = "idle" /\ retiring' = NoVersion /\ Remove(retiring)
      /\ disposed' = Append(disposed, retiring.graph) /\ envs' = envs \ {retiring.graph}
      /\ UNCHANGED <<scripts, nextGraph, hostImport, mounting, created, lost>>
  BY DEF Retire
<1>2. /\ retiring \in Version /\ retiring # NoVersion /\ retiring \notin Loaded /\ retiring \in Counted
      /\ retiring.group \in Names \cup {Own} /\ mounting = NoVersion /\ created = FALSE
  BY <1>1, Memberships, VersionFields DEF PhaseInv, VersionInv, Loading, Entering, TypeInv, OperationTypes
<1>3. /\ Loaded' = Loaded
      /\ \A v : v \in Counted <=> v \in Loaded \/ v = retiring
      /\ \A v : v \in Counted' <=> v \in Counted /\ v # retiring
      /\ \A v : v \in Inserted <=> v \in Counted
      /\ \A v : v \in Inserted' <=> v \in Inserted /\ v # retiring
      /\ \A v : v \in Prepared <=> v \in Counted
      /\ \A v : v \in Prepared' <=> v \in Counted /\ v # retiring
  <2>1. Loaded' = Loaded
    BY <1>1 DEF Loaded
  <2>2. /\ \A v : v \in Counted <=> v \in Loaded \/ v = retiring
        /\ \A v : v \in Counted' <=> v \in Counted /\ v # retiring
    BY <1>1, <1>2, <2>1 DEF Counted
  <2>3. /\ \A v : v \in Inserted <=> v \in Counted
        /\ \A v : v \in Inserted' <=> v \in Inserted /\ v # retiring
    BY <1>1, <1>2, <2>2 DEF Inserted
  <2>4. /\ \A v : v \in Prepared <=> v \in Counted
        /\ \A v : v \in Prepared' <=> v \in Counted /\ v # retiring
    BY <2>3 DEF Prepared, VersionInv
  <2> QED
    BY <2>1, <2>2, <2>3, <2>4
<1>4. StoreTypes' /\ StoreInv' /\ NothingElseInv'
  <2>1. retiring \in Inserted
    BY <1>2, <1>3
  <2> QED
    BY <1>1, <1>3, <2>1, StoreAfterRemoval
<1>5. \A n \in Names : n # retiring.group => CountOf(n)' = CountOf(n)
  <2>1. ASSUME NEW n \in Names, n # retiring.group
        PROVE  {v \in Counted' : v.group = n} = {v \in Counted : v.group = n}
    BY <1>3, <2>1
  <2> QED BY <2>1 DEF CountOf
<1>6. \A n \in Names : n = retiring.group => CountOf(n)' = CountOf(n) - 1 /\ CountOf(n) >= 1
  <2>1. ASSUME NEW n \in Names, n = retiring.group
        PROVE  CountOf(n)' = CountOf(n) - 1 /\ CountOf(n) >= 1
    <3> DEFINE S == {v \in Counted : v.group = n}
    <3>1. {v \in Counted' : v.group = n} = S \ {retiring} /\ retiring \in S
      BY <1>2, <1>3, <2>1
    <3>2. IsFiniteSet(S) /\ Cardinality(S) \in Nat
      BY CountsAre, FS_CardinalityType
    <3>3. Cardinality(S \ {retiring}) = Cardinality(S) - 1
      BY <3>1, <3>2, FS_RemoveElement
    <3>4. Cardinality(S) # 0
      BY <3>1, <3>2, FS_EmptySet
    <3>5. CountOf(n) = Cardinality(S) /\ CountOf(n)' = Cardinality(S \ {retiring})
      BY <3>1 DEF CountOf
    <3> HIDE DEF S
    <3> QED
      BY <3>1, <3>2, <3>3, <3>4, <3>5
  <2> QED BY <2>1
<1>7. /\ groups' \in [Names -> [context : Graphs, scripts : Nat]]
      /\ \A n \in Names :
           \/ groups'[n] = groups[n] /\ n # retiring.group
           \/ /\ n = retiring.group /\ groups[n].scripts = 1 /\ groups'[n] = NoGroup
           \/ /\ n = retiring.group /\ groups[n].scripts \in Nat \ {0, 1}
              /\ groups'[n].scripts = groups[n].scripts - 1
              /\ groups'[n].context = groups[n].context
  <2>1. groups \in [Names -> [context : Graphs, scripts : Nat]]
    BY DEF TypeInv, EngineTypes
  <2>2. CASE retiring.group = Own
    BY <1>2, <2>1, <2>2, NamesAssumption DEF Retire
  <2>3. CASE retiring.group # Own
    <3> DEFINE n == retiring.group
    <3>1. n \in Names /\ groups' = [groups EXCEPT ![n] = Released(groups[n])]
      BY <1>2, <2>3 DEF Retire
    <3>2. groups[n].scripts \in Nat \ {0}
      <4>1. groups[n].scripts >= CountOf(n) /\ CountOf(n) >= 1 /\ CountOf(n) \in Nat
        BY <1>6, <3>1, CountsAre DEF CountInv
      <4> QED
        BY <2>1, <3>1, <4>1
    <3>3. CASE groups[n].scripts = 1
      <4>1. Released(groups[n]) = NoGroup /\ NoGroup \in [context : Graphs, scripts : Nat]
        BY <3>3, MaxLoadsAssumption DEF Released, NoGroup, Graphs, None
      <4> QED
        BY <2>1, <3>1, <3>3, <4>1
    <3>4. CASE groups[n].scripts # 1
      <4>1. /\ Released(groups[n]) \in [context : Graphs, scripts : Nat]
            /\ Released(groups[n]).scripts = groups[n].scripts - 1
            /\ Released(groups[n]).context = groups[n].context
        BY <2>1, <3>1, <3>2, <3>4 DEF Released
      <4> QED
        BY <2>1, <3>1, <3>2, <3>4, <4>1
    <3> QED BY <3>3, <3>4
  <2> QED BY <2>2, <2>3
<1>8. retiring.graph \in Graphs /\ retiring.graph \in 1 .. nextGraph - 1
  BY <1>2, <1>3, VersionFields, MaxLoadsAssumption DEF VersionInv, TypeInv, EngineTypes, Graphs, None
<1>9. TypeInv'
  BY <1>1, <1>2, <1>4, <1>7, <1>8 DEF TypeInv, EngineTypes, OperationTypes, Phases
<1>10. PhaseInv'
  BY <1>1, <1>2 DEF PhaseInv, Loading, Entering
<1>11. VersionInv'
  <2>1. NoVersion \notin Loaded /\ NoVersion \notin Counted
    BY Memberships, VersionFields
  <2>2. /\ \A v, w \in Inserted' : v.graph = w.graph => v = w
        /\ \A v \in Inserted' : v.graph < nextGraph'
        /\ \A v \in Counted' : v.context # None
    BY <1>1, <1>3 DEF VersionInv
  <2> QED
    BY <1>1, <1>2, <1>3, <2>1, <2>2 DEF VersionInv
<1>12. HandoverInv'
  <2>1. \A i \in DOMAIN disposed' : disposed'[i] \in 1 .. nextGraph - 1
    BY <1>1, <1>8 DEF HandoverInv, TypeInv, EngineTypes
  <2> QED
    BY <1>1, <1>2, <2>1 DEF HandoverInv, Loading, NoVersion, None
<1>13. ASSUME NEW n \in Names, n = retiring.group, groups[n].scripts = 1
       PROVE  CountOf(n)' = 0 /\ \A v \in Counted' : v.group # n
  <2>1. CountOf(n) = 1
    <3>1. CountOf(n) >= 1 /\ 1 >= CountOf(n) /\ CountOf(n) \in Nat
      BY <1>6, <1>13, CountsAre DEF CountInv
    <3> QED BY <3>1
  <2>2. {v \in Counted : v.group = n} = {retiring}
    <3>1. Cardinality({v \in Counted : v.group = n}) = 1 /\ IsFiniteSet({v \in Counted : v.group = n})
      BY <2>1, CountsAre DEF CountOf
    <3>2. PICK x : {v \in Counted : v.group = n} = {x}
      BY <3>1, FS_Singleton
    <3> QED
      BY <1>2, <1>13, <3>2
  <2> QED
    BY <1>3, <1>6, <1>13, <2>1, <2>2
<1>14. ContextInv'
  <2>1. Inserted' \subseteq Inserted
    BY <1>3
  <2>2. \A n \in Names : \/ /\ groups'[n].context = groups[n].context
                            /\ groups'[n].context = None => groups'[n].scripts = 0
                         \/ groups'[n] = NoGroup /\ \A v \in Prepared' : v.group # n
    BY <1>3, <1>7, <1>13 DEF ContextInv
  <2> QED
    BY <1>1, <2>1, <2>2, ContextsKept
<1>15. CountInv'
  <2>1. IsFiniteSet(Counted')
    <3>1. Counted' \in SUBSET Counted
      BY <1>3
    <3> QED BY <3>1, FS_Subset DEF CountInv
  <2>2. \A n \in Names : /\ groups'[n].scripts >= CountOf(n)'
                         /\ lost = {} => groups'[n].scripts = CountOf(n)'
    <3> TAKE n \in Names
    <3>1. CountOf(n) \in Nat /\ groups[n].scripts \in Nat /\ groups[n].scripts >= CountOf(n)
          /\ (lost = {} => groups[n].scripts = CountOf(n))
      BY CountsAre DEF CountInv, TypeInv, EngineTypes
    <3>2. CASE n # retiring.group
      BY <1>5, <1>7, <3>1, <3>2
    <3>3. CASE n = retiring.group /\ groups[n].scripts = 1
      BY <1>7, <1>13, <3>3 DEF NoGroup
    <3>4. CASE n = retiring.group /\ groups[n].scripts # 1
      BY <1>6, <1>7, <3>1, <3>4
    <3> QED BY <3>2, <3>3, <3>4
  <2>3. ASSUME lost = {}, NEW n \in Names, groups'[n].context # None
        PROVE  \E v \in Prepared' : v.group = n
    <3>1. CASE n # retiring.group
      <4>1. groups'[n] = groups[n]
        BY <1>7, <3>1
      <4>2. PICK v \in Prepared : v.group = n
        BY <2>3, <4>1 DEF CountInv
      <4> QED
        BY <1>3, <3>1, <4>2
    <3>2. CASE n = retiring.group
      <4>1. groups[n].scripts \in Nat \ {0, 1} /\ groups[n].scripts = CountOf(n)
        BY <1>7, <2>3, <3>2 DEF CountInv, NoGroup
      <4>2. Cardinality({v \in Counted : v.group = n}) # 1 /\ retiring \in {v \in Counted : v.group = n}
        BY <1>2, <3>2, <4>1 DEF CountOf
      <4>3. {v \in Counted : v.group = n} # {retiring}
        BY <4>2, FS_Singleton
      <4>4. PICK v \in Counted : v.group = n /\ v # retiring
        BY <4>2, <4>3
      <4> QED
        BY <1>3, <4>4
    <3> QED BY <3>1, <3>2
  <2> QED
    BY <1>1, <2>1, <2>2, <2>3 DEF CountInv, Entering
<1> QED
  BY <1>4, <1>9, <1>10, <1>11, <1>12, <1>14, <1>15

LEMMA PanicKeeps ==
  ASSUME IInv, Panic
  PROVE  IInv'
<1> USE DEF IInv
<1>1. /\ pc \in {"saving", "evaluating", "disposing"} /\ pc' = "idle"
      /\ lost' = lost \cup {IF pc = "disposing" THEN retiring.graph ELSE mounting.graph}
      /\ disposed' = IF pc = "disposing" THEN Append(disposed, retiring.graph) ELSE disposed
      /\ hostImport' = NotFound /\ mounting' = NoVersion /\ created' = FALSE /\ retiring' = NoVersion
      /\ UNCHANGED <<scripts, groups, nextGraph, envs, sources, resolutions, grouped>>
  BY DEF Panic
<1>2. /\ pc # "disposing" => mounting \in Version /\ mounting \in Inserted
      /\ pc = "disposing" => retiring \in Version /\ retiring \in Inserted
  BY <1>1, Memberships DEF PhaseInv, Loading, TypeInv, OperationTypes
<1>3. \A v \in Inserted : v.graph \in Graphs /\ v.graph \in 1 .. nextGraph - 1
  BY Memberships, VersionFields, MaxLoadsAssumption DEF VersionInv, TypeInv, EngineTypes, Graphs, None
<1>4. /\ Loaded' = Loaded /\ Counted' = Loaded /\ Inserted' = Loaded
      /\ Loaded \subseteq Counted /\ Counted \subseteq Inserted
      /\ Prepared' \subseteq Prepared /\ \A v : v \in Prepared' <=> v \in Loaded
  <2>1. Loaded' = Loaded
    BY <1>1 DEF Loaded
  <2>2. Counted' = Loaded /\ Loaded \subseteq Counted
    BY <1>1, <2>1 DEF Counted
  <2>3. Inserted' = Loaded /\ Counted \subseteq Inserted
    BY <1>1, <2>2 DEF Inserted
  <2> QED
    BY <2>1, <2>2, <2>3 DEF Prepared, VersionInv
<1>5. lost' # {}
  BY <1>1
<1>6. TypeInv'
  <2>1. lost' \subseteq Graphs /\ disposed' \in Seq(Graphs)
    BY <1>1, <1>2, <1>3 DEF TypeInv, EngineTypes
  <2> QED
    BY <1>1, <2>1 DEF TypeInv, EngineTypes, StoreTypes, OperationTypes, Phases
<1>7. PhaseInv'
  BY <1>1 DEF PhaseInv, Loading, Entering
<1>8. VersionInv'
  <2>1. NoVersion \notin Loaded
    BY Memberships, VersionFields
  <2> QED
    BY <1>1, <1>4, <2>1 DEF VersionInv
<1>9. HandoverInv'
  <2>1. \A i \in DOMAIN disposed' : disposed'[i] \in 1 .. nextGraph - 1
    BY <1>1, <1>2, <1>3 DEF HandoverInv, TypeInv, EngineTypes
  <2> QED
    BY <1>1, <2>1 DEF HandoverInv, Loading, NoVersion, None
<1>10. StoreInv' /\ NothingElseInv'
  BY <1>1, <1>4, <1>5 DEF StoreInv, NothingElseInv
<1>11. ContextInv'
  <2>1. Inserted' \subseteq Inserted
    BY <1>4
  <2>2. \A n \in Names : /\ groups'[n].context = groups[n].context
                         /\ groups'[n].context = None => groups'[n].scripts = 0
    BY <1>1 DEF ContextInv
  <2> QED
    BY <1>1, <2>1, <2>2, ContextsKept
<1>12. CountInv'
  <2>1. IsFiniteSet(Counted')
    <3>1. Counted' \in SUBSET Counted
      BY <1>4
    <3> QED BY <3>1, FS_Subset DEF CountInv
  <2>2. ASSUME NEW n \in Names PROVE groups'[n].scripts >= CountOf(n)'
    <3> DEFINE S == {v \in Counted : v.group = n}
               T == {v \in Counted' : v.group = n}
    <3>1. T \in SUBSET S
      BY <1>4
    <3>2. IsFiniteSet(S) /\ CountOf(n) = Cardinality(S) /\ CountOf(n)' = Cardinality(T)
      BY CountsAre DEF CountOf
    <3>3. Cardinality(T) <= Cardinality(S) /\ IsFiniteSet(T)
      BY <3>1, <3>2, FS_Subset
    <3>4. Cardinality(S) \in Nat /\ Cardinality(T) \in Nat
      BY <3>2, <3>3, FS_CardinalityType
    <3>5. groups[n].scripts \in Nat /\ groups[n].scripts >= CountOf(n)
      BY DEF CountInv, TypeInv, EngineTypes
    <3> QED
      BY <1>1, <3>2, <3>3, <3>4, <3>5
  <2> QED
    BY <1>5, <2>1, <2>2 DEF CountInv
<1> QED
  BY <1>6, <1>7, <1>8, <1>9, <1>10, <1>11, <1>12

-----------------------------------------------------------------------------
(* The places of the scripts: swaps and unloads.                           *)

\* A script is loaded at one place at most, which a reload takes.
LEMMA Places ==
  ASSUME IInv
  PROVE  /\ \A id, i, j : i \in At(id) /\ j \in At(id) => i = j
         /\ \A v : \A i \in At(v.id) : Swapped(v) = [scripts EXCEPT ![i] = v]
<1>1. \A id, i, j : i \in At(id) /\ j \in At(id) => i = j
  BY DEF IInv, VersionInv, At
<1>2. ASSUME NEW v, NEW i \in At(v.id)
      PROVE  Swapped(v) = [scripts EXCEPT ![i] = v]
  <2>1. At(v.id) = {i}
    BY <1>1, <1>2
  <2>2. Swapped(v) = [j \in DOMAIN scripts |-> IF j \in {i} THEN v ELSE scripts[j]]
    BY <2>1 DEF Swapped
  <2>3. DOMAIN scripts = 1 .. Len(scripts)
    BY Memberships DEF IInv
  <2> QED
    BY <2>2, <2>3 DEF IInv, TypeInv, EngineTypes
<1> QED
  BY <1>1, <1>2

\* A sequence without its i-th element.
Without(s, i) == SubSeq(s, 1, i - 1) \o SubSeq(s, i + 1, Len(s))

LEMMA WithoutIs ==
  ASSUME NEW S, NEW s \in Seq(S), NEW i \in 1 .. Len(s)
  PROVE  /\ Without(s, i) \in Seq(S)
         /\ Len(Without(s, i)) = Len(s) - 1
         /\ DOMAIN Without(s, i) = 1 .. Len(s) - 1
         /\ \A j \in 1 .. Len(s) - 1 : Without(s, i)[j] = IF j < i THEN s[j] ELSE s[j + 1]
<1>1. SubSeq(s, 1, i - 1) \in Seq(S) /\ SubSeq(s, i + 1, Len(s)) \in Seq(S)
  OBVIOUS
<1>2. /\ Len(SubSeq(s, 1, i - 1)) = i - 1 /\ Len(SubSeq(s, i + 1, Len(s))) = Len(s) - i
      /\ \A j \in 1 .. i - 1 : SubSeq(s, 1, i - 1)[j] = s[j]
      /\ \A j \in 1 .. Len(s) - i : SubSeq(s, i + 1, Len(s))[j] = s[i + j]
  OBVIOUS
<1> DEFINE before == SubSeq(s, 1, i - 1)
           after == SubSeq(s, i + 1, Len(s))
<1>3. /\ before \o after \in Seq(S) /\ Len(before \o after) = Len(before) + Len(after)
      /\ \A j \in 1 .. Len(before) + Len(after) :
           (before \o after)[j] = IF j <= Len(before) THEN before[j] ELSE after[j - Len(before)]
  BY <1>1, ConcatProperties
<1>4. Without(s, i) = before \o after /\ Len(s) \in Nat
  BY DEF Without
<1>5. Len(before) = i - 1 /\ Len(after) = Len(s) - i
  BY <1>2
<1>6. /\ \A j \in 1 .. i - 1 : before[j] = s[j]
      /\ \A j \in 1 .. Len(s) - i : after[j] = s[i + j]
  BY <1>2
<1> HIDE DEF before, after
<1>7. Len(before) + Len(after) = Len(s) - 1
  BY <1>4, <1>5
<1>8. /\ Without(s, i) \in Seq(S) /\ Len(Without(s, i)) = Len(s) - 1
      /\ \A j \in 1 .. Len(s) - 1 :
           Without(s, i)[j] = IF j <= Len(before) THEN before[j] ELSE after[j - Len(before)]
  BY <1>3, <1>4, <1>7
<1>9. ASSUME NEW j \in 1 .. Len(s) - 1
      PROVE  Without(s, i)[j] = IF j < i THEN s[j] ELSE s[j + 1]
  <2>1. CASE j < i
    <3>1. j \in 1 .. i - 1 /\ j <= Len(before)
      BY <1>4, <1>5, <2>1
    <3> QED
      BY <1>6, <1>8, <2>1, <3>1
  <2>2. CASE j >= i
    <3>1. /\ j - Len(before) \in 1 .. Len(s) - i /\ i + (j - Len(before)) = j + 1
          /\ ~(j <= Len(before)) /\ ~(j < i)
      BY <1>4, <1>5, <2>2
    <3>2. after[j - Len(before)] = s[j + 1]
      BY <1>6, <3>1
    <3> QED
      BY <1>8, <3>1, <3>2
  <2>3. j < i \/ j >= i
    BY <1>4
  <2> QED
    BY <2>1, <2>2, <2>3
<1> QED
  BY <1>8, <1>9

LEMMA SwapKeeps ==
  ASSUME IInv, Swap
  PROVE  IInv'
<1> USE DEF IInv
<1>1. /\ pc = "evaluating" /\ hostImport' = NotFound
      /\ groups' = IF mounting.group = Own THEN groups
                   ELSE [groups EXCEPT ![mounting.group].scripts = @ + 1]
      /\ scripts' = Swapped(mounting)
      /\ IF At(mounting.id) = {}
         THEN pc' = "idle" /\ UNCHANGED retiring
         ELSE pc' = "disposing" /\ \E i \in At(mounting.id) : retiring' = scripts[i]
      /\ mounting' = NoVersion /\ created' = FALSE
      /\ UNCHANGED <<nextGraph, envs, sources, resolutions, grouped, disposed, lost>>
  BY DEF Swap
<1>2. /\ mounting \in Version /\ mounting # NoVersion /\ mounting \in Inserted /\ mounting \notin Counted
      /\ mounting.context # None /\ mounting.group \in Names \cup {Own}
      /\ retiring = NoVersion /\ Counted = Loaded
  BY <1>1, Memberships, VersionFields
  DEF PhaseInv, Loading, Entering, VersionInv, TypeInv, OperationTypes, Counted
<1>3. /\ scripts' \in Seq(Version)
      /\ retiring' \in Version \/ retiring' = NoVersion
      /\ retiring' # NoVersion <=> pc' = "disposing"
      /\ pc' \in {"idle", "disposing"}
      /\ \A i, j \in DOMAIN scripts' : scripts'[i].id = scripts'[j].id => i = j
      /\ \A i, j \in DOMAIN scripts' : scripts'[i].graph = scripts'[j].graph => i = j
      /\ \A v : (v \in Loaded' \/ (v = retiring' /\ retiring' # NoVersion)) <=> v \in Counted \/ v = mounting
      /\ retiring' \notin Loaded'
  <2>1. /\ scripts \in Seq(Version) /\ DOMAIN scripts = 1 .. Len(scripts) /\ Len(scripts) \in Nat
        /\ \A i \in DOMAIN scripts : scripts[i] \in Version /\ scripts[i] \in Loaded
        /\ \A i \in DOMAIN scripts : scripts[i].graph # mounting.graph /\ scripts[i] # NoVersion
        /\ \A v \in Loaded : \E i \in DOMAIN scripts : v = scripts[i]
    BY <1>2, Memberships, VersionFields DEF VersionInv, TypeInv, EngineTypes
  <2>2. CASE At(mounting.id) = {}
    <3>1. /\ scripts' = Append(scripts, mounting) /\ pc' = "idle" /\ retiring' = NoVersion
          /\ \A i \in DOMAIN scripts : scripts[i].id # mounting.id
      BY <1>1, <1>2, <2>2 DEF Swapped, At
    <3>2. /\ scripts' \in Seq(Version) /\ DOMAIN scripts' = 1 .. Len(scripts) + 1
          /\ \A i \in 1 .. Len(scripts) : scripts'[i] = scripts[i]
          /\ scripts'[Len(scripts) + 1] = mounting
      BY <1>2, <2>1, <3>1
    <3>3. \A v : v \in Loaded' <=> v \in Loaded \/ v = mounting
      <4>1. \A v : v \in Loaded' <=> \E i \in DOMAIN scripts' : v = scripts'[i]
        BY DEF Loaded
      <4> QED
        BY <2>1, <3>2, <4>1
    <3>4. /\ \A i, j \in DOMAIN scripts' : scripts'[i].id = scripts'[j].id => i = j
          /\ \A i, j \in DOMAIN scripts' : scripts'[i].graph = scripts'[j].graph => i = j
      BY <2>1, <3>1, <3>2 DEF VersionInv
    <3>5. NoVersion \notin Loaded'
      BY <1>2, <2>1, <3>3
    <3> QED
      BY <1>2, <3>1, <3>2, <3>3, <3>4, <3>5
  <2>3. CASE At(mounting.id) # {}
    <3>1. PICK i \in At(mounting.id) : retiring' = scripts[i]
      BY <1>1, <2>3
    <3>2. /\ scripts' = [scripts EXCEPT ![i] = mounting] /\ pc' = "disposing"
          /\ i \in DOMAIN scripts /\ scripts[i].id = mounting.id
      BY <1>1, <2>3, Places DEF At
    <3>3. /\ scripts' \in Seq(Version) /\ DOMAIN scripts' = DOMAIN scripts
          /\ \A j \in DOMAIN scripts : j # i => scripts'[j] = scripts[j]
          /\ scripts'[i] = mounting
      BY <1>2, <2>1, <3>2
    <3>4. \A j \in DOMAIN scripts : j # i => /\ scripts[j].id # mounting.id
                                             /\ scripts[j] # scripts[i]
      BY <3>2 DEF VersionInv
    <3>5. \A v : v \in Loaded' <=> (v \in Loaded /\ v # scripts[i]) \/ v = mounting
      <4>1. \A v : v \in Loaded' <=> \E j \in DOMAIN scripts' : v = scripts'[j]
        BY DEF Loaded
      <4> QED
        BY <2>1, <3>2, <3>3, <3>4, <4>1
    <3>6. /\ \A j, k \in DOMAIN scripts' : scripts'[j].id = scripts'[k].id => j = k
          /\ \A j, k \in DOMAIN scripts' : scripts'[j].graph = scripts'[k].graph => j = k
      BY <2>1, <3>2, <3>3, <3>4 DEF VersionInv
    <3> QED
      BY <1>2, <2>1, <3>1, <3>2, <3>3, <3>5, <3>6
  <2> QED BY <2>2, <2>3
<1>4. /\ \A v : v \in Counted' <=> v \in Counted \/ v = mounting
      /\ \A v : v \in Inserted' <=> v \in Inserted
      /\ \A v : v \in Inserted <=> v \in Counted \/ v = mounting
      /\ \A v : v \in Prepared' <=> v \in Prepared
      /\ \A v : v \in Prepared <=> v \in Counted \/ v = mounting
  <2>1. \A v : v \in Counted' <=> v \in Counted \/ v = mounting
    BY <1>3 DEF Counted
  <2>2. \A v : v \in Inserted <=> v \in Counted \/ v = mounting
    BY <1>2 DEF Inserted
  <2>3. \A v : v \in Inserted' <=> v \in Inserted
    BY <1>1, <2>1, <2>2 DEF Inserted
  <2> QED
    BY <1>2, <2>1, <2>2, <2>3 DEF Prepared, VersionInv
<1>5. /\ groups' \in [Names -> [context : Graphs, scripts : Nat]]
      /\ \A n \in Names : /\ groups'[n].context = groups[n].context
                          /\ groups'[n].scripts = IF n = mounting.group THEN groups[n].scripts + 1
                                                  ELSE groups[n].scripts
  <2>1. groups \in [Names -> [context : Graphs, scripts : Nat]]
    BY DEF TypeInv, EngineTypes
  <2>2. CASE mounting.group = Own
    BY <1>1, <2>1, <2>2, NamesAssumption
  <2>3. CASE mounting.group # Own
    BY <1>1, <1>2, <2>1, <2>3
  <2> QED BY <2>2, <2>3
<1>6. TypeInv'
  BY <1>1, <1>3, <1>5 DEF TypeInv, EngineTypes, StoreTypes, OperationTypes, Phases
<1>7. PhaseInv'
  BY <1>1, <1>3 DEF PhaseInv, Loading, Entering
<1>8. VersionInv'
  <2>1. NoVersion \notin Counted
    BY Memberships, VersionFields
  <2> QED
    BY <1>1, <1>2, <1>3, <1>4, <2>1 DEF VersionInv
<1>9. HandoverInv'
  BY <1>1, <1>3 DEF HandoverInv, Loading, NoVersion, None
<1>10. StoreInv' /\ NothingElseInv'
  BY <1>1, <1>4 DEF StoreInv, NothingElseInv
<1>11. ContextInv'
  <2>1. Inserted' \subseteq Inserted
    BY <1>4
  <2>2. ASSUME NEW n \in Names, groups[n].context = None PROVE n # mounting.group
    BY <1>2, <1>4, <2>2, NamesAssumption DEF ContextInv
  <2>3. \A n \in Names : /\ groups'[n].context = groups[n].context
                         /\ groups'[n].context = None => groups'[n].scripts = 0
    BY <1>5, <2>2 DEF ContextInv
  <2> QED
    BY <1>1, <2>1, <2>3, ContextsKept
<1>12. CountInv'
  <2>1. IsFiniteSet(Counted') /\ Counted' = Counted \cup {mounting}
    <3>1. Counted' = Counted \cup {mounting}
      BY <1>4
    <3> QED BY <3>1, FS_AddElement DEF CountInv
  <2>2. \A n \in Names : n # mounting.group => CountOf(n)' = CountOf(n)
    <3>1. ASSUME NEW n \in Names, n # mounting.group
          PROVE  {v \in Counted' : v.group = n} = {v \in Counted : v.group = n}
      BY <1>4, <3>1
    <3> QED BY <3>1 DEF CountOf
  <2>3. \A n \in Names : n = mounting.group => CountOf(n)' = CountOf(n) + 1
    <3>1. ASSUME NEW n \in Names, n = mounting.group
          PROVE  CountOf(n)' = CountOf(n) + 1
      <4> DEFINE S == {v \in Counted : v.group = n}
      <4>1. {v \in Counted' : v.group = n} = S \cup {mounting} /\ mounting \notin S
        BY <1>2, <1>4, <3>1
      <4>2. IsFiniteSet(S)
        BY CountsAre
      <4>3. CountOf(n) = Cardinality(S) /\ CountOf(n)' = Cardinality(S \cup {mounting})
        BY <4>1 DEF CountOf
      <4> HIDE DEF S
      <4> QED
        BY <4>1, <4>2, <4>3, FS_AddElement
    <3> QED BY <3>1
  <2>4. \A n \in Names : /\ CountOf(n) \in Nat /\ groups[n].scripts \in Nat
                         /\ groups[n].scripts >= CountOf(n)
                         /\ lost = {} => groups[n].scripts = CountOf(n)
    BY CountsAre DEF CountInv, TypeInv, EngineTypes
  <2>5. \A n \in Names : /\ groups'[n].scripts >= CountOf(n)'
                         /\ lost = {} => groups'[n].scripts = CountOf(n)'
    <3> TAKE n \in Names
    <3>1. CASE n = mounting.group
      BY <1>5, <2>3, <2>4, <3>1
    <3>2. CASE n # mounting.group
      BY <1>5, <2>2, <2>4, <3>2
    <3> QED BY <3>1, <3>2
  <2>6. lost = {} => \A n \in Names : groups'[n].context # None => \E v \in Prepared' : v.group = n
    BY <1>4, <1>5 DEF CountInv
  <2>7. pc' \notin Entering
    BY <1>3 DEF Entering
  <2> QED
    BY <1>1, <2>1, <2>5, <2>6, <2>7 DEF CountInv
<1> QED
  BY <1>6, <1>7, <1>8, <1>9, <1>10, <1>11, <1>12

LEMMA UnloadKeeps ==
  ASSUME IInv, NEW id \in Ids, Unload(id)
  PROVE  IInv'
<1> USE DEF IInv
<1>1. PICK i \in At(id) : retiring' = scripts[i] /\ scripts' = Without(scripts, i)
  BY DEF Unload, Without
<1>2. /\ pc = "idle" /\ pc' = "disposing"
      /\ UNCHANGED <<groups, nextGraph, envs, sources, resolutions, grouped, hostImport, mounting,
                     created, disposed, lost>>
  BY DEF Unload, storeVars
<1>3. /\ scripts \in Seq(Version) /\ DOMAIN scripts = 1 .. Len(scripts) /\ Len(scripts) \in Nat
      /\ \A j \in DOMAIN scripts : scripts[j] \in Version /\ scripts[j] \in Loaded
      /\ \A v \in Loaded : \E j \in DOMAIN scripts : v = scripts[j]
      /\ i \in 1 .. Len(scripts) /\ scripts[i] # NoVersion
      /\ mounting = NoVersion /\ retiring = NoVersion /\ created = FALSE
  BY <1>2, Memberships, VersionFields DEF At, PhaseInv, Loading, Entering, TypeInv, EngineTypes
<1>4. /\ scripts' \in Seq(Version) /\ DOMAIN scripts' = 1 .. Len(scripts) - 1
      /\ \A j \in 1 .. Len(scripts) - 1 : scripts'[j] = IF j < i THEN scripts[j] ELSE scripts[j + 1]
  BY <1>1, <1>3, WithoutIs
<1>5. \A v : v \in Loaded' <=> v \in Loaded /\ v # scripts[i]
  <2>1. \A v : v \in Loaded' <=> \E j \in DOMAIN scripts' : v = scripts'[j]
    BY DEF Loaded
  <2>2. \A j \in DOMAIN scripts : j # i => scripts[j] # scripts[i]
    BY <1>3 DEF VersionInv
  <2>3. ASSUME NEW j \in DOMAIN scripts' PROVE scripts'[j] \in Loaded /\ scripts'[j] # scripts[i]
    <3>1. CASE j < i
      BY <1>3, <1>4, <2>2, <3>1
    <3>2. CASE j >= i
      <4>1. j + 1 \in DOMAIN scripts /\ j + 1 # i /\ scripts'[j] = scripts[j + 1]
        BY <1>3, <1>4, <3>2
      <4> QED
        BY <1>3, <2>2, <4>1
    <3> QED
      BY <1>3, <1>4, <3>1, <3>2
  <2>4. ASSUME NEW j \in DOMAIN scripts, j # i PROVE \E k \in DOMAIN scripts' : scripts[j] = scripts'[k]
    <3>1. CASE j < i
      <4>1. j \in DOMAIN scripts' /\ scripts'[j] = scripts[j]
        BY <1>3, <1>4, <3>1
      <4> QED BY <4>1
    <3>2. CASE j > i
      <4>1. j - 1 \in DOMAIN scripts' /\ scripts'[j - 1] = scripts[j]
        BY <1>3, <1>4, <3>2
      <4> QED BY <4>1
    <3> QED
      BY <1>3, <2>4, <3>1, <3>2
  <2> QED
    BY <1>3, <2>1, <2>2, <2>3, <2>4
<1>6. /\ \A v : v \in Counted' <=> v \in Counted
      /\ \A v : v \in Inserted' <=> v \in Inserted
      /\ \A v : v \in Prepared' <=> v \in Prepared
  <2>1. \A v : v \in Counted' <=> v \in Counted
    BY <1>1, <1>3, <1>5 DEF Counted
  <2>2. \A v : v \in Inserted' <=> v \in Inserted
    BY <1>2, <2>1 DEF Inserted
  <2> QED
    BY <2>1, <2>2 DEF Prepared
<1>7. TypeInv'
  BY <1>1, <1>2, <1>3, <1>4 DEF TypeInv, EngineTypes, StoreTypes, OperationTypes, Phases
<1>8. PhaseInv'
  BY <1>1, <1>2, <1>3 DEF PhaseInv, Loading, Entering
<1>9. VersionInv'
  <2>1. /\ \A j, k \in DOMAIN scripts' : scripts'[j].id = scripts'[k].id => j = k
        /\ \A j, k \in DOMAIN scripts' : scripts'[j].graph = scripts'[k].graph => j = k
    <3>1. ASSUME NEW j \in DOMAIN scripts', NEW k \in DOMAIN scripts', j # k
          PROVE  scripts'[j].id # scripts'[k].id /\ scripts'[j].graph # scripts'[k].graph
      <4>1. PICK x \in DOMAIN scripts : /\ x = IF j < i THEN j ELSE j + 1
                                        /\ scripts'[j] = scripts[x]
        BY <1>3, <1>4
      <4>2. PICK y \in DOMAIN scripts : /\ y = IF k < i THEN k ELSE k + 1
                                        /\ scripts'[k] = scripts[y]
        BY <1>3, <1>4
      <4>3. x # y
        BY <1>3, <1>4, <3>1, <4>1, <4>2
      <4> QED
        BY <4>1, <4>2, <4>3 DEF VersionInv
    <3> QED
      BY <3>1
  <2>2. retiring' \notin Loaded'
    BY <1>1, <1>5
  <2> QED
    BY <1>2, <1>6, <2>1, <2>2 DEF VersionInv
<1>10. HandoverInv'
  BY <1>2 DEF HandoverInv, Loading
<1>11. StoreInv' /\ NothingElseInv'
  BY <1>2, <1>6 DEF StoreInv, NothingElseInv
<1>12. ContextInv'
  <2>1. Inserted' \subseteq Inserted
    BY <1>6
  <2>2. \A n \in Names : /\ groups'[n].context = groups[n].context
                         /\ groups'[n].context = None => groups'[n].scripts = 0
    BY <1>2 DEF ContextInv
  <2> QED
    BY <1>2, <2>1, <2>2, ContextsKept
<1>13. CountInv'
  <2>1. Counted' = Counted
    BY <1>6
  <2>2. \A n : CountOf(n)' = CountOf(n)
    BY <2>1 DEF CountOf
  <2> QED
    BY <1>2, <1>6, <2>1, <2>2 DEF CountInv, Entering
<1> QED
  BY <1>7, <1>8, <1>9, <1>10, <1>11, <1>12, <1>13

-----------------------------------------------------------------------------
(* The theorems.                                                           *)

LEMMA NextKeeps == IInv /\ [Next]_vars => IInv'
<1> SUFFICES ASSUME IInv, [Next]_vars PROVE IInv'
  OBVIOUS
<1>1. ASSUME NEW id \in Ids, NEW group \in Names \cup {Own}, NEW modules \in Kinds,
             Load(id, group, modules)
      PROVE  IInv'
  BY <1>1, LoadKeeps
<1>2. ASSUME NEW id \in Ids, Unload(id) PROVE IInv'
  BY <1>2, UnloadKeeps
<1>3. CASE Save
  BY <1>3, SaveKeeps
<1>4. CASE SaveFails \/ PrepareFails \/ EvaluateFails
  BY <1>4, AbandonKeeps
<1>5. CASE Prepare
  BY <1>5, PrepareKeeps
<1>6. CASE ResolveEntry
  BY <1>6, ResolveEntryKeeps
<1>7. CASE Swap
  BY <1>7, SwapKeeps
<1>8. CASE Retire
  BY <1>8, RetireKeeps
<1>9. CASE Panic
  BY <1>9, PanicKeeps
<1>10. CASE UNCHANGED vars
  <2>1. /\ UNCHANGED <<scripts, groups, nextGraph, envs, sources, resolutions, grouped, hostImport>>
        /\ UNCHANGED <<pc, mounting, created, retiring, disposed, lost>>
    BY <1>10 DEF vars, storeVars
  <2>2. Loaded' = Loaded /\ Counted' = Counted /\ Inserted' = Inserted /\ Prepared' = Prepared
    BY <2>1 DEF Loaded, Counted, Inserted, Prepared
  <2>3. At(mounting.id)' = At(mounting.id)
    BY <2>1 DEF At
  <2>4. TypeInv' /\ PhaseInv'
    BY <2>1 DEF IInv, TypeInv, EngineTypes, StoreTypes, OperationTypes, PhaseInv
  <2>5. VersionInv' /\ HandoverInv'
    BY <2>1, <2>2, <2>3 DEF IInv, VersionInv, HandoverInv
  <2>6. StoreInv' /\ NothingElseInv' /\ ContextInv' /\ CountInv'
    BY <2>1, <2>2 DEF IInv, StoreInv, NothingElseInv, ContextInv, CountInv, CountOf
  <2> QED
    BY <2>4, <2>5, <2>6 DEF IInv
<1> QED
  BY <1>1, <1>2, <1>3, <1>4, <1>5, <1>6, <1>7, <1>8, <1>9, <1>10 DEF Next

\* IInv holds in every reachable state.
LEMMA IInvHolds == Spec => []IInv
<1> QED
  BY InitHolds, NextKeeps, PTL DEF Spec

\* The variables have their types, so in particular no group counts below zero: a
\* retirement finds its group counting at least the script that goes (Engine::retire).
THEOREM TypeCorrect == Spec => []TypeOK
<1>1. IInv => TypeOK
  BY DEF IInv, TypeInv, EngineTypes, StoreTypes, OperationTypes, TypeOK, Phases
<1> QED
  BY <1>1, IInvHolds, PTL

\* The module store and the environments hold what the versions need and, when no panic
\* unwound an operation, nothing else (ModuleStore::insert and remove, ScriptEnvs).
THEOREM StoreExactHolds == Spec => []StoreExact
<1> QED
  BY StoreIsExact, IInvHolds, PTL

\* Versions share a context just when they are of one group, and a group counts its
\* scripts and is gone after the last (mount, retire and undo_group of the engine).
THEOREM GroupsExactHolds == Spec => []GroupsExact
<1> QED
  BY GroupsAreExact, IInvHolds, PTL

\* A module is handed modules of its own graph and host modules only, and a loaded
\* version finds its own (the Resolver of the module store).
THEOREM ModulesOfItsOwnHolds == Spec => []ModulesOfItsOwn
<1> QED
  BY ModulesAreOwn, IInvHolds, PTL

-----------------------------------------------------------------------------
(* Lifecycle implements LoadedScripts.                                     *)

Handed == [id : Ids, graph : Graphs, data : Graphs]
HandedOf(v) == [id |-> v.id, graph |-> v.graph, data |-> v.data]

\* The scripts as LoadedScripts has them.
Bar(s) == [i \in DOMAIN s |-> [id |-> s[i].id, graph |-> s[i].graph, data |-> s[i].data]]

LEMMA BarIs ==
  ASSUME NEW s \in Seq(Version)
  PROVE  /\ Bar(s) \in Seq(Handed) /\ Len(Bar(s)) = Len(s) /\ DOMAIN Bar(s) = DOMAIN s
         /\ \A i \in DOMAIN s : Bar(s)[i] = HandedOf(s[i]) /\ Bar(s)[i].graph = s[i].graph
<1>1. Len(s) \in Nat /\ DOMAIN s = 1 .. Len(s) /\ \A i \in DOMAIN s : s[i] \in Version
  OBVIOUS
<1>2. /\ DOMAIN Bar(s) = 1 .. Len(s)
      /\ \A i \in DOMAIN s : Bar(s)[i] = HandedOf(s[i]) /\ HandedOf(s[i]) \in Handed
  BY <1>1, VersionFields, MaxLoadsAssumption DEF Bar, HandedOf, Handed, Version, Graphs, None
<1>3. Bar(s) \in [1 .. Len(s) -> Handed]
  BY <1>1, <1>2 DEF Bar
<1>4. \A i \in DOMAIN s : Bar(s)[i].graph = s[i].graph
  BY DEF Bar
<1> QED
  BY <1>1, <1>2, <1>3, <1>4

LEMMA BarAppended ==
  ASSUME NEW s \in Seq(Version), NEW v \in Version
  PROVE  Bar(Append(s, v)) = Append(Bar(s), HandedOf(v))
<1>1. /\ Append(s, v) \in Seq(Version) /\ Len(Append(s, v)) = Len(s) + 1 /\ Len(s) \in Nat
      /\ DOMAIN s = 1 .. Len(s) /\ DOMAIN Append(s, v) = 1 .. Len(s) + 1
      /\ \A i \in 1 .. Len(s) : Append(s, v)[i] = s[i]
      /\ Append(s, v)[Len(s) + 1] = v
  OBVIOUS
<1>2. HandedOf(v) \in Handed
  BY VersionFields, MaxLoadsAssumption DEF HandedOf, Handed, Version, Graphs, None
<1> DEFINE b == Bar(s)
           c == Bar(Append(s, v))
<1>3. /\ b \in Seq(Handed) /\ Len(b) = Len(s) /\ \A i \in 1 .. Len(s) : b[i] = HandedOf(s[i])
      /\ c \in Seq(Handed) /\ Len(c) = Len(s) + 1
      /\ \A i \in 1 .. Len(s) + 1 : c[i] = HandedOf(Append(s, v)[i])
  BY <1>1, BarIs
<1> HIDE DEF b, c
<1>4. /\ Append(b, HandedOf(v)) \in Seq(Handed) /\ Len(Append(b, HandedOf(v))) = Len(s) + 1
      /\ \A i \in 1 .. Len(s) : Append(b, HandedOf(v))[i] = b[i]
      /\ Append(b, HandedOf(v))[Len(s) + 1] = HandedOf(v)
  BY <1>2, <1>3
<1>5. \A i \in 1 .. Len(s) + 1 : c[i] = Append(b, HandedOf(v))[i]
  BY <1>1, <1>3, <1>4
<1>6. c = Append(b, HandedOf(v))
  BY <1>3, <1>4, <1>5, SeqEqual
<1> QED
  BY <1>6 DEF b, c

LEMMA BarReplaced ==
  ASSUME NEW s \in Seq(Version), NEW v \in Version, NEW i \in DOMAIN s
  PROVE  Bar([s EXCEPT ![i] = v]) = [Bar(s) EXCEPT ![i] = HandedOf(v)]
<1>1. DOMAIN [s EXCEPT ![i] = v] = DOMAIN s
      /\ \A j \in DOMAIN s : [s EXCEPT ![i] = v][j] = IF j = i THEN v ELSE s[j]
  OBVIOUS
<1> QED
  BY <1>1 DEF Bar, HandedOf

LEMMA BarWithout ==
  ASSUME NEW s \in Seq(Version), NEW i \in DOMAIN s
  PROVE  Bar(Without(s, i)) = Without(Bar(s), i)
<1>1. i \in 1 .. Len(s) /\ Len(s) \in Nat
  OBVIOUS
<1>2. /\ Bar(s) \in Seq(Handed) /\ Len(Bar(s)) = Len(s)
      /\ \A j \in 1 .. Len(s) : Bar(s)[j] = HandedOf(s[j])
  BY BarIs
<1>3. /\ Without(s, i) \in Seq(Version) /\ DOMAIN Without(s, i) = 1 .. Len(s) - 1
      /\ Len(Without(s, i)) = Len(s) - 1
      /\ \A j \in 1 .. Len(s) - 1 : Without(s, i)[j] = IF j < i THEN s[j] ELSE s[j + 1]
  BY <1>1, WithoutIs
<1>4. /\ Without(Bar(s), i) \in Seq(Handed) /\ Len(Without(Bar(s), i)) = Len(s) - 1
      /\ \A j \in 1 .. Len(s) - 1 :
           Without(Bar(s), i)[j] = IF j < i THEN Bar(s)[j] ELSE Bar(s)[j + 1]
  BY <1>1, <1>2, WithoutIs
<1>5. /\ Bar(Without(s, i)) \in Seq(Handed) /\ Len(Bar(Without(s, i))) = Len(s) - 1
      /\ \A j \in 1 .. Len(s) - 1 : Bar(Without(s, i))[j] = HandedOf(Without(s, i)[j])
  BY <1>3, BarIs
<1>6. ASSUME NEW j \in 1 .. Len(s) - 1
      PROVE  Bar(Without(s, i))[j] = Without(Bar(s), i)[j]
  <2>1. j \in 1 .. Len(s) /\ j + 1 \in 1 .. Len(s)
    BY <1>1
  <2> QED
    BY <1>2, <1>3, <1>4, <1>5, <2>1
<1> QED
  BY <1>4, <1>5, <1>6, SeqEqual

\* A version whose load is swapped in was not used before.
LEMMA SwapIsLoad ==
  ASSUME IInv, Swap
  PROVE  \E id \in Ids : Scripts!Load(id)
<1> USE DEF IInv
<1>1. /\ pc = "evaluating" /\ scripts' = Swapped(mounting) /\ disposed' = disposed
      /\ IF At(mounting.id) = {}
         THEN UNCHANGED retiring
         ELSE \E i \in At(mounting.id) : retiring' = scripts[i]
  BY DEF Swap
<1>2. /\ mounting \in Version /\ mounting \in Inserted /\ mounting \notin Counted
      /\ mounting.id \in Ids /\ mounting.graph \in 1 .. MaxLoads /\ retiring = NoVersion
      /\ retiring.graph = None
  BY <1>1, Memberships, VersionFields
  DEF PhaseInv, Loading, VersionInv, TypeInv, OperationTypes, NoVersion, None
<1>3. scripts \in Seq(Version) /\ \A i \in DOMAIN scripts : scripts[i] \in Counted
  BY Memberships DEF TypeInv, EngineTypes
<1>4. PICK id \in Ids, version \in 1 .. MaxLoads : id = mounting.id /\ version = mounting.graph
  BY <1>2
<1>5. version \in (1 .. MaxLoads) \ Scripts!Used
  <2>1. /\ DOMAIN Bar(scripts) = DOMAIN scripts
        /\ \A i \in DOMAIN scripts : Bar(scripts)[i].graph = scripts[i].graph
    BY <1>3, BarIs
  <2>2. ASSUME NEW i \in DOMAIN scripts PROVE scripts[i].graph # mounting.graph
    BY <1>2, <1>3, Memberships DEF VersionInv
  <2>3. \A i \in DOMAIN disposed : disposed[i] # mounting.graph
    BY DEF HandoverInv
  <2> QED
    BY <1>4, <2>1, <2>2, <2>3 DEF Scripts!Used, Bar
<1>6. Scripts!At(id) = At(mounting.id)
  BY <1>4 DEF Scripts!At, At
<1>7. Scripts!FirstLoad(id, version) \/ Scripts!Reload(id, version)
  <2>1. mounting.data # None => \E i \in At(mounting.id) : mounting.data = scripts[i].graph
    BY <1>1 DEF HandoverInv, Loading
  <2>2. CASE At(mounting.id) = {}
    <3>1. mounting.data = None /\ retiring' = NoVersion
      BY <1>1, <1>2, <2>1, <2>2
    <3>2. scripts' = Append(scripts, mounting)
      BY <1>1, <2>2 DEF Swapped
    <3>3. Bar(scripts') = Append(Bar(scripts), [id |-> id, graph |-> version, data |-> None])
      BY <1>2, <1>3, <1>4, <3>1, <3>2, BarAppended DEF HandedOf
    <3> QED
      BY <1>2, <1>6, <2>2, <3>1, <3>3 DEF Scripts!FirstLoad, Scripts!None, None, Bar
  <2>3. CASE At(mounting.id) # {}
    <3>1. PICK i \in At(mounting.id) : retiring' = scripts[i]
      BY <1>1, <2>3
    <3>2. scripts' = [scripts EXCEPT ![i] = mounting] /\ i \in DOMAIN scripts
      BY <1>1, <3>1, Places DEF At
    <3>3. mounting.data \in {None, scripts[i].graph}
      BY <2>1, <3>1, Places
    <3>4. Bar(scripts') = [Bar(scripts) EXCEPT ![i] = [id |-> id, graph |-> version, data |-> mounting.data]]
      BY <1>2, <1>3, <1>4, <3>2, BarReplaced DEF HandedOf
    <3>5. Bar(scripts)[i].graph = scripts[i].graph
      BY <1>3, <3>2, BarIs
    <3> QED
      BY <1>6, <3>1, <3>3, <3>4, <3>5 DEF Scripts!Reload, Scripts!None, None, Bar
  <2> QED BY <2>2, <2>3
<1>8. Scripts!Load(id)
  <2>1. retiring.graph = Scripts!None
    BY <1>2 DEF Scripts!None, None
  <2> QED
    BY <1>1, <1>5, <1>7, <2>1 DEF Scripts!Load
<1> QED
  BY <1>8

LEMMA StepIsScriptsStep == IInv /\ [Next]_vars => [Scripts!Next]_(Scripts!vars)
<1> SUFFICES ASSUME IInv, [Next]_vars PROVE [Scripts!Next]_(Scripts!vars)
  OBVIOUS
<1>1. CASE UNCHANGED <<scripts, retiring, disposed>>
  BY <1>1 DEF Scripts!vars
<1>2. CASE Swap
  BY <1>2, SwapIsLoad DEF Scripts!Next
<1>3. ASSUME NEW id \in Ids, Unload(id) PROVE Scripts!Next
  <2>1. PICK i \in At(id) : retiring' = scripts[i] /\ scripts' = Without(scripts, i)
    BY <1>3 DEF Unload, Without
  <2>2. /\ pc = "idle" /\ disposed' = disposed /\ i \in DOMAIN scripts /\ scripts \in Seq(Version)
        /\ retiring = NoVersion
    BY <1>3, <2>1 DEF Unload, At, IInv, PhaseInv, TypeInv, EngineTypes
  <2>3. Scripts!At(id) = At(id)
    BY DEF Scripts!At, At
  <2>4. Bar(scripts)[i].graph = scripts[i].graph /\ Len(Bar(scripts)) = Len(scripts)
    BY <2>2, BarIs
  <2>5. Bar(scripts') = SubSeq(Bar(scripts), 1, i - 1) \o SubSeq(Bar(scripts), i + 1, Len(Bar(scripts)))
    BY <2>1, <2>2, BarWithout DEF Without
  <2>6. retiring.graph = None
    BY <2>2 DEF NoVersion
  <2>7. Scripts!Unload(id)
    BY <2>1, <2>2, <2>3, <2>4, <2>5, <2>6 DEF Scripts!Unload, Scripts!None, None, Bar
  <2> QED
    BY <2>7 DEF Scripts!Next
<1>4. ASSUME Retire \/ (Panic /\ pc = "disposing") PROVE Scripts!Next
  <2>1. /\ pc = "disposing" /\ disposed' = Append(disposed, retiring.graph)
        /\ retiring' = NoVersion /\ scripts' = scripts
    BY <1>4 DEF Retire, Panic
  <2>2. retiring \in Version
    BY <2>1 DEF IInv, TypeInv, OperationTypes
  <2>3. retiring.graph # None /\ NoVersion.graph = None
    BY <2>2, VersionFields DEF NoVersion, None
  <2> QED
    BY <2>1, <2>3 DEF Scripts!Next, Scripts!Dispose, Scripts!None, None
<1>5. ASSUME Panic /\ pc # "disposing" PROVE UNCHANGED <<scripts, retiring, disposed>>
  BY <1>5 DEF Panic, IInv, PhaseInv
<1>6. ASSUME \/ \E id \in Ids, group \in Names \cup {Own}, modules \in Kinds : Load(id, group, modules)
             \/ Save \/ SaveFails \/ Prepare \/ PrepareFails \/ ResolveEntry \/ EvaluateFails
      PROVE  UNCHANGED <<scripts, retiring, disposed>>
  BY <1>6 DEF Load, Save, SaveFails, Prepare, PrepareFails, ResolveEntry, EvaluateFails, Abandon
<1>7. CASE UNCHANGED vars
  BY <1>1, <1>7 DEF vars
<1> QED
  BY <1>1, <1>2, <1>3, <1>4, <1>5, <1>6, <1>7 DEF Next

\* What the engine does with its contexts, graphs, groups and environments amounts to
\* the loads and unloads of LoadedScripts: a reload takes the place of its script, and
\* what that one saved; a failed load changes nothing; and a version that is replaced
\* or unloaded is disposed of before another takes a place (load_script, unload_script).
THEOREM ImplementsLoadedScripts == Spec => IsLoadedScripts
<1>1. Init => Scripts!Init
  <2> SUFFICES ASSUME Init PROVE Scripts!Init
    OBVIOUS
  <2>1. scripts = <<>> /\ disposed = <<>> /\ retiring.graph = 0
    BY DEF Init, NoVersion, None
  <2>2. Bar(scripts) = <<>>
    <3>1. <<>> \in Seq(Version)
      OBVIOUS
    <3>2. Bar(scripts) \in Seq(Handed) /\ Len(Bar(scripts)) = 0
      BY <2>1, <3>1, BarIs
    <3> QED
      BY <3>2
  <2> QED
    BY <2>1, <2>2 DEF Scripts!Init, Scripts!None, Bar
<1> QED
  BY <1>1, IInvHolds, StepIsScriptsStep, PTL DEF Spec, IsLoadedScripts, Scripts!Spec

=============================================================================
