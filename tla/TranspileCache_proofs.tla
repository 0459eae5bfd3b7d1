------------------------ MODULE TranspileCache_proofs ------------------------
(***************************************************************************)
(* That the memo and the disk cache only save work, for any engines,       *)
(* builds, modules and loads, and any kills, power losses and damage.      *)
(***************************************************************************)
EXTENDS TranspileCache, TLAPS

Accepts == Parses \cap Transforms
Loads == Projects \cup {<<<<InlineType, s>>>> : s \in Inline}

Script == [modules : Seq(Modules), js : Seq(Builds \X Modules)]
Job == [id : Ids, modules : Loads, inline : BOOLEAN]
Memos == UNION {[K -> Keys \cup {Nothing}] : K \in SUBSET Keys}
Artifact == [js : Keys \cup {Nothing, <<"damaged">>}, state : {"missing", "synced", "cut"}]

TypeOK == /\ build \in [Engines -> Builds \cup {None}]
          /\ scripts \in [Engines -> [Ids -> Script]]
          /\ memo \in [Engines -> Memos]
          /\ pc \in [Engines -> {"idle", "lookup", "store", "mount"}]
          /\ job \in [Engines -> Job \cup {NoJob}]
          /\ done \in [Engines -> Seq(Builds \X Modules)]
          /\ outcome \in [Engines -> {None, "loaded", "refused", "threw"}]
          /\ tried \in [Engines -> SUBSET Keys]
          /\ disk \in [Keys -> Artifact]

\* What the memo holds for a key is that module compiled by that build, which takes it.
MemoOK(mem) == \A k \in DOMAIN mem : mem[k] # Nothing => mem[k] = k /\ k \in Accepts

Transpiles(mem, k) == k \in DOMAIN mem /\ mem[k] # Nothing

\* A load in progress has its first modules transpiled, as an engine without cache would,
\* and remembers them.
JobOK(b, mem, p, j, d, tr) ==
  IF p = "idle" THEN j = NoJob /\ d = <<>>
  ELSE /\ b \in Builds
       /\ j \in Job
       /\ Len(d) <= Len(j.modules)
       /\ p \in {"lookup", "store"} => Len(d) < Len(j.modules)
       /\ p = "mount" => Len(d) = Len(j.modules)
       /\ \A i \in DOMAIN d : /\ d[i] = <<b, j.modules[i]>>
                              /\ d[i] \in Accepts
                              /\ Transpiles(mem, d[i])
       /\ p = "store" => <<b, j.modules[Len(d) + 1]>> \in Accepts
       /\ ~j.inline => \A i \in DOMAIN j.modules : <<b, j.modules[i]>> \in Parses
       /\ KeysOf(b, j.modules) \subseteq tr

\* The memo and the scripts of an engine, as MemoExact has it.
MemoFits(b, scr, mem, tr) ==
  /\ \A k \in UsedBy(b, scr) : Transpiles(mem, k)
  /\ DOMAIN mem \subseteq UsedBy(b, scr) \cup tr

StoppedOK(b, scr, mem, p) == b = None => scr = NoScripts /\ mem = NothingRemembered /\ p = "idle"

EngineOK(b, scr, mem, p, j, d, tr) == /\ MemoOK(mem)
                                      /\ JobOK(b, mem, p, j, d, tr)
                                      /\ MemoFits(b, scr, mem, tr)
                                      /\ StoppedOK(b, scr, mem, p)

EnginesOK == \A e \in Engines :
               EngineOK(build[e], scripts[e], memo[e], pc[e], job[e], done[e], tried[e])

\* An artifact that is taken is what its key says; one nobody damaged is taken or missing.
DiskOK == \A k \in Keys : /\ disk[k].state = "synced" => disk[k].js = k /\ k \in Accepts
                          /\ k \notin damaged => disk[k] = Missing \/ disk[k].state = "synced"

Inv == TypeOK /\ EnginesOK /\ DiskOK

-----------------------------------------------------------------------------
(* Loads and keys.                                                         *)

\* Any load is a sequence of at least one module.
LEMMA LoadsAreSequences == ASSUME NEW modules \in Loads
                           PROVE  modules \in Seq(Modules) /\ Len(modules) > 0
<1>1. CASE modules \in Projects
  BY <1>1, ProjectsAssumption
<1>2. CASE \E s \in Inline : modules = <<<<InlineType, s>>>>
  <2>1. PICK s \in Inline : modules = <<<<InlineType, s>>>>
    BY <1>2
  <2>2. <<InlineType, s>> \in Modules
    BY InlineAssumption DEF Modules
  <2> QED BY <2>1, <2>2
<1> QED BY <1>1, <1>2 DEF Loads

\* Nothing is no key.
LEMMA KeysAreSomething == Nothing \notin Keys /\ <<"damaged">> \notin Keys
BY DEF Keys, Key, Nothing

LEMMA KeyIn == ASSUME NEW b \in Builds, NEW m \in Modules PROVE Key(b, m) \in Keys
BY DEF Keys

LEMMA KeysOfIn == ASSUME NEW b \in Builds, NEW modules \in Seq(Modules)
                  PROVE  KeysOf(b, modules) \subseteq Keys
BY KeyIn DEF KeysOf

-----------------------------------------------------------------------------
(* The initial state.                                                      *)

LEMMA NothingUsed == ASSUME NEW b PROVE UsedBy(b, NoScripts) = {}
BY DEF UsedBy, NoScripts, Empty, KeysOf

LEMMA NoScriptsType == NoScripts \in [Ids -> Script]
<1>1. Empty \in Script
  BY DEF Empty, Script
<1> QED BY <1>1 DEF NoScripts

LEMMA NothingRememberedType == NothingRemembered \in Memos /\ DOMAIN NothingRemembered = {}
<1>1. NothingRemembered \in [{} -> Keys \cup {Nothing}]
  BY DEF NothingRemembered
<1> QED BY <1>1 DEF Memos, NothingRemembered

\* An engine that starts, and one that is not running.
LEMMA FreshEngineOK ==
  ASSUME NEW b
  PROVE  EngineOK(b, NoScripts, NothingRemembered, "idle", NoJob, <<>>, {})
BY NothingUsed, NothingRememberedType
   DEF EngineOK, MemoOK, JobOK, MemoFits, StoppedOK

LEMMA InitInv == Init => Inv
<1> SUFFICES ASSUME Init PROVE Inv
  OBVIOUS
<1>1. TypeOK
  <2>1. Missing \in Artifact
    BY DEF Missing, Artifact
  <2> QED BY <2>1, NoScriptsType, NothingRememberedType DEF Init, TypeOK
<1>2. EnginesOK
  BY FreshEngineOK DEF Init, EnginesOK
<1>3. DiskOK
  BY DEF Init, DiskOK, Missing
<1> QED BY <1>1, <1>2, <1>3 DEF Inv

-----------------------------------------------------------------------------
(* What happens to a memo.                                                 *)

\* A memo that grows and forgets nothing.
Extends(mem2, mem, keys) == /\ mem2 \in Memos /\ MemoOK(mem2)
                            /\ DOMAIN mem2 = DOMAIN mem \cup keys
                            /\ \A k \in Keys : Transpiles(mem, k) => Transpiles(mem2, k)

LEMMA MemoDomain == ASSUME NEW mem \in Memos
                    PROVE  /\ DOMAIN mem \subseteq Keys
                           /\ mem \in [DOMAIN mem -> Keys \cup {Nothing}]
<1>1. PICK K \in SUBSET Keys : mem \in [K -> Keys \cup {Nothing}]
  BY DEF Memos
<1> QED BY <1>1

LEMMA FunctionIsMemo == ASSUME NEW mem, NEW K \in SUBSET Keys, mem \in [K -> Keys \cup {Nothing}]
                        PROVE  mem \in Memos
BY DEF Memos

\* Entries without a result add nothing that could be wrong.
LEMMA WithEntriesExtends ==
  ASSUME NEW mem \in Memos, MemoOK(mem), NEW keys \in SUBSET Keys
  PROVE  Extends(WithEntries(mem, keys), mem, keys)
<1> DEFINE mem2 == WithEntries(mem, keys)
<1>1. DOMAIN mem2 = DOMAIN mem \cup keys
  BY DEF WithEntries
<1>2. mem2 \in [DOMAIN mem \cup keys -> Keys \cup {Nothing}]
  BY MemoDomain DEF WithEntries
<1>3. mem2 \in Memos
  BY <1>2, MemoDomain, FunctionIsMemo
<1>4. \A k \in DOMAIN mem2 : mem2[k] # Nothing => k \in DOMAIN mem /\ mem2[k] = mem[k]
  BY DEF WithEntries
<1>5. MemoOK(mem2)
  BY <1>4 DEF MemoOK
<1>6. \A k \in Keys : Transpiles(mem, k) => Transpiles(mem2, k)
  BY DEF Transpiles, WithEntries
<1> QED BY <1>1, <1>3, <1>5, <1>6 DEF Extends

\* A key that holds its own module's result.
LEMMA RememberedExtends ==
  ASSUME NEW mem \in Memos, MemoOK(mem), NEW key \in Keys, key \in Accepts
  PROVE  /\ Extends([WithEntries(mem, {key}) EXCEPT ![key] = key], mem, {key})
         /\ Transpiles([WithEntries(mem, {key}) EXCEPT ![key] = key], key)
<1> DEFINE grown == WithEntries(mem, {key})
           mem2 == [grown EXCEPT ![key] = key]
<1>1. Extends(grown, mem, {key})
  BY WithEntriesExtends
<1> HIDE DEF grown
<1>2. grown \in [DOMAIN grown -> Keys \cup {Nothing}] /\ DOMAIN grown \subseteq Keys
  BY <1>1, MemoDomain DEF Extends
<1>3. key \in DOMAIN grown
  BY <1>1 DEF Extends
<1>4. mem2 \in Memos /\ DOMAIN mem2 = DOMAIN grown
  BY <1>2, <1>3, FunctionIsMemo
<1>5. \A k \in DOMAIN grown : mem2[k] = IF k = key THEN key ELSE grown[k]
  BY <1>2
<1>6. MemoOK(mem2)
  BY <1>1, <1>4, <1>5 DEF MemoOK, Extends
<1>7. key # Nothing
  BY KeysAreSomething
<1>8. \A k \in Keys : Transpiles(grown, k) => Transpiles(mem2, k)
  BY <1>4, <1>5, <1>7 DEF Transpiles
<1>9. Transpiles(mem2, key)
  BY <1>3, <1>4, <1>5, <1>7 DEF Transpiles
<1>10. Extends(mem2, mem, {key})
  BY <1>1, <1>4, <1>6, <1>8 DEF Extends
<1> QED BY <1>9, <1>10 DEF grown

\* Forgetting what is not used leaves the rest as it is.
LEMMA RetainedKeeps ==
  ASSUME NEW mem \in Memos, MemoOK(mem), NEW used
  PROVE  /\ Retained(mem, used) \in Memos /\ MemoOK(Retained(mem, used))
         /\ DOMAIN Retained(mem, used) \subseteq used
         /\ \A k \in used : Transpiles(mem, k) => Transpiles(Retained(mem, used), k)
<1> DEFINE mem2 == Retained(mem, used)
<1>1. DOMAIN mem2 = DOMAIN mem \cap used /\ \A k \in DOMAIN mem2 : mem2[k] = mem[k]
  BY DEF Retained
<1>2. mem2 \in [DOMAIN mem \cap used -> Keys \cup {Nothing}]
  BY MemoDomain DEF Retained
<1>3. mem2 \in Memos
  BY <1>2, MemoDomain, FunctionIsMemo
<1> QED BY <1>1, <1>3 DEF MemoOK, Transpiles
-----------------------------------------------------------------------------
(* A step of one engine.                                                   *)

EngineNow(e) == EngineOK(build[e], scripts[e], memo[e], pc[e], job[e], done[e], tried[e])

Kept(e) == /\ build'[e] = build[e] /\ scripts'[e] = scripts[e] /\ memo'[e] = memo[e]
           /\ pc'[e] = pc[e] /\ job'[e] = job[e] /\ done'[e] = done[e] /\ tried'[e] = tried[e]

\* What an engine does concerns no other's state.
LEMMA OthersKept == ASSUME EnginesOK, NEW e \in Engines, EngineNow(e)',
                           \A x \in Engines \ {e} : Kept(x)
                    PROVE  EnginesOK'
BY DEF EnginesOK, EngineNow, Kept

\* A load in progress: the engine runs, and its next module has a key.
LEMMA Working == ASSUME TypeOK, EnginesOK, NEW e \in Engines, pc[e] # "idle"
                 PROVE  /\ build[e] \in Builds /\ job[e] \in Job /\ job[e].modules \in Loads
                        /\ job[e].modules \in Seq(Modules) /\ Len(job[e].modules) > 0
                        /\ done[e] \in Seq(Builds \X Modules)
                        /\ JobOK(build[e], memo[e], pc[e], job[e], done[e], tried[e])
<1>1. JobOK(build[e], memo[e], pc[e], job[e], done[e], tried[e])
  BY DEF EnginesOK, EngineOK
<1>2. build[e] \in Builds /\ job[e] \in Job
  BY <1>1 DEF JobOK
<1>3. job[e].modules \in Loads
  BY <1>2 DEF Job
<1> QED BY <1>1, <1>2, <1>3, LoadsAreSequences DEF TypeOK

LEMMA CurrentIn == ASSUME TypeOK, EnginesOK, NEW e \in Engines, pc[e] \in {"lookup", "store"}
                   PROVE  /\ Len(done[e]) + 1 \in DOMAIN job[e].modules
                          /\ Current(e) \in Modules /\ CurrentKey(e) \in Keys
                          /\ CurrentKey(e) = <<build[e], Current(e)>>
                          /\ CurrentKey(e) \in tried[e]
<1>1. /\ build[e] \in Builds /\ job[e].modules \in Seq(Modules)
      /\ done[e] \in Seq(Builds \X Modules)
      /\ JobOK(build[e], memo[e], pc[e], job[e], done[e], tried[e])
  BY Working
<1>2. Len(done[e]) < Len(job[e].modules) /\ KeysOf(build[e], job[e].modules) \subseteq tried[e]
  BY <1>1 DEF JobOK
<1>3. Len(done[e]) + 1 \in DOMAIN job[e].modules
  BY <1>1, <1>2
<1>4. Current(e) \in Modules
  BY <1>1, <1>3 DEF Current
<1>5. CurrentKey(e) \in KeysOf(build[e], job[e].modules)
  BY <1>3 DEF CurrentKey, Current, KeysOf
<1> QED BY <1>1, <1>2, <1>3, <1>4, <1>5, KeyIn DEF CurrentKey, Key

\* A load that ends leaves an engine as good as one that was never asked.
LEMMA EndsOK ==
  ASSUME TypeOK, EnginesOK, NEW e \in Engines, NEW how \in {"loaded", "refused", "threw"},
         Ends(e, how), build[e] # None,
         NEW scr \in [Ids -> Script], NEW mem \in Memos, NEW tr \in SUBSET Keys,
         scripts' = [scripts EXCEPT ![e] = scr], memo' = [memo EXCEPT ![e] = mem],
         tried' = [tried EXCEPT ![e] = tr],
         MemoOK(mem), MemoFits(build[e], scr, mem, tr)
  PROVE  TypeOK' /\ EnginesOK'
<1>1. TypeOK'
  BY DEF TypeOK, Ends, diskVars
<1>2. EngineNow(e)'
  <2>1. /\ build'[e] = build[e] /\ scripts'[e] = scr /\ memo'[e] = mem
        /\ pc'[e] = "idle" /\ job'[e] = NoJob /\ done'[e] = <<>> /\ tried'[e] = tr
    BY DEF TypeOK, Ends
  <2> QED BY <2>1 DEF EngineNow, EngineOK, JobOK, StoppedOK
<1>3. \A x \in Engines \ {e} : Kept(x)
  BY DEF TypeOK, Ends, Kept
<1> QED BY <1>1, <1>2, <1>3, OthersKept

\* A load that begins has nothing transpiled yet, and a memo that only grew.
LEMMA BeginsOK ==
  ASSUME TypeOK, EnginesOK, NEW e \in Engines, NEW id \in Ids, NEW modules \in Loads,
         NEW inline \in BOOLEAN, Idle(e), Begins(e, id, modules, inline),
         ~inline => \A i \in DOMAIN modules : <<build[e], modules[i]>> \in Parses,
         NEW keys \in SUBSET KeysOf(build[e], modules),
         NEW mem, memo' = [memo EXCEPT ![e] = mem], Extends(mem, memo[e], keys)
  PROVE  TypeOK' /\ EnginesOK'
<1> DEFINE newJob == [id |-> id, modules |-> modules, inline |-> inline]
           newTried == tried[e] \cup KeysOf(build[e], modules)
<1>1. build[e] \in Builds /\ modules \in Seq(Modules) /\ Len(modules) > 0
  BY LoadsAreSequences DEF Idle, TypeOK
<1>2. newTried \in SUBSET Keys
  BY <1>1, KeysOfIn DEF TypeOK
<1>3. newJob \in Job
  BY DEF Job
<1>4. TypeOK'
  BY <1>2, <1>3 DEF TypeOK, Begins, diskVars, Extends
<1>5. /\ build'[e] = build[e] /\ scripts'[e] = scripts[e] /\ memo'[e] = mem
      /\ pc'[e] = "lookup" /\ job'[e] = newJob /\ done'[e] = <<>> /\ tried'[e] = newTried
  BY DEF TypeOK, Begins, EnginesOK, EngineOK, JobOK, Idle
<1>6. JobOK(build[e], mem, "lookup", newJob, <<>>, newTried)
  BY <1>1, <1>3 DEF JobOK
<1>7. MemoFits(build[e], scripts[e], mem, newTried)
  <2>1. MemoFits(build[e], scripts[e], memo[e], tried[e])
    BY DEF EnginesOK, EngineOK
  <2>2. \A k \in UsedBy(build[e], scripts[e]) : Transpiles(mem, k)
    <3>1. \A k \in UsedBy(build[e], scripts[e]) : k \in Keys
      BY <2>1, MemoDomain DEF MemoFits, Transpiles, TypeOK
    <3> QED BY <2>1, <3>1 DEF MemoFits, Extends
  <2> QED BY <2>1, <2>2 DEF MemoFits, Extends
<1>8. EngineNow(e)'
  BY <1>1, <1>5, <1>6, <1>7 DEF EngineNow, EngineOK, StoppedOK, Extends, Idle
<1>9. \A x \in Engines \ {e} : Kept(x)
  BY DEF TypeOK, Begins, Kept
<1> QED BY <1>4, <1>8, <1>9, OthersKept
\* A module transpiled to what its key says, and remembered.
LEMMA TranspiledOK ==
  ASSUME TypeOK, EnginesOK, NEW e \in Engines, pc[e] \in {"lookup", "store"},
         Transpiled(e, CurrentKey(e)), CurrentKey(e) \in Accepts,
         NEW mem, memo' = [memo EXCEPT ![e] = mem],
         Extends(mem, memo[e], {CurrentKey(e)}), Transpiles(mem, CurrentKey(e)),
         disk' \in [Keys -> Artifact]
  PROVE  TypeOK' /\ EnginesOK'
<1> DEFINE key == CurrentKey(e)
           mods == job[e].modules
           done2 == Append(done[e], key)
           pc2 == IF Len(done[e]) + 1 = Len(mods) THEN "mount" ELSE "lookup"
<1>1. /\ build[e] \in Builds /\ job[e] \in Job /\ mods \in Seq(Modules)
      /\ done[e] \in Seq(Builds \X Modules)
      /\ JobOK(build[e], memo[e], pc[e], job[e], done[e], tried[e])
  BY Working
<1>2. /\ Current(e) \in Modules /\ key \in Keys /\ key = <<build[e], Current(e)>>
      /\ key \in tried[e]
  BY CurrentIn
<1>3. done2 \in Seq(Builds \X Modules) /\ Len(done2) = Len(done[e]) + 1
  BY <1>1, <1>2
<1>4. TypeOK'
  BY <1>3 DEF TypeOK, Transpiled, Extends
<1>5. /\ build'[e] = build[e] /\ scripts'[e] = scripts[e] /\ memo'[e] = mem
      /\ pc'[e] = pc2 /\ job'[e] = job[e] /\ done'[e] = done2 /\ tried'[e] = tried[e]
  BY DEF TypeOK, Transpiled
<1>6. JobOK(build[e], mem, pc2, job[e], done2, tried[e])
  <2>1. Len(done[e]) < Len(mods)
    BY <1>1 DEF JobOK
  <2>2. /\ Len(done2) <= Len(mods)
        /\ pc2 = "lookup" => Len(done2) < Len(mods)
        /\ pc2 = "mount" => Len(done2) = Len(mods)
    BY <1>1, <1>3, <2>1
  <2>3. \A i \in DOMAIN done2 : /\ done2[i] = <<build[e], mods[i]>>
                                /\ done2[i] \in Accepts
                                /\ Transpiles(mem, done2[i])
    <3> SUFFICES ASSUME NEW i \in DOMAIN done2
                 PROVE  /\ done2[i] = <<build[e], mods[i]>>
                        /\ done2[i] \in Accepts
                        /\ Transpiles(mem, done2[i])
      OBVIOUS
    <3>1. CASE i = Len(done[e]) + 1
      BY <1>1, <1>2, <3>1 DEF Current
    <3>2. CASE i \in DOMAIN done[e]
      <4>1. done2[i] = done[e][i]
        BY <1>1, <3>2
      <4>2. /\ done[e][i] = <<build[e], mods[i]>> /\ done[e][i] \in Accepts
            /\ Transpiles(memo[e], done[e][i])
        BY <1>1, <3>2 DEF JobOK
      <4>3. done[e][i] \in Keys
        BY <4>2, MemoDomain DEF Transpiles, TypeOK
      <4> QED BY <4>1, <4>2, <4>3 DEF Extends
    <3> QED BY <1>1, <1>3, <3>1, <3>2
  <2> QED BY <1>1, <2>2, <2>3 DEF JobOK
<1>7. MemoFits(build[e], scripts[e], mem, tried[e])
  <2>1. MemoFits(build[e], scripts[e], memo[e], tried[e])
    BY DEF EnginesOK, EngineOK
  <2>2. \A k \in UsedBy(build[e], scripts[e]) : k \in Keys
    BY <2>1, MemoDomain DEF MemoFits, Transpiles, TypeOK
  <2> QED BY <1>2, <2>1, <2>2 DEF MemoFits, Extends
<1>8. build[e] # None
  BY <1>1, BuildsAssumption
<1>9. EngineNow(e)'
  BY <1>5, <1>6, <1>7, <1>8 DEF EngineNow, EngineOK, StoppedOK, Extends
<1>10. \A x \in Engines \ {e} : Kept(x)
  BY DEF TypeOK, Transpiled, Kept
<1> QED BY <1>4, <1>9, <1>10, OthersKept

-----------------------------------------------------------------------------
(* The actions of a load.                                                  *)

LEMMA RunningFits == ASSUME EnginesOK, NEW e \in Engines
                     PROVE  MemoOK(memo[e]) /\ MemoFits(build[e], scripts[e], memo[e], tried[e])
BY DEF EnginesOK, EngineOK

LEMMA SameMemoExtends == ASSUME NEW mem \in Memos, MemoOK(mem), NEW keys, keys \subseteq DOMAIN mem
                         PROVE  Extends(mem, mem, keys)
BY DEF Extends

LEMMA DiskKept == ASSUME DiskOK, disk' = disk, damaged' = damaged PROVE DiskOK'
BY DEF DiskOK

LEMMA LoadInlineInv == ASSUME Inv, NEW e \in Engines, NEW id \in Ids, NEW s \in Inline,
                              LoadInline(e, id, s)
                       PROVE  Inv'
<1> DEFINE modules == <<<<InlineType, s>>>>
<1>1. modules \in Loads
  BY DEF Loads
<1>2. Extends(memo[e], memo[e], {})
  BY RunningFits, SameMemoExtends DEF Inv, TypeOK
<1>3. memo' = [memo EXCEPT ![e] = memo[e]]
  BY DEF LoadInline, Inv, TypeOK
<1> HIDE DEF modules
<1>4. Idle(e) /\ Begins(e, id, modules, TRUE)
  BY DEF LoadInline, modules
<1>5. TypeOK' /\ EnginesOK'
  BY <1>1, <1>2, <1>3, <1>4, BeginsOK DEF Inv
<1>6. DiskOK'
  BY <1>4, DiskKept DEF Inv, Begins, diskVars
<1> QED BY <1>5, <1>6 DEF Inv

LEMMA LoadProjectInv == ASSUME Inv, NEW e \in Engines, NEW id \in Ids, NEW modules \in Projects,
                               LoadProject(e, id, modules)
                        PROVE  Inv'
<1>1. modules \in Loads /\ modules \in Seq(Modules)
  BY LoadsAreSequences DEF Loads
<1>2. build[e] \in Builds /\ build[e] # None
  BY DEF LoadProject, Idle, Inv, TypeOK
<1>3. PICK asked \in SUBSET DOMAIN modules :
        LET visited == {modules[i] : i \in Visited(build[e], modules, asked)}
        IN  memo' = [memo EXCEPT ![e] = WithEntries(@, {Key(build[e], m) : m \in visited})]
  BY DEF LoadProject
<1> DEFINE visited == {modules[i] : i \in Visited(build[e], modules, asked)}
           keys == {Key(build[e], m) : m \in visited}
           mem == WithEntries(memo[e], keys)
<1>4. keys \in SUBSET KeysOf(build[e], modules)
  BY DEF KeysOf, Visited
<1>5. KeysOf(build[e], modules) \in SUBSET Keys
  BY <1>1, <1>2, KeysOfIn
<1>6. Extends(mem, memo[e], keys)
  BY <1>4, <1>5, WithEntriesExtends, RunningFits DEF Inv, TypeOK
<1>7. memo' = [memo EXCEPT ![e] = mem]
  BY <1>3
<1> HIDE DEF keys, mem
<1>8. CASE \A i \in DOMAIN modules : <<build[e], modules[i]>> \in Parses
  <2>1. Idle(e) /\ Begins(e, id, modules, FALSE)
    BY <1>8 DEF LoadProject
  <2>2. TypeOK' /\ EnginesOK'
    BY <1>1, <1>4, <1>6, <1>7, <1>8, <2>1, BeginsOK DEF Inv
  <2>3. DiskOK'
    BY <2>1, DiskKept DEF Inv, Begins, diskVars
  <2> QED BY <2>2, <2>3 DEF Inv
<1>9. CASE ~ \A i \in DOMAIN modules : <<build[e], modules[i]>> \in Parses
  <2>1. /\ Ends(e, "refused") /\ UNCHANGED scripts
        /\ tried' = [tried EXCEPT ![e] = @ \cup KeysOf(build[e], modules)]
    BY <1>9 DEF LoadProject
  <2> DEFINE tr == tried[e] \cup KeysOf(build[e], modules)
  <2>2. tr \in SUBSET Keys /\ mem \in Memos /\ MemoOK(mem) /\ scripts[e] \in [Ids -> Script]
    BY <1>5, <1>6 DEF Inv, TypeOK, Extends
  <2>3. scripts' = [scripts EXCEPT ![e] = scripts[e]] /\ tried' = [tried EXCEPT ![e] = tr]
    BY <2>1 DEF Inv, TypeOK
  <2>4. MemoFits(build[e], scripts[e], mem, tr)
    <3>1. MemoFits(build[e], scripts[e], memo[e], tried[e])
      BY RunningFits DEF Inv
    <3>2. \A k \in UsedBy(build[e], scripts[e]) : k \in Keys
      BY <3>1, MemoDomain DEF MemoFits, Transpiles, Inv, TypeOK
    <3> QED BY <1>4, <1>6, <3>1, <3>2 DEF MemoFits, Extends
  <2> HIDE DEF tr
  <2>5. TypeOK' /\ EnginesOK'
    BY <1>2, <1>7, <2>1, <2>2, <2>3, <2>4, EndsOK DEF Inv
  <2>6. DiskOK'
    BY <2>1, DiskKept DEF Inv, Ends, diskVars
  <2> QED BY <2>5, <2>6 DEF Inv
<1> QED BY <1>8, <1>9
\* What the memo holds for the current module is that module's own result.
LEMMA FromMemoInv == ASSUME Inv, NEW e \in Engines, FromMemo(e) PROVE Inv' /\ CurrentKey(e) \in Accepts
<1> DEFINE key == CurrentKey(e)
<1>1. MemoOK(memo[e]) /\ memo[e] \in Memos
  BY RunningFits DEF Inv, TypeOK
<1>2. memo[e][key] = key /\ key \in Accepts /\ Transpiles(memo[e], key)
  BY <1>1 DEF FromMemo, InMemo, MemoOK, Transpiles
<1>3. Extends(memo[e], memo[e], {key})
  BY <1>1, <1>2, SameMemoExtends DEF Transpiles
<1>4. memo' = [memo EXCEPT ![e] = memo[e]] /\ disk' \in [Keys -> Artifact]
  BY DEF FromMemo, Inv, TypeOK, diskVars
<1>5. Transpiled(e, key) /\ pc[e] \in {"lookup", "store"}
  BY <1>2 DEF FromMemo
<1>6. TypeOK' /\ EnginesOK'
  BY <1>2, <1>3, <1>4, <1>5, TranspiledOK DEF Inv
<1>7. DiskOK'
  BY DiskKept DEF Inv, FromMemo, diskVars
<1> QED BY <1>2, <1>6, <1>7 DEF Inv

\* An artifact that verifies is that module's own result.
LEMMA FromDiskInv == ASSUME Inv, NEW e \in Engines, FromDisk(e) PROVE Inv' /\ CurrentKey(e) \in Accepts
<1> DEFINE key == CurrentKey(e)
<1>1. MemoOK(memo[e]) /\ memo[e] \in Memos /\ key \in Keys /\ pc[e] \in {"lookup", "store"}
  BY RunningFits, CurrentIn DEF Inv, TypeOK, FromDisk
<1>2. disk[key].js = key /\ key \in Accepts
  <2>1. disk[key].state = "synced"
    BY <1>1 DEF FromDisk, Verifies, Inv, TypeOK, Artifact
  <2> QED BY <1>1, <2>1 DEF Inv, DiskOK
<1> DEFINE mem == [WithEntries(memo[e], {key}) EXCEPT ![key] = key]
<1>3. memo' = [memo EXCEPT ![e] = mem] /\ disk' \in [Keys -> Artifact]
  BY <1>2 DEF FromDisk, Remembered, Inv, TypeOK, diskVars
<1>4. Extends(mem, memo[e], {key}) /\ Transpiles(mem, key)
  BY <1>1, <1>2, RememberedExtends
<1>5. Transpiled(e, key)
  BY <1>2 DEF FromDisk
<1> HIDE DEF mem
<1>6. TypeOK' /\ EnginesOK'
  BY <1>1, <1>2, <1>3, <1>4, <1>5, TranspiledOK DEF Inv
<1>7. DiskOK'
  BY DiskKept DEF Inv, FromDisk, diskVars
<1> QED BY <1>2, <1>6, <1>7 DEF Inv

\* Stored or not, the module is remembered.
LEMMA StoreInv == ASSUME Inv, NEW e \in Engines, Store(e) PROVE Inv' /\ CurrentKey(e) \in Accepts
<1> DEFINE key == CurrentKey(e)
<1>1. /\ MemoOK(memo[e]) /\ memo[e] \in Memos /\ pc[e] = "store" /\ Transpiled(e, CompiledNow(e))
      /\ Remembered(e, CompiledNow(e))
  BY RunningFits DEF Inv, TypeOK, Store, Persist, StoreFails
<1>2. key \in Keys /\ CompiledNow(e) = key
  BY <1>1, CurrentIn DEF Inv, CompiledNow
<1>3. key \in Accepts
  BY <1>1, Working DEF Inv, JobOK, CurrentKey, Current, Key
<1> DEFINE mem == [WithEntries(memo[e], {key}) EXCEPT ![key] = key]
<1>4. memo' = [memo EXCEPT ![e] = mem]
  BY <1>1, <1>2 DEF Remembered, Inv, TypeOK
<1>5. Extends(mem, memo[e], {key}) /\ Transpiles(mem, key)
  BY <1>1, <1>2, <1>3, RememberedExtends
<1> HIDE DEF mem
<1>6. disk' \in [Keys -> Artifact] /\ DiskOK'
  <2>1. CASE Persist(e)
    <3> DEFINE artifact == [js |-> key, state |-> "synced"]
    <3>1. artifact \in Artifact
      BY <1>2 DEF Artifact
    <3>2. disk' = [disk EXCEPT ![key] = artifact] /\ damaged' = damaged \ {key}
      BY <1>2, <2>1 DEF Persist
    <3>3. disk' \in [Keys -> Artifact]
      BY <3>1, <3>2 DEF Inv, TypeOK
    <3>4. \A k \in Keys : disk'[k] = IF k = key THEN artifact ELSE disk[k]
      BY <3>2 DEF Inv, TypeOK
    <3>5. DiskOK'
      BY <1>3, <3>2, <3>4 DEF Inv, DiskOK
    <3> QED BY <3>3, <3>5
  <2>2. CASE StoreFails(e)
    BY <2>2, DiskKept DEF Inv, TypeOK, StoreFails, diskVars
  <2> QED BY <2>1, <2>2 DEF Store
<1>7. TypeOK' /\ EnginesOK'
  BY <1>1, <1>2, <1>3, <1>4, <1>5, <1>6, TranspiledOK DEF Inv
<1> QED BY <1>3, <1>6, <1>7 DEF Inv

\* A module that does not compile ends the load; one that does is compiled by what its
\* kind of load asks of it.
LEMMA CompileInv == ASSUME Inv, NEW e \in Engines, Compile(e) PROVE Inv'
<1>1. /\ build[e] \in Builds /\ job[e] \in Job /\ pc[e] = "lookup"
      /\ JobOK(build[e], memo[e], pc[e], job[e], done[e], tried[e])
  BY Working DEF Inv, Compile
<1>2. build[e] # None
  BY <1>1, BuildsAssumption
<1>3. Len(done[e]) + 1 \in DOMAIN job[e].modules
  BY <1>1, CurrentIn DEF Inv
<1>4. CASE Compiles(e)
  <2>1. /\ pc' = [pc EXCEPT ![e] = "store"]
        /\ UNCHANGED <<build, scripts, memo, job, done, outcome, tried, disk, damaged>>
    BY <1>4 DEF Compile, diskVars
  <2>2. TypeOK'
    BY <2>1 DEF Inv, TypeOK
  <2>3. <<build[e], Current(e)>> \in Accepts
    BY <1>1, <1>3, <1>4 DEF Compiles, Accepts, JobOK, Current
  <2>4. JobOK(build[e], memo[e], "store", job[e], done[e], tried[e])
    BY <1>1, <2>3 DEF JobOK, Current
  <2>5. EngineNow(e)'
    BY <1>2, <2>1, <2>4 DEF Inv, TypeOK, EnginesOK, EngineNow, EngineOK, StoppedOK
  <2>6. \A x \in Engines \ {e} : Kept(x)
    BY <2>1 DEF Inv, TypeOK, Kept
  <2> QED BY <2>1, <2>2, <2>5, <2>6, OthersKept, DiskKept DEF Inv
<1>5. CASE ~Compiles(e)
  <2>1. Ends(e, "refused") /\ UNCHANGED <<scripts, memo, tried>>
    BY <1>5 DEF Compile
  <2>2. /\ scripts' = [scripts EXCEPT ![e] = scripts[e]] /\ memo' = [memo EXCEPT ![e] = memo[e]]
        /\ tried' = [tried EXCEPT ![e] = tried[e]]
    BY <2>1 DEF Inv, TypeOK
  <2>3. scripts[e] \in [Ids -> Script] /\ memo[e] \in Memos /\ tried[e] \in SUBSET Keys
    BY DEF Inv, TypeOK
  <2>4. TypeOK' /\ EnginesOK'
    BY <1>2, <2>1, <2>2, <2>3, RunningFits, EndsOK DEF Inv
  <2> QED BY <2>1, <2>4, DiskKept DEF Inv, Ends, diskVars
<1> QED BY <1>4, <1>5
-----------------------------------------------------------------------------
(* Scripts come and go.                                                    *)

\* The keys an engine's scripts use, when one of them is replaced.
LEMMA UsedAfter ==
  ASSUME NEW b, NEW scr \in [Ids -> Script], NEW id \in Ids, NEW script
  PROVE  LET used == UsedBy(b, [scr EXCEPT ![id] = script])
         IN  /\ used \subseteq UsedBy(b, scr) \cup KeysOf(b, script.modules)
             /\ scr[id] = Empty => UsedBy(b, scr) \subseteq used
<1> DEFINE after == [scr EXCEPT ![id] = script]
<1>1. \A i \in Ids : after[i] = IF i = id THEN script ELSE scr[i]
  OBVIOUS
<1>2. UsedBy(b, after) \subseteq UsedBy(b, scr) \cup KeysOf(b, script.modules)
  BY <1>1 DEF UsedBy
<1>3. KeysOf(b, Empty.modules) = {}
  BY DEF KeysOf, Empty
<1>4. scr[id] = Empty => UsedBy(b, scr) \subseteq UsedBy(b, after)
  BY <1>1, <1>3 DEF UsedBy
<1> QED BY <1>2, <1>4

\* A version that retires another leaves a memo of what the scripts use; the first under
\* its id leaves the memo as it was.
LEMMA MountInv == ASSUME Inv, NEW e \in Engines, Mount(e) PROVE Inv'
<1> DEFINE id == job[e].id
           mods == job[e].modules
           script == [modules |-> mods, js |-> done[e]]
           loaded == [scripts[e] EXCEPT ![id] = script]
           used == UsedBy(build[e], loaded)
           old == UsedBy(build[e], scripts[e])
<1>1. /\ build[e] \in Builds /\ job[e] \in Job /\ pc[e] = "mount" /\ mods \in Seq(Modules)
      /\ done[e] \in Seq(Builds \X Modules)
      /\ JobOK(build[e], memo[e], pc[e], job[e], done[e], tried[e])
  BY Working DEF Inv, Mount
<1>2. build[e] # None /\ id \in Ids
  BY <1>1, BuildsAssumption DEF Job
<1>3. script \in Script /\ loaded \in [Ids -> Script] /\ scripts[e] \in [Ids -> Script]
  BY <1>1 DEF Script, Inv, TypeOK
<1>4. memo[e] \in Memos /\ MemoOK(memo[e]) /\ MemoFits(build[e], scripts[e], memo[e], tried[e])
  BY RunningFits DEF Inv, TypeOK
<1>5. \A k \in KeysOf(build[e], mods) : Transpiles(memo[e], k)
  <2> SUFFICES ASSUME NEW i \in DOMAIN mods PROVE Transpiles(memo[e], <<build[e], mods[i]>>)
    BY DEF KeysOf, Key
  <2>1. i \in DOMAIN done[e]
    BY <1>1 DEF JobOK
  <2>2. done[e][i] = <<build[e], mods[i]>> /\ Transpiles(memo[e], done[e][i])
    BY <1>1, <2>1 DEF JobOK
  <2> QED BY <2>2
<1>6. used \subseteq old \cup KeysOf(build[e], mods) /\ (scripts[e][id] = Empty => old \subseteq used)
  BY <1>2, <1>3, UsedAfter
<1>7. \A k \in used : Transpiles(memo[e], k)
  BY <1>4, <1>5, <1>6 DEF MemoFits
<1>8. Ends(e, "loaded") /\ scripts' = [scripts EXCEPT ![e] = loaded]
  BY DEF Mount
<1>9. CASE scripts[e][id] = Empty
  <2>1. memo' = [memo EXCEPT ![e] = memo[e]] /\ tried' = [tried EXCEPT ![e] = tried[e]]
    BY <1>9 DEF Mount, Inv, TypeOK
  <2>2. MemoFits(build[e], loaded, memo[e], tried[e])
    BY <1>4, <1>6, <1>7, <1>9 DEF MemoFits
  <2>3. tried[e] \in SUBSET Keys
    BY DEF Inv, TypeOK
  <2> HIDE DEF loaded
  <2> QED BY <1>2, <1>3, <1>4, <1>8, <2>1, <2>2, <2>3, EndsOK, DiskKept DEF Inv, Ends, diskVars
<1>10. CASE scripts[e][id] # Empty
  <2> DEFINE mem == Retained(memo[e], used)
  <2>1. memo' = [memo EXCEPT ![e] = mem] /\ tried' = [tried EXCEPT ![e] = {}]
    BY <1>10 DEF Mount, Forgets, Inv, TypeOK
  <2>2. /\ mem \in Memos /\ MemoOK(mem) /\ DOMAIN mem \subseteq used
        /\ \A k \in used : Transpiles(mem, k)
    BY <1>4, <1>7, RetainedKeeps
  <2>3. MemoFits(build[e], loaded, mem, {})
    BY <2>2 DEF MemoFits
  <2> HIDE DEF loaded, mem
  <2>4. {} \in SUBSET Keys
    OBVIOUS
  <2>5. TypeOK' /\ EnginesOK'
    BY <1>2, <1>3, <1>8, <2>1, <2>2, <2>3, <2>4, EndsOK DEF Inv
  <2> QED BY <1>8, <2>5, DiskKept DEF Inv, Ends, diskVars
<1> QED BY <1>9, <1>10

LEMMA MountThrowsInv == ASSUME Inv, NEW e \in Engines, MountThrows(e) PROVE Inv'
<1>1. build[e] # None
  BY Working, BuildsAssumption DEF Inv, MountThrows
<1>2. Ends(e, "threw") /\ UNCHANGED <<scripts, memo, tried>>
  BY DEF MountThrows
<1>3. /\ scripts' = [scripts EXCEPT ![e] = scripts[e]] /\ memo' = [memo EXCEPT ![e] = memo[e]]
      /\ tried' = [tried EXCEPT ![e] = tried[e]]
  BY <1>2 DEF Inv, TypeOK
<1>4. scripts[e] \in [Ids -> Script] /\ memo[e] \in Memos /\ tried[e] \in SUBSET Keys
  BY DEF Inv, TypeOK
<1>5. TypeOK' /\ EnginesOK'
  BY <1>1, <1>2, <1>3, <1>4, RunningFits, EndsOK DEF Inv
<1> QED BY <1>2, <1>5, DiskKept DEF Inv, Ends, diskVars

\* What an unloaded script alone used is forgotten.
LEMMA UnloadInv == ASSUME Inv, NEW e \in Engines, NEW id \in Ids, Unload(e, id) PROVE Inv'
<1> DEFINE loaded == [scripts[e] EXCEPT ![id] = Empty]
           used == UsedBy(build[e], loaded)
           mem == Retained(memo[e], used)
<1>1. /\ Idle(e) /\ scripts' = [scripts EXCEPT ![e] = loaded]
      /\ memo' = [memo EXCEPT ![e] = mem] /\ tried' = [tried EXCEPT ![e] = {}]
      /\ UNCHANGED <<build, pc, job, done, outcome, disk, damaged>>
  BY DEF Unload, Forgets, diskVars, Inv, TypeOK
<1>2. memo[e] \in Memos /\ MemoOK(memo[e]) /\ MemoFits(build[e], scripts[e], memo[e], tried[e])
  BY RunningFits DEF Inv, TypeOK
<1>3. Empty \in Script /\ scripts[e] \in [Ids -> Script]
  BY DEF Empty, Script, Inv, TypeOK
<1>4. used \subseteq UsedBy(build[e], scripts[e])
  <2>1. KeysOf(build[e], Empty.modules) = {}
    BY DEF KeysOf, Empty
  <2> QED BY <1>3, <2>1, UsedAfter
<1>5. /\ mem \in Memos /\ MemoOK(mem) /\ DOMAIN mem \subseteq used
      /\ \A k \in used : Transpiles(mem, k)
  BY <1>2, <1>4, RetainedKeeps DEF MemoFits
<1>6. MemoFits(build[e], loaded, mem, {})
  BY <1>5 DEF MemoFits
<1>7. loaded \in [Ids -> Script]
  BY <1>3
<1> HIDE DEF loaded, mem
<1>8. TypeOK'
  BY <1>1, <1>5, <1>7 DEF Inv, TypeOK
<1>9. EngineNow(e)'
  BY <1>1, <1>5, <1>6
     DEF Inv, TypeOK, EnginesOK, EngineNow, EngineOK, JobOK, StoppedOK, Idle
<1>10. \A x \in Engines \ {e} : Kept(x)
  BY <1>1 DEF Inv, TypeOK, Kept
<1> QED BY <1>1, <1>8, <1>9, <1>10, OthersKept, DiskKept DEF Inv

-----------------------------------------------------------------------------
(* Processes and the file system.                                          *)

LEMMA StartInv == ASSUME Inv, NEW e \in Engines, NEW b \in Builds, Start(e, b) PROVE Inv'
<1>1. /\ build[e] = None /\ build' = [build EXCEPT ![e] = b]
      /\ UNCHANGED <<scripts, memo, pc, job, done, outcome, tried, disk, damaged>>
  BY DEF Start, diskVars
<1>2. TypeOK'
  BY <1>1 DEF Inv, TypeOK
<1>3. EngineNow(e)'
  <2>1. /\ scripts[e] = NoScripts /\ memo[e] = NothingRemembered /\ pc[e] = "idle"
        /\ job[e] = NoJob /\ done[e] = <<>>
    BY <1>1 DEF Inv, EnginesOK, EngineOK, StoppedOK, JobOK
  <2>2. EngineOK(b, NoScripts, NothingRemembered, "idle", NoJob, <<>>, tried[e])
    BY FreshEngineOK, NothingRememberedType, NothingUsed, BuildsAssumption
       DEF EngineOK, MemoFits, JobOK, StoppedOK
  <2> QED BY <1>1, <2>1, <2>2 DEF EngineNow, Inv, TypeOK
<1>4. \A x \in Engines \ {e} : Kept(x)
  BY <1>1 DEF Inv, TypeOK, Kept
<1> QED BY <1>1, <1>2, <1>3, <1>4, OthersKept, DiskKept DEF Inv

\* Killed engines are as if they had never run, the others as they were.
LEMMA KillOK == ASSUME Inv, NEW killed \in SUBSET Engines, Kill(killed), disk' \in [Keys -> Artifact]
                PROVE  TypeOK' /\ EnginesOK'
<1>1. TypeOK'
  BY NoScriptsType, NothingRememberedType DEF Kill, Inv, TypeOK
<1>2. EnginesOK'
  <2> SUFFICES ASSUME NEW x \in Engines PROVE EngineNow(x)'
    BY DEF EnginesOK, EngineNow
  <2>1. CASE x \in killed
    <3>1. /\ build'[x] = None /\ scripts'[x] = NoScripts /\ memo'[x] = NothingRemembered
          /\ pc'[x] = "idle" /\ job'[x] = NoJob /\ done'[x] = <<>> /\ tried'[x] = {}
      BY <2>1 DEF Kill
    <3> QED BY <3>1, FreshEngineOK DEF EngineNow
  <2>2. CASE x \notin killed
    <3>1. Kept(x)
      BY <2>2 DEF Kill, Kept
    <3> QED BY <3>1 DEF Kept, EngineNow, Inv, EnginesOK
  <2> QED BY <2>1, <2>2
<1> QED BY <1>1, <1>2

\* Whatever is lost with the power, or damaged, no artifact verifies that is not right.
LEMMA PowerLossInv == ASSUME Inv, PowerLoss PROVE Inv'
<1>1. PICK undone \in SUBSET Keys :
        disk' = [k \in Keys |-> IF k \in undone THEN Missing
                                ELSE IF disk[k].state = "unsynced"
                                     THEN [disk[k] EXCEPT !.state = "cut"] ELSE disk[k]]
  BY DEF PowerLoss
<1>2. \A k \in Keys : disk'[k] = IF k \in undone THEN Missing ELSE disk[k]
  BY <1>1 DEF Inv, TypeOK, Artifact
<1>3. disk' \in [Keys -> Artifact]
  <2>1. Missing \in Artifact
    BY DEF Missing, Artifact
  <2>2. disk' = [k \in Keys |-> disk'[k]]
    BY <1>1
  <2> QED BY <1>2, <2>1, <2>2 DEF Inv, TypeOK
<1>4. DiskOK'
  BY <1>2 DEF PowerLoss, Inv, DiskOK, Missing
<1>5. TypeOK' /\ EnginesOK'
  BY <1>3, KillOK DEF PowerLoss
<1> QED BY <1>4, <1>5 DEF Inv

LEMMA KilledInv == ASSUME Inv, NEW e \in Engines, Killed(e) PROVE Inv'
<1>1. Kill({e}) /\ UNCHANGED <<disk, damaged>> /\ {e} \in SUBSET Engines
  BY DEF Killed
<1>2. TypeOK' /\ EnginesOK'
  BY <1>1, KillOK DEF Inv, TypeOK
<1> QED BY <1>1, <1>2, DiskKept DEF Inv

LEMMA OutsideInv == ASSUME Inv, NEW k \in Keys, Damage(k) \/ Delete(k) PROVE Inv'
<1>1. UNCHANGED engineVars
  BY DEF Damage, Delete
<1>2. PICK artifact \in {[js |-> <<"damaged">>, state |-> "cut"], Missing} :
        /\ disk' = [disk EXCEPT ![k] = artifact]
        /\ artifact = Missing \/ damaged' = damaged \cup {k}
        /\ damaged \subseteq damaged'
  BY DEF Damage, Delete
<1>3. artifact \in Artifact /\ artifact.state # "synced"
  BY <1>2 DEF Artifact, Missing
<1>4. disk' \in [Keys -> Artifact] /\ \A x \in Keys : disk'[x] = IF x = k THEN artifact ELSE disk[x]
  BY <1>2, <1>3 DEF Inv, TypeOK
<1>5. TypeOK' /\ EnginesOK'
  BY <1>1, <1>4 DEF engineVars, Inv, TypeOK, EnginesOK
<1>6. DiskOK'
  BY <1>2, <1>3, <1>4 DEF Inv, DiskOK
<1> QED BY <1>5, <1>6 DEF Inv
-----------------------------------------------------------------------------
(* Every step keeps all of this.                                           *)

LEMMA InvUnchanged == ASSUME Inv, UNCHANGED vars PROVE Inv'
<1>1. UNCHANGED engineVars /\ disk' = disk /\ damaged' = damaged
  BY DEF vars, diskVars
<1>2. TypeOK' /\ EnginesOK'
  BY <1>1 DEF engineVars, Inv, TypeOK, EnginesOK
<1> QED BY <1>1, <1>2, DiskKept DEF Inv

LEMMA StepInv == Inv /\ [Next]_vars => Inv'
<1> SUFFICES ASSUME Inv, [Next]_vars PROVE Inv'
  OBVIOUS
<1>1. ASSUME NEW e \in Engines, Transpile(e) PROVE Inv'
  BY <1>1, FromMemoInv, FromDiskInv, CompileInv DEF Transpile
<1>2. ASSUME NEW e \in Engines, Store(e) PROVE Inv'
  BY <1>2, StoreInv
<1>3. ASSUME NEW e \in Engines, Mount(e) \/ MountThrows(e) PROVE Inv'
  BY <1>3, MountInv, MountThrowsInv
<1>4. ASSUME NEW e \in Engines, Killed(e) PROVE Inv'
  BY <1>4, KilledInv
<1>5. ASSUME NEW e \in Engines, NEW id \in Ids, Load(e, id) PROVE Inv'
  BY <1>5, LoadInlineInv, LoadProjectInv, UnloadInv DEF Load
<1>6. ASSUME NEW e \in Engines, NEW b \in Builds, Start(e, b) PROVE Inv'
  BY <1>6, StartInv
<1>7. CASE PowerLoss
  BY <1>7, PowerLossInv
<1>8. ASSUME NEW k \in Keys, Damage(k) \/ Delete(k) PROVE Inv'
  BY <1>8, OutsideInv
<1>9. CASE UNCHANGED vars
  BY <1>9, InvUnchanged
<1> QED BY <1>1, <1>2, <1>3, <1>4, <1>5, <1>6, <1>7, <1>8, <1>9 DEF Next

\* The invariant the others rest on: what a memo holds and what an artifact that verifies
\* holds is the module of its key, compiled by the build of its key, at every step of every
\* load, store, kill and power loss.
THEOREM InvHolds == Spec => []Inv
BY InitInv, StepInv, PTL DEF Spec

\* Only an outsider leaves an artifact in the directory that is not whole, or not of its
\* key: ScriptCache::store and the power losses in the middle of it never do.
THEOREM ArtifactsAreWhole == Spec => []ArtifactsWhole
<1>1. Inv => ArtifactsWhole
  <2> SUFFICES ASSUME Inv, NEW k \in Keys \ damaged, disk[k] # Missing
               PROVE  /\ Verifies(disk[k])
                      /\ \E b \in Builds, m \in Modules : k = Key(b, m) /\ disk[k].js = <<b, m>>
    BY DEF ArtifactsWhole
  <2>1. disk[k].state = "synced" /\ disk[k].js = k
    BY DEF Inv, DiskOK
  <2>2. PICK b \in Builds, m \in Modules : k = Key(b, m)
    BY DEF Keys
  <2> QED BY <2>1, <2>2 DEF Verifies, Key
<1> QED BY <1>1, InvHolds, PTL

\* Whatever an engine loads, unloads and reloads, its memo has a result for every module of
\* its scripts, and nothing but those and what was tried since it last forgot.
THEOREM MemoIsExact == Spec => []MemoExact
<1>1. Inv => MemoExact
  BY DEF Inv, EnginesOK, EngineOK, MemoFits, MemoExact, Transpiles
<1> QED BY <1>1, InvHolds, PTL
-----------------------------------------------------------------------------
(* Engines with a cache do what engines without one do.                    *)

UncachedJob(j) == [id |-> j.id, modules |-> j.modules]
UncachedJobs == [e \in Engines |-> UncachedJob(job[e])]

LEMMA InitRefines == Init => Uncached!Init
BY DEF Init, Uncached!Init, NoJob, Uncached!NoJob, None, Uncached!None, NoScripts,
       Uncached!NoScripts, Empty, Uncached!Empty

\* The jobs of an engine without cache, where the load of one engine changes.
LEMMA JobChanges == ASSUME TypeOK, NEW e \in Engines, NEW j, job' = [job EXCEPT ![e] = j]
                    PROVE  UncachedJobs' = [UncachedJobs EXCEPT ![e] = UncachedJob(j)]
BY DEF TypeOK, UncachedJobs

LEMMA JobStays == ASSUME job' = job PROVE UncachedJobs' = UncachedJobs
BY DEF UncachedJobs

LEMMA NoUncachedJob == UncachedJob(NoJob) = Uncached!NoJob
BY DEF UncachedJob, NoJob, Uncached!NoJob, None, Uncached!None

\* A load in progress is one to an engine without cache, too.
LEMMA JobsAreJobs == ASSUME NEW j \in Job PROVE UncachedJob(j) # Uncached!NoJob
<1>1. Len(j.modules) > 0
  BY LoadsAreSequences DEF Job
<1>2. j.modules # <<>>
  BY <1>1
<1> QED BY <1>2 DEF UncachedJob, Uncached!NoJob

\* The end of a load is the end of one.
LEMMA EndsRefines == ASSUME Inv, NEW e \in Engines, NEW how, Ends(e, how)
                     PROVE  /\ UncachedJobs' = [UncachedJobs EXCEPT ![e] = Uncached!NoJob]
                            /\ outcome' = [outcome EXCEPT ![e] = how]
                            /\ build' = build
BY JobChanges, NoUncachedJob DEF Ends, Inv

LEMMA BeginsRefines ==
  ASSUME Inv, NEW e \in Engines, NEW id \in Ids, NEW modules \in Loads, NEW inline,
         Idle(e), Begins(e, id, modules, inline)
  PROVE  Uncached!Ask(e, id, modules)
<1>1. job[e] = NoJob
  BY DEF Idle, Inv, EnginesOK, EngineOK, JobOK
<1>2. UncachedJobs[e] = Uncached!NoJob
  BY <1>1, NoUncachedJob DEF UncachedJobs
<1>3. UncachedJobs' = [UncachedJobs EXCEPT ![e] = [id |-> id, modules |-> modules]]
  BY JobChanges DEF Begins, Inv, UncachedJob
<1>4. build[e] # Uncached!None
  BY DEF Idle, None, Uncached!None
<1> QED BY <1>2, <1>3, <1>4 DEF Uncached!Ask, UncachedJobs, UncachedJob, Begins
\* Every module of a load that is mounted was taken, and its results are those of the
\* engine's own build.
LEMMA MountableIsCompiled ==
  ASSUME Inv, NEW e \in Engines, pc[e] = "mount"
  PROVE  /\ Uncached!Acceptable(e, job[e].modules)
         /\ done[e] = Uncached!Compiled(build[e], job[e].modules)
<1>1. /\ job[e].modules \in Seq(Modules) /\ done[e] \in Seq(Builds \X Modules)
      /\ JobOK(build[e], memo[e], pc[e], job[e], done[e], tried[e])
  BY Working DEF Inv
<1>2. DOMAIN done[e] = DOMAIN job[e].modules
  BY <1>1 DEF JobOK
<1>3. \A i \in DOMAIN job[e].modules :
        done[e][i] = <<build[e], job[e].modules[i]>> /\ done[e][i] \in Accepts
  BY <1>1, <1>2 DEF JobOK
<1>4. Uncached!Acceptable(e, job[e].modules)
  BY <1>3 DEF Uncached!Acceptable, Accepts
<1>5. done[e] = [i \in DOMAIN done[e] |-> done[e][i]]
  BY <1>1
<1>6. done[e] = Uncached!Compiled(build[e], job[e].modules)
  BY <1>2, <1>3, <1>5 DEF Uncached!Compiled
<1> QED BY <1>4, <1>6

LEMMA MountRefines == ASSUME Inv, NEW e \in Engines, Mount(e) \/ MountThrows(e)
                      PROVE  Uncached!Mount(e)
<1>1. pc[e] = "mount" /\ job[e] \in Job
  BY Working DEF Mount, MountThrows, Inv
<1>2. UncachedJobs[e] = [id |-> job[e].id, modules |-> job[e].modules] /\ UncachedJobs[e] # Uncached!NoJob
  BY <1>1, JobsAreJobs DEF UncachedJobs, UncachedJob
<1>3. /\ Uncached!Acceptable(e, job[e].modules)
      /\ done[e] = Uncached!Compiled(build[e], job[e].modules)
  BY <1>1, MountableIsCompiled
<1>4. CASE Mount(e)
  <2>1. Ends(e, "loaded")
    BY <1>4 DEF Mount
  <2>2. Uncached!Ended(e, "loaded")
    BY <2>1, EndsRefines DEF Uncached!Ended, UncachedJobs, UncachedJob
  <2>3. scripts' = [scripts EXCEPT ![e][job[e].id] =
                      [modules |-> job[e].modules, js |-> Uncached!Compiled(build[e], job[e].modules)]]
    BY <1>3, <1>4 DEF Mount
  <2> QED BY <1>2, <1>3, <2>2, <2>3 DEF Uncached!Mount, UncachedJobs, UncachedJob
<1>5. CASE MountThrows(e)
  <2>1. Ends(e, "threw") /\ UNCHANGED scripts
    BY <1>5 DEF MountThrows
  <2>2. Uncached!Ended(e, "threw")
    BY <2>1, EndsRefines DEF Uncached!Ended, UncachedJobs, UncachedJob
  <2> QED BY <1>2, <1>3, <2>1, <2>2 DEF Uncached!Mount, UncachedJobs, UncachedJob
<1> QED BY <1>4, <1>5

\* A project is refused as soon as one of its modules does not parse.
LEMMA LoadProjectRefines ==
  ASSUME Inv, NEW e \in Engines, NEW id \in Ids, NEW modules \in Projects, LoadProject(e, id, modules)
  PROVE  Uncached!Ask(e, id, modules) \/ Uncached!Refuse(e)
<1>1. modules \in Loads /\ Idle(e)
  BY DEF Loads, LoadProject
<1>2. CASE \A i \in DOMAIN modules : <<build[e], modules[i]>> \in Parses
  BY <1>1, <1>2, BeginsRefines DEF LoadProject
<1>3. CASE ~ \A i \in DOMAIN modules : <<build[e], modules[i]>> \in Parses
  <2>1. Ends(e, "refused") /\ UNCHANGED scripts
    BY <1>3 DEF LoadProject
  <2>2. ~Uncached!Acceptable(e, modules)
    BY <1>3 DEF Uncached!Acceptable
  <2>3. Uncached!Ended(e, "refused")
    BY <2>1, EndsRefines DEF Uncached!Ended, UncachedJobs, UncachedJob
  <2>4. UncachedJobs[e] = Uncached!NoJob /\ build[e] # Uncached!None
    BY <1>1, NoUncachedJob
       DEF Idle, Inv, EnginesOK, EngineOK, JobOK, UncachedJobs, None, Uncached!None
  <2> QED BY <1>1, <2>1, <2>2, <2>3, <2>4 DEF Uncached!Refuse, UncachedJobs, UncachedJob, Loads
<1> QED BY <1>2, <1>3

\* A load is refused at the first module its build does not take.
LEMMA CompileRefines == ASSUME Inv, NEW e \in Engines, Compile(e)
                        PROVE  Uncached!Refuse(e) \/ UNCHANGED <<build, scripts, job, outcome>>
<1>1. /\ build[e] \in Builds /\ job[e].modules \in Loads /\ pc[e] = "lookup"
      /\ Len(done[e]) + 1 \in DOMAIN job[e].modules
  BY Working, CurrentIn DEF Compile, Inv
<1>2. CASE Compiles(e)
  BY <1>2 DEF Compile
<1>3. CASE ~Compiles(e)
  <2>1. Ends(e, "refused") /\ UNCHANGED scripts
    BY <1>3 DEF Compile
  <2>2. ~Uncached!Acceptable(e, job[e].modules)
    BY <1>1, <1>3 DEF Compiles, Current, Uncached!Acceptable
  <2>3. Uncached!Ended(e, "refused")
    BY <2>1, EndsRefines DEF Uncached!Ended, UncachedJobs, UncachedJob
  <2>4. build[e] # Uncached!None /\ UncachedJobs[e].modules = job[e].modules
    BY <1>1, BuildsAssumption DEF UncachedJobs, UncachedJob, None, Uncached!None
  <2> QED BY <1>1, <2>1, <2>2, <2>3, <2>4 DEF Uncached!Refuse, UncachedJobs, UncachedJob, Loads
<1> QED BY <1>2, <1>3

LEMMA UnloadRefines == ASSUME Inv, NEW e \in Engines, NEW id \in Ids, Unload(e, id)
                       PROVE  Uncached!Unload(e, id)
<1>1. UncachedJobs[e] = Uncached!NoJob
  BY NoUncachedJob DEF Unload, Idle, Inv, EnginesOK, EngineOK, JobOK, UncachedJobs
<1>2. scripts' = [scripts EXCEPT ![e][id] = Uncached!Empty] /\ UNCHANGED <<build, job, outcome>>
  BY DEF Unload, Empty, Uncached!Empty
<1> QED BY <1>1, <1>2 DEF Uncached!Unload, UncachedJobs, UncachedJob

LEMMA KillRefines == ASSUME Inv, NEW killed \in SUBSET Engines, Kill(killed)
                     PROVE  Uncached!Stop(killed)
<1>1. UncachedJobs' = [e \in Engines |-> IF e \in killed THEN Uncached!NoJob ELSE UncachedJobs[e]]
  BY NoUncachedJob DEF Kill, UncachedJobs
<1>2. NoScripts = Uncached!NoScripts /\ None = Uncached!None
  BY DEF NoScripts, Uncached!NoScripts, Empty, Uncached!Empty, None, Uncached!None
<1> QED BY <1>1, <1>2 DEF Kill, Uncached!Stop, UncachedJobs, UncachedJob

LEMMA StartRefines == ASSUME NEW e \in Engines, NEW b \in Builds, Start(e, b)
                      PROVE  Uncached!Start(e, b)
BY DEF Start, Uncached!Start, None, Uncached!None

LEMMA StepRefines == Inv /\ [Next]_vars => [Uncached!Next]_(Uncached!vars)
<1> SUFFICES ASSUME Inv, [Next]_vars PROVE [Uncached!Next]_(Uncached!vars)
  OBVIOUS
<1>1. ASSUME UNCHANGED <<build, scripts, job, outcome>> PROVE UNCHANGED Uncached!vars
  BY <1>1 DEF Uncached!vars
<1>2. ASSUME NEW e \in Engines, Transpile(e) PROVE [Uncached!Next]_(Uncached!vars)
  <2>1. FromMemo(e) \/ FromDisk(e) => UNCHANGED <<build, scripts, job, outcome>>
    BY DEF FromMemo, FromDisk, Transpiled
  <2>2. Compile(e) => Uncached!Refuse(e) \/ UNCHANGED <<build, scripts, job, outcome>>
    BY CompileRefines
  <2> QED BY <1>1, <1>2, <2>1, <2>2 DEF Transpile, Uncached!Next
<1>3. ASSUME NEW e \in Engines, Store(e) PROVE [Uncached!Next]_(Uncached!vars)
  BY <1>1, <1>3 DEF Store, Persist, StoreFails, Transpiled
<1>4. ASSUME NEW e \in Engines, Mount(e) \/ MountThrows(e) PROVE Uncached!Next
  BY <1>4, MountRefines DEF Uncached!Next
<1>5. ASSUME NEW e \in Engines, NEW id \in Ids, Load(e, id) PROVE Uncached!Next
  <2>1. ASSUME NEW s \in Inline, LoadInline(e, id, s)
        PROVE  \E modules \in Loads : Uncached!Ask(e, id, modules)
    <3> DEFINE modules == <<<<InlineType, s>>>>
    <3>1. modules \in Loads
      BY DEF Loads
    <3> HIDE DEF modules
    <3>2. Idle(e) /\ Begins(e, id, modules, TRUE)
      BY <2>1 DEF LoadInline, modules
    <3> QED BY <3>1, <3>2, BeginsRefines
  <2>2. ASSUME NEW modules \in Projects, LoadProject(e, id, modules)
        PROVE  modules \in Loads /\ (Uncached!Ask(e, id, modules) \/ Uncached!Refuse(e))
    BY <2>2, LoadProjectRefines DEF Loads
  <2>3. Unload(e, id) => Uncached!Unload(e, id)
    BY UnloadRefines
  <2> QED BY <1>5, <2>1, <2>2, <2>3 DEF Load, Uncached!Next, Loads
<1>6. ASSUME NEW e \in Engines, NEW b \in Builds, Start(e, b) PROVE Uncached!Next
  BY <1>6, StartRefines DEF Uncached!Next
<1>7. ASSUME NEW killed \in SUBSET Engines, Kill(killed) PROVE Uncached!Next
  BY <1>7, KillRefines DEF Uncached!Next
<1>8. ASSUME NEW e \in Engines, Killed(e) PROVE Uncached!Next
  BY <1>7, <1>8 DEF Killed
<1>9. CASE PowerLoss
  BY <1>7, <1>9 DEF PowerLoss
<1>10. ASSUME NEW k \in Keys, Damage(k) \/ Delete(k) PROVE [Uncached!Next]_(Uncached!vars)
  BY <1>1, <1>10 DEF Damage, Delete, engineVars
<1>11. CASE UNCHANGED vars
  BY <1>1, <1>11 DEF vars, engineVars
<1> QED BY <1>2, <1>3, <1>4, <1>5, <1>6, <1>8, <1>9, <1>10, <1>11 DEF Next

\* "A cache only saves work" (runner/transpile.rs): whatever is found in memory or on disk,
\* stored by whichever engine, cut short or damaged, each engine loads and refuses what it
\* would by compiling every module anew.
THEOREM ImplementsUncached == Spec => IsUncached
BY InvHolds, InitRefines, StepRefines, PTL DEF Spec, IsUncached, Uncached!Spec
=============================================================================
