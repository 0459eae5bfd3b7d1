-------------------------- MODULE Settling_proofs --------------------------
(***************************************************************************)
(* For every number of Promises, entries, jobs and deferred tasks, and     *)
(* whether scripts override `catch` or not: the types, and the three       *)
(* properties of Settling.                                                 *)
(***************************************************************************)
EXTENDS Settling, TLAPS

-----------------------------------------------------------------------------
(* The tracked rejections.                                                 *)

Once(s) == \A i, j \in DOMAIN s : s[i] = s[j] => i = j

LEMMA RemovedAt ==
  ASSUME NEW S, NEW s \in Seq(S), NEW k \in 1 .. Len(s)
  PROVE  /\ RemoveAt(s, k) \in Seq(S)
         /\ Len(RemoveAt(s, k)) = Len(s) - 1
         /\ \A i \in 1 .. Len(s) - 1 :
              RemoveAt(s, k)[i] = IF i < k THEN s[i] ELSE s[i + 1]
<1> DEFINE front == SubSeq(s, 1, k - 1)
           back == SubSeq(s, k + 1, Len(s))
<1>1. front \in Seq(S) /\ Len(front) = k - 1 /\ \A i \in 1 .. k - 1 : front[i] = s[i]
  OBVIOUS
<1>2. /\ back \in Seq(S) /\ Len(back) = Len(s) - k
      /\ \A i \in 1 .. Len(s) - k : back[i] = s[i + k]
  OBVIOUS
<1>3. RemoveAt(s, k) = front \o back
  BY DEF RemoveAt
<1> HIDE DEF front, back
<1>4. front \o back \in Seq(S) /\ Len(front \o back) = Len(s) - 1
  <2>1. front \in Seq(S) /\ back \in Seq(S) /\ Len(s) \in Nat
    BY <1>1, <1>2
  <2>2. front \o back \in Seq(S)
    BY <2>1
  <2>3. Len(front \o back) = Len(front) + Len(back)
    BY <2>1
  <2> QED BY <1>1, <1>2, <2>1, <2>2, <2>3
<1>5. ASSUME NEW i \in 1 .. Len(s) - 1
      PROVE  (front \o back)[i] = IF i < k THEN s[i] ELSE s[i + 1]
  <2>1. CASE i < k
    BY <2>1, <1>1, <1>2
  <2>2. CASE ~(i < k)
    <3>1. (front \o back)[i] = back[i - (k - 1)] /\ i - (k - 1) \in 1 .. Len(s) - k
      BY <2>2, <1>1, <1>2
    <3>2. back[i - (k - 1)] = s[i - (k - 1) + k]
      BY <3>1, <1>2
    <3> QED BY <2>2, <3>1, <3>2
  <2> QED BY <2>1, <2>2
<1> QED BY <1>3, <1>4, <1>5

\* Removing a Promise from the tracked ones leaves the others, each once.
LEMMA WithoutRemoves ==
  ASSUME NEW p, tracked \in Seq(Promises), Once(tracked)
  PROVE  /\ Without(p) \in Seq(Promises)
         /\ Once(Without(p))
         /\ Range(Without(p)) = Range(tracked) \ {p}
<1>1. CASE ~ \E i \in DOMAIN tracked : tracked[i] = p
  BY <1>1 DEF Without, Range
<1>2. CASE \E i \in DOMAIN tracked : tracked[i] = p
  <2> DEFINE k == CHOOSE i \in DOMAIN tracked : tracked[i] = p
             w == RemoveAt(tracked, k)
  <2>1. k \in 1 .. Len(tracked) /\ tracked[k] = p
    BY <1>2
  <2>2. Without(p) = w
    BY <1>2 DEF Without
  <2> HIDE DEF k
  <2>3. /\ w \in Seq(Promises) /\ Len(w) = Len(tracked) - 1
        /\ \A i \in 1 .. Len(tracked) - 1 : w[i] = IF i < k THEN tracked[i] ELSE tracked[i + 1]
    BY <2>1, RemovedAt
  <2> HIDE DEF w
  <2>4. DOMAIN w = 1 .. Len(tracked) - 1 /\ DOMAIN tracked = 1 .. Len(tracked)
    BY <2>3
  <2>5. Once(w)
    BY <2>1, <2>3, <2>4 DEF Once
  <2>6. ASSUME NEW i \in DOMAIN w PROVE w[i] \in Range(tracked) \ {p}
    BY <2>1, <2>3, <2>4 DEF Once, Range
  <2>7. ASSUME NEW i \in DOMAIN tracked, tracked[i] # p PROVE \E j \in DOMAIN w : w[j] = tracked[i]
    <3>1. CASE i < k
      BY <3>1, <2>1, <2>3, <2>4
    <3>2. CASE i > k
      <4>1. i - 1 \in DOMAIN w /\ w[i - 1] = tracked[i]
        BY <3>2, <2>1, <2>3, <2>4
      <4> QED BY <4>1
    <3> QED BY <3>1, <3>2, <2>1, <2>4, <2>7
  <2> QED BY <2>2, <2>3, <2>5, <2>6, <2>7 DEF Range
<1> QED BY <1>1, <1>2

LEMMA AppendTracked ==
  ASSUME NEW p \in Promises, tracked \in Seq(Promises), Once(tracked), p \notin Range(tracked)
  PROVE  /\ Append(tracked, p) \in Seq(Promises)
         /\ Once(Append(tracked, p))
         /\ Range(Append(tracked, p)) = Range(tracked) \cup {p}
<1> DEFINE w == Append(tracked, p)
<1>1. /\ w \in Seq(Promises) /\ DOMAIN w = 1 .. Len(tracked) + 1 /\ w[Len(tracked) + 1] = p
      /\ DOMAIN tracked = 1 .. Len(tracked)
      /\ \A i \in 1 .. Len(tracked) : w[i] = tracked[i]
  OBVIOUS
<1>2. Once(w)
  BY <1>1 DEF Once, Range
<1>3. Range(w) = Range(tracked) \cup {p}
  BY <1>1 DEF Range
<1> QED BY <1>1, <1>2, <1>3

-----------------------------------------------------------------------------
(* The types.                                                              *)

\* What keeps the counters within their bounds: an entry is left while one runs, and the
\* harvest looks at a task or past the last.
LoopInv == /\ pc \in {"entry", "decoding", "awaiting", "awaitingJob"} => left > 0
           /\ pc \in {"awaiting", "awaitingJob"} => awaited \in Promises
           /\ Len(tasks) <= MaxTasks
           /\ pc \in {"harvesting", "replying"} => at \in 1 .. Len(tasks) + 1
           /\ pc \notin {"harvesting", "replying"} => at = 0
           /\ Once(tracked)
           /\ \A p \in Range(tracked) : state[p] = "rejected"

Types == TypeOK /\ LoopInv

\* TypeOK, in parts.
PromiseTypes == /\ state \in [Promises -> {"pending", "fulfilled", "rejected"}]
                /\ handled \subseteq Promises
                /\ jobs \in 0 .. MaxJobs
                /\ tracked \in Seq(Promises)

LoopTypes == /\ tasks \in Seq(Promises)
             /\ op \in Kinds
             /\ pc \in {"idle", "entry", "decoding", "awaiting", "awaitingJob", "settling",
                        "settlingJob", "harvesting", "replying"}
             /\ left \in 0 .. MaxEntries
             /\ awaited \in Promises \cup {None}
             /\ at \in 0 .. MaxTasks + 1

Flags == /\ parked \in BOOLEAN
         /\ failed \in BOOLEAN
         /\ jobFailed \in BOOLEAN
         /\ panics \in BOOLEAN

ResultTypes == /\ result \in {"ok", "own", "job", "unhandled", "panicked"}
               /\ reported \in Promises \cup {None}
               /\ rejections \subseteq Promises
               /\ told \subseteq Promises
               /\ late \in Nat

LEMMA TypeParts == TypeOK <=> PromiseTypes /\ LoopTypes /\ Flags /\ ResultTypes
BY DEF TypeOK, PromiseTypes, LoopTypes, Flags, ResultTypes

LEMMA InitTypes == Init => Types
<1> SUFFICES ASSUME Init PROVE Types
  OBVIOUS
<1> USE PromisesAssumption, BoundsAssumption DEF Init
<1>1. PromiseTypes
  BY DEF PromiseTypes
<1>2. LoopTypes
  BY DEF LoopTypes, Kinds
<1>3. Flags
  BY DEF Flags
<1>4. ResultTypes
  BY DEF ResultTypes
<1>5. LoopInv
  BY DEF LoopInv, Once, Range
<1> QED BY <1>1, <1>2, <1>3, <1>4, <1>5, TypeParts DEF Types

\* What handlers, jobs and reasons do to the Promises keeps their types.
LEMMA HandledTypes ==
  ASSUME Types, NEW p \in Promises, Attached(p)
  PROVE  /\ handled' \subseteq Promises
         /\ jobs' \in 0 .. MaxJobs
         /\ late' \in Nat
         /\ tracked' \in Seq(Promises)
         /\ Once(tracked')
         /\ Range(tracked') = Range(tracked) \ {p}
<1>1. tracked \in Seq(Promises) /\ Once(tracked)
  BY DEF Types, TypeOK, LoopInv
<1>2. /\ tracked' \in Seq(Promises) /\ Once(tracked')
      /\ Range(tracked') = Range(tracked) \ {p}
  BY <1>1, WithoutRemoves DEF Attached
<1>3. jobs' \in 0 .. MaxJobs /\ late' \in Nat /\ handled' \subseteq Promises
  BY BoundsAssumption DEF Attached, Queues, Types, TypeOK
<1> QED BY <1>2, <1>3

LEMMA QueuedTypes ==
  ASSUME Types, NEW n \in Nat, Queues(n)
  PROVE  jobs' \in 0 .. MaxJobs /\ late' \in Nat
BY BoundsAssumption DEF Queues, Types, TypeOK

\* A Promise is tracked as it is rejected, which it is once.
LEMMA RejectedTypes ==
  ASSUME Types, NEW p \in Promises, Reject(p)
  PROVE  /\ tracked' \in Seq(Promises)
         /\ Once(tracked')
         /\ Range(tracked') = IF p \in handled THEN Range(tracked) ELSE Range(tracked) \cup {p}
         /\ \A q \in Range(tracked') : state'[q] = "rejected"
<1>1. tracked \in Seq(Promises) /\ Once(tracked) /\ p \notin Range(tracked)
  BY DEF Types, TypeOK, LoopInv, Reject
<1>2. /\ tracked' \in Seq(Promises) /\ Once(tracked')
      /\ Range(tracked') = IF p \in handled THEN Range(tracked) ELSE Range(tracked) \cup {p}
  BY <1>1, AppendTracked DEF Reject
<1>3. \A q \in Range(tracked) : q \in Promises /\ state[q] = "rejected"
  BY <1>1 DEF Types, LoopInv, Range
<1>4. \A q \in Range(tracked') : state'[q] = "rejected"
  BY <1>2, <1>3 DEF Reject, Types, TypeOK
<1> QED BY <1>2, <1>4

\* The harvest drops a task.
LEMMA DroppedTask ==
  ASSUME Types, pc = "harvesting", at <= Len(tasks)
  PROVE  /\ tasks[at] \in Promises
         /\ RemoveAt(tasks, at) \in Seq(Promises)
         /\ Len(RemoveAt(tasks, at)) = Len(tasks) - 1
         /\ Len(tasks) \in Nat
<1>1. tasks \in Seq(Promises) /\ at \in 1 .. Len(tasks)
  BY DEF Types, TypeOK, LoopInv
<1> QED BY <1>1, RemovedAt

\* Tracked promises, in the steps that leave the Promises and the handlers alone.
LEMMA ForgottenTypes ==
  ASSUME Types, NEW p \in Promises, state' = state, tracked' = tracked \/ tracked' = Without(p)
  PROVE  /\ tracked' \in Seq(Promises)
         /\ Once(tracked')
         /\ \A q \in Range(tracked') : state'[q] = "rejected"
<1>1. tracked \in Seq(Promises) /\ Once(tracked)
  BY DEF Types, TypeOK, LoopInv
<1> QED BY <1>1, WithoutRemoves DEF Types, LoopInv

\* The steps of scripts leave the loops of the engine, and the results, alone.
LEMMA ScriptTypes ==
  ASSUME Types, PromiseTypes', late' \in Nat, rejections' \subseteq Promises,
         parked' \in BOOLEAN, panics' \in BOOLEAN, UNCHANGED <<loopVars, resultVars, told>>,
         Once(tracked'), \A p \in Range(tracked') : state'[p] = "rejected"
  PROVE  Types'
<1>1. LoopTypes'
  BY DEF LoopTypes, loopVars, Types, TypeOK
<1>2. Flags'
  BY DEF Flags, loopVars, Types, TypeOK
<1>3. ResultTypes'
  BY DEF ResultTypes, resultVars, Types, TypeOK
<1>4. LoopInv'
  BY DEF LoopInv, loopVars, Types
<1> QED BY <1>1, <1>2, <1>3, <1>4, TypeParts, PTL DEF Types

\* The steps of the engine leave the queue, what is handled and the history alone, but for
\* what they say.
LEMMA EngineTypes ==
  ASSUME Types, LoopTypes', Flags', LoopInv', told' \subseteq Promises,
         tracked' \in Seq(Promises), UNCHANGED <<state, handled, rejections, late>>,
         jobs' \in 0 .. MaxJobs, UNCHANGED resultVars
  PROVE  Types'
<1>1. PromiseTypes'
  BY DEF PromiseTypes, Types, TypeOK
<1>2. ResultTypes'
  BY DEF ResultTypes, resultVars, Types, TypeOK
<1> QED BY <1>1, <1>2, TypeParts, PTL DEF Types

LEMMA TypesStep == Types /\ [Next]_vars => Types'
<1> SUFFICES ASSUME Types, [Next]_vars PROVE Types'
  OBVIOUS
<1> USE BoundsAssumption
<1>t. PromiseTypes /\ LoopTypes /\ Flags /\ ResultTypes /\ LoopInv
  BY TypeParts DEF Types
<1>s. Once(tracked) /\ \A p \in Range(tracked) : state[p] = "rejected"
  BY <1>t DEF LoopInv
<1>1. CASE EnqueueJob
  <2>1. PromiseTypes' /\ late' \in Nat
    BY <1>1, <1>t, QueuedTypes DEF EnqueueJob, PromiseTypes
  <2> QED BY <2>1, <1>1, <1>t, <1>s, ScriptTypes DEF EnqueueJob, Flags, ResultTypes
<1>2. ASSUME NEW p \in Promises, Fulfil(p) PROVE Types'
  <2>1. PromiseTypes' /\ late' \in Nat
    BY <1>2, <1>t, QueuedTypes DEF Fulfil, PromiseTypes
  <2>2. \A q \in Range(tracked') : state'[q] = "rejected"
    BY <1>2, <1>s, <1>t DEF Fulfil, PromiseTypes, Range
  <2> QED BY <2>1, <2>2, <1>2, <1>t, <1>s, ScriptTypes DEF Fulfil, Flags, ResultTypes
<1>3. ASSUME NEW p \in Promises, Reject(p) PROVE Types'
  <2>1. PromiseTypes' /\ late' \in Nat
    BY <1>3, <1>t, QueuedTypes, RejectedTypes DEF Reject, PromiseTypes
  <2> QED BY <2>1, <1>3, <1>t, RejectedTypes, ScriptTypes DEF Reject, Flags, ResultTypes
<1>4. ASSUME NEW p \in Promises, Handle(p) PROVE Types'
  <2>1. PromiseTypes' /\ late' \in Nat
    BY <1>4, <1>t, HandledTypes DEF Handle, PromiseTypes
  <2>2. \A q \in Range(tracked') : state'[q] = "rejected"
    BY <1>4, <1>s, HandledTypes DEF Handle
  <2> QED BY <2>1, <2>2, <1>4, <1>t, HandledTypes, ScriptTypes DEF Handle, Flags, ResultTypes
<1>5. CASE HostPanics
  <2>1. PromiseTypes' /\ late' \in Nat
    BY <1>5, <1>t DEF HostPanics, promiseVars, PromiseTypes, ResultTypes
  <2> QED BY <2>1, <1>5, <1>t, <1>s, ScriptTypes DEF HostPanics, promiseVars, ResultTypes
<1>6. ASSUME NEW kind \in Kinds, StartOperation(kind) PROVE Types'
  <2> USE <1>6, <1>t DEF StartOperation
  <2>1. PromiseTypes'
    BY DEF promiseVars, PromiseTypes
  <2>2. LoopTypes'
    BY DEF LoopTypes, EntryCounts
  <2>3. Flags'
    BY DEF Flags
  <2>4. ResultTypes'
    BY DEF ResultTypes
  <2>5. LoopInv'
    BY DEF LoopInv, EntryCounts, LoopTypes, promiseVars
  <2> QED BY <2>1, <2>2, <2>3, <2>4, <2>5, TypeParts, PTL DEF Types
<1>7. CASE EntryEnds
  <2> USE <1>7, <1>t DEF EntryEnds, NextEntry
  <2>1. LoopTypes'
    BY DEF LoopTypes, LoopInv
  <2>2. Flags'
    BY DEF Flags, historyVars
  <2>3. LoopInv'
    BY DEF LoopInv, LoopTypes, promiseVars
  <2> QED BY <2>1, <2>2, <2>3, EngineTypes DEF promiseVars, historyVars, PromiseTypes, ResultTypes
<1>8. ASSUME NEW p \in Promises, EntryAwaits(p) PROVE Types'
  <2> USE <1>8, <1>t DEF EntryAwaits
  <2>1. LoopTypes'
    BY DEF LoopTypes
  <2>2. Flags'
    BY DEF Flags, historyVars
  <2>3. LoopInv'
    BY DEF LoopInv, promiseVars
  <2> QED BY <2>1, <2>2, <2>3, EngineTypes DEF promiseVars, historyVars, PromiseTypes, ResultTypes
<1>9. CASE AwaitEnds
  <2>1. awaited \in Promises
    BY <1>9, <1>t DEF AwaitEnds, LoopInv
  <2>2. /\ tracked' \in Seq(Promises) /\ Once(tracked')
        /\ \A q \in Range(tracked') : state'[q] = "rejected"
    BY <2>1, <1>9, ForgottenTypes DEF AwaitEnds
  <2>3. LoopTypes'
    BY <1>9, <1>t DEF AwaitEnds, NextEntry, LoopTypes, LoopInv
  <2>4. failed' \in BOOLEAN
    BY <1>9, <1>t DEF AwaitEnds, Flags
  <2>5. Flags'
    BY <2>4, <1>9, <1>t DEF AwaitEnds, Flags
  <2>6. LoopInv'
    BY <2>2, <1>9, <1>t DEF AwaitEnds, NextEntry, LoopInv, LoopTypes
  <2>7. told' \subseteq Promises
    BY <2>1, <1>9, <1>t DEF AwaitEnds, ResultTypes
  <2> QED BY <2>2, <2>3, <2>5, <2>6, <2>7, <1>9, <1>t, EngineTypes DEF AwaitEnds, PromiseTypes
<1>10. ASSUME NEW p \in Promises, Watch(p) PROVE Types'
  <2>1. /\ PromiseTypes' /\ late' \in Nat /\ Once(tracked')
        /\ \A q \in Range(tracked') : state'[q] = "rejected"
    <3>1. CASE Attached(p)
      BY <3>1, <1>10, <1>t, <1>s, HandledTypes DEF Watch, PromiseTypes
    <3>2. CASE UNCHANGED <<handled, tracked, jobs, late>>
      BY <3>2, <1>10, <1>t, <1>s DEF Watch, PromiseTypes, ResultTypes
    <3> QED BY <3>1, <3>2, <1>10 DEF Watch
  <2>2. tasks' \in Seq(Promises) /\ Len(tasks') = Len(tasks) + 1 /\ Len(tasks) \in Nat
    BY <1>10, <1>t DEF Watch, LoopTypes
  <2>3. LoopTypes'
    BY <2>2, <1>10, <1>t DEF Watch, NextEntry, LoopTypes, LoopInv
  <2>4. Flags' /\ ResultTypes'
    BY <2>1, <1>10, <1>t DEF Watch, Flags, ResultTypes, resultVars
  <2>5. LoopInv'
    BY <2>1, <2>2, <1>10, <1>t DEF Watch, NextEntry, LoopInv, LoopTypes
  <2> QED BY <2>1, <2>3, <2>4, <2>5, TypeParts, PTL DEF Types
<1>11. CASE StartJob
  <2> USE <1>11, <1>t DEF StartJob
  <2>1. LoopTypes'
    BY DEF LoopTypes
  <2>2. Flags'
    BY DEF Flags, historyVars
  <2>3. LoopInv'
    BY DEF LoopInv
  <2>4. jobs' \in 0 .. MaxJobs
    BY DEF PromiseTypes
  <2> QED BY <2>1, <2>2, <2>3, <2>4, EngineTypes DEF historyVars, PromiseTypes, ResultTypes
<1>12. CASE JobEnds
  <2> USE <1>12, <1>t DEF JobEnds
  <2>1. LoopTypes'
    BY DEF LoopTypes
  <2>2. Flags'
    BY DEF Flags, historyVars
  <2>3. LoopInv'
    BY DEF LoopInv, promiseVars
  <2> QED BY <2>1, <2>2, <2>3, EngineTypes DEF promiseVars, historyVars, PromiseTypes, ResultTypes
<1>13. CASE StartHarvest
  <2> USE <1>13, <1>t DEF StartHarvest
  <2>1. Len(tasks) \in Nat
    BY DEF LoopTypes
  <2>2. LoopTypes'
    BY DEF LoopTypes
  <2>3. Flags'
    BY DEF Flags, historyVars
  <2>4. LoopInv'
    BY <2>1 DEF LoopInv, promiseVars
  <2> QED BY <2>2, <2>3, <2>4, EngineTypes DEF promiseVars, historyVars, PromiseTypes, ResultTypes
<1>14. CASE Poll
  <2> DEFINE p == tasks[at]
  <2>1. /\ p \in Promises
        /\ RemoveAt(tasks, at) \in Seq(Promises)
        /\ Len(RemoveAt(tasks, at)) = Len(tasks) - 1
        /\ Len(tasks) \in Nat
    BY <1>14, DroppedTask DEF Poll
  <2>2. tracked' = tracked \/ tracked' = Without(p)
    BY <1>14 DEF Poll
  <2>3. (tasks' = tasks /\ at' = at + 1) \/ (tasks' = RemoveAt(tasks, at) /\ at' = at)
    BY <1>14 DEF Poll
  <2>4. pc' \in {"harvesting", "replying"}
    BY <1>14 DEF Poll
  <2>5. told' \subseteq told \cup {p}
    BY <1>14 DEF Poll
  <2> HIDE DEF p
  <2>6. /\ tracked' \in Seq(Promises) /\ Once(tracked')
        /\ \A q \in Range(tracked') : state'[q] = "rejected"
    BY <2>1, <2>2, <2>3, <2>4, <2>5, <1>14, ForgottenTypes DEF Poll
  <2>7. at \in 1 .. Len(tasks) /\ Len(tasks) <= MaxTasks
    BY <1>14, <1>t, <2>1 DEF Poll, LoopInv
  <2>8. LoopTypes'
    BY <2>1, <2>2, <2>3, <2>4, <2>5, <2>7, <1>14, <1>t DEF Poll, LoopTypes
  <2>9. Flags'
    BY <1>14, <1>t DEF Poll, Flags
  <2>10. LoopInv'
    BY <2>1, <2>2, <2>3, <2>4, <2>5, <2>6, <2>7 DEF LoopInv
  <2>11. told' \subseteq Promises
    BY <2>1, <2>2, <2>3, <2>4, <2>5, <1>t DEF ResultTypes
  <2> QED BY <2>6, <2>8, <2>9, <2>10, <2>11, <1>14, <1>t, EngineTypes DEF Poll, PromiseTypes
<1>15. CASE ReplyEnds
  <2> USE <1>15, <1>t DEF ReplyEnds
  <2>1. LoopTypes'
    BY DEF LoopTypes
  <2>2. Flags'
    BY DEF Flags, historyVars
  <2>3. LoopInv'
    BY DEF LoopInv, promiseVars
  <2> QED BY <2>1, <2>2, <2>3, EngineTypes DEF promiseVars, historyVars, PromiseTypes, ResultTypes
<1>16. CASE Report
  <2> USE <1>16, <1>t DEF Report
  <2>1. PromiseTypes'
    BY DEF PromiseTypes
  <2>2. LoopTypes'
    BY DEF LoopTypes
  <2>3. parked' \in BOOLEAN
    BY DEF Flags
  <2>4. Flags'
    BY <2>3 DEF Flags, historyVars
  <2>5. result' = "unhandled" => tracked # <<>>
    BY DEF Outcome
  <2>6. result' = "unhandled" => tracked[1] \in Promises
    BY <2>5 DEF PromiseTypes
  <2>7. result' \in {"ok", "own", "job", "unhandled", "panicked"}
    BY DEF Outcome
  <2>8. ResultTypes'
    BY <2>6, <2>7 DEF ResultTypes, historyVars
  <2>9. LoopInv'
    BY DEF LoopInv, Once, Range
  <2> QED BY <2>1, <2>2, <2>4, <2>8, <2>9, TypeParts, PTL DEF Types
<1>17. CASE UNCHANGED vars
  <2> USE <1>17, <1>t DEF vars, promiseVars, loopVars, resultVars, historyVars
  <2>1. LoopTypes'
    BY DEF LoopTypes
  <2>2. Flags'
    BY DEF Flags
  <2>3. LoopInv'
    BY DEF LoopInv
  <2> QED BY <2>1, <2>2, <2>3, EngineTypes DEF PromiseTypes, ResultTypes
<1> QED
  BY <1>1, <1>2, <1>3, <1>4, <1>5, <1>6, <1>7, <1>8, <1>9, <1>10, <1>11, <1>12, <1>13, <1>14,
     <1>15, <1>16, <1>17 DEF Next

\* Every state has the types of TypeOK.
THEOREM TypeCorrect == Spec => []TypeOK
<1>1. Spec => []Types
  BY InitTypes, TypesStep, PTL DEF Spec
<1>2. Types => TypeOK
  BY DEF Types
<1> QED BY <1>1, <1>2, PTL

-----------------------------------------------------------------------------
(* Parked panics.                                                          *)

\* An operation's panics are parked until it reports, and none is left by then.
PanicInv == /\ pc # "idle" => (parked <=> panics)
            /\ pc = "idle" => ~parked /\ (result = "panicked" <=> panics)

LEMMA PanicStep == Types /\ PanicInv /\ [Next]_vars => PanicInv'
<1> SUFFICES ASSUME Types, PanicInv, [Next]_vars PROVE PanicInv'
  OBVIOUS
<1> USE DEF PanicInv
<1>1. CASE UNCHANGED <<parked, panics, result>> /\ (pc' = "idle" <=> pc = "idle")
  BY <1>1
<1>2. CASE HostPanics
  BY <1>2 DEF HostPanics, Running, loopVars
<1>3. ASSUME NEW kind \in Kinds, StartOperation(kind) PROVE PanicInv'
  BY <1>3 DEF StartOperation
<1>4. CASE Report
  <2>1. result' = "panicked" <=> parked
    BY <1>4 DEF Report, Outcome
  <2>2. pc = "harvesting" /\ pc' = "idle" /\ panics' = panics
    BY <1>4 DEF Report, historyVars
  <2>3. ~ parked'
    BY <2>1, <1>4 DEF Report
  <2> QED BY <2>1, <2>2, <2>3
<1>5. ASSUME NEW p \in Promises, Fulfil(p) \/ Reject(p) \/ Handle(p) \/ EntryAwaits(p) \/ Watch(p)
      PROVE  UNCHANGED <<parked, panics, result>> /\ (pc' = "idle" <=> pc = "idle")
  BY <1>5 DEF Fulfil, Reject, Handle, EntryAwaits, Watch, NextEntry, loopVars, resultVars, historyVars
<1>6. ASSUME EnqueueJob \/ EntryEnds \/ AwaitEnds \/ StartJob \/ JobEnds
      PROVE  UNCHANGED <<parked, panics, result>> /\ (pc' = "idle" <=> pc = "idle")
  BY <1>6 DEF EnqueueJob, EntryEnds, AwaitEnds, StartJob, JobEnds, NextEntry, loopVars, resultVars,
              historyVars
<1>7. ASSUME StartHarvest \/ Poll \/ ReplyEnds \/ UNCHANGED vars
      PROVE  UNCHANGED <<parked, panics, result>> /\ (pc' = "idle" <=> pc = "idle")
  BY <1>7 DEF StartHarvest, Poll, ReplyEnds, vars, loopVars, resultVars, historyVars
<1> QED BY <1>1, <1>2, <1>3, <1>4, <1>5, <1>6, <1>7 DEF Next

\* A panic of a host function surfaces from the operation it happened in, and nothing else
\* does.
THEOREM PanicSurfacesHolds == Spec => []PanicSurfaces
<1>1. Init => PanicInv
  BY DEF Init, PanicInv
<1>2. Spec => []PanicInv
  BY <1>1, InitTypes, TypesStep, PanicStep, PTL DEF Spec
<1>3. PanicInv => PanicSurfaces
  BY DEF PanicInv, PanicSurfaces
<1> QED BY <1>2, <1>3, PTL

-----------------------------------------------------------------------------
(* What the next operation inherits.                                       *)

\* Once the job loop is through, the jobs in the queue were queued by replies.
JobsInv == pc \in {"idle", "harvesting", "replying"} => jobs <= late

\* Nothing is tracked between operations.
IdleInv == pc = "idle" => tracked = <<>>

LEMMA LeftoverStep == Types /\ JobsInv /\ IdleInv /\ [Next]_vars => JobsInv' /\ IdleInv'
<1> SUFFICES ASSUME Types, JobsInv, IdleInv, [Next]_vars PROVE JobsInv' /\ IdleInv'
  OBVIOUS
<1>t. jobs \in Nat /\ late \in Nat
  BY BoundsAssumption DEF Types, TypeOK
<1> USE DEF JobsInv, IdleInv
<1>1. ASSUME NEW n \in Nat, Queues(n), Running, pc' = pc PROVE JobsInv' /\ IdleInv'
  BY <1>1, <1>t DEF Queues, Running
<1>2. CASE EnqueueJob \/ HostPanics
  <2>1. CASE EnqueueJob
    BY <2>1, <1>1 DEF EnqueueJob, loopVars
  <2>2. CASE HostPanics
    BY <2>2 DEF HostPanics, Running, promiseVars, loopVars
  <2> QED BY <2>1, <2>2, <1>2
<1>3. ASSUME NEW p \in Promises, Fulfil(p) \/ Reject(p) \/ Handle(p) PROVE JobsInv' /\ IdleInv'
  <2>1. \E n \in Nat : Queues(n) /\ Running /\ pc' = pc
    BY <1>3 DEF Fulfil, Reject, Handle, Attached, loopVars
  <2> QED BY <2>1, <1>1
<1>4. ASSUME NEW p \in Promises, EntryAwaits(p) \/ Watch(p) PROVE JobsInv' /\ IdleInv'
  BY <1>4 DEF EntryAwaits, Watch, NextEntry
<1>5. ASSUME NEW kind \in Kinds, StartOperation(kind) PROVE JobsInv' /\ IdleInv'
  BY <1>5 DEF StartOperation
<1>6. CASE EntryEnds \/ AwaitEnds \/ StartJob \/ JobEnds
  BY <1>6 DEF EntryEnds, AwaitEnds, StartJob, JobEnds, NextEntry
<1>7. CASE StartHarvest
  BY <1>7, <1>t DEF StartHarvest, Drained, promiseVars, historyVars
<1>8. CASE Poll \/ ReplyEnds
  BY <1>8 DEF Poll, ReplyEnds, promiseVars, historyVars
<1>9. CASE Report
  BY <1>9 DEF Report, historyVars
<1>10. CASE UNCHANGED vars
  BY <1>10 DEF vars, promiseVars, loopVars, historyVars
<1> QED BY <1>2, <1>3, <1>4, <1>5, <1>6, <1>7, <1>8, <1>9, <1>10 DEF Next

\* No rejection and no panic is left to the next operation, and no job but those that the
\* getters of deferred replies queued.
THEOREM NothingLeaksHolds == Spec => []NothingLeaks
<1>1. Init => PanicInv /\ JobsInv /\ IdleInv
  BY DEF Init, PanicInv, JobsInv, IdleInv
<1>2. Spec => [](PanicInv /\ JobsInv /\ IdleInv)
  BY <1>1, InitTypes, TypesStep, PanicStep, LeftoverStep, PTL DEF Spec
<1>3. PanicInv /\ JobsInv /\ IdleInv => NothingLeaks
  BY DEF PanicInv, JobsInv, IdleInv, NothingLeaks
<1> QED BY <1>2, <1>3, PTL

-----------------------------------------------------------------------------
(* Rejections.                                                             *)

\* While an operation runs, the tracked Promises are those rejected in it that nobody
\* handled, but for what the host was given: those are tracked only if an error of the
\* operation's own is to be reported.
TrackedExact == /\ \A p \in Range(tracked) : p \in rejections /\ p \notin handled
                /\ \A p \in Range(tracked) : p \in told => failed
                /\ \A p \in Unhandled : p \in Range(tracked)

RejectedInv == \A p \in rejections \cup told : state[p] = "rejected"

RejectionsInv == /\ RejectedInv
                 /\ pc # "idle" => TrackedExact
                 /\ RejectionsReported

\* A step within an operation that changes nothing of this.
LEMMA QuietRejections ==
  ASSUME RejectionsInv, pc # "idle", pc' # "idle", failed => failed',
         UNCHANGED <<state, handled, tracked, rejections, told>>
  PROVE  RejectionsInv'
<1>1. RejectedInv'
  BY DEF RejectionsInv, RejectedInv
<1>2. TrackedExact'
  BY DEF RejectionsInv, TrackedExact, Unhandled
<1>3. RejectionsReported'
  BY DEF RejectionsReported
<1> QED BY <1>1, <1>2, <1>3 DEF RejectionsInv

\* The same, when a Promise leaves the tracked ones, because it is handled or told of, or
\* was never rejected.
LEMMA ForgetRejections ==
  ASSUME Types, RejectionsInv, pc # "idle", pc' # "idle", failed => failed', NEW p \in Promises,
         state' = state, rejections' = rejections, Range(tracked') = Range(tracked) \ {p},
         \A q : q # p => (q \in handled' <=> q \in handled) /\ (q \in told' <=> q \in told),
         p \in told' => p \in told \/ state[p] = "rejected",
         p \in handled' \/ p \in told' \/ state[p] # "rejected"
  PROVE  RejectionsInv'
<1>0. RejectedInv /\ TrackedExact
  BY DEF RejectionsInv
<1>1. RejectedInv'
  BY <1>0 DEF RejectedInv
<1>2. \A q \in Range(tracked') : q \in rejections' /\ q \notin handled'
  BY <1>0 DEF TrackedExact
<1>3. \A q \in Range(tracked') : q \in told' => failed'
  BY <1>0 DEF TrackedExact
<1>4. \A q \in Unhandled' : q \in Range(tracked')
  BY <1>0 DEF TrackedExact, RejectedInv, Unhandled
<1>5. RejectionsReported'
  BY DEF RejectionsReported
<1> QED BY <1>1, <1>2, <1>3, <1>4, <1>5 DEF RejectionsInv, TrackedExact

LEMMA RejectionsStep == Types /\ IdleInv /\ RejectionsInv /\ [Next]_vars => RejectionsInv'
<1> SUFFICES ASSUME Types, IdleInv, RejectionsInv, [Next]_vars PROVE RejectionsInv'
  OBVIOUS
<1>t. /\ tracked \in Seq(Promises) /\ Once(tracked) /\ failed \in BOOLEAN
      /\ state \in [Promises -> {"pending", "fulfilled", "rejected"}]
      /\ rejections \subseteq Promises /\ told \subseteq Promises
  BY DEF Types, TypeOK, LoopInv
<1>r. RejectedInv /\ (pc # "idle" => TrackedExact)
  BY DEF RejectionsInv
<1>1. CASE EnqueueJob \/ HostPanics
  BY <1>1, QuietRejections DEF EnqueueJob, HostPanics, Running, promiseVars, loopVars
<1>2. CASE EntryEnds
  <2>1. pc # "idle" /\ pc' # "idle" /\ UNCHANGED <<state, handled, tracked, rejections, told>>
    BY <1>2 DEF EntryEnds, NextEntry, promiseVars, historyVars
  <2>2. failed => failed'
    BY <1>2, <1>t DEF EntryEnds
  <2> QED BY <2>1, <2>2, QuietRejections
<1>3. ASSUME NEW p \in Promises, EntryAwaits(p) PROVE RejectionsInv'
  BY <1>3, QuietRejections DEF EntryAwaits, promiseVars, historyVars
<1>4. CASE StartJob \/ JobEnds
  <2>1. pc # "idle" /\ pc' # "idle" /\ UNCHANGED <<state, handled, tracked, rejections, told>>
    BY <1>4 DEF StartJob, JobEnds, promiseVars, historyVars
  <2>2. failed => failed'
    BY <1>4 DEF StartJob, JobEnds
  <2> QED BY <2>1, <2>2, QuietRejections
<1>5. CASE StartHarvest \/ ReplyEnds
  BY <1>5, QuietRejections DEF StartHarvest, ReplyEnds, promiseVars, historyVars
<1>6. ASSUME NEW p \in Promises, Fulfil(p) PROVE RejectionsInv'
  <2>1. /\ pc # "idle" /\ pc' # "idle" /\ state[p] = "pending"
        /\ state' = [state EXCEPT ![p] = "fulfilled"]
        /\ UNCHANGED <<handled, tracked, rejections, told, failed>>
    BY <1>6 DEF Fulfil, Running, loopVars
  <2>2. RejectedInv'
    BY <2>1, <1>r, <1>t DEF RejectedInv
  <2>3. TrackedExact'
    BY <2>1, <1>r DEF TrackedExact, Unhandled
  <2>4. RejectionsReported'
    BY <2>1 DEF RejectionsReported
  <2> QED BY <2>2, <2>3, <2>4 DEF RejectionsInv
<1>7. ASSUME NEW p \in Promises, Reject(p) PROVE RejectionsInv'
  <2>1. /\ pc # "idle" /\ pc' # "idle" /\ state[p] = "pending"
        /\ state' = [state EXCEPT ![p] = "rejected"]
        /\ rejections' = rejections \cup {p}
        /\ UNCHANGED <<handled, told, failed>>
    BY <1>7 DEF Reject, Running, loopVars
  <2>2. Range(tracked') = IF p \in handled THEN Range(tracked) ELSE Range(tracked) \cup {p}
    BY <1>7, RejectedTypes
  <2>3. p \notin told
    BY <2>1, <1>r DEF RejectedInv
  <2>4. RejectedInv'
    BY <2>1, <1>r, <1>t DEF RejectedInv
  <2>5. \A q \in Range(tracked') : q \in rejections' /\ q \notin handled'
    BY <2>1, <2>2, <1>r DEF TrackedExact
  <2>6. \A q \in Range(tracked') : q \in told' => failed'
    BY <2>1, <2>2, <2>3, <1>r DEF TrackedExact
  <2>7. \A q \in Unhandled' : q \in Range(tracked')
    BY <2>1, <2>2, <1>r DEF TrackedExact, Unhandled
  <2>8. RejectionsReported'
    BY <2>1 DEF RejectionsReported
  <2> QED BY <2>4, <2>5, <2>6, <2>7, <2>8 DEF RejectionsInv, TrackedExact
<1>8. ASSUME NEW p \in Promises, Handle(p) PROVE RejectionsInv'
  <2>1. Attached(p) /\ pc # "idle" /\ pc' # "idle" /\ UNCHANGED <<state, rejections, told, failed>>
    BY <1>8 DEF Handle, Running, loopVars
  <2>2. Range(tracked') = Range(tracked) \ {p} /\ handled' = handled \cup {p}
    BY <2>1, HandledTypes DEF Attached
  <2> QED BY <2>1, <2>2, ForgetRejections
<1>9. ASSUME NEW p \in Promises, Watch(p) PROVE RejectionsInv'
  <2>1. pc # "idle" /\ pc' # "idle" /\ UNCHANGED <<state, rejections, told, failed>>
    BY <1>9 DEF Watch, NextEntry
  <2>2. CASE Attached(p)
    <3>1. Range(tracked') = Range(tracked) \ {p} /\ handled' = handled \cup {p}
      BY <2>2, HandledTypes DEF Attached
    <3> QED BY <2>1, <3>1, ForgetRejections
  <2>3. CASE UNCHANGED <<handled, tracked, jobs, late>>
    BY <2>1, <2>3, QuietRejections
  <2> QED BY <2>2, <2>3, <1>9 DEF Watch
<1>10. CASE AwaitEnds
  <2> DEFINE p == awaited
  <2>1. /\ p \in Promises /\ pc # "idle" /\ pc' # "idle" /\ UNCHANGED <<state, handled, rejections>>
        /\ told' = IF state[p] = "rejected" THEN told \cup {p} ELSE told
    BY <1>10 DEF AwaitEnds, NextEntry, Types, LoopInv
  <2>2. failed => failed'
    BY <1>10, <1>t DEF AwaitEnds
  <2>3. CASE op # "load"
    <3>1. Range(tracked') = Range(tracked) \ {p}
      BY <2>3, <1>10, <1>t, WithoutRemoves DEF AwaitEnds
    <3> HIDE DEF p
    <3> QED BY <2>1, <2>2, <3>1, ForgetRejections
  <2>4. CASE op = "load"
    <3>1. tracked' = tracked /\ (state[p] = "rejected" => failed')
      BY <2>4, <1>10, <1>t DEF AwaitEnds
    <3> HIDE DEF p
    <3>2. RejectedInv'
      BY <2>1, <1>r DEF RejectedInv
    <3>3. TrackedExact'
      <4>1. \A q \in Range(tracked') : q \in rejections' /\ q \notin handled'
        BY <2>1, <3>1, <1>r DEF TrackedExact
      <4>2. \A q \in Range(tracked') : q \in told' => failed'
        BY <2>1, <2>2, <3>1, <1>r DEF TrackedExact
      <4>3. \A q \in Unhandled' : q \in Range(tracked')
        BY <2>1, <3>1, <1>r DEF TrackedExact, Unhandled
      <4> QED BY <4>1, <4>2, <4>3 DEF TrackedExact
    <3>4. RejectionsReported'
      BY <2>1 DEF RejectionsReported
    <3> QED BY <3>2, <3>3, <3>4 DEF RejectionsInv
  <2> QED BY <2>3, <2>4
<1>11. CASE Poll
  <2> DEFINE p == tasks[at]
  <2>1. p \in Promises
    BY <1>11, DroppedTask DEF Poll
  <2>2. pc # "idle" /\ pc' # "idle" /\ UNCHANGED <<state, handled, rejections, failed>>
    BY <1>11 DEF Poll
  <2>3. CASE state[p] = "pending"
    <3>1. tracked' = tracked /\ told' = told
      BY <2>3, <1>11 DEF Poll
    <3> HIDE DEF p
    <3> QED BY <2>2, <3>1, QuietRejections
  <2>4. CASE state[p] # "pending"
    <3>1. tracked' = Without(p)
      BY <2>4, <1>11 DEF Poll
    <3>2. told' = IF state[p] = "rejected" THEN told \cup {p} ELSE told
      BY <2>4, <1>11 DEF Poll
    <3> HIDE DEF p
    <3>3. Range(tracked') = Range(tracked) \ {p}
      BY <3>1, <1>t, WithoutRemoves
    <3> QED BY <2>1, <2>2, <3>2, <3>3, ForgetRejections
  <2> QED BY <2>3, <2>4
<1>12. ASSUME NEW kind \in Kinds, StartOperation(kind) PROVE RejectionsInv'
  <2>1. /\ tracked' = <<>> /\ rejections' = {} /\ told' = {} /\ pc' = "entry"
    BY <1>12 DEF StartOperation, promiseVars, IdleInv
  <2>2. Range(tracked') = {}
    BY <2>1 DEF Range
  <2> QED BY <2>1, <2>2 DEF RejectionsInv, RejectedInv, TrackedExact, Unhandled, RejectionsReported
<1>13. CASE Report
  <2>1. /\ pc # "idle" /\ pc' = "idle" /\ UNCHANGED <<state, handled, rejections, told>>
        /\ reported' = IF result' = "unhandled" THEN tracked[1] ELSE None
    BY <1>13 DEF Report, historyVars
  <2>2. Unhandled' = Unhandled
    BY <2>1 DEF Unhandled
  <2>3. TrackedExact
    BY <2>1, <1>r
  <2>4. ASSUME result' \in {"ok", "unhandled"}
        PROVE  ~failed /\ (result' = "unhandled" <=> tracked # <<>>)
    BY <2>4, <1>13 DEF Report, Outcome
  <2>5. ASSUME result' \in {"ok", "unhandled"} PROVE Unhandled = Range(tracked)
    BY <2>3, <2>4, <2>5, <1>t DEF TrackedExact, Unhandled
  <2>6. tracked # <<>> => tracked[1] \in Range(tracked)
    BY <1>t DEF Range
  <2>7. tracked = <<>> => Range(tracked) = {}
    BY DEF Range
  <2>8. RejectionsReported'
    BY <2>1, <2>2, <2>4, <2>5, <2>6, <2>7 DEF RejectionsReported
  <2>9. RejectedInv'
    BY <2>1, <1>r DEF RejectedInv
  <2> QED BY <2>1, <2>8, <2>9 DEF RejectionsInv
<1>14. CASE UNCHANGED vars
  BY <1>14 DEF vars, promiseVars, loopVars, resultVars, historyVars, RejectionsInv, RejectedInv,
               TrackedExact, Unhandled, RejectionsReported
<1> QED
  BY <1>1, <1>2, <1>3, <1>4, <1>5, <1>6, <1>7, <1>8, <1>9, <1>10, <1>11, <1>12, <1>13, <1>14
     DEF Next

\* An operation without another error fails exactly when a Promise rejected in it was
\* neither handled nor given to the host, and then with one of those.
THEOREM RejectionsReportedHolds == Spec => []RejectionsReported
<1>1. Init => JobsInv /\ IdleInv /\ RejectionsInv
  BY DEF Init, JobsInv, IdleInv, RejectionsInv, RejectedInv, RejectionsReported, Unhandled
<1>2. Spec => []RejectionsInv
  BY <1>1, InitTypes, TypesStep, LeftoverStep, RejectionsStep, PTL DEF Spec
<1>3. RejectionsInv => RejectionsReported
  BY DEF RejectionsInv
<1> QED BY <1>2, <1>3, PTL
=============================================================================
