--------------------------- MODULE Deferred_proofs ---------------------------
(***************************************************************************)
(* Deferred, for any number of scripts, requests, calls and handlers: the  *)
(* count of tasks, the answers that are final, the requests that still     *)
(* wait for something, and the order and the versions of the replies.      *)
(***************************************************************************)
EXTENDS Deferred, FiniteSetTheorems, TLAPS

-----------------------------------------------------------------------------
(* The inductive invariant.                                                *)

Slots == [script : 0 .. NumScripts, state : {"waiting", "ok", "error"}]

\* The most slots the handlers of one request make.
MaxSlots == NumScripts * MaxHandlers

\* The most slots there are once k handlers of version s ran.
SlotsBy(s, k) == (s - 1) * MaxHandlers + k

LoopTypes == /\ op \in {"idle", "delivering", "settling", "settled"}
             /\ current \in Requests \cup {NoHandle}
             /\ at \in 1 .. NumScripts + 1
             /\ handlers \in 0 .. MaxHandlers
             /\ started \subseteq Handles
             /\ unwatched \subseteq Requests

TaskTypes == /\ loaded \subseteq Scripts
             /\ tasks \in [Scripts -> SUBSET Tasks]
             /\ guards \in [Scripts -> SUBSET Requests]
             /\ outcome \in [Tasks -> {"pending", "ok", "error"}]

RequestTypes ==
  /\ request \in [Requests -> [replies : Seq(Slots), active : BOOLEAN, finished : BOOLEAN]]
  /\ \A r \in Requests : Len(request[r].replies) <= MaxSlots + 1

ResultTypes == /\ result \in [Handles -> Results]
               /\ taken \in [Handles -> Seq(Results)]

\* What the engine thread is doing: the request being started is not over, and its slots
\* come from the handlers that ran.
PhaseInv == /\ op = "idle" => current = NoHandle
            /\ op \in {"delivering", "settled"} => current \in Requests
            /\ current \in Requests => /\ current \in started
                                       /\ ~request[current].active
                                       /\ ~request[current].finished
                                       /\ Len(request[current].replies) <= MaxSlots
            /\ op = "delivering" =>
                 /\ Len(request[current].replies) <= SlotsBy(at, handlers)
                 /\ \A i \in DOMAIN request[current].replies : request[current].replies[i].script <= at

\* A handle nobody started has nothing; a started one that is not being started waits for
\* some slot, or is over.
StartedInv == /\ \A r \in Requests \ started :
                   /\ Len(request[r].replies) = 0 /\ ~request[r].active /\ ~request[r].finished
                   /\ r \notin unwatched
              /\ \A r \in Requests \cap started :
                   r # current /\ ~request[r].finished =>
                     /\ request[r].active
                     /\ \E i \in DOMAIN request[r].replies : request[r].replies[i].state = "waiting"

\* Each task belongs to one loaded version and to a handle that was started.
OwnedInv == /\ \A s \in Scripts \ loaded : tasks[s] = {}
            /\ \A s, v \in Scripts : s # v => tasks[s] \cap tasks[v] = {}
            /\ \A s \in Scripts : \A t \in tasks[s] :
                 t[1] \in started /\ (t[1] \in DeferredCalls => t[2] = 1)

CountInv == IsFiniteSet(AllTasks) /\ activeTasks = Cardinality(AllTasks)

\* The task of a request that is not over has its slot, and a guard in its version.
TaskInv == \A s \in Scripts : \A t \in tasks[s] :
             t[1] \in Requests /\ ~request[t[1]].finished =>
               /\ t[1] \in guards[s]
               /\ t[2] \in DOMAIN request[t[1]].replies
               /\ request[t[1]].replies[t[2]] = Slot(s, "waiting")

\* The slots of a request that is not over are in load order; the last may be an error.
OrderInv == \A r \in Requests : ~request[r].finished =>
              /\ \A i \in DOMAIN request[r].replies :
                   IF request[r].replies[i].script = 0 THEN request[r].replies[i].state = "error"
                                                       ELSE i <= MaxSlots
              /\ \A i, j \in DOMAIN request[r].replies :
                   i < j /\ request[r].replies[j].script # 0 =>
                     request[r].replies[i].script <= request[r].replies[j].script

\* The versions of its slots are loaded and guard it, and it waits only for tasks, unless
\* it has a Promise nobody observes: it waits for that one for ever.
WatchedInv == \A r \in Requests \ unwatched : ~request[r].finished =>
                \A i \in DOMAIN request[r].replies :
                  LET slot == request[r].replies[i] IN
                  /\ slot.script # 0 => slot.script \in loaded /\ r \in guards[slot.script]
                  /\ slot.state = "waiting" => <<r, i>> \in tasks[slot.script]

UnwatchedInv == \A r \in unwatched : ~request[r].finished =>
                  \E i \in DOMAIN request[r].replies :
                    request[r].replies[i].state = "waiting" /\ <<r, i>> \notin AllTasks

\* What a handle gave or holds: nothing yet, one answer, or cancellations only.
Fresh(h) == result[h] = Pending /\ taken[h] = <<>>

Answered(h) == \/ taken[h] = <<>> /\ result[h] \notin {Pending, Cancelled}
               \/ Len(taken[h]) = 1 /\ taken[h][1] # Cancelled /\ result[h] = Pending

OnlyCancelled(h) == /\ result[h] \in {Pending, Cancelled}
                    /\ \A i \in DOMAIN taken[h] : taken[h][i] = Cancelled

HasTask(h) == \E s \in Scripts : \E t \in tasks[s] : t[1] = h

\* An answer is given once nothing is left that could give another.
AnswerInv == \A h \in Handles :
               /\ Answered(h) \/ OnlyCancelled(h)
               /\ Answered(h) => ~ HasTask(h)
               /\ h \notin started => Fresh(h)
               /\ h \in DeferredCalls => Fresh(h) \/ ~ HasTask(h)
               /\ h \in Requests => Fresh(h) \/ request[h].finished

TypeInv == LoopTypes /\ TaskTypes /\ RequestTypes /\ ResultTypes

IInv == /\ TypeInv /\ PhaseInv /\ StartedInv /\ OwnedInv /\ CountInv /\ TaskInv
        /\ OrderInv /\ WatchedInv /\ UnwatchedInv /\ AnswerInv

-----------------------------------------------------------------------------
(* The slots of a request, and the products the bounds are made of.        *)

LEMMA MaxSlotsType == MaxSlots \in Nat /\ (NumScripts # 0 => 1 \in 1 .. MaxSlots)
<1>1. NumScripts \in Nat /\ MaxHandlers \in Nat /\ MaxHandlers >= 1
  BY NumScriptsAssumption, MaxHandlersAssumption
<1>2. MaxSlots \in Nat
  BY <1>1 DEF MaxSlots
<1>3. CASE NumScripts # 0
  <2>1. NumScripts - 1 \in Nat /\ MaxHandlers - 1 \in Nat
    BY <1>1, <1>3
  <2>2. (NumScripts - 1) * MaxHandlers \in Nat
    BY <1>1, <2>1
  <2>3. NumScripts * MaxHandlers = (NumScripts - 1) * MaxHandlers + MaxHandlers
    BY <1>1
  <2> QED
    BY <1>1, <1>2, <2>2, <2>3 DEF MaxSlots
<1> QED
  BY <1>2, <1>3

\* One more handler of a script leaves the slots within their bound.
LEMMA SlotBound ==
  ASSUME NEW s \in Scripts, NEW k \in 0 .. MaxHandlers
  PROVE  /\ SlotsBy(s, k) \in Nat
         /\ SlotsBy(s, k) <= MaxSlots
         /\ SlotsBy(s, k) <= SlotsBy(s + 1, 0) /\ SlotsBy(s + 1, 0) \in Nat
         /\ SlotsBy(s, k + 1) = SlotsBy(s, k) + 1
<1> DEFINE before == s - 1
           after == NumScripts - s
<1>1. /\ NumScripts \in Nat /\ MaxHandlers \in Nat /\ s \in Nat /\ k \in Nat /\ k <= MaxHandlers
      /\ before \in Nat /\ after \in Nat /\ s = before + 1 /\ NumScripts = before + 1 + after
  BY NumScriptsAssumption, MaxHandlersAssumption DEF Scripts
<1> HIDE DEF before, after
<1>2. before * MaxHandlers \in Nat /\ after * MaxHandlers \in Nat
  BY <1>1
<1>3. (before + 1 + after) * MaxHandlers = before * MaxHandlers + MaxHandlers + after * MaxHandlers
  BY <1>1
<1>4. (s - 1) * MaxHandlers = before * MaxHandlers
  BY <1>1
<1>5. (s + 1 - 1) * MaxHandlers = before * MaxHandlers + MaxHandlers
  BY <1>1
<1> QED
  BY <1>1, <1>2, <1>3, <1>4, <1>5 DEF MaxSlots, SlotsBy

LEMMA RequestFields ==
  ASSUME RequestTypes, NEW r \in Requests
  PROVE  /\ request[r] = [replies |-> request[r].replies, active |-> request[r].active,
                          finished |-> request[r].finished]
         /\ request[r].active \in BOOLEAN /\ request[r].finished \in BOOLEAN
         /\ request[r].replies \in Seq(Slots)
         /\ Len(request[r].replies) \in Nat
         /\ DOMAIN request[r].replies = 1 .. Len(request[r].replies)
         /\ \A i \in DOMAIN request[r].replies : request[r].replies[i] \in Slots
<1>1. request[r] \in [replies : Seq(Slots), active : BOOLEAN, finished : BOOLEAN]
  BY DEF RequestTypes
<1>2. request[r].replies \in Seq(Slots)
  BY <1>1
<1> QED
  BY <1>1, <1>2

LEMMA HandleKinds == /\ Requests \subseteq Handles /\ DeferredCalls \subseteq Handles
                     /\ \A h \in Handles : h \in DeferredCalls <=> h \notin Requests
                     /\ NoHandle \notin Handles
  BY HandlesAssumption DEF Handles

LEMMA InAllTasks == \A t : t \in AllTasks <=> \E s \in Scripts : t \in tasks[s]
  BY DEF AllTasks

-----------------------------------------------------------------------------
LEMMA InitIInv == Init => IInv
<1> SUFFICES ASSUME Init PROVE IInv
  OBVIOUS
<1> USE DEF Init
<1>1. TypeInv
  <2>1. LoopTypes
    BY NumScriptsAssumption, MaxHandlersAssumption DEF LoopTypes
  <2>2. TaskTypes
    BY DEF TaskTypes
  <2>3. RequestTypes
    <3>1. NewRequest \in [replies : Seq(Slots), active : BOOLEAN, finished : BOOLEAN]
      BY DEF NewRequest
    <3>2. Len(NewRequest.replies) <= MaxSlots + 1
      BY MaxSlotsType DEF NewRequest
    <3> QED
      BY <3>1, <3>2 DEF RequestTypes
  <2>4. ResultTypes
    BY DEF ResultTypes, Results
  <2> QED
    BY <2>1, <2>2, <2>3, <2>4 DEF TypeInv
<1>2. PhaseInv /\ StartedInv
  BY HandlesAssumption DEF PhaseInv, StartedInv, NewRequest
<1>3. OwnedInv /\ TaskInv
  BY DEF OwnedInv, TaskInv
<1>4. CountInv
  <2>1. AllTasks = {}
    BY DEF AllTasks
  <2> QED
    BY <2>1, FS_EmptySet DEF CountInv
<1>5. OrderInv /\ WatchedInv /\ UnwatchedInv
  BY DEF OrderInv, WatchedInv, UnwatchedInv, NewRequest
<1>6. AnswerInv
  <2>1. \A h \in Handles : Fresh(h) /\ OnlyCancelled(h) /\ ~ Answered(h) /\ ~ HasTask(h)
    BY DEF Fresh, OnlyCancelled, Answered, HasTask
  <2> QED
    BY <2>1 DEF AnswerInv
<1> QED
  BY <1>1, <1>2, <1>3, <1>4, <1>5, <1>6 DEF IInv

-----------------------------------------------------------------------------
(* The steps, one by one.                                                  *)

\* Where a step leaves the requests, the tasks and the results alone, so does it their
\* invariants.
LEMMA FrameKeeps ==
  ASSUME IInv, UNCHANGED <<loaded, taskVars, request, result, historyVars>>, started \subseteq started'
  PROVE  /\ RequestTypes' /\ ResultTypes'
         /\ OwnedInv' /\ CountInv' /\ TaskInv' /\ OrderInv' /\ WatchedInv' /\ UnwatchedInv'
<1> USE DEF IInv, TypeInv, taskVars, historyVars
<1>1. RequestTypes' /\ ResultTypes'
  BY DEF RequestTypes, ResultTypes
<1>2. AllTasks' = AllTasks
  BY DEF AllTasks
<1>3. OwnedInv'
  BY DEF OwnedInv
<1>4. CountInv'
  BY <1>2 DEF CountInv
<1>5. TaskInv' /\ OrderInv'
  BY DEF TaskInv, OrderInv
<1>6. WatchedInv'
  BY DEF WatchedInv
<1>7. UnwatchedInv'
  BY <1>2 DEF UnwatchedInv
<1> QED
  BY <1>1, <1>3, <1>4, <1>5, <1>6, <1>7

\* The answers stand while their handles, requests and tasks do.
LEMMA AnswersStand ==
  ASSUME AnswerInv, UNCHANGED <<tasks, request, result, taken>>, started \subseteq started'
  PROVE  AnswerInv'
  BY DEF AnswerInv, Fresh, Answered, OnlyCancelled, HasTask

LEMMA StartRequestKeeps == ASSUME IInv, NEW r \in Requests, StartRequest(r) PROVE IInv'
<1> USE DEF IInv, TypeInv
<1>1. started \subseteq started' /\ UNCHANGED <<loaded, taskVars, request, result, historyVars>>
  BY DEF StartRequest
<1>2. /\ RequestTypes' /\ ResultTypes'
      /\ OwnedInv' /\ CountInv' /\ TaskInv' /\ OrderInv' /\ WatchedInv' /\ UnwatchedInv'
  BY <1>1, FrameKeeps
<1>3. AnswerInv'
  BY <1>1, AnswersStand DEF taskVars, historyVars
<1>4. LoopTypes' /\ TaskTypes'
  BY NumScriptsAssumption, MaxHandlersAssumption, HandleKinds
     DEF LoopTypes, TaskTypes, StartRequest, taskVars, historyVars
<1>5. /\ Len(request[r].replies) = 0 /\ DOMAIN request[r].replies = 1 .. 0
      /\ ~request[r].active /\ ~request[r].finished
      /\ current' = r /\ at' = 1 /\ handlers' = 0 /\ r \in started'
      /\ op' = "delivering" /\ op = "idle" /\ started' = started \cup {r} /\ request' = request
  BY RequestFields DEF StartRequest, StartedInv
<1>6. PhaseInv'
  BY <1>5, MaxSlotsType, MaxHandlersAssumption DEF PhaseInv, SlotsBy
<1>7. StartedInv'
  BY <1>1, <1>5, HandleKinds DEF StartedInv, PhaseInv, LoopTypes, historyVars
<1> QED
  BY <1>2, <1>3, <1>4, <1>6, <1>7

LEMMA EngineStepKeeps ==
  ASSUME IInv, NextScript \/ EndDelivery \/ Drive \/ HandlerThrows
  PROVE  IInv'
<1> USE DEF IInv, TypeInv
<1>1. UNCHANGED <<loaded, taskVars, request, result, outcome, current, started, historyVars>>
  BY DEF NextScript, EndDelivery, Drive, HandlerThrows, InHandler, historyVars, taskVars
<1>2. /\ RequestTypes' /\ ResultTypes'
      /\ OwnedInv' /\ CountInv' /\ TaskInv' /\ OrderInv' /\ WatchedInv' /\ UnwatchedInv'
  BY <1>1, FrameKeeps
<1>3. AnswerInv' /\ StartedInv'
  BY <1>1, AnswersStand DEF taskVars, historyVars, StartedInv
<1>4. LoopTypes' /\ TaskTypes'
  <2>1. TaskTypes' /\ current' \in Requests \cup {NoHandle} /\ started' \subseteq Handles
        /\ unwatched' \subseteq Requests
    BY <1>1 DEF LoopTypes, TaskTypes, taskVars, historyVars
  <2>2. op' \in {"idle", "delivering", "settling", "settled"}
    BY DEF LoopTypes, NextScript, EndDelivery, Drive, HandlerThrows, InHandler
  <2>3. at' \in 1 .. NumScripts + 1 /\ handlers' \in 0 .. MaxHandlers
    <3>1. CASE NextScript
      BY <3>1, NumScriptsAssumption, MaxHandlersAssumption DEF LoopTypes, NextScript
    <3>2. CASE EndDelivery \/ Drive
      BY <3>2 DEF LoopTypes, EndDelivery, Drive
    <3>3. CASE HandlerThrows
      BY <3>3, MaxHandlersAssumption DEF LoopTypes, HandlerThrows, InHandler
    <3> QED
      BY <3>1, <3>2, <3>3
  <2> QED
    BY <2>1, <2>2, <2>3 DEF LoopTypes
<1>5. PhaseInv'
  <2>1. CASE NextScript
    <3>1. /\ op = "delivering" /\ current \in Requests /\ at \in Scripts /\ at' = at + 1
          /\ handlers' = 0 /\ op' = op /\ current' = current /\ request' = request /\ started' = started
      BY <2>1, NumScriptsAssumption DEF NextScript, PhaseInv, LoopTypes, Scripts
    <3>2. Len(request[current].replies) <= SlotsBy(at + 1, 0)
      <4>1. Len(request[current].replies) <= SlotsBy(at, handlers) /\ Len(request[current].replies) \in Nat
        BY <3>1, RequestFields DEF PhaseInv
      <4>2. /\ SlotsBy(at, handlers) \in Nat /\ SlotsBy(at, handlers) <= SlotsBy(at + 1, 0)
            /\ SlotsBy(at + 1, 0) \in Nat
        BY <3>1, SlotBound DEF LoopTypes
      <4> QED
        BY <4>1, <4>2
    <3>3. \A i \in DOMAIN request[current].replies : request[current].replies[i].script <= at + 1
      <4>1. \A i \in DOMAIN request[current].replies : request[current].replies[i] \in Slots
        BY <3>1, RequestFields
      <4> QED
        BY <3>1, <4>1 DEF PhaseInv, Slots, Scripts
    <3> QED
      BY <3>1, <3>2, <3>3 DEF PhaseInv
  <2>2. CASE EndDelivery \/ Drive
    BY <1>1, <2>2 DEF EndDelivery, Drive, PhaseInv
  <2>3. CASE HandlerThrows
    <3>1. /\ op = "delivering" /\ current \in Requests /\ at \in Scripts /\ at' = at
          /\ handlers' = handlers + 1 /\ op' = op /\ current' = current /\ request' = request
          /\ started' = started /\ handlers' \in 0 .. MaxHandlers
      BY <2>3, <1>4 DEF HandlerThrows, InHandler, PhaseInv, LoopTypes, TaskTypes
    <3>2. Len(request[current].replies) <= SlotsBy(at, handlers + 1)
      <4>1. Len(request[current].replies) <= SlotsBy(at, handlers) /\ Len(request[current].replies) \in Nat
        BY <3>1, RequestFields DEF PhaseInv
      <4>2. SlotsBy(at, handlers) \in Nat /\ SlotsBy(at, handlers + 1) = SlotsBy(at, handlers) + 1
        BY <3>1, SlotBound DEF LoopTypes
      <4> QED
        BY <4>1, <4>2
    <3> QED
      BY <3>1, <3>2 DEF PhaseInv
  <2> QED
    BY <2>1, <2>2, <2>3
<1> QED
  BY <1>2, <1>3, <1>4, <1>5

LEMMA PromiseSettlesKeeps == ASSUME IInv, NEW t \in Tasks, PromiseSettles(t) PROVE IInv'
<1> USE DEF IInv, TypeInv
<1>1. UNCHANGED <<loaded, taskVars, request, result, engineVars, started, historyVars>>
  BY DEF PromiseSettles
<1>2. /\ RequestTypes' /\ ResultTypes'
      /\ OwnedInv' /\ CountInv' /\ TaskInv' /\ OrderInv' /\ WatchedInv' /\ UnwatchedInv'
  BY <1>1, FrameKeeps
<1>3. AnswerInv' /\ StartedInv' /\ PhaseInv'
  BY <1>1, AnswersStand DEF taskVars, historyVars, engineVars, StartedInv, PhaseInv
<1>4. outcome' \in [Tasks -> {"pending", "ok", "error"}]
  BY DEF PromiseSettles, TaskTypes
<1>5. LoopTypes' /\ TaskTypes'
  BY <1>1, <1>4 DEF LoopTypes, TaskTypes, taskVars, historyVars, engineVars
<1> QED
  BY <1>2, <1>3, <1>5

\* A new task of a version, of a handle that was started.
LEMMA TaskAdded ==
  ASSUME TaskTypes, OwnedInv, CountInv, UNCHANGED loaded, started \subseteq started',
         NEW s \in loaded, NEW h \in Handles, NEW i \in 1 .. MaxSlots,
         h \in started', h \in DeferredCalls => i = 1, <<h, i>> \notin AllTasks,
         tasks' = [tasks EXCEPT ![s] = @ \cup {<<h, i>>}], activeTasks' = activeTasks + 1
  PROVE  /\ OwnedInv' /\ CountInv'
         /\ tasks' \in [Scripts -> SUBSET Tasks]
         /\ \A v \in Scripts : \A t : t \in tasks'[v] <=> t \in tasks[v] \/ (v = s /\ t = <<h, i>>)
         /\ AllTasks' = AllTasks \cup {<<h, i>>}
<1>1. s \in Scripts /\ <<h, i>> \in Tasks
  BY DEF TaskTypes, Tasks, MaxSlots
<1>2. \A v \in Scripts : \A t : t \in tasks'[v] <=> t \in tasks[v] \/ (v = s /\ t = <<h, i>>)
  BY <1>1 DEF TaskTypes
<1>3. tasks' \in [Scripts -> SUBSET Tasks]
  BY <1>1 DEF TaskTypes
<1>4. AllTasks' = AllTasks \cup {<<h, i>>}
  <2>1. \A t : t \in AllTasks' <=> \E v \in Scripts : t \in tasks'[v]
    BY DEF AllTasks
  <2>2. \A t : t \in AllTasks' <=> t \in AllTasks \/ t = <<h, i>>
    BY <1>1, <1>2, <2>1, InAllTasks
  <2> QED
    BY <2>2
<1>5. OwnedInv'
  <2>1. \A v \in Scripts \ loaded' : tasks'[v] = {}
    <3>1. ASSUME NEW v \in Scripts \ loaded, NEW t \in tasks'[v] PROVE FALSE
      BY <1>2, <3>1 DEF OwnedInv
    <3> QED
      BY <3>1
  <2>2. ASSUME NEW v \in Scripts, NEW w \in Scripts, v # w PROVE tasks'[v] \cap tasks'[w] = {}
    <3>1. ASSUME NEW t, t \in tasks'[v], t \in tasks'[w] PROVE FALSE
      <4>1. ~(t \in tasks[v] /\ t \in tasks[w])
        BY <2>2 DEF OwnedInv
      <4> QED
        BY <1>2, <2>2, <3>1, <4>1, InAllTasks
    <3> QED
      BY <3>1
  <2>3. \A v \in Scripts : \A t \in tasks'[v] : t[1] \in started' /\ (t[1] \in DeferredCalls => t[2] = 1)
    BY <1>2 DEF OwnedInv
  <2> QED
    BY <2>1, <2>2, <2>3 DEF OwnedInv
<1>6. CountInv'
  <2>1. /\ IsFiniteSet(AllTasks \cup {<<h, i>>})
        /\ Cardinality(AllTasks \cup {<<h, i>>}) = Cardinality(AllTasks) + 1
    BY FS_AddElement DEF CountInv
  <2> QED
    BY <1>4, <2>1 DEF CountInv
<1> QED
  BY <1>2, <1>3, <1>4, <1>5, <1>6

LEMMA CallReturnsPromiseKeeps ==
  ASSUME IInv, NEW h \in DeferredCalls, NEW s \in Scripts, CallReturnsPromise(h, s)
  PROVE  IInv'
<1> USE DEF IInv, TypeInv
<1>1. /\ op = "idle" /\ op' = "settling" /\ s \in loaded /\ h \notin started
      /\ started' = started \cup {h} /\ h \in Handles /\ h \notin Requests
      /\ UNCHANGED <<loaded, guards, request, result, outcome, current, at, handlers, historyVars>>
      /\ tasks' = [tasks EXCEPT ![s] = @ \cup {<<h, 1>>}] /\ activeTasks' = activeTasks + 1
  BY HandleKinds DEF CallReturnsPromise, StartCall
<1>2. ~ HasTask(h) /\ <<h, 1>> \notin AllTasks
  BY <1>1, InAllTasks DEF OwnedInv, HasTask
<1>3. 1 \in 1 .. MaxSlots
  BY <1>1, MaxSlotsType, NumScriptsAssumption DEF Scripts
<1>4. /\ OwnedInv' /\ CountInv'
      /\ tasks' \in [Scripts -> SUBSET Tasks]
      /\ \A v \in Scripts : \A t : t \in tasks'[v] <=> t \in tasks[v] \/ (v = s /\ t = <<h, 1>>)
      /\ AllTasks' = AllTasks \cup {<<h, 1>>}
  BY <1>1, <1>2, <1>3, TaskAdded
<1>5. TypeInv'
  <2>1. LoopTypes' /\ TaskTypes'
    BY <1>1, <1>4 DEF LoopTypes, TaskTypes, historyVars
  <2>2. RequestTypes' /\ ResultTypes'
    BY <1>1 DEF RequestTypes, ResultTypes, historyVars
  <2> QED
    BY <2>1, <2>2
<1>6. PhaseInv' /\ StartedInv'
  BY <1>1 DEF PhaseInv, StartedInv, historyVars
<1>7. TaskInv' /\ OrderInv'
  BY <1>1, <1>4 DEF TaskInv, OrderInv
<1>8. WatchedInv'
  <2> SUFFICES ASSUME NEW r \in Requests \ unwatched, ~request[r].finished,
                      NEW i \in DOMAIN request[r].replies
               PROVE  LET slot == request[r].replies[i] IN
                      /\ slot.script # 0 => slot.script \in loaded /\ r \in guards[slot.script]
                      /\ slot.state = "waiting" => <<r, i>> \in tasks'[slot.script]
    BY <1>1 DEF WatchedInv, historyVars
  <2>1. request[r].replies[i] \in Slots
    BY RequestFields
  <2>2. request[r].replies[i].state = "waiting" => request[r].replies[i].script \in Scripts
    BY <2>1, NumScriptsAssumption DEF Slots, Scripts, OrderInv
  <2> QED
    BY <1>4, <2>2 DEF WatchedInv
<1>9. UnwatchedInv'
  <2>1. \A r \in Requests : \A i : <<r, i>> \notin AllTasks => <<r, i>> \notin AllTasks'
    BY <1>1, <1>4
  <2> QED
    BY <1>1, <2>1 DEF UnwatchedInv, historyVars, LoopTypes
<1>10. AnswerInv'
  <2>1. ASSUME NEW g \in Handles, g # h PROVE HasTask(g)' => HasTask(g)
    BY <1>4, <2>1 DEF HasTask
  <2>2. \A g \in Handles : /\ Fresh(g)' <=> Fresh(g)
                           /\ Answered(g)' <=> Answered(g)
                           /\ OnlyCancelled(g)' <=> OnlyCancelled(g)
    BY <1>1 DEF Fresh, Answered, OnlyCancelled, historyVars
  <2>3. Fresh(h) /\ ~ Answered(h)
    BY <1>1 DEF AnswerInv, Fresh, Answered
  <2> QED
    BY <1>1, <2>1, <2>2, <2>3 DEF AnswerInv
<1> QED
  BY <1>4, <1>5, <1>6, <1>7, <1>8, <1>9, <1>10

LEMMA CallReturnsValueKeeps ==
  ASSUME IInv, NEW h \in DeferredCalls, NEW s \in Scripts, CallReturnsValue(h, s)
  PROVE  IInv'
<1> USE DEF IInv, TypeInv
<1>1. /\ op = "idle" /\ op' = "settling" /\ h \notin started
      /\ started' = started \cup {h} /\ h \in Handles /\ h \notin Requests
      /\ UNCHANGED <<loaded, taskVars, request, outcome, current, at, handlers, historyVars>>
  BY HandleKinds DEF CallReturnsValue, StartCall, taskVars
<1>2. PICK value \in {Replies(<<>>), Failure} : result' = [result EXCEPT ![h] = Complete(@, value)]
  BY DEF CallReturnsValue
<1>3. ~ HasTask(h) /\ Fresh(h)
  BY <1>1 DEF OwnedInv, HasTask, AnswerInv
<1>4. value \in Results /\ value \notin {Pending, Cancelled}
  <2>1. <<>> \in [1 .. 0 -> Scripts] /\ 0 \in 0 .. NumScripts * MaxHandlers
    BY MaxSlotsType DEF MaxSlots
  <2>2. Replies(<<>>) \in Results /\ Failure \in Results
    BY <2>1 DEF Results
  <2> QED
    BY <2>2 DEF Replies, Failure, Pending, Cancelled
<1>5. result' = [result EXCEPT ![h] = value]
  BY <1>2, <1>3 DEF Fresh, Complete
<1>6. TypeInv'
  BY <1>1, <1>4, <1>5
     DEF LoopTypes, TaskTypes, RequestTypes, ResultTypes, taskVars, historyVars
<1>7. PhaseInv' /\ StartedInv'
  BY <1>1 DEF PhaseInv, StartedInv, historyVars
<1>8. AllTasks' = AllTasks
  BY <1>1 DEF AllTasks, taskVars
<1>9. OwnedInv' /\ CountInv' /\ TaskInv' /\ OrderInv'
  BY <1>1, <1>8 DEF OwnedInv, CountInv, TaskInv, OrderInv, taskVars
<1>10. WatchedInv' /\ UnwatchedInv'
  BY <1>1, <1>8 DEF WatchedInv, UnwatchedInv, taskVars, historyVars
<1>11. AnswerInv'
  <2>1. ASSUME NEW g \in Handles, g # h
        PROVE  /\ Fresh(g)' <=> Fresh(g)
               /\ Answered(g)' <=> Answered(g)
               /\ OnlyCancelled(g)' <=> OnlyCancelled(g)
    <3>1. result'[g] = result[g] /\ taken' = taken
      BY <1>1, <1>5, <2>1 DEF ResultTypes, historyVars
    <3> QED
      BY <3>1 DEF Fresh, Answered, OnlyCancelled
  <2>2. Answered(h)'
    <3>1. result'[h] = value /\ taken'[h] = <<>>
      BY <1>1, <1>3, <1>5 DEF ResultTypes, historyVars, Fresh
    <3> QED
      BY <1>4, <3>1 DEF Answered
  <2>3. \A g \in Handles : HasTask(g)' <=> HasTask(g)
    BY <1>1 DEF HasTask, taskVars
  <2> QED
    BY <1>1, <1>3, <2>1, <2>2, <2>3 DEF AnswerInv
<1> QED
  BY <1>6, <1>7, <1>9, <1>10, <1>11

LEMMA TakeKeeps == ASSUME IInv, NEW h \in Handles, Take(h) PROVE IInv'
<1> USE DEF IInv, TypeInv
<1>1. /\ UNCHANGED <<loaded, taskVars, request, outcome, engineVars, started, unwatched>>
      /\ taken' = [taken EXCEPT ![h] = Append(@, result[h])]
      /\ result' = [result EXCEPT ![h] = Pending]
      /\ result[h] # Pending
  BY DEF Take
<1>2. TypeInv'
  <2>1. LoopTypes' /\ TaskTypes' /\ RequestTypes'
    BY <1>1 DEF LoopTypes, TaskTypes, RequestTypes, taskVars, engineVars
  <2>2. Pending \in Results
    BY DEF Results
  <2>3. ResultTypes'
    BY <1>1, <2>2 DEF ResultTypes
  <2> QED
    BY <2>1, <2>3
<1>3. PhaseInv' /\ StartedInv'
  BY <1>1 DEF PhaseInv, StartedInv, engineVars
<1>4. AllTasks' = AllTasks
  BY <1>1 DEF AllTasks, taskVars
<1>5. OwnedInv' /\ CountInv' /\ TaskInv' /\ OrderInv'
  BY <1>1, <1>4 DEF OwnedInv, CountInv, TaskInv, OrderInv, taskVars
<1>6. WatchedInv' /\ UnwatchedInv'
  BY <1>1, <1>4 DEF WatchedInv, UnwatchedInv, taskVars
<1>7. AnswerInv'
  <2>1. ASSUME NEW g \in Handles, g # h
        PROVE  /\ Fresh(g)' <=> Fresh(g)
               /\ Answered(g)' <=> Answered(g)
               /\ OnlyCancelled(g)' <=> OnlyCancelled(g)
    <3>1. result'[g] = result[g] /\ taken'[g] = taken[g]
      BY <1>1, <2>1 DEF ResultTypes
    <3> QED
      BY <3>1 DEF Fresh, Answered, OnlyCancelled
  <2>2. taken[h] \in Seq(Results) /\ result'[h] = Pending /\ taken'[h] = Append(taken[h], result[h])
    BY <1>1 DEF ResultTypes
  <2>3. ~ Fresh(h)
    BY <1>1 DEF Fresh
  <2>4. CASE Answered(h)
    <3>1. Len(taken'[h]) = 1 /\ taken'[h][1] = result[h]
      BY <1>1, <2>2, <2>4 DEF Answered
    <3> QED
      BY <1>1, <2>1, <2>2, <2>3, <2>4, <3>1 DEF AnswerInv, Answered, HasTask, taskVars
  <2>5. CASE OnlyCancelled(h)
    <3>1. result[h] = Cancelled
      BY <1>1, <2>5 DEF OnlyCancelled
    <3>2. \A i \in DOMAIN taken'[h] : taken'[h][i] = Cancelled
      BY <2>2, <2>5, <3>1 DEF OnlyCancelled
    <3>3. OnlyCancelled(h)'
      BY <2>2, <3>2 DEF OnlyCancelled
    <3>4. ~ Answered(h)'
      <4>1. taken'[h] # <<>>
        BY <2>2
      <4>2. Len(taken'[h]) = 1 => taken'[h][1] = Cancelled
        BY <2>2, <3>2
      <4> QED
        BY <4>1, <4>2 DEF Answered
    <3> QED
      BY <1>1, <2>1, <2>3, <3>3, <3>4 DEF AnswerInv, HasTask, taskVars
  <2> QED
    BY <2>4, <2>5 DEF AnswerInv
<1> QED
  BY <1>2, <1>3, <1>5, <1>6, <1>7

\* What a handler that makes a slot leaves behind, whatever the slot.
SlotMade(state, n) ==
  /\ op = "delivering" /\ current \in Requests /\ at \in Scripts /\ at \in loaded
  /\ UNCHANGED <<loaded, result, outcome, op, current, at, started, taken>>
  /\ handlers' = handlers + 1 /\ handlers' \in 0 .. MaxHandlers
  /\ n = Len(request[current].replies) + 1 /\ n \in 1 .. MaxSlots
  /\ \A r \in Requests : /\ request'[r].active = request[r].active
                         /\ request'[r].finished = request[r].finished
                         /\ r # current => request'[r] = request[r]
  /\ DOMAIN request[current].replies = 1 .. n - 1
  /\ DOMAIN request'[current].replies = 1 .. n
  /\ Len(request'[current].replies) = n
  /\ \A i \in 1 .. n - 1 : request'[current].replies[i] = request[current].replies[i]
  /\ request'[current].replies[n] = Slot(at, state)
  /\ \A v \in Scripts : \A r : r \in guards'[v] <=> r \in guards[v] \/ (v = at /\ r = current)

LEMMA SlotPushed ==
  ASSUME IInv, InHandler, PushGuard, NEW state \in {"waiting", "ok", "error"}, PushSlot(state),
         NEW n, n = Len(request[current].replies) + 1
  PROVE  SlotMade(state, n) /\ RequestTypes' /\ guards' \in [Scripts -> SUBSET Requests]
<1> USE DEF IInv, TypeInv
<1>1. /\ op = "delivering" /\ current \in Requests /\ at \in Scripts /\ at \in loaded
      /\ UNCHANGED <<loaded, result, outcome, op, current, at, started, taken>>
      /\ handlers' = handlers + 1 /\ handlers < MaxHandlers /\ handlers \in Nat
  BY MaxHandlersAssumption DEF InHandler, PhaseInv, LoopTypes, TaskTypes
<1>2. handlers' \in 0 .. MaxHandlers
  BY <1>1, MaxHandlersAssumption
<1>3. /\ request[current].replies \in Seq(Slots) /\ Len(request[current].replies) \in Nat
      /\ DOMAIN request[current].replies = 1 .. Len(request[current].replies)
  BY <1>1, RequestFields
<1>4. n \in 1 .. MaxSlots
  <2>1. Len(request[current].replies) <= SlotsBy(at, handlers)
    BY <1>1 DEF PhaseInv
  <2>2. /\ SlotsBy(at, handlers) \in Nat /\ SlotsBy(at, handlers + 1) = SlotsBy(at, handlers) + 1
    BY <1>1, SlotBound DEF LoopTypes
  <2>3. SlotsBy(at, handlers + 1) \in Nat /\ SlotsBy(at, handlers + 1) <= MaxSlots
    BY <1>1, <1>2, SlotBound
  <2> QED
    BY <1>3, <2>1, <2>2, <2>3, MaxSlotsType
<1>5. Slot(at, state) \in Slots
  BY <1>1, NumScriptsAssumption DEF Slot, Slots, Scripts
<1>6. Append(request[current].replies, Slot(at, state)) \in Seq(Slots)
  BY <1>3, <1>5
<1>7. request' = [request EXCEPT ![current].replies = Append(@, Slot(at, state))]
  BY DEF PushSlot
<1>8. /\ request'[current].replies = Append(request[current].replies, Slot(at, state))
      /\ \A r \in Requests : /\ request'[r].active = request[r].active
                             /\ request'[r].finished = request[r].finished
                             /\ r # current => request'[r] = request[r]
  BY <1>1, <1>7 DEF RequestTypes
<1>9. /\ DOMAIN request'[current].replies = 1 .. n
      /\ Len(request'[current].replies) = n
      /\ \A i \in 1 .. n - 1 : request'[current].replies[i] = request[current].replies[i]
      /\ request'[current].replies[n] = Slot(at, state)
  BY <1>3, <1>5, <1>8
<1>10. RequestTypes'
  <2>1. request' \in [Requests -> [replies : Seq(Slots), active : BOOLEAN, finished : BOOLEAN]]
    BY <1>1, <1>6, <1>7 DEF RequestTypes
  <2>2. n <= MaxSlots + 1
    BY <1>4, MaxSlotsType
  <2> QED
    BY <1>8, <1>9, <2>1, <2>2 DEF RequestTypes
<1>11. /\ guards' \in [Scripts -> SUBSET Requests]
       /\ \A v \in Scripts : \A r : r \in guards'[v] <=> r \in guards[v] \/ (v = at /\ r = current)
  BY <1>1 DEF PushGuard, TaskTypes
<1>12. DOMAIN request[current].replies = 1 .. n - 1
  BY <1>3
<1> QED
  BY <1>1, <1>2, <1>4, <1>8, <1>9, <1>10, <1>11, <1>12 DEF SlotMade

LEMMA SlotsMade ==
  ASSUME NEW state, NEW n, SlotMade(state, n)
  PROVE  /\ n \in Nat /\ n <= MaxSlots /\ at \in Nat /\ at # 0
         /\ \A i \in 1 .. n : i = n \/ i \in 1 .. n - 1
         /\ n \in DOMAIN request'[current].replies
         /\ request'[current].replies[n].script = at /\ request'[current].replies[n].state = state
         /\ \A r \in Requests : \A i \in DOMAIN request[r].replies :
               /\ i \in DOMAIN request'[r].replies
               /\ request'[r].replies[i] = request[r].replies[i]
               /\ <<r, i>> # <<current, n>>
<1>1. n \in Nat /\ n <= MaxSlots /\ at \in Nat /\ at # 0 /\ n >= 1
  BY MaxSlotsType, NumScriptsAssumption DEF SlotMade, Scripts
<1>2. \A i \in 1 .. n : i = n \/ i \in 1 .. n - 1
  BY <1>1
<1>3. n \in 1 .. n
  BY <1>1
<1>4. n \in DOMAIN request'[current].replies
  BY <1>3 DEF SlotMade
<1>5. request'[current].replies[n] = [script |-> at, state |-> state]
  BY DEF SlotMade, Slot
<1>6. ASSUME NEW r \in Requests, NEW i \in DOMAIN request[r].replies
      PROVE  /\ i \in DOMAIN request'[r].replies
             /\ request'[r].replies[i] = request[r].replies[i]
             /\ <<r, i>> # <<current, n>>
  <2>1. CASE r # current
    BY <2>1 DEF SlotMade
  <2>2. CASE r = current
    <3>1. i \in 1 .. n - 1
      BY <2>2 DEF SlotMade
    <3>2. i \in 1 .. n /\ i # n
      BY <1>1, <3>1
    <3> QED
      BY <2>2, <3>1, <3>2 DEF SlotMade
  <2> QED
    BY <2>1, <2>2
<1> QED
  BY <1>1, <1>2, <1>4, <1>5, <1>6

\* The invariants a new slot keeps whether or not it has a task.
LEMMA SlotKeeps ==
  ASSUME IInv, NEW state \in {"waiting", "ok", "error"}, NEW n, SlotMade(state, n),
         unwatched' \subseteq unwatched \cup {current}
  PROVE  PhaseInv' /\ StartedInv' /\ OrderInv'
<1> USE DEF IInv, TypeInv
<1>1. PhaseInv'
  <2>1. n <= SlotsBy(at, handlers + 1)
    <3>1. Len(request[current].replies) <= SlotsBy(at, handlers) /\ Len(request[current].replies) \in Nat
      BY RequestFields DEF SlotMade, PhaseInv
    <3>2. SlotsBy(at, handlers) \in Nat /\ SlotsBy(at, handlers + 1) = SlotsBy(at, handlers) + 1
      BY SlotBound DEF SlotMade, LoopTypes
    <3> QED
      BY <3>1, <3>2 DEF SlotMade
  <2>2. \A i \in 1 .. n : request'[current].replies[i].script <= at
    <3>1. \A i \in 1 .. n - 1 : request'[current].replies[i].script <= at
      BY DEF SlotMade, PhaseInv
    <3> QED
      BY <3>1, SlotsMade
  <2>3. n <= MaxSlots
    BY MaxSlotsType DEF SlotMade
  <2> QED
    BY <2>1, <2>2, <2>3 DEF PhaseInv, SlotMade
<1>2. StartedInv'
  BY DEF StartedInv, SlotMade, PhaseInv
<1>3. OrderInv'
  <2> SUFFICES ASSUME NEW r \in Requests, ~request'[r].finished
               PROVE  /\ \A i \in DOMAIN request'[r].replies :
                           IF request'[r].replies[i].script = 0
                           THEN request'[r].replies[i].state = "error" ELSE i <= MaxSlots
                      /\ \A i, j \in DOMAIN request'[r].replies :
                           i < j /\ request'[r].replies[j].script # 0 =>
                             request'[r].replies[i].script <= request'[r].replies[j].script
    BY DEF OrderInv
  <2>1. CASE r # current
    BY <2>1 DEF OrderInv, SlotMade
  <2>2. CASE r = current
    <3>1. \A i \in 1 .. n - 1 : request[current].replies[i].script <= at
      BY DEF SlotMade, PhaseInv
    <3>2. n \in Nat /\ n <= MaxSlots /\ at \in Nat /\ at # 0
      BY SlotsMade
    <3>3. ASSUME NEW i \in 1 .. n
          PROVE  IF request'[r].replies[i].script = 0
                 THEN request'[r].replies[i].state = "error" ELSE i <= MaxSlots
      <4>1. CASE i = n
        BY <2>2, <3>2, <4>1, SlotsMade
      <4>2. CASE i \in 1 .. n - 1
        BY <2>2, <4>2 DEF SlotMade, OrderInv
      <4> QED
        BY <4>1, <4>2, SlotsMade
    <3>4. ASSUME NEW i \in 1 .. n, NEW j \in 1 .. n, i < j, request'[r].replies[j].script # 0
          PROVE  request'[r].replies[i].script <= request'[r].replies[j].script
      <4>1. i \in 1 .. n - 1
        BY <3>2, <3>4
      <4>2. CASE j = n
        <5>1. request'[r].replies[j].script = at
          BY <2>2, <4>2, SlotsMade
        <5>2. request'[r].replies[i].script <= at
          BY <2>2, <3>1, <4>1 DEF SlotMade
        <5> QED
          BY <5>1, <5>2
      <4>3. CASE j # n
        <5>1. j \in 1 .. n - 1
          BY <3>2, <4>3
        <5> QED
          BY <2>2, <3>4, <4>1, <5>1 DEF SlotMade, OrderInv
      <4> QED
        BY <4>2, <4>3
    <3> QED
      BY <2>2, <3>3, <3>4 DEF SlotMade
  <2> QED
    BY <2>1, <2>2
<1> QED
  BY <1>1, <1>2, <1>3

LEMMA SlotHandlerKeeps ==
  ASSUME IInv, HandlerReplies \/ HandlerReturnsPromise \/ WatchFails
  PROVE  IInv'
<1> USE DEF IInv, TypeInv
<1> DEFINE n == Len(request[current].replies) + 1
<1>1. /\ InHandler /\ PushGuard
      /\ \/ /\ HandlerReplies /\ UNCHANGED <<tasks, activeTasks, unwatched>>
            /\ \E state \in {"ok", "error"} : PushSlot(state)
         \/ /\ HandlerReturnsPromise /\ UNCHANGED unwatched
            /\ PushSlot("waiting")
            /\ tasks' = [tasks EXCEPT ![at] = @ \cup {<<current, n>>}]
            /\ activeTasks' = activeTasks + 1
         \/ /\ WatchFails /\ UNCHANGED <<tasks, activeTasks>>
            /\ PushSlot("waiting")
            /\ unwatched' = unwatched \cup {current}
  BY DEF HandlerReplies, HandlerReturnsPromise, WatchFails
<1>2. PICK state \in {"waiting", "ok", "error"} :
        /\ PushSlot(state)
        /\ \/ state # "waiting" /\ UNCHANGED <<tasks, activeTasks, unwatched>>
           \/ /\ state = "waiting" /\ UNCHANGED unwatched
              /\ tasks' = [tasks EXCEPT ![at] = @ \cup {<<current, n>>}]
              /\ activeTasks' = activeTasks + 1
           \/ /\ state = "waiting" /\ UNCHANGED <<tasks, activeTasks>>
              /\ unwatched' = unwatched \cup {current}
  BY <1>1
<1> HIDE DEF n
<1>3. SlotMade(state, n) /\ RequestTypes' /\ guards' \in [Scripts -> SUBSET Requests]
  BY <1>1, <1>2, SlotPushed DEF n
<1>4. unwatched \subseteq unwatched' /\ unwatched' \subseteq unwatched \cup {current}
      /\ unwatched' \subseteq Requests
  BY <1>2, <1>3 DEF LoopTypes, SlotMade
<1>5. PhaseInv' /\ StartedInv' /\ OrderInv'
  BY <1>3, <1>4, SlotKeeps
<1>6. current \in Handles /\ current \in started /\ current \notin DeferredCalls
      /\ ~request[current].finished
  BY <1>3, HandleKinds DEF SlotMade, PhaseInv
<1>7. <<current, n>> \notin AllTasks
  <2>1. ASSUME NEW s \in Scripts, <<current, n>> \in tasks[s] PROVE FALSE
    <3>1. n \in DOMAIN request[current].replies
      BY <1>3, <1>6, <2>1 DEF TaskInv, SlotMade
    <3> QED
      BY <1>3, <3>1, MaxSlotsType DEF SlotMade
  <2> QED
    BY <2>1, InAllTasks
<1>8. /\ OwnedInv' /\ CountInv' /\ tasks' \in [Scripts -> SUBSET Tasks]
      /\ \A v \in Scripts : \A t : t \in tasks[v] => t \in tasks'[v]
      /\ \A v \in Scripts : \A t : t \in tasks'[v] /\ t \notin tasks[v] =>
           v = at /\ t = <<current, n>> /\ state = "waiting"
      /\ \A t : t \in AllTasks' => t \in AllTasks \/ t = <<current, n>>
      /\ \/ state # "waiting" /\ unwatched' = unwatched
         \/ <<current, n>> \in tasks'[at] /\ unwatched' = unwatched
         \/ tasks' = tasks /\ AllTasks' = AllTasks /\ current \in unwatched' /\ state = "waiting"
  <2>1. CASE UNCHANGED <<tasks, activeTasks>>
    <3>1. AllTasks' = AllTasks
      BY <2>1 DEF AllTasks
    <3>2. OwnedInv' /\ CountInv' /\ tasks' \in [Scripts -> SUBSET Tasks]
      BY <1>3, <2>1, <3>1 DEF OwnedInv, CountInv, SlotMade, TaskTypes
    <3>3. \/ state # "waiting" /\ unwatched' = unwatched
          \/ <<current, n>> \in tasks'[at] /\ unwatched' = unwatched
          \/ tasks' = tasks /\ current \in unwatched' /\ state = "waiting"
      <4>1. CASE tasks' = [tasks EXCEPT ![at] = @ \cup {<<current, n>>}] /\ UNCHANGED unwatched
        BY <1>3, <4>1 DEF SlotMade, TaskTypes
      <4> QED
        BY <1>2, <2>1, <4>1
    <3> QED
      BY <2>1, <3>1, <3>2, <3>3
  <2>2. CASE /\ state = "waiting" /\ UNCHANGED unwatched
             /\ tasks' = [tasks EXCEPT ![at] = @ \cup {<<current, n>>}]
             /\ activeTasks' = activeTasks + 1
    <3>1. /\ UNCHANGED loaded /\ started \subseteq started' /\ at \in loaded /\ n \in 1 .. MaxSlots
          /\ current \in started' /\ at \in Scripts
      BY <1>3, <1>6 DEF SlotMade
    <3>2. /\ OwnedInv' /\ CountInv'
          /\ tasks' \in [Scripts -> SUBSET Tasks]
          /\ \A v \in Scripts : \A t : t \in tasks'[v] <=> t \in tasks[v] \/ (v = at /\ t = <<current, n>>)
          /\ AllTasks' = AllTasks \cup {<<current, n>>}
      BY <1>6, <1>7, <2>2, <3>1, TaskAdded
    <3> QED
      BY <2>2, <3>1, <3>2
  <2> QED
    BY <1>2, <2>1, <2>2
<1>9. LoopTypes' /\ TaskTypes' /\ ResultTypes'
  BY <1>3, <1>4, <1>8 DEF LoopTypes, TaskTypes, ResultTypes, SlotMade
<1>10. TaskInv'
  <2> SUFFICES ASSUME NEW s \in Scripts, NEW t \in tasks'[s],
                      t[1] \in Requests, ~request'[t[1]].finished
               PROVE  /\ t[1] \in guards'[s]
                      /\ t[2] \in DOMAIN request'[t[1]].replies
                      /\ request'[t[1]].replies[t[2]] = Slot(s, "waiting")
    BY DEF TaskInv
  <2>1. CASE t \in tasks[s]
    <3>1. /\ t[1] \in guards[s]
          /\ t[2] \in DOMAIN request[t[1]].replies
          /\ request[t[1]].replies[t[2]] = Slot(s, "waiting")
      BY <1>3, <2>1 DEF TaskInv, SlotMade
    <3>2. t[1] \in guards'[s]
      BY <1>3, <3>1 DEF SlotMade
    <3>3. /\ t[2] \in DOMAIN request'[t[1]].replies
          /\ request'[t[1]].replies[t[2]] = request[t[1]].replies[t[2]]
      BY <1>3, <3>1, SlotsMade
    <3> QED
      BY <3>1, <3>2, <3>3
  <2>2. CASE t \notin tasks[s]
    <3>1. t[1] = current /\ t[2] = n /\ s = at /\ state = "waiting"
      BY <1>8, <2>2
    <3>2. t[1] \in guards'[s]
      BY <1>3, <3>1 DEF SlotMade
    <3> QED
      BY <1>3, <3>1, <3>2, SlotsMade DEF SlotMade
  <2> QED
    BY <2>1, <2>2
<1>11. WatchedInv'
  <2> SUFFICES ASSUME NEW r \in Requests \ unwatched', ~request'[r].finished,
                      NEW i \in DOMAIN request'[r].replies
               PROVE  LET slot == request'[r].replies[i] IN
                      /\ slot.script # 0 => slot.script \in loaded' /\ r \in guards'[slot.script]
                      /\ slot.state = "waiting" => <<r, i>> \in tasks'[slot.script]
    BY DEF WatchedInv
  <2>1. CASE r # current \/ i # n
    <3>1. /\ i \in DOMAIN request[r].replies /\ request'[r].replies[i] = request[r].replies[i]
          /\ ~request[r].finished /\ r \notin unwatched /\ loaded' = loaded
      <4>1. /\ loaded' = loaded /\ n \in 1 .. MaxSlots
            /\ \A q \in Requests : request'[q].finished = request[q].finished
            /\ \A q \in Requests \ {current} : request'[q] = request[q]
            /\ DOMAIN request'[current].replies = DOMAIN request[current].replies \cup {n}
            /\ \A j \in DOMAIN request[current].replies :
                 request'[current].replies[j] = request[current].replies[j]
        BY <1>3, MaxSlotsType DEF SlotMade
      <4> QED
        BY <1>4, <2>1, <4>1
    <3>2. /\ request[r].replies[i].script # 0 =>
               request[r].replies[i].script \in loaded /\ r \in guards[request[r].replies[i].script]
          /\ request[r].replies[i].state = "waiting" => <<r, i>> \in tasks[request[r].replies[i].script]
      BY <3>1 DEF WatchedInv
    <3>3. request[r].replies[i].state = "waiting" => request[r].replies[i].script \in Scripts
      <4>1. request[r].replies[i] \in Slots
        BY <3>1, RequestFields
      <4> QED
        BY <3>1, <4>1, NumScriptsAssumption DEF Slots, Scripts, OrderInv
    <3> QED
      BY <1>3, <1>8, <3>1, <3>2, <3>3 DEF SlotMade, TaskTypes
  <2>2. CASE r = current /\ i = n
    BY <1>3, <1>8, <2>2 DEF SlotMade, Slot, Scripts
  <2> QED
    BY <2>1, <2>2
<1>12. UnwatchedInv'
  <2> SUFFICES ASSUME NEW r \in unwatched', ~request'[r].finished
               PROVE  \E i \in DOMAIN request'[r].replies :
                         request'[r].replies[i].state = "waiting" /\ <<r, i>> \notin AllTasks'
    BY DEF UnwatchedInv
  <2>1. CASE r \in unwatched
    <3>1. ~request[r].finished /\ r \in Requests
      BY <1>3, <2>1 DEF SlotMade, LoopTypes
    <3>2. PICK i \in DOMAIN request[r].replies :
             request[r].replies[i].state = "waiting" /\ <<r, i>> \notin AllTasks
      BY <2>1, <3>1 DEF UnwatchedInv
    <3>3. /\ i \in DOMAIN request'[r].replies /\ request'[r].replies[i] = request[r].replies[i]
          /\ <<r, i>> # <<current, n>>
      BY <1>3, <3>1, <3>2, SlotsMade
    <3> QED
      BY <1>8, <3>2, <3>3
  <2>2. CASE r \notin unwatched
    <3>1. r = current /\ AllTasks' = AllTasks /\ state = "waiting"
      BY <1>4, <1>8, <2>2
    <3> QED
      BY <1>3, <1>7, <3>1, SlotsMade
  <2> QED
    BY <2>1, <2>2
<1>13. AnswerInv'
  <2>1. \A h \in Handles : /\ Fresh(h)' <=> Fresh(h)
                           /\ Answered(h)' <=> Answered(h)
                           /\ OnlyCancelled(h)' <=> OnlyCancelled(h)
    BY <1>3 DEF Fresh, Answered, OnlyCancelled, SlotMade
  <2>2. ASSUME NEW h \in Handles, h # current PROVE HasTask(h)' => HasTask(h)
    BY <1>8, <2>2 DEF HasTask
  <2>3. Fresh(current) /\ ~ Answered(current)
    BY <1>3, <1>6 DEF AnswerInv, Fresh, Answered, SlotMade
  <2>4. \A h \in Handles : h \in Requests => request'[h].finished = request[h].finished
    BY <1>3 DEF SlotMade
  <2>5. started' = started
    BY <1>3 DEF SlotMade
  <2> QED
    BY <1>6, <2>1, <2>2, <2>3, <2>4, <2>5 DEF AnswerInv
<1> QED
  BY <1>3, <1>5, <1>8, <1>9, <1>10, <1>11, <1>12, <1>13

-----------------------------------------------------------------------------
(* Publishing.                                                             *)

RequestType == [replies : Seq(Slots), active : BOOLEAN, finished : BOOLEAN]

\* The slots of q are those of a request that is not over.
InOrder(q) ==
  /\ \A i \in DOMAIN q.replies : IF q.replies[i].script = 0 THEN q.replies[i].state = "error"
                                                            ELSE i <= MaxSlots
  /\ \A i, j \in DOMAIN q.replies : i < j /\ q.replies[j].script # 0 =>
                                      q.replies[i].script <= q.replies[j].script

LEMMA PublishEnds ==
  ASSUME NEW q \in RequestType, Len(q.replies) <= MaxSlots + 1
  PROVE  /\ Publish(q) \in RequestType
         /\ Len(Publish(q).replies) <= MaxSlots + 1
         /\ CanPublish(q) => Publish(q).finished /\ ~q.finished
         /\ ~CanPublish(q) => Publish(q) = q
         /\ ~CanPublish(q) /\ q.active /\ ~q.finished =>
              \E i \in DOMAIN q.replies : q.replies[i].state = "waiting"
<1>1. CASE CanPublish(q)
  <2>1. Publish(q) = [replies |-> <<>>, active |-> FALSE, finished |-> TRUE]
    BY <1>1 DEF Publish
  <2>2. <<>> \in Seq(Slots) /\ Len(<<>>) = 0
    OBVIOUS
  <2> QED
    BY <1>1, <2>1, <2>2, MaxSlotsType DEF RequestType, CanPublish
<1>2. CASE ~CanPublish(q)
  BY <1>2 DEF Publish, CanPublish
<1> QED
  BY <1>1, <1>2

\* What is published is an error, or the versions of the slots, one by one.
LEMMA PublishedReplies ==
  ASSUME NEW q \in RequestType, Len(q.replies) <= MaxSlots + 1, InOrder(q), CanPublish(q)
  PROVE  /\ Published(q) \in Results /\ Published(q) \notin {Pending, Cancelled}
         /\ Published(q).kind = "replies" =>
              /\ Len(Published(q).from) = Len(q.replies)
              /\ DOMAIN Published(q).from = DOMAIN q.replies
              /\ \A i \in DOMAIN q.replies : /\ Published(q).from[i] = q.replies[i].script
                                             /\ q.replies[i].script # 0
<1> DEFINE from == [i \in DOMAIN q.replies |-> q.replies[i].script]
<1>1. q.replies \in Seq(Slots) /\ Len(q.replies) \in Nat /\ DOMAIN q.replies = 1 .. Len(q.replies)
  BY DEF RequestType
<1>2. CASE \E i \in DOMAIN q.replies : q.replies[i].state = "error"
  <2>1. Published(q) = Failure
    BY <1>2 DEF Published
  <2> QED
    BY <2>1 DEF Results, Failure, Pending, Cancelled
<1>3. CASE ~ \E i \in DOMAIN q.replies : q.replies[i].state = "error"
  <2>1. Published(q) = Replies(from)
    BY <1>3 DEF Published
  <2>2. \A i \in DOMAIN q.replies : q.replies[i].script # 0 /\ i <= MaxSlots
    BY <1>3 DEF InOrder
  <2>3. \A i \in DOMAIN q.replies : q.replies[i].script \in Scripts
    <3>1. \A i \in DOMAIN q.replies : q.replies[i] \in Slots
      BY <1>1
    <3> QED
      BY <2>2, <3>1, NumScriptsAssumption DEF Slots, Scripts
  <2>4. Len(q.replies) \in 0 .. NumScripts * MaxHandlers
    <3>1. Len(q.replies) # 0 => Len(q.replies) <= MaxSlots
      BY <1>1, <2>2
    <3> QED
      BY <1>1, <3>1, MaxSlotsType DEF MaxSlots
  <2>5. from \in [1 .. Len(q.replies) -> Scripts]
    BY <1>1, <2>3
  <2>6. Len(from) = Len(q.replies) /\ DOMAIN from = DOMAIN q.replies
        /\ \A i \in DOMAIN q.replies : from[i] = q.replies[i].script
    BY <1>1, <2>5
  <2>7. Replies(from) \in Results
    BY <2>4, <2>5 DEF Results
  <2> HIDE DEF from
  <2>8. Replies(from).kind = "replies" /\ Replies(from).from = from
        /\ Replies(from) \notin {Pending, Cancelled}
    BY DEF Replies, Pending, Cancelled
  <2> QED
    BY <2>1, <2>2, <2>6, <2>7, <2>8
<1> QED
  BY <1>2, <1>3

\* A request that is not over, has a slot and misses no Promise is alive.
LEMMA UnfinishedIsAlive ==
  ASSUME IInv, NEW r \in Requests \ unwatched, ~request[r].finished, DOMAIN request[r].replies # {}
  PROVE  Alive(r)
<1> USE DEF IInv, TypeInv
<1>1. r \in started
  BY RequestFields DEF StartedInv
<1>2. CASE r = current
  BY <1>2 DEF Alive
<1>3. CASE r # current
  <2>1. PICK i \in DOMAIN request[r].replies : request[r].replies[i].state = "waiting"
    BY <1>1, <1>3 DEF StartedInv
  <2>2. request[r].replies[i].script \in Scripts
    <3>1. request[r].replies[i] \in Slots
      BY RequestFields
    <3> QED
      BY <2>1, <3>1, NumScriptsAssumption DEF Slots, Scripts, OrderInv
  <2>3. <<r, i>> \in tasks[request[r].replies[i].script]
    BY <2>1 DEF WatchedInv
  <2>4. <<r, i>> \in AllTasks /\ <<r, i>>[1] = r
    BY <2>2, <2>3, InAllTasks
  <2> QED
    BY <2>4 DEF Alive
<1> QED
  BY <1>2, <1>3

LEMMA FinishRequestKeeps == ASSUME IInv, FinishRequest PROVE IInv'
<1> USE DEF IInv, TypeInv
<1>1. /\ op = "settled" /\ current \in Requests /\ op' = "idle" /\ current' = NoHandle
      /\ UNCHANGED <<loaded, tasks, activeTasks, outcome, at, handlers, entered, failed, started,
                     historyVars>>
      /\ guards' = [s \in Scripts |-> IF s \in loaded THEN {r \in guards[s] : Alive(r) /\ ~request'[r].finished}
                                                      ELSE guards[s]]
  BY DEF FinishRequest
<1> DEFINE q0 == request[current]
<1>2. PICK jobFailed \in BOOLEAN :
        LET q1 == IF failed \/ jobFailed
                  THEN [q0 EXCEPT !.replies = Append(@, Slot(0, "error"))] ELSE q0
            q == [q1 EXCEPT !.active = TRUE]
        IN  /\ request' = [request EXCEPT ![current] = Publish(q)]
            /\ result' = IF CanPublish(q)
                         THEN [result EXCEPT ![current] = Complete(@, Published(q))] ELSE result
  BY DEF FinishRequest
<1> DEFINE q1 == IF failed \/ jobFailed THEN [q0 EXCEPT !.replies = Append(@, Slot(0, "error"))] ELSE q0
           q == [q1 EXCEPT !.active = TRUE]
<1>3. /\ request' = [request EXCEPT ![current] = Publish(q)]
      /\ result' = IF CanPublish(q)
                   THEN [result EXCEPT ![current] = Complete(@, Published(q))] ELSE result
  BY <1>2
<1>4. /\ q0.replies \in Seq(Slots) /\ Len(q0.replies) \in Nat /\ DOMAIN q0.replies = 1 .. Len(q0.replies)
      /\ q0 \in RequestType /\ ~q0.finished /\ Len(q0.replies) <= MaxSlots
      /\ \A i \in DOMAIN q0.replies : q0.replies[i] \in Slots
  BY <1>1, RequestFields DEF RequestTypes, RequestType, PhaseInv
<1>5. Slot(0, "error") \in Slots
  BY NumScriptsAssumption DEF Slot, Slots
<1>6. /\ q \in RequestType /\ q.active /\ ~q.finished
      /\ \/ q.replies = q0.replies
         \/ q.replies = Append(q0.replies, Slot(0, "error"))
  <2>1. q1 \in RequestType /\ ~q1.finished
        /\ (q1.replies = q0.replies \/ q1.replies = Append(q0.replies, Slot(0, "error")))
    BY <1>4, <1>5 DEF RequestType
  <2> HIDE DEF q1
  <2> QED
    BY <2>1 DEF RequestType
<1> HIDE DEF q, q1
<1>7. /\ DOMAIN q.replies = 1 .. Len(q.replies) /\ Len(q.replies) \in Nat
      /\ Len(q.replies) <= MaxSlots + 1
      /\ \A i \in DOMAIN q0.replies : i \in DOMAIN q.replies /\ q.replies[i] = q0.replies[i]
      /\ \A i \in DOMAIN q.replies : \/ i \in DOMAIN q0.replies
                                     \/ /\ q.replies[i] = Slot(0, "error")
                                        /\ \A j \in DOMAIN q0.replies : j < i
                                        /\ \A j \in DOMAIN q.replies : j <= i
  <2>1. CASE q.replies = q0.replies
    BY <1>4, <2>1, MaxSlotsType
  <2>2. CASE q.replies = Append(q0.replies, Slot(0, "error"))
    <3>1. /\ Len(q.replies) = Len(q0.replies) + 1 /\ DOMAIN q.replies = 1 .. Len(q0.replies) + 1
          /\ \A i \in 1 .. Len(q0.replies) : q.replies[i] = q0.replies[i]
          /\ q.replies[Len(q0.replies) + 1] = Slot(0, "error")
      BY <1>4, <1>5, <2>2
    <3>2. \A i \in 1 .. Len(q0.replies) + 1 : i \in 1 .. Len(q0.replies) \/ i = Len(q0.replies) + 1
      BY <1>4
    <3> QED
      BY <1>4, <3>1, <3>2, MaxSlotsType
  <2> QED
    BY <1>6, <2>1, <2>2
<1>8. InOrder(q)
  <2>1. Slot(0, "error").script = 0 /\ Slot(0, "error").state = "error"
    BY DEF Slot
  <2>2. InOrder(q0)
    BY <1>1, <1>4 DEF OrderInv, InOrder
  <2>3. \A i \in DOMAIN q.replies : IF q.replies[i].script = 0 THEN q.replies[i].state = "error"
                                                              ELSE i <= MaxSlots
    BY <1>7, <2>1, <2>2 DEF InOrder
  <2>4. ASSUME NEW i \in DOMAIN q.replies, NEW j \in DOMAIN q.replies, i < j, q.replies[j].script # 0
        PROVE  q.replies[i].script <= q.replies[j].script
    <3>1. j \in DOMAIN q0.replies
      BY <1>7, <2>1, <2>4
    <3>2. i \in DOMAIN q0.replies
      BY <1>4, <1>7, <2>4, <3>1
    <3> QED
      BY <1>7, <2>2, <2>4, <3>1, <3>2 DEF InOrder
  <2> QED
    BY <2>3, <2>4 DEF InOrder
<1>9. /\ Publish(q) \in RequestType
      /\ Len(Publish(q).replies) <= MaxSlots + 1
      /\ CanPublish(q) => Publish(q).finished
      /\ ~CanPublish(q) => Publish(q) = q
      /\ ~CanPublish(q) => \E i \in DOMAIN q.replies : q.replies[i].state = "waiting"
  BY <1>6, <1>7, PublishEnds
<1>10. CanPublish(q) => Published(q) \in Results /\ Published(q) \notin {Pending, Cancelled}
  BY <1>6, <1>7, <1>8, PublishedReplies
<1>11. /\ request'[current] = Publish(q)
       /\ \A r \in Requests : r # current => request'[r] = request[r]
  BY <1>1, <1>3 DEF RequestTypes
<1>12. \A s \in Scripts : \A r : r \in guards'[s] <=>
          r \in guards[s] /\ (s \in loaded => Alive(r) /\ ~request'[r].finished)
  BY <1>1
<1>13. TypeInv'
  <2>1. LoopTypes'
    BY <1>1 DEF LoopTypes, historyVars
  <2>2. TaskTypes'
    <3>1. guards' \in [Scripts -> SUBSET Requests]
      BY <1>1 DEF TaskTypes
    <3> QED
      BY <1>1, <3>1 DEF TaskTypes
  <2>3. RequestTypes'
    BY <1>3, <1>9, <1>11 DEF RequestTypes, RequestType
  <2>4. ResultTypes'
    <3>1. CanPublish(q) => Complete(result[current], Published(q)) \in Results
      BY <1>1, <1>10, HandleKinds DEF Complete, ResultTypes
    <3>2. result' \in [Handles -> Results]
      BY <1>3, <3>1 DEF ResultTypes
    <3> QED
      BY <1>1, <3>2 DEF ResultTypes, historyVars
  <2> QED
    BY <2>1, <2>2, <2>3, <2>4
<1>14. PhaseInv'
  BY <1>1, HandleKinds DEF PhaseInv
<1>15. StartedInv'
  <2>1. ASSUME NEW r \in Requests \cap started', ~request'[r].finished
        PROVE  /\ request'[r].active
               /\ \E i \in DOMAIN request'[r].replies : request'[r].replies[i].state = "waiting"
    <3>1. CASE r = current
      BY <1>6, <1>9, <1>11, <2>1, <3>1
    <3>2. CASE r # current
      BY <1>1, <1>11, <2>1, <3>2 DEF StartedInv
    <3> QED
      BY <3>1, <3>2
  <2>2. current \in started
    BY <1>1 DEF PhaseInv
  <2> QED
    BY <1>1, <1>11, <2>1, <2>2 DEF StartedInv, historyVars
<1>16. AllTasks' = AllTasks
  BY <1>1 DEF AllTasks
<1>17. OwnedInv' /\ CountInv'
  BY <1>1, <1>16 DEF OwnedInv, CountInv
<1>18. TaskInv'
  <2> SUFFICES ASSUME NEW s \in Scripts, NEW t \in tasks[s], t[1] \in Requests, ~request'[t[1]].finished
               PROVE  /\ t[1] \in guards'[s]
                      /\ t[2] \in DOMAIN request'[t[1]].replies
                      /\ request'[t[1]].replies[t[2]] = Slot(s, "waiting")
    BY <1>1 DEF TaskInv
  <2>1. ~request[t[1]].finished
    BY <1>4, <1>11
  <2>2. /\ t[1] \in guards[s] /\ t[2] \in DOMAIN request[t[1]].replies
        /\ request[t[1]].replies[t[2]] = Slot(s, "waiting")
    BY <2>1 DEF TaskInv
  <2>3. Alive(t[1])
    BY InAllTasks DEF Alive
  <2>4. t[1] \in guards'[s]
    BY <1>12, <2>2, <2>3
  <2>5. t[1] = current => request'[current] = q
    BY <1>9, <1>11
  <2> QED
    BY <1>7, <1>11, <2>2, <2>4, <2>5
<1>19. OrderInv'
  <2>1. ASSUME NEW r \in Requests, ~request'[r].finished PROVE InOrder(request'[r])
    <3>1. CASE r = current
      BY <1>8, <1>9, <1>11, <2>1, <3>1
    <3>2. CASE r # current
      BY <1>11, <2>1, <3>2 DEF OrderInv, InOrder
    <3> QED
      BY <3>1, <3>2
  <2> QED
    BY <2>1 DEF OrderInv, InOrder
<1>20. WatchedInv'
  <2> SUFFICES ASSUME NEW r \in Requests \ unwatched, ~request'[r].finished,
                      NEW i \in DOMAIN request'[r].replies
               PROVE  LET slot == request'[r].replies[i] IN
                      /\ slot.script # 0 => slot.script \in loaded /\ r \in guards'[slot.script]
                      /\ slot.state = "waiting" => <<r, i>> \in tasks[slot.script]
    BY <1>1 DEF WatchedInv, historyVars
  <2>1. ~request[r].finished
    BY <1>4, <1>11
  <2>2. CASE i \in DOMAIN request[r].replies /\ request'[r].replies[i] = request[r].replies[i]
    <3>1. Alive(r)
      BY <2>1, <2>2, UnfinishedIsAlive
    <3>2. loaded \subseteq Scripts
      BY DEF TaskTypes
    <3> QED
      BY <1>12, <2>1, <2>2, <3>1, <3>2 DEF WatchedInv
  <2>3. CASE request'[r].replies[i] = Slot(0, "error")
    BY <2>3 DEF Slot
  <2> QED
    BY <1>7, <1>9, <1>11, <2>2, <2>3
<1>21. UnwatchedInv'
  <2> SUFFICES ASSUME NEW r \in unwatched, ~request'[r].finished
               PROVE  \E i \in DOMAIN request'[r].replies :
                         request'[r].replies[i].state = "waiting" /\ <<r, i>> \notin AllTasks
    BY <1>1, <1>16 DEF UnwatchedInv, historyVars
  <2>1. ~request[r].finished /\ r \in Requests
    BY <1>4, <1>11 DEF LoopTypes
  <2>2. PICK i \in DOMAIN request[r].replies :
           request[r].replies[i].state = "waiting" /\ <<r, i>> \notin AllTasks
    BY <2>1 DEF UnwatchedInv
  <2>3. i \in DOMAIN request'[r].replies /\ request'[r].replies[i] = request[r].replies[i]
    BY <1>7, <1>9, <1>11, <2>1, <2>2
  <2> QED
    BY <2>2, <2>3
<1>22. PICK c \in Requests : c = current
  BY <1>1
<1>23. AnswerInv'
  <2>1. \A h \in Handles : HasTask(h)' <=> HasTask(h)
    BY <1>1 DEF HasTask
  <2>2. /\ c \in Handles /\ c \notin DeferredCalls /\ c \in started
        /\ Fresh(c) /\ ~ Answered(c) /\ ~request[c].finished
    BY <1>1, <1>4, <1>22, HandleKinds DEF AnswerInv, PhaseInv, Fresh, Answered
  <2>3. ASSUME NEW g \in Handles, result'[g] = result[g]
        PROVE  /\ Fresh(g)' <=> Fresh(g)
               /\ Answered(g)' <=> Answered(g)
               /\ OnlyCancelled(g)' <=> OnlyCancelled(g)
    BY <1>1, <2>3 DEF Fresh, Answered, OnlyCancelled, historyVars
  <2>4. CASE CanPublish(q)
    <3>1. result' = [result EXCEPT ![c] = Published(q)]
      BY <1>3, <1>22, <2>2, <2>4 DEF Fresh, Complete
    <3>2. result'[c] = Published(q) /\ taken'[c] = <<>>
      BY <1>1, <2>2, <3>1 DEF Fresh, ResultTypes, historyVars
    <3>3. Answered(c)'
      BY <1>10, <2>4, <3>2 DEF Answered
    <3>4. ~ HasTask(c)
      <4>1. ASSUME NEW s \in Scripts, NEW t \in tasks[s], t[1] = c PROVE FALSE
        <5>1. /\ t[2] \in DOMAIN request[t[1]].replies
              /\ request[t[1]].replies[t[2]] = Slot(s, "waiting")
          BY <2>2, <4>1 DEF TaskInv
        <5>2. q.replies[t[2]] = Slot(s, "waiting") /\ t[2] \in DOMAIN q.replies
          BY <1>7, <1>22, <4>1, <5>1
        <5> QED
          BY <2>4, <5>2 DEF CanPublish, Slot
      <4> QED
        BY <4>1 DEF HasTask
    <3>5. \A g \in Handles : g # c => result'[g] = result[g]
      BY <3>1 DEF ResultTypes
    <3>6. request'[c].finished
      BY <1>9, <1>11, <1>22, <2>4
    <3> QED
      BY <1>1, <1>11, <1>22, <2>1, <2>2, <2>3, <3>3, <3>4, <3>5, <3>6 DEF AnswerInv
  <2>5. CASE ~ CanPublish(q)
    <3>1. result' = result
      BY <1>3, <2>5
    <3> QED
      BY <1>1, <1>11, <1>22, <2>1, <2>2, <2>3, <3>1 DEF AnswerInv
  <2> QED
    BY <2>4, <2>5
<1> QED
  BY <1>13, <1>14, <1>15, <1>17, <1>18, <1>19, <1>20, <1>21, <1>23

-----------------------------------------------------------------------------
(* The harvest and the retirement of a version.                            *)

\* A step that only removes tasks, all counted, keeps the count and the owners.
LEMMA TasksRemoved ==
  ASSUME TaskTypes, OwnedInv, CountInv, NEW gone \in SUBSET AllTasks,
         \A s \in Scripts : tasks'[s] = tasks[s] \ gone,
         loaded' \subseteq loaded, \A s \in Scripts \ loaded' : tasks'[s] = {},
         activeTasks' = activeTasks - Cardinality(gone), UNCHANGED started
  PROVE  /\ OwnedInv' /\ CountInv'
         /\ \A t : t \in AllTasks' <=> t \in AllTasks /\ t \notin gone
<1>1. \A t : t \in AllTasks' <=> t \in AllTasks /\ t \notin gone
  <2>1. \A t : t \in AllTasks' <=> \E s \in Scripts : t \in tasks'[s]
    BY DEF AllTasks
  <2> QED
    BY <2>1, InAllTasks
<1>2. OwnedInv'
  <2>1. ASSUME NEW s \in Scripts, NEW v \in Scripts, s # v PROVE tasks'[s] \cap tasks'[v] = {}
    BY <2>1 DEF OwnedInv
  <2>2. \A s \in Scripts : \A t \in tasks'[s] : t[1] \in started' /\ (t[1] \in DeferredCalls => t[2] = 1)
    BY DEF OwnedInv
  <2> QED
    BY <2>1, <2>2 DEF OwnedInv
<1>3. CountInv'
  <2>1. AllTasks' = AllTasks \ gone
    BY <1>1
  <2>2. IsFiniteSet(gone) /\ AllTasks \cap gone = gone
    BY FS_Subset DEF CountInv
  <2>3. /\ IsFiniteSet(AllTasks \ gone)
        /\ Cardinality(AllTasks \ gone) = Cardinality(AllTasks) - Cardinality(AllTasks \cap gone)
    BY FS_Difference DEF CountInv
  <2> QED
    BY <2>1, <2>2, <2>3 DEF CountInv
<1> QED
  BY <1>1, <1>2, <1>3

\* poll_tasks: what the harvest makes of the slots of a request.
LEMMA RecordedSlots ==
  ASSUME IInv, NEW r \in Requests
  PROVE  /\ Recorded(r) \in RequestType
         /\ Recorded(r).active = request[r].active /\ Recorded(r).finished = request[r].finished
         /\ Len(Recorded(r).replies) = Len(request[r].replies)
         /\ DOMAIN Recorded(r).replies = DOMAIN request[r].replies
         /\ \A i \in DOMAIN request[r].replies :
              /\ Recorded(r).replies[i].script = request[r].replies[i].script
              /\ IF <<r, i>> \in Done THEN Recorded(r).replies[i].state \in {"ok", "error"}
                                      ELSE Recorded(r).replies[i] = request[r].replies[i]
<1> USE DEF IInv, TypeInv
<1> DEFINE old == request[r].replies
           new == [i \in DOMAIN old |-> IF <<r, i>> \in Done
                                        THEN [old[i] EXCEPT !.state = outcome[<<r, i>>]] ELSE old[i]]
<1>1. /\ request[r] \in RequestType /\ old \in Seq(Slots) /\ Len(old) \in Nat
      /\ DOMAIN old = 1 .. Len(old) /\ \A i \in DOMAIN old : old[i] \in Slots
  BY RequestFields DEF RequestTypes, RequestType
<1>2. Recorded(r) = [request[r] EXCEPT !.replies = new]
  BY DEF Recorded
<1>3. \A t \in Done : outcome[t] \in {"ok", "error"}
  BY DEF Done, TaskTypes
<1>4. ASSUME NEW i \in DOMAIN old
      PROVE  /\ new[i] \in Slots /\ new[i].script = old[i].script
             /\ IF <<r, i>> \in Done THEN new[i].state \in {"ok", "error"} ELSE new[i] = old[i]
  <2>1. old[i] \in [script : 0 .. NumScripts, state : {"waiting", "ok", "error"}]
    BY <1>1 DEF Slots
  <2>2. CASE <<r, i>> \in Done
    <3>1. new[i] = [old[i] EXCEPT !.state = outcome[<<r, i>>]]
      BY <2>2
    <3>2. outcome[<<r, i>>] \in {"ok", "error"}
      BY <1>3, <2>2
    <3> HIDE DEF new, old
    <3> QED
      BY <2>1, <2>2, <3>1, <3>2 DEF Slots
  <2>3. CASE <<r, i>> \notin Done
    BY <1>1, <2>3
  <2> QED
    BY <2>2, <2>3
<1>5. DOMAIN new = DOMAIN old
  OBVIOUS
<1> HIDE DEF new
<1>6. new \in Seq(Slots) /\ Len(new) = Len(old)
  <2>1. new \in [1 .. Len(old) -> Slots]
    <3>1. new = [i \in DOMAIN old |-> new[i]]
      BY DEF new
    <3> QED
      BY <1>1, <1>4, <1>5, <3>1
  <2> QED
    BY <1>1, <2>1
<1>7. /\ Recorded(r).replies = new /\ Recorded(r) \in RequestType
      /\ Recorded(r).active = request[r].active /\ Recorded(r).finished = request[r].finished
  BY <1>1, <1>2, <1>6 DEF RequestType
<1> QED
  BY <1>4, <1>5, <1>6, <1>7

\* Recording the settled tasks keeps the slots in order: the slot of a task is no error.
LEMMA RecordedInOrder ==
  ASSUME IInv, NEW r \in Requests, ~request[r].finished
  PROVE  InOrder(Recorded(r))
<1> USE DEF IInv, TypeInv
<1>1. InOrder(request[r])
  BY DEF OrderInv, InOrder
<1>2. ASSUME NEW i \in DOMAIN request[r].replies, request[r].replies[i].script = 0
      PROVE  <<r, i>> \notin Done
  <2>1. ASSUME NEW s \in Scripts, <<r, i>> \in tasks[s] PROVE FALSE
    <3>1. request[r].replies[i] = Slot(s, "waiting")
      BY <2>1 DEF TaskInv
    <3> QED
      BY <1>2, <3>1 DEF Slot, Scripts
  <2> QED
    BY <2>1 DEF Done, TaskTypes
<1>3. \A i \in DOMAIN Recorded(r).replies :
         IF Recorded(r).replies[i].script = 0 THEN Recorded(r).replies[i].state = "error"
                                              ELSE i <= MaxSlots
  BY <1>1, <1>2, RecordedSlots DEF InOrder
<1>4. \A i, j \in DOMAIN Recorded(r).replies : i < j /\ Recorded(r).replies[j].script # 0 =>
         Recorded(r).replies[i].script <= Recorded(r).replies[j].script
  BY <1>1, RecordedSlots DEF InOrder
<1> QED
  BY <1>3, <1>4 DEF InOrder

LEMMA SkippedHarvestKeeps == ASSUME IInv, Harvest, activeTasks = 0 PROVE IInv'
<1> USE DEF IInv, TypeInv
<1>1. /\ UNCHANGED <<loaded, taskVars, request, result, outcome, current, at, handlers, started,
                     historyVars>>
      /\ op' = IF current = NoHandle THEN "idle" ELSE "settled"
  BY DEF Harvest
<1>2. /\ RequestTypes' /\ ResultTypes'
      /\ OwnedInv' /\ CountInv' /\ TaskInv' /\ OrderInv' /\ WatchedInv' /\ UnwatchedInv'
  BY <1>1, FrameKeeps
<1>3. AnswerInv' /\ StartedInv' /\ PhaseInv'
  BY <1>1, AnswersStand DEF taskVars, historyVars, StartedInv, PhaseInv, LoopTypes
<1>4. LoopTypes' /\ TaskTypes'
  BY <1>1 DEF LoopTypes, TaskTypes, taskVars, historyVars
<1> QED
  BY <1>2, <1>3, <1>4

LEMMA HarvestKeeps == ASSUME IInv, Harvest, activeTasks # 0 PROVE IInv'
<1> USE DEF IInv, TypeInv
<1>1. /\ op = "settling" /\ op' = IF current = NoHandle THEN "idle" ELSE "settled"
      /\ UNCHANGED <<loaded, outcome, current, at, handlers, started, taken, unwatched>>
      /\ tasks' = [s \in Scripts |-> tasks[s] \ Done]
      /\ activeTasks' = activeTasks - Cardinality(Done)
      /\ request' = [r \in Requests |-> Publish(Recorded(r))]
      /\ guards' = SweptGuards
  BY DEF Harvest, Forgotten, historyVars
<1>2. result' = [h \in Handles |->
         IF h \in Requests
         THEN IF CanPublish(Recorded(h)) THEN Complete(result[h], Published(Recorded(h))) ELSE result[h]
         ELSE IF <<h, 1>> \in Done
              THEN Complete(result[h], IF outcome[<<h, 1>>] = "ok" THEN Replies(<<>>) ELSE Failure)
              ELSE result[h]]
  BY DEF Harvest
<1>3. /\ Done \in SUBSET AllTasks
      /\ \A t \in AllTasks : t \notin Done => outcome[t] = "pending"
  <2>1. \A t \in UNION {tasks[s] : s \in loaded} : t \in AllTasks
    BY InAllTasks DEF TaskTypes
  <2>2. \A t \in AllTasks : t \in UNION {tasks[s] : s \in loaded}
    BY InAllTasks DEF OwnedInv
  <2> QED
    BY <2>1, <2>2 DEF Done
<1>4. /\ OwnedInv' /\ CountInv'
      /\ \A t : t \in AllTasks' <=> t \in AllTasks /\ t \notin Done
  <2>1. \A s \in Scripts : tasks'[s] = tasks[s] \ Done
    BY <1>1
  <2>2. \A s \in Scripts \ loaded' : tasks'[s] = {}
    BY <1>1, <2>1 DEF OwnedInv
  <2> QED
    BY <1>1, <1>3, <2>1, <2>2, TasksRemoved
\* A request the harvest does not publish keeps its slots, but for those of settled tasks.
<1>5. ASSUME NEW r \in Requests
      PROVE  /\ request'[r] = Publish(Recorded(r)) /\ request'[r] \in RequestType
             /\ Len(request'[r].replies) <= MaxSlots + 1
             /\ Recorded(r) \in RequestType /\ Len(Recorded(r).replies) <= MaxSlots + 1
             /\ CanPublish(Recorded(r)) => request'[r].finished /\ ~request[r].finished
             /\ ~CanPublish(Recorded(r)) => request'[r] = Recorded(r)
             /\ request[r].finished => request'[r].finished
             /\ ~CanPublish(Recorded(r)) /\ request[r].active /\ ~request[r].finished =>
                  \E i \in DOMAIN Recorded(r).replies : Recorded(r).replies[i].state = "waiting"
  <2>1. Recorded(r) \in RequestType /\ Len(Recorded(r).replies) <= MaxSlots + 1
    BY RecordedSlots DEF RequestTypes
  <2>2. /\ Publish(Recorded(r)) \in RequestType
        /\ Len(Publish(Recorded(r)).replies) <= MaxSlots + 1
        /\ CanPublish(Recorded(r)) => Publish(Recorded(r)).finished /\ ~Recorded(r).finished
        /\ ~CanPublish(Recorded(r)) => Publish(Recorded(r)) = Recorded(r)
        /\ ~CanPublish(Recorded(r)) /\ Recorded(r).active /\ ~Recorded(r).finished =>
              \E i \in DOMAIN Recorded(r).replies : Recorded(r).replies[i].state = "waiting"
    BY <2>1, PublishEnds
  <2>3. request'[r] = Publish(Recorded(r))
    BY <1>1
  <2>4. Recorded(r).active = request[r].active /\ Recorded(r).finished = request[r].finished
    BY RecordedSlots
  <2> QED
    BY <2>1, <2>2, <2>3, <2>4
<1>6. ASSUME NEW r \in Requests, ~request'[r].finished
      PROVE  /\ ~request[r].finished /\ ~CanPublish(Recorded(r))
             /\ request'[r].active = request[r].active
             /\ Len(request'[r].replies) = Len(request[r].replies)
             /\ DOMAIN request'[r].replies = DOMAIN request[r].replies
             /\ \A i \in DOMAIN request[r].replies :
                  /\ request'[r].replies[i].script = request[r].replies[i].script
                  /\ IF <<r, i>> \in Done THEN request'[r].replies[i].state \in {"ok", "error"}
                                          ELSE request'[r].replies[i] = request[r].replies[i]
  BY <1>5, <1>6, RecordedSlots
<1>7. \A r \in Requests : ~request[r].active => ~CanPublish(Recorded(r))
  BY RecordedSlots DEF CanPublish
<1>8. \A s \in Scripts : \A r : r \in guards'[s] <=>
          r \in guards[s] /\ (s \in loaded => GuardPending(r)')
  BY <1>1 DEF SweptGuards
<1>9. StartedInv'
  <2>1. ASSUME NEW r \in Requests \ started
        PROVE  /\ Len(request'[r].replies) = 0 /\ ~request'[r].active /\ ~request'[r].finished
               /\ r \notin unwatched
    BY <1>5, <1>7, RecordedSlots DEF StartedInv
  <2>2. ASSUME NEW r \in Requests \cap started, r # current, ~request'[r].finished
        PROVE  /\ request'[r].active
               /\ \E i \in DOMAIN request'[r].replies : request'[r].replies[i].state = "waiting"
    BY <1>5, <1>6, <2>2 DEF StartedInv
  <2> QED
    BY <1>1, <2>1, <2>2 DEF StartedInv
<1>10. PhaseInv'
  <2>1. current # NoHandle => current \in Requests
    BY DEF LoopTypes
  <2>2. current \in Requests => /\ ~request'[current].active /\ ~request'[current].finished
                                /\ Len(request'[current].replies) = Len(request[current].replies)
    BY <1>5, <1>7, RecordedSlots DEF PhaseInv
  <2> QED
    BY <1>1, <2>1, <2>2 DEF PhaseInv
<1>11. OrderInv'
  <2>1. ASSUME NEW r \in Requests, ~request'[r].finished PROVE InOrder(request'[r])
    BY <1>5, <1>6, <2>1, RecordedInOrder
  <2> QED
    BY <2>1 DEF OrderInv, InOrder
<1>12. TaskInv'
  <2> SUFFICES ASSUME NEW s \in Scripts, NEW t \in tasks'[s], t[1] \in Requests, ~request'[t[1]].finished
               PROVE  /\ t[1] \in guards'[s]
                      /\ t[2] \in DOMAIN request'[t[1]].replies
                      /\ request'[t[1]].replies[t[2]] = Slot(s, "waiting")
    BY DEF TaskInv
  <2>1. t \in tasks[s] /\ t \notin Done /\ t \in AllTasks'
    <3>1. t \in tasks[s] /\ t \notin Done
      BY <1>1
    <3> QED
      BY <1>4, <3>1, InAllTasks
  <2>2. ~request[t[1]].finished
    BY <1>6
  <2>3. /\ t[1] \in guards[s] /\ t[2] \in DOMAIN request[t[1]].replies
        /\ request[t[1]].replies[t[2]] = Slot(s, "waiting")
    BY <2>1, <2>2 DEF TaskInv
  <2>4. t = <<t[1], t[2]>>
    BY <2>1 DEF TaskTypes, Tasks
  <2>5. GuardPending(t[1])'
    BY <2>1 DEF GuardPending, Alive
  <2>6. t[1] \in guards'[s]
    BY <1>8, <2>3, <2>5
  <2>7. request'[t[1]].replies[t[2]] = request[t[1]].replies[t[2]]
    BY <1>6, <2>1, <2>3, <2>4
  <2> QED
    BY <1>6, <2>3, <2>6, <2>7
<1>13. WatchedInv'
  <2> SUFFICES ASSUME NEW r \in Requests \ unwatched, ~request'[r].finished,
                      NEW i \in DOMAIN request'[r].replies
               PROVE  LET slot == request'[r].replies[i] IN
                      /\ slot.script # 0 => slot.script \in loaded /\ r \in guards'[slot.script]
                      /\ slot.state = "waiting" => <<r, i>> \in tasks'[slot.script]
    BY <1>1 DEF WatchedInv
  <2>1. ASSUME NEW k \in DOMAIN request'[r].replies, request'[r].replies[k].state = "waiting"
        PROVE  /\ request[r].replies[k].script \in Scripts
               /\ <<r, k>> \in tasks'[request[r].replies[k].script]
    <3>1. <<r, k>> \notin Done /\ request'[r].replies[k] = request[r].replies[k]
          /\ k \in DOMAIN request[r].replies
      BY <1>6, <2>1
    <3>2. request[r].replies[k].script \in Scripts
      <4>1. request[r].replies[k] \in Slots
        BY <3>1, RequestFields
      <4> QED
        BY <1>6, <2>1, <3>1, <4>1, NumScriptsAssumption DEF Slots, Scripts, OrderInv
    <3>3. <<r, k>> \in tasks[request[r].replies[k].script]
      BY <1>6, <2>1, <3>1 DEF WatchedInv
    <3> QED
      BY <1>1, <3>1, <3>2, <3>3
  <2>2. GuardPending(r)'
    <3>1. CASE r = current
      BY <1>1, <3>1 DEF GuardPending, Alive
    <3>2. CASE r # current
      <4>1. r \in started
        BY <1>6, RequestFields DEF StartedInv
      <4>2. PICK k \in DOMAIN request'[r].replies : request'[r].replies[k].state = "waiting"
        BY <1>1, <1>9, <3>2, <4>1 DEF StartedInv
      <4>3. <<r, k>> \in AllTasks'
        BY <2>1, <4>2 DEF AllTasks
      <4>4. \E t \in AllTasks' : t[1] = r
        BY <4>3
      <4> QED
        BY <4>4 DEF GuardPending, Alive
    <3> QED
      BY <3>1, <3>2
  <2>3. i \in DOMAIN request[r].replies /\ request'[r].replies[i].script = request[r].replies[i].script
        /\ ~request[r].finished
    BY <1>6
  <2>4. request[r].replies[i].script # 0 =>
           /\ request[r].replies[i].script \in loaded
           /\ r \in guards[request[r].replies[i].script]
    BY <2>3 DEF WatchedInv
  <2>5. loaded \subseteq Scripts
    BY DEF TaskTypes
  <2>6. request'[r].replies[i].script # 0 =>
           /\ request'[r].replies[i].script \in loaded
           /\ r \in guards'[request'[r].replies[i].script]
    BY <1>8, <2>2, <2>3, <2>4, <2>5
  <2> QED
    BY <2>1, <2>3, <2>6
<1>14. UnwatchedInv'
  <2> SUFFICES ASSUME NEW r \in unwatched, ~request'[r].finished
               PROVE  \E i \in DOMAIN request'[r].replies :
                         request'[r].replies[i].state = "waiting" /\ <<r, i>> \notin AllTasks'
    BY <1>1 DEF UnwatchedInv
  <2>1. r \in Requests
    BY DEF LoopTypes
  <2>2. PICK i \in DOMAIN request[r].replies :
           request[r].replies[i].state = "waiting" /\ <<r, i>> \notin AllTasks
    BY <1>6, <2>1 DEF UnwatchedInv
  <2>3. <<r, i>> \notin Done /\ <<r, i>> \notin AllTasks'
    BY <1>3, <1>4, <2>2
  <2> QED
    BY <1>6, <2>1, <2>2, <2>3
<1>15. ASSUME NEW r \in Requests, CanPublish(Recorded(r))
       PROVE  /\ Published(Recorded(r)) \in Results
              /\ Published(Recorded(r)) \notin {Pending, Cancelled}
              /\ ~HasTask(r)'
  <2>1. ~request[r].finished
    BY <1>5, <1>15
  <2>2. InOrder(Recorded(r))
    BY <2>1, RecordedInOrder
  <2>3. /\ Published(Recorded(r)) \in Results
        /\ Published(Recorded(r)) \notin {Pending, Cancelled}
    BY <1>5, <1>15, <2>2, PublishedReplies
  <2>4. ASSUME NEW s \in Scripts, NEW t \in tasks'[s], t[1] = r PROVE FALSE
    <3>1. t \in tasks[s] /\ t \notin Done
      BY <1>1
    <3>2. t = <<r, t[2]>> /\ t[2] \in DOMAIN request[r].replies
          /\ request[r].replies[t[2]] = Slot(s, "waiting")
      BY <2>1, <2>4, <3>1 DEF TaskInv, TaskTypes, Tasks
    <3>3. Recorded(r).replies[t[2]] = Slot(s, "waiting") /\ t[2] \in DOMAIN Recorded(r).replies
      BY <3>1, <3>2, RecordedSlots
    <3> QED
      BY <1>15, <3>3 DEF CanPublish, Slot
  <2> QED
    BY <2>3, <2>4 DEF HasTask
<1>16. ASSUME NEW h \in DeferredCalls, <<h, 1>> \in Done
       PROVE  Fresh(h) /\ ~HasTask(h)' /\ h \in started
  <2>1. HasTask(h) /\ h \in started
    BY <1>3, <1>16, InAllTasks DEF HasTask, OwnedInv
  <2>2. ASSUME NEW s \in Scripts, NEW t \in tasks'[s], t[1] = h PROVE FALSE
    <3>1. t \in tasks[s] /\ t \notin Done
      BY <1>1
    <3>2. t[2] = 1
      BY <2>2, <3>1 DEF OwnedInv
    <3>3. t = <<t[1], t[2]>>
      BY <3>1 DEF TaskTypes, Tasks
    <3> QED
      BY <1>16, <2>2, <3>1, <3>2, <3>3
  <2> QED
    BY <2>1, <2>2, HandleKinds DEF AnswerInv, HasTask
<1>17. /\ Replies(<<>>) \in Results /\ Failure \in Results
       /\ Replies(<<>>) \notin {Pending, Cancelled} /\ Failure \notin {Pending, Cancelled}
  <2>1. <<>> \in [1 .. 0 -> Scripts] /\ 0 \in 0 .. NumScripts * MaxHandlers
    BY MaxSlotsType DEF MaxSlots
  <2> QED
    BY <2>1 DEF Results, Replies, Failure, Pending, Cancelled
\* A handle keeps its result, or has its one answer, with nothing left to give another.
<1>18. ASSUME NEW h \in Handles
       PROVE  \/ result'[h] = result[h]
              \/ /\ Fresh(h) /\ ~HasTask(h)' /\ h \in started
                 /\ result'[h] \in Results /\ result'[h] \notin {Pending, Cancelled}
                 /\ h \in Requests => request'[h].finished
  <2>1. CASE h \in Requests
    <3>1. result'[h] = IF CanPublish(Recorded(h)) THEN Complete(result[h], Published(Recorded(h)))
                                                  ELSE result[h]
      BY <1>2, <2>1
    <3>2. CASE CanPublish(Recorded(h))
      <4>1. ~request[h].finished /\ request'[h].finished
        BY <1>5, <2>1, <3>2
      <4>2. Fresh(h)
        BY <2>1, <4>1 DEF AnswerInv
      <4>3. request[h].active
        BY <1>7, <2>1, <3>2
      <4>4. h \in started
        BY <2>1, <4>3 DEF StartedInv
      <4>5. result'[h] = Published(Recorded(h))
        BY <3>1, <3>2, <4>2 DEF Fresh, Complete
      <4> QED
        BY <1>15, <2>1, <3>2, <4>1, <4>2, <4>4, <4>5
    <3> QED
      BY <3>1, <3>2
  <2>2. CASE h \notin Requests
    <3>1. h \in DeferredCalls
      BY <2>2, HandleKinds
    <3>2. result'[h] = IF <<h, 1>> \in Done
              THEN Complete(result[h], IF outcome[<<h, 1>>] = "ok" THEN Replies(<<>>) ELSE Failure)
              ELSE result[h]
      BY <1>2, <2>2
    <3>3. CASE <<h, 1>> \in Done
      <4>1. Fresh(h) /\ ~HasTask(h)' /\ h \in started
        BY <1>16, <3>1, <3>3
      <4>2. result'[h] \in {Replies(<<>>), Failure}
        BY <3>2, <3>3, <4>1 DEF Fresh, Complete
      <4> QED
        BY <1>17, <2>2, <4>1, <4>2
    <3> QED
      BY <3>2, <3>3
  <2> QED
    BY <2>1, <2>2
<1>19. AnswerInv'
  <2> SUFFICES ASSUME NEW h \in Handles
               PROVE  /\ (Answered(h) \/ OnlyCancelled(h))'
                      /\ Answered(h)' => ~ HasTask(h)'
                      /\ h \notin started => Fresh(h)'
                      /\ h \in DeferredCalls => Fresh(h)' \/ ~ HasTask(h)'
                      /\ h \in Requests => Fresh(h)' \/ request'[h].finished
    BY <1>1 DEF AnswerInv
  <2>1. HasTask(h)' => HasTask(h)
    BY <1>1 DEF HasTask
  <2>2. CASE result'[h] = result[h]
    <3>1. /\ Fresh(h)' <=> Fresh(h)
          /\ Answered(h)' <=> Answered(h)
          /\ OnlyCancelled(h)' <=> OnlyCancelled(h)
      BY <1>1, <2>2 DEF Fresh, Answered, OnlyCancelled
    <3>2. h \in Requests /\ request[h].finished => request'[h].finished
      BY <1>5
    <3> QED
      BY <2>1, <3>1, <3>2 DEF AnswerInv
  <2>3. CASE /\ Fresh(h) /\ ~HasTask(h)' /\ h \in started
             /\ result'[h] \notin {Pending, Cancelled}
             /\ h \in Requests => request'[h].finished
    <3>1. Answered(h)'
      BY <1>1, <2>3 DEF Fresh, Answered
    <3> QED
      BY <2>3, <3>1
  <2> QED
    BY <1>18, <2>2, <2>3
<1>20. TypeInv'
  <2>1. LoopTypes'
    BY <1>1 DEF LoopTypes
  <2>2. TaskTypes'
    <3>1. tasks' \in [Scripts -> SUBSET Tasks]
      BY <1>1 DEF TaskTypes
    <3>2. guards' \in [Scripts -> SUBSET Requests]
      BY <1>1 DEF TaskTypes, SweptGuards
    <3> QED
      BY <1>1, <3>1, <3>2 DEF TaskTypes
  <2>3. RequestTypes'
    BY <1>1, <1>5 DEF RequestTypes, RequestType
  <2>4. result' \in [Handles -> Results]
    <3>1. \A h \in Handles : result'[h] \in Results
      BY <1>18 DEF ResultTypes
    <3>2. result' = [h \in Handles |-> result'[h]]
      BY <1>2
    <3> QED
      BY <3>1, <3>2
  <2> QED
    BY <1>1, <2>1, <2>2, <2>3, <2>4 DEF ResultTypes
<1> QED
  BY <1>4, <1>9, <1>10, <1>11, <1>12, <1>13, <1>14, <1>19, <1>20

LEMMA RetireKeeps == ASSUME IInv, NEW s \in Scripts, Retire(s) PROVE IInv'
<1> USE DEF IInv, TypeInv
<1> DEFINE cancelled == CancelledBy(s)
           dropped == {t[1] : t \in tasks[s]}
<1>1. /\ op = "idle" /\ op' = "settling" /\ s \in loaded /\ loaded' = loaded \ {s}
      /\ UNCHANGED <<outcome, current, at, handlers, started, taken, unwatched>>
      /\ guards' = [guards EXCEPT ![s] = {}]
      /\ activeTasks' = activeTasks - Cardinality(tasks[s])
      /\ tasks' = [tasks EXCEPT ![s] = {}]
      /\ request' = [r \in Requests |->
              IF r \in cancelled THEN [request[r] EXCEPT !.finished = TRUE] ELSE request[r]]
      /\ result' = [h \in Handles |->
              IF h \in cancelled \cup dropped THEN Complete(result[h], Cancelled) ELSE result[h]]
  BY DEF Retire, Dropped, historyVars
<1> HIDE DEF dropped
<1>2. \A r \in Requests : r \in cancelled <=> r \in guards[s] /\ Alive(r) /\ ~request[r].finished
  BY DEF CancelledBy, GuardPending, TaskTypes
<1> HIDE DEF cancelled
<1>3. current = NoHandle /\ current \notin Requests
  BY <1>1, HandleKinds DEF PhaseInv, Handles
<1>4. /\ tasks'[s] = {} /\ guards'[s] = {}
      /\ \A v \in Scripts : v # s => tasks'[v] = tasks[v] /\ guards'[v] = guards[v]
  BY <1>1 DEF TaskTypes
<1>5. /\ OwnedInv' /\ CountInv'
      /\ \A t : t \in AllTasks' => t \in AllTasks
  <2>1. tasks[s] \in SUBSET AllTasks
    BY InAllTasks
  <2>2. \A v \in Scripts : tasks'[v] = tasks[v] \ tasks[s]
    <3>1. ASSUME NEW v \in Scripts, v # s PROVE tasks[v] = tasks[v] \ tasks[s]
      BY <3>1 DEF OwnedInv
    <3> QED
      BY <1>4, <3>1
  <2>3. \A v \in Scripts \ loaded' : tasks'[v] = {}
    BY <1>1, <1>4 DEF OwnedInv
  <2> QED
    BY <1>1, <2>1, <2>2, <2>3, TasksRemoved
<1>6. \A r \in Requests : /\ request'[r].replies = request[r].replies
                          /\ request'[r].active = request[r].active
                          /\ request'[r].finished <=> request[r].finished \/ r \in cancelled
                          /\ request'[r] \in RequestType
  <2>1. \A r \in Requests : request[r] \in RequestType
    BY DEF RequestTypes, RequestType
  <2> QED
    BY <1>1, <2>1 DEF RequestType
<1>7. TypeInv'
  <2>1. LoopTypes'
    BY <1>1 DEF LoopTypes
  <2>2. TaskTypes'
    BY <1>1 DEF TaskTypes
  <2>3. RequestTypes'
    BY <1>1, <1>6 DEF RequestTypes, RequestType
  <2>4. ResultTypes'
    <3>1. \A h \in Handles : Complete(result[h], Cancelled) \in Results /\ result[h] \in Results
      BY DEF Complete, Results, ResultTypes
    <3> QED
      BY <1>1, <3>1 DEF ResultTypes
  <2> QED
    BY <2>1, <2>2, <2>3, <2>4
<1>8. PhaseInv'
  BY <1>1, <1>3 DEF PhaseInv
<1>9. StartedInv'
  <2>1. \A r \in Requests \ started : r \notin cancelled
    <3>1. ASSUME NEW r \in Requests \ started, NEW v \in Scripts, NEW t \in tasks[v], t[1] = r PROVE FALSE
      BY <3>1 DEF OwnedInv
    <3>2. ASSUME NEW r \in Requests \ started, Alive(r) PROVE FALSE
      BY <1>3, <3>1, <3>2, InAllTasks DEF Alive
    <3> QED
      BY <1>2, <3>2
  <2> QED
    BY <1>1, <1>6, <2>1 DEF StartedInv
<1>10. TaskInv'
  <2> SUFFICES ASSUME NEW v \in Scripts, NEW t \in tasks'[v], t[1] \in Requests, ~request'[t[1]].finished
               PROVE  /\ t[1] \in guards'[v]
                      /\ t[2] \in DOMAIN request'[t[1]].replies
                      /\ request'[t[1]].replies[t[2]] = Slot(v, "waiting")
    BY DEF TaskInv
  <2>1. v # s /\ t \in tasks[v] /\ guards'[v] = guards[v]
    BY <1>4
  <2> QED
    BY <1>6, <2>1 DEF TaskInv
<1>11. OrderInv'
  BY <1>6 DEF OrderInv
<1>12. WatchedInv'
  <2> SUFFICES ASSUME NEW r \in Requests \ unwatched, ~request'[r].finished,
                      NEW i \in DOMAIN request[r].replies
               PROVE  LET slot == request[r].replies[i] IN
                      /\ slot.script # 0 => slot.script \in loaded' /\ r \in guards'[slot.script]
                      /\ slot.state = "waiting" => <<r, i>> \in tasks'[slot.script]
    BY <1>1, <1>6 DEF WatchedInv
  <2>1. ~request[r].finished /\ r \notin cancelled
    BY <1>6
  <2>2. Alive(r)
    BY <2>1, UnfinishedIsAlive
  <2>3. request[r].replies[i].script # s
    <3>1. s # 0
      BY NumScriptsAssumption DEF Scripts
    <3>2. request[r].replies[i].script = s => r \in guards[s]
      BY <2>1, <3>1 DEF WatchedInv
    <3> QED
      BY <1>2, <2>1, <2>2, <3>2
  <2>4. request[r].replies[i] \in Slots
    BY RequestFields
  <2>5. request[r].replies[i].script = 0 => request[r].replies[i].state = "error"
    BY <2>1 DEF OrderInv
  <2>6. request[r].replies[i].script # 0 => request[r].replies[i].script \in Scripts
    BY <2>4, NumScriptsAssumption DEF Slots, Scripts
  <2> QED
    BY <1>1, <1>4, <2>1, <2>3, <2>5, <2>6 DEF WatchedInv
<1>13. UnwatchedInv'
  BY <1>1, <1>5, <1>6 DEF UnwatchedInv, LoopTypes
<1>14. AnswerInv'
  <2> SUFFICES ASSUME NEW h \in Handles
               PROVE  /\ (Answered(h) \/ OnlyCancelled(h))'
                      /\ Answered(h)' => ~ HasTask(h)'
                      /\ h \notin started => Fresh(h)'
                      /\ h \in DeferredCalls => Fresh(h)' \/ ~ HasTask(h)'
                      /\ h \in Requests => Fresh(h)' \/ request'[h].finished
    BY <1>1 DEF AnswerInv
  <2>1. HasTask(h)' => HasTask(h)
    BY <1>4 DEF HasTask
  <2>2. h \in Requests /\ request[h].finished => request'[h].finished
    BY <1>6
  <2>3. CASE h \in cancelled \cup dropped
    <3>1. result'[h] = Complete(result[h], Cancelled)
      BY <1>1, <2>3
    <3>2. h \in dropped => HasTask(h)
      BY DEF dropped, HasTask
    <3>3. h \in cancelled => h \in Requests /\ ~request[h].finished /\ request'[h].finished
      BY <1>2, <1>6 DEF cancelled, CancelledBy, GuardPending, TaskTypes
    <3>4. h \in cancelled => Fresh(h)
      BY <3>3 DEF AnswerInv
    <3>5. ~Answered(h)
      BY <2>3, <3>2, <3>4 DEF AnswerInv, Fresh, Answered
    <3>6. OnlyCancelled(h)
      BY <3>5 DEF AnswerInv
    <3>7. result'[h] = Cancelled /\ taken'[h] = taken[h]
      BY <1>1, <3>1, <3>6 DEF Complete, OnlyCancelled
    <3>8. OnlyCancelled(h)'
      BY <3>6, <3>7 DEF OnlyCancelled
    <3>9. ~Answered(h)'
      BY <3>7 DEF Answered, Pending, Cancelled
    <3>10. h \in started
      <4>1. HasTask(h) => h \in started
        BY DEF HasTask, OwnedInv
      <4>2. h \in cancelled => HasTask(h)
        BY <1>2, <1>3, <3>3, InAllTasks DEF Alive, HasTask
      <4> QED
        BY <2>3, <3>2, <4>1, <4>2
    <3>11. h \in DeferredCalls => ~HasTask(h)'
      <4>1. ASSUME h \in DeferredCalls, NEW v \in Scripts, NEW t \in tasks'[v], t[1] = h PROVE FALSE
        <5>1. v # s /\ t \in tasks[v]
          BY <1>4, <4>1
        <5>2. h \in dropped
          BY <2>3, <3>3, <4>1, HandleKinds
        <5>3. PICK u \in tasks[s] : u[1] = h
          BY <5>2 DEF dropped
        <5>4. t = <<t[1], t[2]>> /\ u = <<u[1], u[2]>>
          BY <5>1, <5>3 DEF TaskTypes, Tasks
        <5>5. t[2] = 1 /\ u[2] = 1
          BY <4>1, <5>1, <5>3 DEF OwnedInv
        <5>6. t = u
          BY <4>1, <5>3, <5>4, <5>5
        <5>7. t \in tasks[s] \cap tasks[v]
          BY <5>1, <5>6
        <5> QED
          BY <5>1, <5>7 DEF OwnedInv
      <4> QED
        BY <4>1 DEF HasTask
    <3>12. h \in Requests => request'[h].finished
      <4>1. ASSUME h \in Requests, h \notin cancelled, ~request[h].finished PROVE FALSE
        <5>1. PICK t \in tasks[s] : t[1] = h
          BY <2>3, <4>1 DEF dropped
        <5>2. h \in guards[s]
          BY <4>1, <5>1 DEF TaskInv
        <5>3. Alive(h)
          BY <5>1, InAllTasks DEF Alive
        <5> QED
          BY <1>2, <4>1, <5>2, <5>3
      <4> QED
        BY <2>2, <3>3, <4>1
    <3> QED
      BY <3>8, <3>9, <3>10, <3>11, <3>12
  <2>4. CASE h \notin cancelled \cup dropped
    <3>1. result'[h] = result[h] /\ taken' = taken
      BY <1>1, <2>4
    <3>2. /\ Fresh(h)' <=> Fresh(h)
          /\ Answered(h)' <=> Answered(h)
          /\ OnlyCancelled(h)' <=> OnlyCancelled(h)
      BY <3>1 DEF Fresh, Answered, OnlyCancelled
    <3> QED
      BY <2>1, <2>2, <3>2 DEF AnswerInv
  <2> QED
    BY <2>3, <2>4
<1> QED
  BY <1>5, <1>7, <1>8, <1>9, <1>10, <1>11, <1>12, <1>13, <1>14

-----------------------------------------------------------------------------
LEMMA StepIInv == IInv /\ [Next]_vars => IInv'
<1> SUFFICES ASSUME IInv, [Next]_vars PROVE IInv'
  OBVIOUS
<1>1. ASSUME NEW h \in DeferredCalls, NEW s \in Scripts, CallReturnsPromise(h, s) \/ CallReturnsValue(h, s)
      PROVE  IInv'
  BY <1>1, CallReturnsPromiseKeeps, CallReturnsValueKeeps
<1>2. CASE Delivering
  BY <1>2, StartRequestKeeps, SlotHandlerKeeps, EngineStepKeeps, FinishRequestKeeps DEF Delivering
<1>3. CASE Drive
  BY <1>3, EngineStepKeeps
<1>4. ASSUME NEW t \in Tasks, PromiseSettles(t) PROVE IInv'
  BY <1>4, PromiseSettlesKeeps
<1>5. CASE Harvest
  BY <1>5, SkippedHarvestKeeps, HarvestKeeps
<1>6. ASSUME NEW s \in Scripts, Retire(s) PROVE IInv'
  BY <1>6, RetireKeeps
<1>7. ASSUME NEW h \in Handles, Take(h) PROVE IInv'
  BY <1>7, TakeKeeps
<1>8. CASE UNCHANGED vars
  <2>1. UNCHANGED <<loaded, taskVars, request, result, outcome, engineVars, started, historyVars>>
    BY <1>8 DEF vars
  <2>2. /\ RequestTypes' /\ ResultTypes'
        /\ OwnedInv' /\ CountInv' /\ TaskInv' /\ OrderInv' /\ WatchedInv' /\ UnwatchedInv'
    BY <2>1, FrameKeeps
  <2>3. AnswerInv' /\ StartedInv' /\ PhaseInv'
    BY <2>1, AnswersStand DEF IInv, taskVars, historyVars, engineVars, StartedInv, PhaseInv
  <2>4. LoopTypes' /\ TaskTypes'
    BY <2>1 DEF IInv, TypeInv, LoopTypes, TaskTypes, taskVars, historyVars, engineVars
  <2> QED
    BY <2>2, <2>3, <2>4 DEF IInv, TypeInv
<1> QED
  BY <1>1, <1>2, <1>3, <1>4, <1>5, <1>6, <1>7, <1>8 DEF Next

LEMMA IInvHolds == Spec => []IInv
<1> QED
  BY InitIInv, StepIInv, PTL DEF Spec

\* The engine's fields hold values of their types: no count of tasks underflows, and no
\* request has more slots than its handlers and its one error make.
THEOREM TypeCorrect == Spec => []TypeOK
<1>1. ASSUME IInv PROVE TypeOK
  <2>1. TypeInv /\ CountInv
    BY <1>1 DEF IInv
  <2>2. activeTasks \in Nat
    BY <2>1, FS_CardinalityType DEF CountInv
  <2>3. \A r \in Requests :
           /\ request[r].active \in BOOLEAN /\ request[r].finished \in BOOLEAN
           /\ Len(request[r].replies) <= NumScripts * MaxHandlers + 1
    BY <2>1, RequestFields DEF TypeInv, RequestTypes, MaxSlots
  <2> QED
    BY <2>1, <2>2, <2>3 DEF TypeOK, TypeInv, LoopTypes, TaskTypes, ResultTypes
<1> QED
  BY <1>1, IInvHolds, PTL

\* Engine::active_tasks is the number of tasks of the loaded versions, after any mix of
\* calls, requests, harvests and retirements.
THEOREM ActiveTasksExactHolds == Spec => []ActiveTasksExact
<1>1. ASSUME IInv PROVE ActiveTasksExact
  BY <1>1 DEF IInv, CountInv, OwnedInv, ActiveTasksExact
<1> QED
  BY <1>1, IInvHolds, PTL

\* PendingCall::take gives one answer at most; only cancellations may be given twice.
THEOREM AnswerIsFinalHolds == Spec => []AnswerIsFinal
<1>1. ASSUME IInv PROVE AnswerIsFinal
  <2> SUFFICES ASSUME NEW h \in Handles, NEW i \in DOMAIN taken[h], i > 1
               PROVE  taken[h][i] = Cancelled /\ taken[h][1] = Cancelled
    BY DEF AnswerIsFinal
  <2>1. taken[h] \in Seq(Results)
    BY <1>1 DEF IInv, TypeInv, ResultTypes
  <2>2. Len(taken[h]) # 1 /\ taken[h] # <<>> /\ 1 \in DOMAIN taken[h]
    BY <2>1
  <2>3. OnlyCancelled(h)
    BY <1>1, <2>2 DEF IInv, AnswerInv, Answered
  <2> QED
    BY <2>2, <2>3 DEF OnlyCancelled
<1> QED
  BY <1>1, IInvHolds, PTL

\* Between operations, a request that is not over waits for a task that is its own.
THEOREM UnfinishedRequestHasTaskHolds == Spec => []UnfinishedRequestHasTask
<1>1. ASSUME IInv PROVE UnfinishedRequestHasTask
  <2> SUFFICES ASSUME op = "idle", NEW r \in (Requests \cap started) \ unwatched, ~request[r].finished
               PROVE  \E s \in loaded : \E t \in tasks[s] :
                         /\ t[1] = r
                         /\ t[2] \in DOMAIN request[r].replies
                         /\ request[r].replies[t[2]] = Slot(s, "waiting")
    BY DEF UnfinishedRequestHasTask
  <2> USE <1>1 DEF IInv, TypeInv
  <2>1. r # current
    BY HandleKinds DEF PhaseInv, Handles
  <2>2. PICK i \in DOMAIN request[r].replies : request[r].replies[i].state = "waiting"
    BY <2>1 DEF StartedInv
  <2> DEFINE s == request[r].replies[i].script
  <2>3. s \in Scripts
    <3>1. request[r].replies[i] \in Slots
      BY RequestFields
    <3> QED
      BY <2>2, <3>1, NumScriptsAssumption DEF Slots, Scripts, OrderInv
  <2>4. <<r, i>> \in tasks[s]
    BY <2>2 DEF WatchedInv
  <2>5. s \in loaded
    BY <2>3, <2>4 DEF OwnedInv
  <2>6. request[r].replies[i] = Slot(s, "waiting")
    <3>1. <<r, i>>[1] = r /\ <<r, i>>[2] = i
      OBVIOUS
    <3> QED
      BY <2>3, <2>4, <3>1 DEF TaskInv
  <2>7. <<r, i>>[1] = r /\ <<r, i>>[2] = i
    OBVIOUS
  <2> QED
    BY <2>2, <2>4, <2>5, <2>6, <2>7
<1> QED
  BY <1>1, IInvHolds, PTL

-----------------------------------------------------------------------------
\* A request that gets its replies had a slot for each, and missed no Promise.
LEMMA RepliesPublished ==
  ASSUME IInv, [Next]_vars, NEW r \in Requests, result[r] = Pending, result'[r].kind = "replies"
  PROVE  /\ ~request[r].finished /\ r \notin unwatched
         /\ Len(result'[r].from) = Len(request[r].replies)
         /\ DOMAIN result'[r].from = DOMAIN request[r].replies
         /\ \A i \in DOMAIN request[r].replies : /\ result'[r].from[i] = request[r].replies[i].script
                                                 /\ request[r].replies[i].script # 0
<1> USE DEF IInv, TypeInv
<1>1. result'[r] # Pending /\ result'[r] # result[r] /\ result'[r] # Cancelled /\ result'[r] # Failure
  BY DEF Pending, Cancelled, Failure
<1>2. r \in Handles /\ r \notin DeferredCalls
  BY HandleKinds
<1>3. CASE FinishRequest
  <2> DEFINE q0 == request[current]
  <2>1. PICK jobFailed \in BOOLEAN :
          LET q1 == IF failed \/ jobFailed
                    THEN [q0 EXCEPT !.replies = Append(@, Slot(0, "error"))] ELSE q0
              q == [q1 EXCEPT !.active = TRUE]
          IN  result' = IF CanPublish(q)
                        THEN [result EXCEPT ![current] = Complete(@, Published(q))] ELSE result
    BY <1>3 DEF FinishRequest
  <2> DEFINE q1 == IF failed \/ jobFailed THEN [q0 EXCEPT !.replies = Append(@, Slot(0, "error"))] ELSE q0
             q == [q1 EXCEPT !.active = TRUE]
  <2>2. result' = IF CanPublish(q)
                  THEN [result EXCEPT ![current] = Complete(@, Published(q))] ELSE result
    BY <2>1
  <2>3. current \in Requests
    BY <1>3 DEF FinishRequest
  <2>4. /\ q0.replies \in Seq(Slots) /\ Len(q0.replies) \in Nat
        /\ q0 \in RequestType /\ ~q0.finished /\ Len(q0.replies) <= MaxSlots
    BY <2>3, RequestFields DEF RequestTypes, RequestType, PhaseInv
  <2>5. Slot(0, "error") \in Slots
    BY NumScriptsAssumption DEF Slot, Slots
  <2>6. /\ q \in RequestType
        /\ \/ q.replies = q0.replies
           \/ q.replies = Append(q0.replies, Slot(0, "error"))
    <3>1. q1 \in RequestType
          /\ (q1.replies = q0.replies \/ q1.replies = Append(q0.replies, Slot(0, "error")))
      <4>1. q0 \in [replies : Seq(Slots), active : BOOLEAN, finished : BOOLEAN]
        BY <2>4 DEF RequestType
      <4>2. Append(q0.replies, Slot(0, "error")) \in Seq(Slots)
        BY <2>4, <2>5
      <4> HIDE DEF q0
      <4>3. CASE failed \/ jobFailed
        BY <4>1, <4>2, <4>3 DEF RequestType
      <4>4. CASE ~(failed \/ jobFailed)
        BY <4>1, <4>4 DEF RequestType
      <4> QED
        BY <4>3, <4>4
    <3> HIDE DEF q1
    <3> QED
      BY <3>1 DEF RequestType
  <2> HIDE DEF q, q1
  <2>7. r = current /\ CanPublish(q) /\ result'[r] = Published(q)
    <3>1. CanPublish(q)
      BY <1>1, <2>2
    <3>2. result' = [result EXCEPT ![current] = Complete(@, Published(q))]
      BY <2>2, <3>1
    <3>3. r = current
      BY <1>1, <1>2, <3>2 DEF ResultTypes
    <3>4. result'[r] = Complete(result[r], Published(q))
      BY <1>2, <3>2, <3>3 DEF ResultTypes
    <3> QED
      BY <3>1, <3>3, <3>4 DEF Complete
  <2>8. q.replies = q0.replies
    <3>1. CASE q.replies = Append(q0.replies, Slot(0, "error"))
      <4>1. /\ Len(q0.replies) + 1 \in DOMAIN q.replies
            /\ q.replies[Len(q0.replies) + 1] = Slot(0, "error")
        BY <2>4, <2>5, <3>1
      <4>2. Published(q) = Failure
        BY <4>1 DEF Published, Slot
      <4> QED
        BY <1>1, <2>7, <4>2
    <3> QED
      BY <2>6, <3>1
  <2>9. InOrder(q)
    BY <2>3, <2>4, <2>8 DEF OrderInv, InOrder
  <2>10. /\ Len(Published(q).from) = Len(q.replies)
         /\ DOMAIN Published(q).from = DOMAIN q.replies
         /\ \A i \in DOMAIN q.replies : /\ Published(q).from[i] = q.replies[i].script
                                        /\ q.replies[i].script # 0
    <3>1. Len(q.replies) <= MaxSlots + 1
      BY <2>4, <2>8, MaxSlotsType
    <3> QED
      BY <2>6, <2>7, <2>9, <3>1, PublishedReplies
  <2>11. r \notin unwatched
    BY <2>4, <2>7, <2>8 DEF CanPublish, UnwatchedInv
  <2> QED
    BY <2>4, <2>7, <2>8, <2>10, <2>11
<1>4. CASE Harvest
  <2>1. result'[r] = IF CanPublish(Recorded(r)) THEN Complete(result[r], Published(Recorded(r)))
                                                ELSE result[r]
    BY <1>1, <1>2, <1>4 DEF Harvest
  <2>2. CanPublish(Recorded(r)) /\ result'[r] = Published(Recorded(r))
    BY <1>1, <2>1 DEF Complete
  <2>3. ~request[r].finished
    BY <2>2, RecordedSlots DEF CanPublish
  <2>4. InOrder(Recorded(r))
    BY <2>3, RecordedInOrder
  <2>5. Recorded(r) \in RequestType /\ Len(Recorded(r).replies) <= MaxSlots + 1
    BY RecordedSlots DEF RequestTypes
  <2>6. /\ Len(Published(Recorded(r)).from) = Len(Recorded(r).replies)
        /\ DOMAIN Published(Recorded(r)).from = DOMAIN Recorded(r).replies
        /\ \A i \in DOMAIN Recorded(r).replies :
             /\ Published(Recorded(r)).from[i] = Recorded(r).replies[i].script
             /\ Recorded(r).replies[i].script # 0
    BY <2>2, <2>4, <2>5, PublishedReplies
  <2>7. r \notin unwatched
    <3>1. ASSUME r \in unwatched PROVE FALSE
      <4>1. PICK i \in DOMAIN request[r].replies :
               request[r].replies[i].state = "waiting" /\ <<r, i>> \notin AllTasks
        BY <2>3, <3>1 DEF UnwatchedInv
      <4>2. <<r, i>> \notin Done
        BY <4>1, InAllTasks DEF Done, TaskTypes
      <4>3. Recorded(r).replies[i].state = "waiting" /\ i \in DOMAIN Recorded(r).replies
        BY <4>1, <4>2, RecordedSlots
      <4> QED
        BY <2>2, <4>3 DEF CanPublish
    <3> QED
      BY <3>1
  <2> QED
    BY <2>2, <2>3, <2>6, <2>7, RecordedSlots
<1>5. ASSUME NEW s \in Scripts, Retire(s) PROVE FALSE
  <2>1. result'[r] = Complete(result[r], Cancelled) \/ result'[r] = result[r]
    BY <1>2, <1>5 DEF Retire
  <2> QED
    BY <1>1, <2>1 DEF Complete
<1>6. ASSUME NEW h \in Handles, Take(h) PROVE FALSE
  BY <1>1, <1>2, <1>6 DEF Take, ResultTypes
<1>7. ASSUME NEW h \in DeferredCalls, NEW s \in Scripts, CallReturnsPromise(h, s) \/ CallReturnsValue(h, s)
      PROVE  FALSE
  <2>1. h # r
    BY <1>2
  <2> QED
    BY <1>1, <1>2, <1>7, <2>1 DEF CallReturnsPromise, CallReturnsValue, ResultTypes
<1>8. CASE UNCHANGED result
  BY <1>1, <1>8
<1>9. ASSUME NEW p \in Requests, StartRequest(p) PROVE UNCHANGED result
  BY <1>9 DEF StartRequest
<1>10. ASSUME HandlerReplies \/ HandlerReturnsPromise \/ WatchFails \/ HandlerThrows PROVE UNCHANGED result
  BY <1>10 DEF HandlerReplies, HandlerReturnsPromise, WatchFails, HandlerThrows, InHandler
<1>11. ASSUME NextScript \/ EndDelivery \/ Drive PROVE UNCHANGED result
  BY <1>11 DEF NextScript, EndDelivery, Drive
<1>12. ASSUME NEW t \in Tasks, PromiseSettles(t) PROVE UNCHANGED result
  BY <1>12 DEF PromiseSettles
<1>13. ASSUME UNCHANGED vars PROVE UNCHANGED result
  BY <1>13 DEF vars
<1> QED
  BY <1>3, <1>4, <1>5, <1>6, <1>7, <1>8, <1>9, <1>10, <1>11, <1>12, <1>13 DEF Next, Delivering

\* The replies a request gets all come from versions loaded when it gets them.
THEOREM RepliesOfLoadedVersionsHold == Spec => RepliesOfLoadedVersions
<1>1. ASSUME IInv, [Next]_vars
      PROVE  [\A r \in Requests : result[r] = Pending /\ result'[r].kind = "replies" =>
                 Range(result'[r].from) \subseteq loaded]_vars
  <2> SUFFICES ASSUME NEW r \in Requests, result[r] = Pending, result'[r].kind = "replies"
               PROVE  \A i \in DOMAIN result'[r].from : result'[r].from[i] \in loaded
    BY DEF Range
  <2>1. /\ ~request[r].finished /\ r \notin unwatched
        /\ DOMAIN result'[r].from = DOMAIN request[r].replies
        /\ \A i \in DOMAIN request[r].replies : /\ result'[r].from[i] = request[r].replies[i].script
                                                /\ request[r].replies[i].script # 0
    BY <1>1, RepliesPublished
  <2> QED
    BY <1>1, <2>1 DEF IInv, WatchedInv
<1> QED
  BY <1>1, IInvHolds, PTL DEF Spec, RepliesOfLoadedVersions

\* The replies a request gets are in load order, one for each of its slots.
THEOREM RepliesInOrderHolds == Spec => RepliesInOrder
<1>1. ASSUME IInv, [Next]_vars
      PROVE  [\A r \in Requests : result[r] = Pending /\ result'[r].kind = "replies" =>
                 LET from == result'[r].from IN
                 /\ \A i, j \in DOMAIN from : i < j => from[i] <= from[j]
                 /\ Len(from) = Len(request[r].replies)]_vars
  <2> SUFFICES ASSUME NEW r \in Requests, result[r] = Pending, result'[r].kind = "replies"
               PROVE  LET from == result'[r].from IN
                      /\ \A i, j \in DOMAIN from : i < j => from[i] <= from[j]
                      /\ Len(from) = Len(request[r].replies)
    OBVIOUS
  <2>1. /\ ~request[r].finished
        /\ Len(result'[r].from) = Len(request[r].replies)
        /\ DOMAIN result'[r].from = DOMAIN request[r].replies
        /\ \A i \in DOMAIN request[r].replies : /\ result'[r].from[i] = request[r].replies[i].script
                                                /\ request[r].replies[i].script # 0
    BY <1>1, RepliesPublished
  <2>2. OrderInv
    BY <1>1 DEF IInv
  <2> QED
    BY <2>1, <2>2 DEF OrderInv
<1> QED
  BY <1>1, IInvHolds, PTL DEF Spec, RepliesInOrder
=============================================================================
