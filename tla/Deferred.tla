------------------------------ MODULE Deferred ------------------------------
(***************************************************************************)
(* Deferred calls and requests: runner/tasks.rs and the operations of      *)
(* engine/host_driven.rs and engine/lifecycle.rs that start, harvest and   *)
(* cancel them.  Everything runs on the engine thread; what interleaves    *)
(* are the host's operations, the handlers of one request, the Promises    *)
(* that settle while JavaScript runs, and the host taking results.         *)
(***************************************************************************)
EXTENDS Naturals, Sequences, FiniteSets, Functions

CONSTANTS NumScripts,    \* script versions, numbered in load order
          Requests,      \* handles of request_deferred
          DeferredCalls, \* handles of call_deferred
          MaxHandlers,   \* bound on the handlers of one request in one script
          Faults         \* what may go wrong

Scripts == 1 .. NumScripts
Handles == Requests \cup DeferredCalls
NoHandle == "none"

\* Observing a Promise fails ("watch_fails"): its `catch` is missing or throws.
FaultKinds == {"watch_fails"}

ASSUME NumScriptsAssumption == NumScripts \in Nat
ASSUME MaxHandlersAssumption == MaxHandlers \in Nat \ {0}
ASSUME HandlesAssumption == /\ Requests \cap DeferredCalls = {}
                            /\ NoHandle \notin Requests \cup DeferredCalls
ASSUME FaultsAssumption == Faults \subseteq FaultKinds

\* A task is the Promise behind one slot of a handle; a call has slot 1.
Tasks == Handles \X (1 .. NumScripts * MaxHandlers)

VARIABLES
  loaded,       \* versions in Engine::scripts
  tasks,        \* EngineScript::tasks of each version
  guards,       \* EngineScript::request_guards of each version
  activeTasks,  \* Engine::active_tasks
  request,      \* RequestResults of each request: replies, active, finished
  result,       \* PendingCall::result of each handle
  outcome,      \* whether the Promise of each task settled, and how
  op,           \* what the engine thread is doing
  current,      \* the handle being started
  at,           \* the version whose handlers run
  handlers,     \* how many of them ran
  entered,      \* some handler ran in this delivery
  failed,       \* an error of the delivery is recorded
  started,      \* handles an operation has started
  taken,        \* history: the results the host took from each handle
  unwatched     \* history: requests with a Promise nobody observes, after "watch_fails"

taskVars == <<tasks, guards, activeTasks>>
engineVars == <<op, current, at, handlers, entered, failed>>
historyVars == <<taken, unwatched>>
vars == <<loaded, taskVars, request, result, outcome, engineVars, started, historyVars>>

-----------------------------------------------------------------------------
(* PendingCall and RequestResults.                                         *)

Pending == [kind |-> "pending", from |-> <<>>]
Failure == [kind |-> "error", from |-> <<>>]
Cancelled == [kind |-> "cancelled", from |-> <<>>]
Replies(from) == [kind |-> "replies", from |-> from]

\* PendingCall::complete: the first value wins.
Complete(value, with) == IF value = Pending THEN with ELSE value

Slot(s, state) == [script |-> s, state |-> state]

NewRequest == [replies |-> <<>>, active |-> FALSE, finished |-> FALSE]

\* RequestResults::complete_if_ready publishes when this holds.
CanPublish(q) == /\ ~q.finished
                 /\ q.active
                 /\ \A i \in DOMAIN q.replies : q.replies[i].state # "waiting"

Publish(q) == IF CanPublish(q) THEN [replies |-> <<>>, active |-> FALSE, finished |-> TRUE] ELSE q

\* A bug: the slots are popped, so the replies come out last first.
PublishedByPopping(q) ==
  IF \E i \in DOMAIN q.replies : q.replies[i].state = "error"
  THEN Failure
  ELSE Replies([i \in DOMAIN q.replies |-> q.replies[Len(q.replies) + 1 - i].script])

\* What it publishes: the first error, or the replies in slot order.
Published(q) == IF \E i \in DOMAIN q.replies : q.replies[i].state = "error"
                THEN Failure
                ELSE Replies([i \in DOMAIN q.replies |-> q.replies[i].script])

-----------------------------------------------------------------------------
Init == /\ loaded = Scripts
        /\ tasks = [s \in Scripts |-> {}]
        /\ guards = [s \in Scripts |-> {}]
        /\ activeTasks = 0
        /\ request = [r \in Requests |-> NewRequest]
        /\ result = [h \in Handles |-> Pending]
        /\ outcome = [t \in Tasks |-> "pending"]
        /\ op = "idle"
        /\ current = NoHandle
        /\ at = 1
        /\ handlers = 0
        /\ entered = FALSE
        /\ failed = FALSE
        /\ started = {}
        /\ taken = [h \in Handles |-> <<>>]
        /\ unwatched = {}

AllTasks == UNION {tasks[s] : s \in Scripts}

\* A guard's weak reference upgrades: the request is being started, or the
\* closure of one of its tasks holds it.
Alive(r) == current = r \/ \E t \in AllTasks : t[1] = r

GuardPending(r) == Alive(r) /\ ~request[r].finished

-----------------------------------------------------------------------------
(* Engine::call_deferred.                                                  *)

StartCall(h, s) == /\ op = "idle"
                   /\ s \in loaded
                   /\ h \notin started
                   /\ started' = started \cup {h}
                   /\ op' = "settling"
                   /\ UNCHANGED <<loaded, guards, request, outcome, current, at, handlers, entered,
                                  failed, historyVars>>

\* The export returns a Promise that is watched.
CallReturnsPromise(h, s) == /\ StartCall(h, s)
                            /\ tasks' = [tasks EXCEPT ![s] = @ \cup {<<h, 1>>}]
                            /\ activeTasks' = activeTasks + 1
                            /\ UNCHANGED result

\* It returns a plain value, which decodes as the result or does not.
CallReturnsValue(h, s) == /\ StartCall(h, s)
                          /\ \E value \in {Replies(<<>>), Failure} :
                                result' = [result EXCEPT ![h] = Complete(@, value)]
                          /\ UNCHANGED <<tasks, activeTasks>>

-----------------------------------------------------------------------------
(* Engine::request_deferred.                                               *)

StartRequest(r) == /\ op = "idle"
                   /\ r \notin started
                   /\ started' = started \cup {r}
                   /\ op' = "delivering"
                   /\ current' = r
                   /\ at' = 1
                   /\ handlers' = 0
                   /\ entered' = FALSE
                   /\ failed' = FALSE
                   /\ UNCHANGED <<loaded, taskVars, request, result, outcome, historyVars>>

\* The handlers of script `at` run one after another.
InHandler == /\ op = "delivering"
             /\ at \in loaded
             /\ handlers < MaxHandlers
             /\ handlers' = handlers + 1
             /\ entered' = TRUE
             /\ UNCHANGED <<loaded, result, outcome, op, current, at, started, taken>>

\* The closure of dispatch pushes a guard before it observes the returned value,
\* and observing it makes its slot.
PushGuard == guards' = [guards EXCEPT ![at] = @ \cup {current}]

PushSlot(state) ==
  request' = [request EXCEPT ![current].replies = Append(@, Slot(at, state))]

HandlerReplies == /\ InHandler
                  /\ PushGuard
                  /\ \E state \in {"ok", "error"} : PushSlot(state)
                  /\ UNCHANGED <<tasks, activeTasks, failed, unwatched>>

HandlerReturnsPromise ==
  /\ InHandler
  /\ PushGuard
  /\ PushSlot("waiting")
  /\ tasks' = [tasks EXCEPT ![at] = @ \cup {<<current, Len(request[current].replies) + 1>>}]
  /\ activeTasks' = activeTasks + 1
  /\ UNCHANGED <<failed, unwatched>>

\* ScriptTask::watch returns its error after RequestResults::observe made the slot.
WatchFails == /\ "watch_fails" \in Faults
              /\ InHandler
              /\ PushGuard
              /\ PushSlot("waiting")
              /\ failed' = TRUE
              /\ unwatched' = unwatched \cup {current}
              /\ UNCHANGED <<tasks, activeTasks>>

\* A handler that throws has no slot; its error is reported once all have run.
HandlerThrows == /\ InHandler
                 /\ failed' = TRUE
                 /\ UNCHANGED <<taskVars, request, unwatched>>

NextScript == /\ op = "delivering"
              /\ at <= NumScripts
              /\ at' = at + 1
              /\ handlers' = 0
              /\ UNCHANGED <<loaded, taskVars, request, result, outcome, op, current, entered,
                             failed, started, historyVars>>

\* Delivery ends after the last script, or after a handler during which an interrupt
\* or the budget stopped the operation: with an error if a check of QuickJS saw it,
\* without one if the request came from another thread between two checks.  When no
\* handler ran there is nothing to settle.
EndDelivery == /\ op = "delivering"
               /\ \/ at = NumScripts + 1 /\ UNCHANGED failed
                  \/ handlers > 0 /\ failed' \in {failed, TRUE}
               /\ op' = IF entered THEN "settling" ELSE "settled"
               /\ UNCHANGED <<loaded, taskVars, request, result, outcome, current, at, handlers,
                              entered, started, historyVars>>

\* Back from dispatch: its error, or one of a job, takes the last slot; then the
\* request may publish.
FinishRequest ==
  /\ op = "settled"
  /\ current \in Requests
  /\ \E jobFailed \in IF entered THEN BOOLEAN ELSE {FALSE} :
       LET q0 == request[current]
           q1 == IF failed \/ jobFailed
                 THEN [q0 EXCEPT !.replies = Append(@, Slot(0, "error"))] ELSE q0
           q == [q1 EXCEPT !.active = TRUE]
       IN  /\ request' = [request EXCEPT ![current] = Publish(q)]
           /\ result' = IF CanPublish(q)
                        THEN [result EXCEPT ![current] = Complete(@, Published(q))] ELSE result
  /\ guards' = [s \in Scripts |-> IF s \in loaded THEN {r \in guards[s] : Alive(r) /\ ~request'[r].finished}
                                                  ELSE guards[s]]
  /\ op' = "idle"
  /\ current' = NoHandle
  /\ UNCHANGED <<loaded, tasks, activeTasks, outcome, at, handlers, entered, failed, started,
                 historyVars>>

-----------------------------------------------------------------------------
(* Every operation ends with Engine::settle: jobs, then the harvest.       *)

\* An operation that starts nothing here: pump, advance_timers, a call, a load.
Drive == /\ op = "idle"
         /\ op' = "settling"
         /\ UNCHANGED <<loaded, taskVars, request, result, outcome, current, at, handlers,
                        entered, failed, started, historyVars>>

\* JavaScript settles the Promise of a task, by the script's code or its jobs.
PromiseSettles(t) == /\ op \in {"delivering", "settling"}
                     /\ t \in AllTasks
                     /\ outcome[t] = "pending"
                     /\ \E o \in {"ok", "error"} : outcome' = [outcome EXCEPT ![t] = o]
                     /\ UNCHANGED <<loaded, taskVars, request, result, engineVars, started, historyVars>>

\* The settled tasks of loaded versions, which poll_tasks finishes and forgets.
Done == {t \in UNION {tasks[s] : s \in loaded} : outcome[t] # "pending"}

\* RequestResults::record for every slot whose task is done.
Recorded(r) ==
  [request[r] EXCEPT !.replies =
     [i \in DOMAIN @ |-> IF <<r, i>> \in Done THEN [@[i] EXCEPT !.state = outcome[<<r, i>>]] ELSE @[i]]]

\* A bug: the guard of a version that has answered is forgotten.
SweptWhenAnswered == [s \in Scripts |-> {r \in guards[s] : \E t \in tasks'[s] : t[1] = r}]

\* Guards of requests that are over do nothing, so sweeping them once all tasks
\* are polled, instead of script by script, makes no difference.
SweptGuards == [s \in Scripts |-> IF s \in loaded THEN {r \in guards[s] : GuardPending(r)'}
                                                   ELSE guards[s]]

\* A bug: a settled task stays, and finishes its handle at each harvest.
ForgottenNever == {}

\* The tasks a harvest forgets.
Forgotten == Done

\* Engine::harvest_tasks.
Harvest ==
  /\ op = "settling"
  /\ op' = IF current = NoHandle THEN "idle" ELSE "settled"
  /\ UNCHANGED <<loaded, outcome, current, at, handlers, entered, failed, started, historyVars>>
  /\ IF activeTasks = 0 THEN UNCHANGED <<taskVars, request, result>>
     ELSE /\ tasks' = [s \in Scripts |-> tasks[s] \ Forgotten]
          /\ activeTasks' = activeTasks - Cardinality(Forgotten)
          /\ request' = [r \in Requests |-> Publish(Recorded(r))]
          /\ result' = [h \in Handles |->
               IF h \in Requests
               THEN IF CanPublish(Recorded(h)) THEN Complete(result[h], Published(Recorded(h)))
                                               ELSE result[h]
               ELSE IF <<h, 1>> \in Done
                    THEN Complete(result[h], IF outcome[<<h, 1>>] = "ok" THEN Replies(<<>>) ELSE Failure)
                    ELSE result[h]]
          /\ guards' = SweptGuards

-----------------------------------------------------------------------------
(* Engine::retire cancels what the version owes.                           *)

\* A bug: the guards are forgotten, not cancelled.
CancelledByNone(s) == {}

\* The requests a version's guards cancel.
CancelledBy(s) == {r \in guards[s] : GuardPending(r)}

\* A bug: the tasks dropped stay counted.
DroppedNone(s) == 0

\* The number of tasks a version drops.
Dropped(s) == Cardinality(tasks[s])

Retire(s) ==
  /\ op = "idle"
  /\ s \in loaded
  /\ LET cancelled == CancelledBy(s)
         dropped == {t[1] : t \in tasks[s]}
     IN  /\ request' = [r \in Requests |->
              IF r \in cancelled THEN [request[r] EXCEPT !.finished = TRUE] ELSE request[r]]
         /\ result' = [h \in Handles |->
              IF h \in cancelled \cup dropped THEN Complete(result[h], Cancelled) ELSE result[h]]
  /\ guards' = [guards EXCEPT ![s] = {}]
  /\ activeTasks' = activeTasks - Dropped(s)
  /\ tasks' = [tasks EXCEPT ![s] = {}]
  /\ loaded' = loaded \ {s}
  /\ op' = "settling"
  /\ UNCHANGED <<outcome, current, at, handlers, entered, failed, started, historyVars>>

\* PendingCall::take.
Take(h) == /\ op = "idle"
           /\ result[h] # Pending
           /\ taken' = [taken EXCEPT ![h] = Append(@, result[h])]
           /\ result' = [result EXCEPT ![h] = Pending]
           /\ UNCHANGED <<loaded, taskVars, request, outcome, engineVars, started, unwatched>>

-----------------------------------------------------------------------------
Delivering == \/ \E r \in Requests : StartRequest(r)
              \/ HandlerReplies \/ HandlerReturnsPromise \/ WatchFails \/ HandlerThrows
              \/ NextScript \/ EndDelivery \/ FinishRequest

Next == \/ \E h \in DeferredCalls, s \in Scripts : CallReturnsPromise(h, s) \/ CallReturnsValue(h, s)
        \/ Delivering
        \/ Drive
        \/ \E t \in Tasks : PromiseSettles(t)
        \/ Harvest
        \/ \E s \in Scripts : Retire(s)
        \/ \E h \in Handles : Take(h)

Spec == Init /\ [][Next]_vars

-----------------------------------------------------------------------------
(* Properties.                                                             *)

Results == {Pending, Failure, Cancelled} \cup
           {Replies(from) : from \in UNION {[1 .. n -> Scripts] : n \in 0 .. NumScripts * MaxHandlers}}

\* The engine's fields hold values of their Rust types; in particular no count of
\* tasks underflows.
TypeOK == /\ loaded \subseteq Scripts
          /\ tasks \in [Scripts -> SUBSET Tasks]
          /\ guards \in [Scripts -> SUBSET Requests]
          /\ activeTasks \in Nat
          /\ \A r \in Requests :
                /\ request[r].active \in BOOLEAN /\ request[r].finished \in BOOLEAN
                /\ Len(request[r].replies) <= NumScripts * MaxHandlers + 1
          /\ result \in [Handles -> Results]
          /\ outcome \in [Tasks -> {"pending", "ok", "error"}]
          /\ op \in {"idle", "delivering", "settling", "settled"}
          /\ current \in Requests \cup {NoHandle}
          /\ at \in 1 .. NumScripts + 1
          /\ handlers \in 0 .. MaxHandlers
          /\ unwatched \subseteq Requests

\* Engine::active_tasks counts the tasks of the loaded versions: zero skips the
\* harvest, so a count too low would leave settled tasks unread, and one kept for
\* a retired version would never return to zero.
ActiveTasksExact == /\ activeTasks = Cardinality(AllTasks)
                    /\ \A s \in Scripts \ loaded : tasks[s] = {}

\* Between operations, a request that has not finished waits for a task of a
\* loaded version, one of its own slots: so it does finish once its Promises
\* settle, and retiring one of the versions it awaits cancels it.  Only a request
\* with a Promise that could not be observed may wait for nothing.
UnfinishedRequestHasTask ==
  op = "idle" => \A r \in (Requests \cap started) \ unwatched :
     ~request[r].finished =>
        \E s \in loaded : \E t \in tasks[s] :
           /\ t[1] = r
           /\ t[2] \in DOMAIN request[r].replies
           /\ request[r].replies[t[2]] = Slot(s, "waiting")

\* Every reply of a published request comes from a version loaded at that moment:
\* replies of two versions of a script are never mixed, even when the retired one
\* had answered long before.
RepliesOfLoadedVersions ==
  [][\A r \in Requests : result[r] = Pending /\ result'[r].kind = "replies" =>
        Range(result'[r].from) \subseteq loaded]_vars

\* The replies are in load order, whatever the order their Promises settled in,
\* and there is one for each slot the request had.
RepliesInOrder ==
  [][\A r \in Requests : result[r] = Pending /\ result'[r].kind = "replies" =>
        LET from == result'[r].from IN
        /\ \A i, j \in DOMAIN from : i < j => from[i] <= from[j]
        /\ Len(from) = Len(request[r].replies)]_vars

\* PendingCall::take gives what replies or an error finished once and nothing after that;
\* only a cancelled handle that was taken may finish again, with another cancellation.
AnswerIsFinal == \A h \in Handles : \A i \in DOMAIN taken[h] :
                    i > 1 => taken[h][i] = Cancelled /\ taken[h][1] = Cancelled
=============================================================================
