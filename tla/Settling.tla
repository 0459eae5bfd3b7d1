------------------------------ MODULE Settling ------------------------------
(***************************************************************************)
(* What ends every operation: Promise jobs, deferred replies, rejections   *)
(* nobody handled and panics of host functions (Engine::settle and         *)
(* await_returned of engine/dispatch.rs, promise_rejections.rs,            *)
(* host_fn.rs, ScriptTask of tasks.rs).  JavaScript runs on the engine     *)
(* thread only, in entries the host makes, in jobs, and in the getters and *)
(* methods of a value that is being decoded.                               *)
(*                                                                         *)
(* QuickJS is external: a Promise that settles with a handler queues a     *)
(* job, and so does a handler attached later; a job may do what any script *)
(* may.  Describing a rejection's reason runs no script here.  What stops  *)
(* JavaScript is in Execution, the handles of tasks in Deferred.           *)
(***************************************************************************)
EXTENDS Naturals, Sequences, SequencesExt

CONSTANTS Promises,    \* that scripts may settle and handle
          MaxEntries,  \* bound on the handlers, timers or answers of one operation
          MaxJobs,     \* bound on the jobs queued at once
          MaxTasks,    \* bound on the deferred tasks
          Faults       \* what may go wrong

\* A script's class of Promises overrides `catch` and ignores the handler.
FaultKinds == {"catch_overridden"}

\* "request" is call, too; "emit" all that awaits nothing; "deferred" call_deferred and
\* request_deferred; "load" the evaluation of an entry module.
Kinds == {"request", "emit", "deferred", "load"}

None == "none"

ASSUME PromisesAssumption == None \notin Promises
ASSUME BoundsAssumption == MaxEntries \in Nat \ {0} /\ MaxJobs \in Nat /\ MaxTasks \in Nat
ASSUME FaultsAssumption == Faults \subseteq FaultKinds

VARIABLES
  \* QuickJS.
  state,      \* of each Promise: pending, fulfilled, rejected
  handled,    \* the Promises with a handler
  jobs,       \* length of the runtime's queue
  \* The engine, and its thread.
  tracked,    \* UnhandledRejections, in the order they happened
  parked,     \* PANIC: a host function's panic waits
  tasks,      \* EngineScript::tasks: Promises whose outcome a handle waits for
  op, pc,
  left,       \* entries left, this one included
  awaited,    \* what an entry returned, while it is awaited
  failed,     \* the operation has an error of its own
  jobFailed,  \* a job of settle threw
  at,         \* the next task the harvest looks at
  result,     \* of the last operation: ok, own, job, unhandled, panicked
  reported,   \* the Promise an unhandled rejection was reported of
  \* History of the operation.
  rejections, \* Promises rejected in it
  told,       \* Promises whose rejection the host was given otherwise
  panics,     \* a host function panicked in it
  late        \* jobs queued while replies were decoded

promiseVars == <<state, handled, jobs, tracked>>
loopVars == <<op, pc, left, awaited, failed, jobFailed, tasks, at>>
resultVars == <<result, reported>>
historyVars == <<rejections, told, panics, late>>
vars == <<promiseVars, parked, loopVars, resultVars, historyVars>>

Init == /\ state = [p \in Promises |-> "pending"]
        /\ handled = {}
        /\ jobs = 0
        /\ tracked = <<>>
        /\ parked = FALSE
        /\ tasks = <<>>
        /\ op = "emit"
        /\ pc = "idle"
        /\ left = 0
        /\ awaited = None
        /\ failed = FALSE
        /\ jobFailed = FALSE
        /\ at = 0
        /\ result = "ok"
        /\ reported = None
        /\ rejections = {}
        /\ told = {}
        /\ panics = FALSE
        /\ late = 0

-----------------------------------------------------------------------------
(* JavaScript.                                                             *)

Running == pc \in {"entry", "awaitingJob", "settlingJob", "decoding", "replying"}

Queues(n) == /\ jobs + n <= MaxJobs
             /\ jobs' = jobs + n
             /\ late' = IF pc = "replying" THEN late + n ELSE late

EnqueueJob == /\ Running
              /\ Queues(1)
              /\ UNCHANGED <<state, handled, tracked, parked, loopVars, resultVars,
                             rejections, told, panics>>

Fulfil(p) == /\ Running
             /\ state[p] = "pending"
             /\ state' = [state EXCEPT ![p] = "fulfilled"]
             /\ Queues(IF p \in handled THEN 1 ELSE 0)
             /\ UNCHANGED <<handled, tracked, parked, loopVars, resultVars, rejections, told, panics>>

\* A bug: a rejection handled later stays an error.
StillTracked(p) == tracked

\* UnhandledRejections::forget, and what the tracker does once a handler is attached.  A
\* Promise is tracked once at most, since it is rejected once.
Without(p) == IF \E i \in DOMAIN tracked : tracked[i] = p
              THEN RemoveAt(tracked, CHOOSE i \in DOMAIN tracked : tracked[i] = p)
              ELSE tracked

\* The tracker is told of a rejection nobody handles,
Reject(p) == /\ Running
             /\ state[p] = "pending"
             /\ state' = [state EXCEPT ![p] = "rejected"]
             /\ tracked' = IF p \in handled THEN tracked ELSE Append(tracked, p)
             /\ rejections' = rejections \cup {p}
             /\ Queues(IF p \in handled THEN 1 ELSE 0)
             /\ UNCHANGED <<handled, parked, loopVars, resultVars, told, panics>>

\* and of its first handler.
Attached(p) == /\ handled' = handled \cup {p}
               /\ tracked' = Without(p)
               /\ Queues(IF state[p] = "pending" THEN 0 ELSE 1)

Handle(p) == /\ Running
             /\ Attached(p)
             /\ UNCHANGED <<state, parked, loopVars, resultVars, rejections, told, panics>>

\* A host function panics: the panic is parked, and the script gets an exception, which it
\* may catch.
HostPanics == /\ Running
              /\ parked' = TRUE
              /\ panics' = TRUE
              /\ UNCHANGED <<promiseVars, loopVars, resultVars, rejections, told, late>>

-----------------------------------------------------------------------------
(* The entries of an operation.                                            *)

EntryCounts(kind) == IF kind = "load" THEN {1} ELSE 1 .. MaxEntries

StartOperation(kind) == /\ pc = "idle"
                        /\ op' = kind
                        /\ pc' = "entry"
                        /\ left' \in EntryCounts(kind)
                        /\ rejections' = {}
                        /\ told' = {}
                        /\ panics' = FALSE
                        /\ late' = 0
                        /\ result' = "ok"
                        /\ reported' = None
                        /\ UNCHANGED <<promiseVars, parked, awaited, failed, jobFailed, tasks, at>>

\* The next entry, or settle.
NextEntry == /\ left' = left - 1
             /\ pc' = IF left > 1 THEN "entry" ELSE "settling"

\* JavaScript the engine entered, or a value being decoded, is done, or throws.
EntryEnds == /\ pc \in {"entry", "decoding"}
             /\ NextEntry
             /\ failed' \in {failed, TRUE}
             /\ UNCHANGED <<promiseVars, parked, op, awaited, jobFailed, tasks, at, resultVars,
                            historyVars>>

EntryAwaits(p) == /\ pc = "entry"
                  /\ op \in {"request", "load"}
                  /\ pc' = "awaiting"
                  /\ awaited' = p
                  /\ UNCHANGED <<promiseVars, parked, op, left, failed, jobFailed, tasks, at,
                                 resultVars, historyVars>>

\* Its Promise settled, or no job is left to settle it.  A load does not look at the
\* tracker, and has nothing to decode.
AwaitEnds == /\ pc = "awaiting"
             /\ state[awaited] # "pending" \/ jobs = 0
             /\ tracked' = IF op = "load" THEN tracked ELSE Without(awaited)
             /\ told' = IF state[awaited] = "rejected" THEN told \cup {awaited} ELSE told
             /\ awaited' = None
             /\ IF state[awaited] = "fulfilled" /\ op = "request"
                THEN pc' = "decoding" /\ UNCHANGED <<left, failed>>
                ELSE NextEntry /\ failed' = (failed \/ state[awaited] # "fulfilled")
             /\ UNCHANGED <<state, handled, jobs, parked, op, jobFailed, tasks, at, resultVars,
                            rejections, panics, late>>

\* ScriptTask::watch: the Promise gets a handler before jobs run.
Watch(p) == /\ pc = "entry"
            /\ op = "deferred"
            /\ Len(tasks) < MaxTasks
            /\ \/ Attached(p)
               \/ "catch_overridden" \in Faults /\ UNCHANGED <<handled, tracked, jobs, late>>
            /\ tasks' = Append(tasks, p)
            /\ NextEntry
            /\ UNCHANGED <<state, parked, op, awaited, failed, jobFailed, at, resultVars,
                           rejections, told, panics>>

-----------------------------------------------------------------------------
(* Engine::settle.                                                         *)

\* The loops of Promise::finish and settle.
StartJob == /\ \/ pc = "awaiting" /\ state[awaited] = "pending" /\ pc' = "awaitingJob"
               \/ pc = "settling" /\ pc' = "settlingJob"
            /\ jobs > 0
            /\ jobs' = jobs - 1
            /\ UNCHANGED <<state, handled, tracked, parked, op, left, awaited, failed, jobFailed,
                           tasks, at, resultVars, historyVars>>

\* Only settle keeps the error of a job that throws.
JobEnds == /\ \/ pc = "awaitingJob" /\ pc' = "awaiting" /\ UNCHANGED jobFailed
              \/ pc = "settlingJob" /\ pc' = "settling" /\ jobFailed' \in {jobFailed, TRUE}
           /\ UNCHANGED <<promiseVars, parked, op, left, awaited, failed, tasks, at, resultVars,
                          historyVars>>

\* A bug: an operation that failed leaves its jobs to the next.
DrainedUnlessFailed == jobs = 0 \/ failed

Drained == jobs = 0

StartHarvest == /\ pc = "settling"
                /\ Drained
                /\ pc' = "harvesting"
                /\ at' = 1
                /\ UNCHANGED <<promiseVars, parked, op, left, awaited, failed, jobFailed, tasks,
                               resultVars, historyVars>>

\* ScriptTask::poll: a task still waiting stays; one fulfilled has its value decoded.
Poll == /\ pc = "harvesting"
        /\ at <= Len(tasks)
        /\ LET p == tasks[at]
           IN  IF state[p] = "pending" THEN at' = at + 1 /\ UNCHANGED <<pc, tasks, tracked, told>>
               ELSE /\ tracked' = Without(p)
                    /\ tasks' = RemoveAt(tasks, at)
                    /\ IF state[p] = "rejected" THEN told' = told \cup {p} /\ UNCHANGED pc
                                                ELSE pc' = "replying" /\ UNCHANGED told
                    /\ UNCHANGED at
        /\ UNCHANGED <<state, handled, jobs, parked, op, left, awaited, failed, jobFailed,
                       resultVars, rejections, panics, late>>

\* What goes wrong in it is the handle's.
ReplyEnds == /\ pc = "replying"
             /\ pc' = "harvesting"
             /\ UNCHANGED <<promiseVars, parked, op, left, awaited, failed, jobFailed, tasks, at,
                            resultVars, historyVars>>

\* A bug: an operation's own error is returned before the panic is looked for.
PanicAfterError(expired) == CASE failed -> "own"
                              [] ~failed /\ parked -> "panicked"
                              [] ~failed /\ ~parked /\ (jobFailed \/ expired) -> "job"
                              [] ~failed /\ ~parked /\ ~jobFailed /\ ~expired ->
                                   IF tracked # <<>> THEN "unhandled" ELSE "ok"

\* What the host gets: `expired` if the budget is used up.
Outcome(expired) == IF parked THEN "panicked"
                    ELSE IF failed THEN "own"
                    ELSE IF jobFailed \/ expired THEN "job"
                    ELSE IF tracked # <<>> THEN "unhandled"
                    ELSE "ok"

Report == /\ pc = "harvesting"
          /\ at > Len(tasks)
          /\ \E expired \in BOOLEAN : result' = Outcome(expired)
          /\ reported' = IF result' = "unhandled" THEN tracked[1] ELSE None
          /\ tracked' = <<>>
          /\ parked' = (parked /\ result' # "panicked")
          /\ pc' = "idle"
          /\ failed' = FALSE
          /\ jobFailed' = FALSE
          /\ at' = 0
          /\ UNCHANGED <<state, handled, jobs, op, left, awaited, tasks, historyVars>>

-----------------------------------------------------------------------------
Next == \/ \E p \in Promises : Fulfil(p) \/ Reject(p) \/ Handle(p) \/ EntryAwaits(p) \/ Watch(p)
        \/ \E kind \in Kinds : StartOperation(kind)
        \/ EnqueueJob \/ HostPanics
        \/ EntryEnds \/ AwaitEnds \/ StartJob \/ JobEnds
        \/ StartHarvest \/ Poll \/ ReplyEnds \/ Report

Spec == Init /\ [][Next]_vars

-----------------------------------------------------------------------------
(* Properties.                                                             *)

TypeOK == /\ state \in [Promises -> {"pending", "fulfilled", "rejected"}]
          /\ handled \subseteq Promises
          /\ jobs \in 0 .. MaxJobs
          /\ tracked \in Seq(Promises)
          /\ parked \in BOOLEAN
          /\ tasks \in Seq(Promises)
          /\ op \in Kinds
          /\ pc \in {"idle", "entry", "decoding", "awaiting", "awaitingJob", "settling",
                     "settlingJob", "harvesting", "replying"}
          /\ left \in 0 .. MaxEntries
          /\ awaited \in Promises \cup {None}
          /\ failed \in BOOLEAN /\ jobFailed \in BOOLEAN
          /\ at \in 0 .. MaxTasks + 1
          /\ result \in {"ok", "own", "job", "unhandled", "panicked"}
          /\ reported \in Promises \cup {None}
          /\ rejections \subseteq Promises /\ told \subseteq Promises
          /\ panics \in BOOLEAN
          /\ late \in Nat

\* Rejections nobody handled by the end of the operation, nor got as another error.
Unhandled == {p \in rejections : p \notin handled /\ p \notin told}

\* "A Promise rejection that no handler caught by the end of the operation fails it": an
\* operation without any other error fails exactly when a Promise rejected in it, in its
\* entries, in jobs or as replies were decoded, has no handler at the end; one handled in
\* time, awaited by the host or owed to a deferred handle is not reported.
RejectionsReported ==
  pc = "idle" /\ result \in {"ok", "unhandled"} =>
     /\ result = "unhandled" <=> Unhandled # {}
     /\ result = "unhandled" => reported \in Unhandled

\* A handler that panics panics out of the engine call that reached it, whatever the script
\* catches and whichever other error the operation has; and nothing else panics.
PanicSurfaces == pc = "idle" => (result = "panicked" <=> panics)

\* Nothing leaks into the next operation, whether this one failed or not, but the jobs a
\* reply queued as it was decoded, once no job was left.
NothingLeaks == pc = "idle" => tracked = <<>> /\ ~parked /\ jobs <= late
=============================================================================
