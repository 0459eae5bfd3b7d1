----------------------------- MODULE Execution -----------------------------
(***************************************************************************)
(* The execution budget and the interrupt request: runner/execution.rs and *)
(* runner/interrupt.rs, with the control that the operations of            *)
(* engine/dispatch.rs, engine/host_driven.rs and engine/lifecycle.rs put   *)
(* around JavaScript.  The engine thread enters JavaScript, awaits and     *)
(* settles Promise jobs; any thread may ask for an interrupt at any time.  *)
(*                                                                         *)
(* QuickJS is external: a check that stops JavaScript the engine entered   *)
(* unwinds it with an exception no script can catch.  One that stops a     *)
(* Promise job ends that job, with an error or a rejection.                *)
(***************************************************************************)
EXTENDS Naturals

CONSTANTS Operations,  \* the kinds of operation the host runs, of Kinds
          Timeouts,    \* values of VmOptions::execution_timeout, in time units
          Max,         \* the largest u64
          MaxEntries,  \* bound on the handlers, timers or answers of one operation
          MaxJobs,     \* bound on the Promise jobs queued at once
          MaxTime,     \* bound on the clock
          MaxStart     \* operations start by this time, and time waits there for the
                       \* clock of a budget to start

\* "call" stands for call, call_deferred and unload_script, "emit" for emit,
\* request_deferred and advance_timers.
Kinds == {"call", "emit", "request", "pump", "load"}

ASSUME OperationsAssumption == Operations \subseteq Kinds
ASSUME TimeoutsAssumption == Timeouts \subseteq Nat
ASSUME EntriesAssumption == MaxEntries \in Nat \ {0}
\* The clock, in nanoseconds since the engine was made, does not reach 2^64 - 2.
ASSUME JobsAssumption == MaxJobs \in Nat
ASSUME TimeAssumption == Max \in Nat /\ MaxTime \in Nat /\ MaxTime + 1 < Max
ASSUME StartAssumption == MaxStart \in 0 .. MaxTime

NO_DEADLINE == Max
PENDING == Max - 1
Never == Max

VARIABLES
  \* ExecutionControl, and the clock it reads.
  now, deadline, budget, interruptRequested, stopped,
  timeout,   \* Engine::execution_timeout
  \* The engine thread.
  op,        \* the kind of the operation running, or last run
  pc,        \* idle, between (phases), entering, js (an entry runs), awaiting or
             \* settling (the heads of the two job loops), awaitingJob, settlingJob
  phases,    \* phases left of the operation, the current one included
  left,      \* entries into JavaScript left in this phase
  jobs,      \* Promise jobs in the runtime's queue
  failed,    \* the phase has an error
  result,    \* of the operation: running, ok, error, interrupted
  \* History.
  asked,     \* an interrupt was requested since the operation began
  clockFrom, \* when the clock of the phase's budget started
  check,     \* the last check: how it ended, and what was due
  saw,       \* what stopped an entry of the operation: interrupt, budget
  skipped    \* some entry was left out

controlVars == <<now, deadline, budget, interruptRequested, stopped, timeout>>
engineVars == <<op, pc, phases, left, jobs, failed, result>>
historyVars == <<asked, clockFrom, check, saw, skipped>>
vars == <<controlVars, engineVars, historyVars>>

NoCheck == [ended |-> "none", asked |-> FALSE, due |-> FALSE]

Init == /\ now = 0
        /\ deadline = NO_DEADLINE
        /\ budget = 0
        /\ interruptRequested = FALSE
        /\ stopped = FALSE
        /\ timeout \in Timeouts
        /\ op = "call"
        /\ pc = "idle"
        /\ phases = 0
        /\ left = 0
        /\ jobs = 0
        /\ failed = FALSE
        /\ result = "ok"
        /\ asked = FALSE
        /\ clockFrom = Never
        /\ check = NoCheck
        /\ saw = {}
        /\ skipped = FALSE

-----------------------------------------------------------------------------
(* ExecutionControl.                                                       *)

\* The deadline start_clock sets: a sum that overflows, or collides with a special
\* value, is no limit.
DeadlineFrom(from) == IF from + budget < PENDING THEN from + budget ELSE NO_DEADLINE

\* The deadline after start_clock, which acts once per phase.
ClockStarted == IF deadline = PENDING THEN DeadlineFrom(now) ELSE deadline

Expired(d) == d \notin {NO_DEADLINE, PENDING} /\ now >= d

ShouldStop == interruptRequested \/ stopped

\* ExecutionControl::enter.
Enter == /\ interruptRequested' = FALSE
         /\ stopped' = FALSE
         /\ IF timeout < PENDING THEN budget' = timeout /\ deadline' = PENDING
                                 ELSE budget' = budget /\ deadline' = NO_DEADLINE
         /\ UNCHANGED <<now, timeout>>

-----------------------------------------------------------------------------
(* The environment.                                                        *)

Tick == /\ now < IF deadline \in {NO_DEADLINE, PENDING} THEN MaxStart ELSE MaxTime
        /\ now' = now + 1
        /\ UNCHANGED <<deadline, budget, interruptRequested, stopped, timeout, engineVars, historyVars>>

\* InterruptHandle::interrupt, from any thread.
Interrupt == /\ interruptRequested' = TRUE
             /\ asked' = (asked \/ pc # "idle")
             /\ UNCHANGED <<now, deadline, budget, stopped, timeout, engineVars,
                            clockFrom, check, saw, skipped>>

-----------------------------------------------------------------------------
(* The engine thread.                                                      *)

\* A load saves the version it replaces, mounts the new one and disposes the old; a
\* first load only mounts.  It transpiles before the first of these.
PhaseCounts(kind) == IF kind = "load" THEN {1, 3} ELSE {1}

EntryCounts(kind) == IF kind \in {"emit", "request", "pump"} THEN 1 .. MaxEntries ELSE {1}

StartOperation(kind) ==
  /\ pc = "idle"
  /\ now <= MaxStart
  /\ op' = kind
  /\ phases' \in PhaseCounts(kind)
  /\ left' \in EntryCounts(kind)
  /\ failed' = FALSE
  /\ result' = "running"
  /\ asked' = FALSE
  /\ clockFrom' = Never
  /\ check' = NoCheck
  /\ saw' = {}
  /\ skipped' = FALSE
  /\ UNCHANGED jobs
  /\ IF kind = "load" THEN pc' = "between" /\ UNCHANGED controlVars
                      ELSE pc' = "entering" /\ Enter

BeginPhase == /\ pc = "between"
              /\ pc' = "entering"
              /\ Enter
              /\ clockFrom' = Never
              /\ UNCHANGED <<op, phases, left, jobs, failed, result, asked, check, saw, skipped>>

\* What an entry that ends leads to: the next one, unless should_stop says otherwise.
\* A pump does not ask here: it makes a check of its own before each script.
AfterEntry(stop) ==
  IF left > 0 /\ (op = "pump" \/ ~stop)
  THEN pc' = "entering" /\ UNCHANGED skipped
  ELSE pc' = "settling" /\ skipped' = (left > 0)

\* A bug: a check looks at the budget only.
StopNowByBudget == Expired(ClockStarted)

StopNow == interruptRequested \/ Expired(ClockStarted)

\* What a check, at `now`, does to the control and to the history.
ClockStarts == clockFrom' = IF clockFrom = Never THEN now ELSE clockFrom

Checked(ended) ==
  /\ deadline' = ClockStarted
  /\ ClockStarts
  /\ check' = [ended |-> ended, asked |-> asked, due |-> now >= clockFrom' + timeout]
  /\ stopped' = (stopped \/ ended = "stopped")
  /\ UNCHANGED <<now, budget, interruptRequested, timeout>>

\* A bug: the handler that ran is entered again.
EnterJsAgain == /\ pc = "entering"
                /\ op # "pump"
                /\ pc' = "js"
                /\ UNCHANGED <<controlVars, op, phases, left, jobs, failed, result, historyVars>>

EnterJs == /\ pc = "entering"
           /\ op # "pump"
           /\ pc' = "js"
           /\ left' = left - 1
           /\ UNCHANGED <<controlVars, op, phases, jobs, failed, result, historyVars>>

\* Engine::pump asks ExecutionControl::interrupted before each script.
PumpEntersScript == /\ pc = "entering"
                    /\ op = "pump"
                    /\ ~StopNow
                    /\ Checked("passed")
                    /\ pc' = "js"
                    /\ left' = left - 1
                    /\ UNCHANGED <<op, phases, jobs, failed, result, asked, saw, skipped>>

PumpStops == /\ pc = "entering"
             /\ op = "pump"
             /\ StopNow
             /\ Checked("stopped")
             /\ pc' = "settling"
             /\ skipped' = TRUE
             /\ UNCHANGED <<op, phases, left, jobs, failed, result, asked, saw>>

InJob == pc \in {"awaitingJob", "settlingJob"}

Running == pc = "js" \/ InJob

CheckPasses == /\ Running
               /\ ~StopNow
               /\ Checked("passed")
               /\ UNCHANGED <<engineVars, asked, saw, skipped>>

\* A check stops the JavaScript the engine entered.
CheckStopsEntry == /\ pc = "js"
                   /\ StopNow
                   /\ Checked("stopped")
                   /\ failed' = TRUE
                   /\ saw' = saw \cup IF interruptRequested THEN {"interrupt"} ELSE {"budget"}
                   /\ AfterEntry(TRUE)
                   /\ UNCHANGED <<op, phases, left, jobs, result, asked>>

\* The running script queues a Promise job.
EnqueueJob == /\ Running
              /\ jobs < MaxJobs
              /\ jobs' = jobs + 1
              /\ UNCHANGED <<controlVars, op, pc, phases, left, failed, result, historyVars>>

\* The job loops of settle and of Promise::finish run whatever is queued.
StartJob == /\ pc \in {"awaiting", "settling"}
            /\ jobs > 0
            /\ jobs' = jobs - 1
            /\ pc' = IF pc = "awaiting" THEN "awaitingJob" ELSE "settlingJob"
            /\ UNCHANGED <<controlVars, op, phases, left, failed, result, historyVars>>

\* Back at the head of the loop; the error of a job is kept only by settle.
LeaveJob == /\ pc' = IF pc = "awaitingJob" THEN "awaiting" ELSE "settling"
            /\ failed' \in IF pc = "settlingJob" THEN {failed, TRUE} ELSE {failed}
            /\ UNCHANGED <<op, phases, left, jobs, result>>

JobEnds == /\ InJob
           /\ LeaveJob
           /\ UNCHANGED <<controlVars, historyVars>>

\* A check stops a job, with an error or a rejection; the loop goes on.
CheckStopsJob == /\ InJob
                 /\ StopNow
                 /\ Checked("stopped")
                 /\ LeaveJob
                 /\ UNCHANGED <<asked, saw, skipped>>

\* JavaScript calls a host function.
HostFunction == /\ Running
                /\ deadline = PENDING
                /\ deadline' = ClockStarted
                /\ ClockStarts
                /\ UNCHANGED <<now, budget, interruptRequested, stopped, timeout, engineVars,
                               asked, check, saw, skipped>>

\* The entry returns or throws.
EntryEnds == /\ pc = "js"
             /\ failed' \in {failed, TRUE}
             /\ AfterEntry(ShouldStop)
             /\ UNCHANGED <<controlVars, op, phases, left, jobs, result, asked, clockFrom, check, saw>>

\* A call, a request handler or an entry module returns a Promise, awaited at once.
EntryAwaits == /\ pc = "js"
               /\ op \in {"call", "request", "load"}
               /\ pc' = "awaiting"
               /\ UNCHANGED <<controlVars, op, phases, left, jobs, failed, result, historyVars>>

\* The Promise settles, or no job is left to settle it.
AwaitEnds == /\ pc = "awaiting"
             /\ failed' \in {failed, TRUE}
             /\ AfterEntry(ShouldStop)
             /\ UNCHANGED <<controlVars, op, phases, left, jobs, result, asked, clockFrom, check, saw>>

\* A bug: a budget that ran out hides the interrupt.
OutcomeOfBudget(error) == CASE Expired(deadline) -> "error"
                            [] error /\ ~Expired(deadline) ->
                                 IF interruptRequested THEN "interrupted" ELSE "error"
                            [] OTHER -> "ok"

\* attribute_interrupt(settle(..)).
Outcome(error) == CASE error \/ Expired(deadline) ->
                         IF interruptRequested THEN "interrupted" ELSE "error"
                    [] OTHER -> "ok"

\* No job is left: Engine::settle reports, with the rejections nobody handled, and the
\* guard drops.  An error ends the operation, whatever phases are left.
Settle == /\ pc = "settling"
          /\ jobs = 0
          /\ \E error \in {failed, TRUE} :
               LET outcome == Outcome(error)
               IN  IF outcome = "ok" /\ phases > 1
                   THEN /\ pc' = "between" /\ phases' = phases - 1 /\ left' = 1
                        /\ failed' = FALSE /\ UNCHANGED result
                   ELSE /\ pc' = "idle" /\ phases' = 0 /\ left' = 0
                        /\ result' = outcome /\ UNCHANGED failed
          /\ deadline' = NO_DEADLINE
          /\ UNCHANGED <<now, budget, interruptRequested, stopped, timeout, op, jobs, historyVars>>

-----------------------------------------------------------------------------
Check == CheckPasses \/ CheckStopsEntry \/ CheckStopsJob

Next == \/ Tick
        \/ Interrupt
        \/ \E kind \in Operations : StartOperation(kind)
        \/ BeginPhase \/ EnterJs \/ PumpEntersScript \/ PumpStops
        \/ Check \/ HostFunction \/ EnqueueJob \/ StartJob \/ JobEnds
        \/ EntryEnds \/ EntryAwaits \/ AwaitEnds
        \/ Settle

Spec == Init /\ [][Next]_vars

\* Time passes; QuickJS checks about every ten thousand interpreter steps; the engine
\* thread goes on once JavaScript returns to it, which an entry or a job need not do.
Fairness == /\ WF_vars(Tick)
            /\ WF_vars(Check)
            /\ WF_vars(BeginPhase \/ EnterJs \/ PumpEntersScript \/ PumpStops \/ StartJob
                         \/ AwaitEnds \/ Settle)

FairSpec == Spec /\ Fairness

-----------------------------------------------------------------------------
(* Properties.                                                             *)

TypeOK == /\ now \in 0 .. MaxTime
          /\ deadline \in 0 .. Max
          /\ budget \in 0 .. Max
          /\ interruptRequested \in BOOLEAN
          /\ stopped \in BOOLEAN
          /\ timeout \in Timeouts
          /\ op \in Kinds
          /\ pc \in {"idle", "between", "entering", "js", "awaiting", "settling",
                    "awaitingJob", "settlingJob"}
          /\ phases \in 0 .. 3
          /\ left \in 0 .. MaxEntries
          /\ jobs \in 0 .. MaxJobs
          /\ failed \in BOOLEAN
          /\ result \in {"running", "ok", "error", "interrupted"}
          /\ asked \in BOOLEAN
          /\ clockFrom \in 0 .. MaxTime \cup {Never}
          /\ check \in [ended : {"none", "passed", "stopped"}, asked : BOOLEAN, due : BOOLEAN]
          /\ saw \subseteq {"interrupt", "budget"}
          /\ skipped \in BOOLEAN

\* JavaScript is never stopped early: a check stops it only if an interrupt was asked
\* for while this very operation ran, or the budget of this phase, counted from the
\* phase's own first check or host function, is used up.
StopsOnlyWhenDue == check.ended = "stopped" => check.asked \/ check.due

\* A check lets JavaScript go on only while the budget lasts: the clock starts once
\* and never restarts, however large the timeout.
BudgetEnforced == check.ended = "passed" => ~check.due

\* An interrupt stops the operation in progress at its next QuickJS interrupt check.  A
\* load is left out: each of its phases forgets the requests made before.
NextCheckStops == check.ended = "passed" /\ op # "load" => ~check.asked

\* What a check does is exactly what is due: it stops JavaScript if an interrupt was asked
\* for during the operation, or the budget of the phase is used up, and only then.
StopsExactly == StopsOnlyWhenDue /\ BudgetEnforced /\ NextCheckStops

\* An operation in which the budget stopped an entry fails, and so does one in which
\* an interrupt did, as interrupted; and one that leaves out handlers, timers or answers
\* without an error was asked to stop, between two checks, and is no load.
SeenStopIsReported ==
  pc = "idle" => /\ "budget" \in saw => result # "ok"
                 /\ "interrupt" \in saw => result = "interrupted"
                 /\ skipped /\ result = "ok" => asked /\ op # "load"

\* Only an operation that ran when the interrupt was asked for reports it.
InterruptedWasAsked == result = "interrupted" => asked

\* With a time limit, one the bounded clock reaches, a delivery stops entering handlers,
\* however long they run.
DeliveryEnds ==
  op = "emit" /\ timeout + MaxStart <= MaxTime /\ pc \in {"entering", "js"} ~> pc = "settling"
=============================================================================
