-------------------------- MODULE Execution_proofs --------------------------
(***************************************************************************)
(* The engine's two uses of time.                                          *)
(*                                                                         *)
(* Execution, for every timeout, clock and width of the integers: the      *)
(* deadline is always the one the phase's own clock gives, so a check      *)
(* stops JavaScript exactly when it is due, or when asked to.              *)
(*                                                                         *)
(* Timers, for every number of scripts and timers: the times the engine    *)
(* and the scripts keep are never later than a timer, but where a stop     *)
(* fell into addTimer, so that the early returns of advance_timers pass no *)
(* other over; and its calls fire the timers as the documentation says,    *)
(* but for what such a stop, or one in the sweep, leaves behind.           *)
(***************************************************************************)
EXTENDS Execution, Timers, SequenceTheorems, FiniteSetTheorems, WellFoundedInduction, TLAPS

\* A phase runs: the guard of ExecutionControl::enter is alive.
Active == pc \in {"entering", "js", "awaiting", "settling", "awaitingJob", "settlingJob"}

ControlTypeOK == /\ now \in 0 .. MaxTime
                 /\ deadline \in 0 .. Max
                 /\ budget \in 0 .. Max
                 /\ interruptRequested \in BOOLEAN
                 /\ stopped \in BOOLEAN
                 /\ timeout \in Timeouts

EngineTypeOK == /\ op \in Kinds
                /\ pc = "idle" \/ pc = "between" \/ Active
                /\ phases \in 0 .. 3
                /\ left \in 0 .. MaxEntries
                /\ jobs \in 0 .. MaxJobs
                /\ failed \in BOOLEAN
                /\ result \in {"running", "ok", "error", "interrupted"}
                /\ pc \in {"entering", "between"} => left > 0

HistoryTypeOK == /\ asked \in BOOLEAN
                 /\ clockFrom \in 0 .. MaxTime \cup {Never}
                 /\ check \in [ended : {"none", "passed", "stopped"}, asked : BOOLEAN, due : BOOLEAN]
                 /\ saw \subseteq {"interrupt", "budget"}
                 /\ skipped \in BOOLEAN

\* The clock of a phase with a time limit has not started, or gives its deadline.
ClockInv == Active => IF timeout < PENDING
                      THEN /\ budget = timeout
                           /\ \/ deadline = PENDING /\ clockFrom = Never
                              \/ clockFrom <= now /\ deadline = DeadlineFrom(clockFrom)
                      ELSE deadline = NO_DEADLINE

\* A request kept while a phase runs was made during this operation.
RequestInv == Active /\ interruptRequested => asked

Inv == /\ ControlTypeOK /\ EngineTypeOK /\ HistoryTypeOK
       /\ ClockInv /\ RequestInv
       /\ StopsOnlyWhenDue /\ BudgetEnforced /\ InterruptedWasAsked

-----------------------------------------------------------------------------
\* start_clock: once it has run, the deadline is the one of the phase's clock.
LEMMA StartedClock ==
  ASSUME Inv, Active,
         NEW from \in 0 .. MaxTime, from = IF clockFrom = Never THEN now ELSE clockFrom
  PROVE  /\ ClockStarted \in 0 .. Max
         /\ IF timeout < PENDING THEN from <= now /\ budget = timeout /\ ClockStarted = DeadlineFrom(from)
                                 ELSE ClockStarted = NO_DEADLINE
         /\ Expired(ClockStarted) <=> now >= from + timeout
  <1> USE TimeAssumption, TimeoutsAssumption
  <1>1. /\ now \in Nat /\ now <= MaxTime /\ budget \in Nat /\ timeout \in Nat
        /\ Max \in Nat /\ MaxTime \in Nat /\ MaxTime + 1 < Max
        /\ clockFrom \in 0 .. MaxTime \cup {Never}
    BY DEF Inv, ControlTypeOK, HistoryTypeOK
  <1>2. ClockInv
    BY DEF Inv
  <1> USE DEF PENDING, NO_DEADLINE, Never
  <1>3. DeadlineFrom(from) \in 0 .. Max
    BY <1>1 DEF DeadlineFrom
  <1>4. ClockStarted \in 0 .. Max
    <2>1. deadline \in 0 .. Max
      BY DEF Inv, ControlTypeOK
    <2>2. DeadlineFrom(now) \in 0 .. Max
      BY <1>1 DEF DeadlineFrom
    <2> QED
      BY <2>1, <2>2 DEF ClockStarted
  <1>5. CASE timeout < PENDING
    <2>1. from <= now /\ budget = timeout /\ ClockStarted = DeadlineFrom(from)
      <3>1. CASE deadline = PENDING /\ clockFrom = Never
        BY <1>1, <1>2, <1>5, <3>1 DEF ClockInv, ClockStarted
      <3>2. CASE clockFrom <= now /\ deadline = DeadlineFrom(clockFrom)
        <4>1. from = clockFrom
          BY <1>1, <3>2
        <4>2. DeadlineFrom(from) # PENDING
          BY <1>1 DEF DeadlineFrom
        <4> QED
          BY <1>1, <1>2, <1>5, <3>2, <4>1, <4>2 DEF ClockInv, ClockStarted
      <3> QED
        BY <1>2, <1>5, <3>1, <3>2 DEF ClockInv
    <2>2. Expired(ClockStarted) <=> now >= from + timeout
      BY <1>1, <2>1 DEF Expired, DeadlineFrom
    <2> QED
      BY <1>4, <1>5, <2>1, <2>2
  <1>6. CASE ~(timeout < PENDING)
    <2>1. ClockStarted = NO_DEADLINE
      BY <1>1, <1>2, <1>6 DEF ClockInv, ClockStarted
    <2>2. ~ Expired(ClockStarted) /\ ~(now >= from + timeout)
      BY <1>1, <1>6, <2>1 DEF Expired
    <2> QED
      BY <1>4, <1>6, <2>1, <2>2
  <1> QED
    BY <1>5, <1>6

\* What a check leaves behind, whether it stops JavaScript or lets it go on.
LEMMA CheckKeepsClock ==
  ASSUME Inv, Active, Active', NEW ended \in {"passed", "stopped"}, Checked(ended),
         ended = "stopped" <=> StopNow,
         UNCHANGED asked
  PROVE  /\ ControlTypeOK' /\ ClockInv' /\ RequestInv'
         /\ StopsOnlyWhenDue' /\ BudgetEnforced'
         /\ clockFrom' \in 0 .. MaxTime
         /\ check' \in [ended : {"none", "passed", "stopped"}, asked : BOOLEAN, due : BOOLEAN]
  <1> DEFINE from == IF clockFrom = Never THEN now ELSE clockFrom
  <1>1. from \in 0 .. MaxTime
    BY TimeAssumption DEF Inv, ControlTypeOK, HistoryTypeOK, Never
  <1>2. clockFrom' = from /\ deadline' = ClockStarted
    BY DEF Checked, ClockStarts
  <1>3. check' = [ended |-> ended, asked |-> asked, due |-> now >= from + timeout]
    BY <1>2 DEF Checked
  <1> HIDE DEF from
  <1>4. /\ ClockStarted \in 0 .. Max
        /\ IF timeout < PENDING THEN from <= now /\ budget = timeout /\ ClockStarted = DeadlineFrom(from)
                                ELSE ClockStarted = NO_DEADLINE
        /\ Expired(ClockStarted) <=> now >= from + timeout
    BY <1>1, StartedClock DEF from
  <1>5. ControlTypeOK'
    BY <1>2, <1>4 DEF Inv, ControlTypeOK, Checked
  <1>6. ClockInv'
    BY <1>2, <1>4 DEF ClockInv, Checked, DeadlineFrom
  <1>7. RequestInv'
    BY DEF Inv, RequestInv, Checked
  <1>8. check'.ended = ended /\ check'.asked = asked /\ (check'.due <=> now >= from + timeout)
    BY <1>3
  <1>9. StopsOnlyWhenDue' /\ BudgetEnforced'
    BY <1>4, <1>8 DEF StopsOnlyWhenDue, BudgetEnforced, StopNow, Inv, RequestInv
  <1>10. check' \in [ended : {"none", "passed", "stopped"}, asked : BOOLEAN, due : BOOLEAN]
    BY <1>3 DEF Inv, HistoryTypeOK
  <1> QED
    BY <1>1, <1>2, <1>5, <1>6, <1>7, <1>9, <1>10

-----------------------------------------------------------------------------
LEMMA InitInv == Init => Inv
  <1> SUFFICES ASSUME Init PROVE Inv
    OBVIOUS
  <1> USE TimeAssumption DEF Init, NO_DEADLINE, Never
  <1>1. ControlTypeOK
    <2>1. now \in 0 .. MaxTime /\ deadline \in 0 .. Max /\ budget \in 0 .. Max
      OBVIOUS
    <2>2. interruptRequested \in BOOLEAN /\ stopped \in BOOLEAN /\ timeout \in Timeouts
      OBVIOUS
    <2> QED
      BY <2>1, <2>2 DEF ControlTypeOK
  <1>2. EngineTypeOK
    <2>1. phases \in 0 .. 3 /\ left \in 0 .. MaxEntries /\ jobs \in 0 .. MaxJobs
      BY EntriesAssumption, JobsAssumption
    <2>2. /\ op \in Kinds /\ pc = "idle" /\ failed \in BOOLEAN
          /\ result \in {"running", "ok", "error", "interrupted"}
          /\ ~(pc \in {"entering", "between"})
      BY DEF Kinds
    <2> QED
      BY <2>1, <2>2 DEF EngineTypeOK
  <1>3. HistoryTypeOK
    BY DEF HistoryTypeOK, NoCheck
  <1>4. ClockInv /\ RequestInv
    BY DEF ClockInv, RequestInv, Active
  <1>5. StopsOnlyWhenDue /\ BudgetEnforced /\ InterruptedWasAsked
    BY DEF StopsOnlyWhenDue, BudgetEnforced, InterruptedWasAsked, NoCheck
  <1> QED
    BY <1>1, <1>2, <1>3, <1>4, <1>5 DEF Inv

\* A phase begins with its flags cleared and its clock not started.
LEMMA EnterInv ==
  ASSUME Inv, Enter, clockFrom' = Never
  PROVE  ControlTypeOK' /\ ClockInv' /\ RequestInv'
  <1> USE TimeAssumption, TimeoutsAssumption DEF PENDING, NO_DEADLINE, Never
  <1>1. ControlTypeOK'
    <2>1. /\ now' = now /\ timeout' = timeout /\ interruptRequested' = FALSE /\ stopped' = FALSE
          /\ \/ timeout < PENDING /\ budget' = timeout /\ deadline' = PENDING
             \/ budget' = budget /\ deadline' = NO_DEADLINE
      BY DEF Enter
    <2>2. timeout \in Nat /\ budget \in 0 .. Max /\ now \in 0 .. MaxTime /\ timeout \in Timeouts
      BY DEF Inv, ControlTypeOK
    <2>3. budget' \in 0 .. Max /\ deadline' \in 0 .. Max
      BY <2>1, <2>2
    <2> QED
      BY <2>1, <2>2, <2>3 DEF ControlTypeOK
  <1>2. ClockInv'
    BY DEF ClockInv, Enter
  <1>3. RequestInv'
    BY DEF RequestInv, Enter
  <1> QED
    BY <1>1, <1>2, <1>3

\* Steps of the engine thread that touch neither the control nor the history's clock.
LEMMA QuietStep ==
  ASSUME Inv, UNCHANGED <<controlVars, asked, clockFrom, check, saw>>,
         Active, EngineTypeOK', skipped' \in BOOLEAN, UNCHANGED result
  PROVE  Inv'
  <1> USE DEF Inv
  <1>1. ControlTypeOK' /\ HistoryTypeOK'
    BY DEF ControlTypeOK, HistoryTypeOK, controlVars
  <1>2. ClockInv'
    BY DEF ClockInv, controlVars, DeadlineFrom
  <1>3. RequestInv'
    BY DEF RequestInv, controlVars
  <1>4. StopsOnlyWhenDue' /\ BudgetEnforced' /\ InterruptedWasAsked'
    BY DEF StopsOnlyWhenDue, BudgetEnforced, InterruptedWasAsked
  <1> QED
    BY <1>1, <1>2, <1>3, <1>4

\* Where the engine goes after an entry.
LEMMA AfterEntryType ==
  ASSUME Inv, NEW out \in BOOLEAN, AfterEntry(out), pc \in {"js", "awaiting"}, UNCHANGED left
  PROVE  /\ Active' /\ Active
         /\ skipped' \in BOOLEAN
         /\ pc' \in {"entering", "between"} => left' > 0
  <1>1. skipped' = skipped \/ skipped' = (left > 0)
    BY DEF AfterEntry
  <1>2. skipped \in BOOLEAN
    BY DEF Inv, HistoryTypeOK
  <1>3. skipped' \in BOOLEAN
    <2>1. (left > 0) \in BOOLEAN
      OBVIOUS
    <2> QED
      BY <1>1, <1>2, <2>1, Zenon
  <1>4. Active
    BY DEF Active
  <1>5. (left > 0 /\ pc' = "entering") \/ pc' = "settling"
    BY DEF AfterEntry
  <1> QED
    BY <1>3, <1>4, <1>5 DEF Active

LEMMA CheckStep ==
  ASSUME Inv, Active, Active', NEW ended \in {"passed", "stopped"}, Checked(ended),
         ended = "stopped" <=> StopNow,
         EngineTypeOK', skipped' \in BOOLEAN, saw' \subseteq {"interrupt", "budget"},
         UNCHANGED <<asked, result>>
  PROVE  Inv'
  <1>1. /\ ControlTypeOK' /\ ClockInv' /\ RequestInv'
        /\ StopsOnlyWhenDue' /\ BudgetEnforced'
        /\ clockFrom' \in 0 .. MaxTime
        /\ check' \in [ended : {"none", "passed", "stopped"}, asked : BOOLEAN, due : BOOLEAN]
    BY CheckKeepsClock
  <1>2. HistoryTypeOK'
    BY <1>1 DEF Inv, HistoryTypeOK
  <1>3. InterruptedWasAsked'
    BY DEF Inv, InterruptedWasAsked
  <1> QED
    BY <1>1, <1>2, <1>3 DEF Inv

-----------------------------------------------------------------------------
LEMMA StepInv == Inv /\ [Next]_vars => Inv'
<1> SUFFICES ASSUME Inv, [Next]_vars PROVE Inv'
  OBVIOUS
<1>t. /\ ControlTypeOK /\ EngineTypeOK /\ HistoryTypeOK
      /\ ClockInv /\ RequestInv
      /\ StopsOnlyWhenDue /\ BudgetEnforced /\ InterruptedWasAsked
  BY DEF Inv
<1>c. /\ now \in Nat /\ deadline \in Nat /\ left \in Nat /\ jobs \in Nat /\ phases \in Nat
      /\ MaxEntries \in Nat \ {0} /\ MaxJobs \in Nat /\ MaxTime \in Nat
  BY <1>t, EntriesAssumption, JobsAssumption, StartAssumption, TimeAssumption
     DEF ControlTypeOK, EngineTypeOK
<1>1. CASE Tick
  <2>1. ControlTypeOK'
    <3>1. now < MaxTime
      BY <1>1, <1>c, StartAssumption DEF Tick
    <3>2. now + 1 \in 0 .. MaxTime
      BY <1>c, <3>1
    <3> QED
      BY <1>1, <1>t, <3>2 DEF Tick, ControlTypeOK
  <2>2. EngineTypeOK' /\ HistoryTypeOK' /\ InterruptedWasAsked'
    BY <1>1, <1>t DEF Tick, EngineTypeOK, HistoryTypeOK, InterruptedWasAsked, Active, engineVars, historyVars
  <2>3. ClockInv'
    <3>1. clockFrom <= now => clockFrom <= now + 1
      BY <1>t, <1>c, TimeAssumption DEF HistoryTypeOK, Never
    <3> QED
      BY <1>1, <1>t, <3>1 DEF Tick, ClockInv, Active, engineVars, historyVars, DeadlineFrom
  <2>5. RequestInv'
    BY <1>1, <1>t DEF Tick, RequestInv, Active, engineVars, historyVars
  <2>4. StopsOnlyWhenDue' /\ BudgetEnforced'
    BY <1>1, <1>t DEF Tick, StopsOnlyWhenDue, BudgetEnforced, historyVars
  <2> QED
    BY <2>1, <2>2, <2>3, <2>4, <2>5 DEF Inv
<1>2. CASE Interrupt
  <2>1. ControlTypeOK' /\ EngineTypeOK' /\ HistoryTypeOK'
    <3>1. asked' \in BOOLEAN
      <4>1. (pc # "idle") \in BOOLEAN /\ asked \in BOOLEAN /\ asked' = (asked \/ pc # "idle")
        BY <1>2, <1>t DEF Interrupt, HistoryTypeOK
      <4> QED
        BY <4>1, Zenon
    <3> QED
      BY <1>2, <1>t, <3>1
         DEF Interrupt, ControlTypeOK, EngineTypeOK, HistoryTypeOK, Active, engineVars
  <2>2. asked => asked'
    BY <1>2 DEF Interrupt
  <2>3. Active => asked'
    BY <1>2 DEF Interrupt, Active
  <2>4. ClockInv' /\ RequestInv'
    BY <1>2, <1>t, <2>3 DEF Interrupt, ClockInv, RequestInv, Active, engineVars, DeadlineFrom
  <2>5. StopsOnlyWhenDue' /\ BudgetEnforced' /\ InterruptedWasAsked'
    BY <1>2, <1>t, <2>2 DEF Interrupt, StopsOnlyWhenDue, BudgetEnforced, InterruptedWasAsked, engineVars
  <2> QED
    BY <2>1, <2>4, <2>5 DEF Inv
<1>3. ASSUME NEW kind \in Operations, StartOperation(kind) PROVE Inv'
  <2>1. EngineTypeOK'
    <3>1. kind \in Kinds
      BY OperationsAssumption
    <3>2. phases' \in 0 .. 3 /\ left' \in 0 .. MaxEntries /\ left' > 0
      BY <1>3, <1>c DEF StartOperation, PhaseCounts, EntryCounts
    <3>3. pc' = "between" \/ pc' = "entering"
      BY <1>3 DEF StartOperation
    <3> QED
      BY <1>3, <1>t, <3>1, <3>2, <3>3 DEF StartOperation, EngineTypeOK, Active
  <2>2. HistoryTypeOK' /\ StopsOnlyWhenDue' /\ BudgetEnforced' /\ InterruptedWasAsked'
    BY <1>3 DEF StartOperation, HistoryTypeOK, StopsOnlyWhenDue, BudgetEnforced, InterruptedWasAsked, NoCheck
  <2>3. ControlTypeOK' /\ ClockInv' /\ RequestInv'
    <3>1. CASE kind = "load"
      BY <1>3, <1>t, <3>1
         DEF StartOperation, controlVars, ControlTypeOK, ClockInv, RequestInv, Active
    <3>2. CASE kind # "load"
      BY <1>3, <3>2, EnterInv DEF StartOperation
    <3> QED
      BY <3>1, <3>2
  <2> QED
    BY <2>1, <2>2, <2>3 DEF Inv
<1>4. CASE BeginPhase
  <2>1. EngineTypeOK' /\ HistoryTypeOK'
    BY <1>4, <1>t DEF BeginPhase, EngineTypeOK, HistoryTypeOK, Active
  <2>2. ControlTypeOK' /\ ClockInv' /\ RequestInv'
    BY <1>4, EnterInv DEF BeginPhase
  <2>3. StopsOnlyWhenDue' /\ BudgetEnforced' /\ InterruptedWasAsked'
    BY <1>4, <1>t DEF BeginPhase, StopsOnlyWhenDue, BudgetEnforced, InterruptedWasAsked
  <2> QED
    BY <2>1, <2>2, <2>3 DEF Inv
<1>5. CASE EnterJs
  <2>1. EngineTypeOK' /\ Active
    BY <1>5, <1>t, <1>c DEF EnterJs, EngineTypeOK, Active
  <2> QED
    BY <1>5, <1>t, <2>1, QuietStep DEF EnterJs, historyVars, HistoryTypeOK
<1>6. CASE PumpEntersScript
  <2>1. EngineTypeOK' /\ Active /\ Active'
    BY <1>6, <1>t, <1>c DEF PumpEntersScript, EngineTypeOK, Active
  <2> QED
    BY <1>6, <1>t, <2>1, CheckStep DEF PumpEntersScript, HistoryTypeOK
<1>7. CASE PumpStops
  <2>1. EngineTypeOK' /\ Active /\ Active'
    BY <1>7, <1>t DEF PumpStops, EngineTypeOK, Active
  <2> QED
    BY <1>7, <1>t, <2>1, CheckStep DEF PumpStops, HistoryTypeOK
<1>8. CASE CheckPasses
  <2>1. EngineTypeOK' /\ Active /\ Active'
    BY <1>8, <1>t DEF CheckPasses, EngineTypeOK, Active, engineVars, Running, InJob
  <2> QED
    BY <1>8, <1>t, <2>1, CheckStep DEF CheckPasses, HistoryTypeOK, engineVars
<1>9. CASE CheckStopsEntry
  <2>1. Active /\ Active' /\ skipped' \in BOOLEAN /\ (pc' \in {"entering", "between"} => left' > 0)
    BY <1>9, AfterEntryType DEF CheckStopsEntry
  <2>2. EngineTypeOK'
    BY <1>9, <1>t, <2>1 DEF CheckStopsEntry, EngineTypeOK
  <2>3. saw' \subseteq {"interrupt", "budget"}
    BY <1>9, <1>t DEF CheckStopsEntry, HistoryTypeOK
  <2> QED
    BY <1>9, <2>1, <2>2, <2>3, CheckStep DEF CheckStopsEntry
<1>10. CASE CheckStopsJob
  <2>1. Active /\ Active' /\ EngineTypeOK'
    BY <1>10, <1>t DEF CheckStopsJob, LeaveJob, InJob, Active, EngineTypeOK
  <2> QED
    BY <1>10, <1>t, <2>1, CheckStep DEF CheckStopsJob, LeaveJob, HistoryTypeOK
<1>11. CASE HostFunction
  <2>1. Active /\ Active' /\ EngineTypeOK'
    BY <1>11, <1>t DEF HostFunction, Running, InJob, engineVars, Active, EngineTypeOK
  <2>2. ControlTypeOK' /\ clockFrom' \in 0 .. MaxTime /\ ClockInv'
    <3> DEFINE from == IF clockFrom = Never THEN now ELSE clockFrom
    <3>1. from \in 0 .. MaxTime
      BY <1>t, TimeAssumption DEF ControlTypeOK, HistoryTypeOK, Never
    <3>2. clockFrom' = from /\ deadline' = ClockStarted
      BY <1>11 DEF HostFunction, ClockStarts
    <3> HIDE DEF from
    <3>3. /\ ClockStarted \in 0 .. Max
          /\ IF timeout < PENDING THEN from <= now /\ budget = timeout /\ ClockStarted = DeadlineFrom(from)
                                  ELSE ClockStarted = NO_DEADLINE
      BY <2>1, <3>1, StartedClock DEF from
    <3> QED
      BY <1>11, <1>t, <3>1, <3>2, <3>3 DEF HostFunction, ControlTypeOK, ClockInv, DeadlineFrom
  <2>3. HistoryTypeOK' /\ RequestInv'
    BY <1>11, <1>t, <2>1, <2>2 DEF HostFunction, HistoryTypeOK, RequestInv
  <2>4. StopsOnlyWhenDue' /\ BudgetEnforced' /\ InterruptedWasAsked'
    BY <1>11, <1>t DEF HostFunction, StopsOnlyWhenDue, BudgetEnforced, InterruptedWasAsked, engineVars
  <2> QED
    BY <2>1, <2>2, <2>3, <2>4 DEF Inv
<1>12. CASE EnqueueJob \/ StartJob \/ JobEnds
  <2>1. Active /\ EngineTypeOK'
    <3>1. CASE EnqueueJob
      BY <1>t, <1>c, <3>1 DEF EnqueueJob, Running, InJob, Active, EngineTypeOK
    <3>2. CASE StartJob
      BY <1>t, <1>c, <3>2 DEF StartJob, Active, EngineTypeOK
    <3>3. CASE JobEnds
      BY <1>t, <3>3 DEF JobEnds, LeaveJob, InJob, Active, EngineTypeOK
    <3> QED
      BY <1>12, <3>1, <3>2, <3>3
  <2> QED
    BY <1>12, <1>t, <2>1, QuietStep
       DEF EnqueueJob, StartJob, JobEnds, LeaveJob, historyVars, HistoryTypeOK
<1>13. CASE EntryEnds \/ AwaitEnds
  <2>1. ShouldStop \in BOOLEAN
    BY <1>t DEF ShouldStop, ControlTypeOK
  <2>2. Active /\ Active' /\ skipped' \in BOOLEAN /\ (pc' \in {"entering", "between"} => left' > 0)
    BY <1>13, <2>1, AfterEntryType DEF EntryEnds, AwaitEnds
  <2>3. EngineTypeOK'
    BY <1>13, <1>t, <2>2 DEF EntryEnds, AwaitEnds, EngineTypeOK
  <2> QED
    BY <1>13, <2>2, <2>3, QuietStep DEF EntryEnds, AwaitEnds
<1>14. CASE EntryAwaits
  <2>1. Active /\ EngineTypeOK'
    BY <1>14, <1>t DEF EntryAwaits, Active, EngineTypeOK
  <2> QED
    BY <1>14, <1>t, <2>1, QuietStep DEF EntryAwaits, historyVars, HistoryTypeOK
<1>15. CASE Settle
  <2> PICK error \in {failed, TRUE} :
         \/ /\ pc' = "between" /\ phases > 1 /\ phases' = phases - 1 /\ left' = 1
            /\ failed' = FALSE /\ UNCHANGED result
         \/ /\ pc' = "idle" /\ phases' = 0 /\ left' = 0
            /\ result' = Outcome(error) /\ UNCHANGED failed
    BY <1>15 DEF Settle
  <2>1. Outcome(error) \in {"ok", "error", "interrupted"} /\ (Outcome(error) = "interrupted" => interruptRequested)
    BY DEF Outcome
  <2>2. EngineTypeOK'
    <3>1. phases' \in 0 .. 3 /\ left' \in 0 .. MaxEntries /\ (pc' = "between" => left' > 0)
      BY <1>t, <1>c DEF EngineTypeOK
    <3>2. failed' \in BOOLEAN /\ result' \in {"running", "ok", "error", "interrupted"}
      BY <1>t, <2>1 DEF EngineTypeOK
    <3> QED
      BY <1>15, <1>t, <3>1, <3>2 DEF Settle, EngineTypeOK
  <2>3. ControlTypeOK' /\ HistoryTypeOK'
    BY <1>15, <1>t, TimeAssumption
       DEF Settle, ControlTypeOK, HistoryTypeOK, historyVars, NO_DEADLINE
  <2>4. ~ Active'
    BY DEF Active
  <2>5. InterruptedWasAsked'
    <3>1. Active
      BY <1>15 DEF Settle, Active
    <3> QED
      BY <1>15, <1>t, <2>1, <3>1 DEF Settle, InterruptedWasAsked, RequestInv, historyVars
  <2>6. StopsOnlyWhenDue' /\ BudgetEnforced'
    BY <1>15, <1>t DEF Settle, StopsOnlyWhenDue, BudgetEnforced, historyVars
  <2> QED
    BY <2>2, <2>3, <2>4, <2>5, <2>6 DEF Inv, ClockInv, RequestInv
<1>16. CASE UNCHANGED vars
  <2>1. UNCHANGED controlVars /\ UNCHANGED engineVars /\ UNCHANGED historyVars
    BY <1>16 DEF vars
  <2>2. ControlTypeOK' /\ EngineTypeOK' /\ HistoryTypeOK'
    BY <1>t, <2>1 DEF ControlTypeOK, EngineTypeOK, HistoryTypeOK, Active, controlVars, engineVars, historyVars
  <2>3. ClockInv' /\ RequestInv'
    BY <1>t, <2>1 DEF ClockInv, RequestInv, Active, controlVars, engineVars, historyVars, DeadlineFrom
  <2>4. StopsOnlyWhenDue' /\ BudgetEnforced' /\ InterruptedWasAsked'
    BY <1>t, <2>1 DEF StopsOnlyWhenDue, BudgetEnforced, InterruptedWasAsked, engineVars, historyVars
  <2> QED
    BY <2>2, <2>3, <2>4 DEF Inv
<1> QED
  BY <1>1, <1>2, <1>3, <1>4, <1>5, <1>6, <1>7, <1>8, <1>9, <1>10, <1>11, <1>12, <1>13, <1>14,
     <1>15, <1>16 DEF Next, Check

\* The variables always hold values of their types; the u64 sums do not overflow.
THEOREM TypeCorrect == Spec => []TypeOK
<1>1. Inv => TypeOK
  BY DEF Inv, ControlTypeOK, EngineTypeOK, HistoryTypeOK, TypeOK, Active
<1> QED
  BY <1>1, InitInv, StepInv, PTL DEF Spec

\* JavaScript is stopped only once its own budget is used up, or when an interrupt
\* was asked for during the same operation.
THEOREM StopsOnlyWhenDueHolds == Spec => []StopsOnlyWhenDue
<1>1. Inv => StopsOnlyWhenDue
  BY DEF Inv
<1> QED
  BY <1>1, InitInv, StepInv, PTL DEF Spec

\* No check lets JavaScript go on past its budget, whatever the timeout.
THEOREM BudgetEnforcedHolds == Spec => []BudgetEnforced
<1>1. Inv => BudgetEnforced
  BY DEF Inv
<1> QED
  BY <1>1, InitInv, StepInv, PTL DEF Spec

\* An operation reports an interrupt only if one was asked for while it ran.
THEOREM InterruptedWasAskedHolds == Spec => []InterruptedWasAsked
<1>1. Inv => InterruptedWasAsked
  BY DEF Inv
<1> QED
  BY <1>1, InitInv, StepInv, PTL DEF Spec
\* Outside loads, a request made during the operation is kept until it ends: only `enter`
\* forgets one, and only a load has phases that begin later.
AskedInv == /\ pc = "between" => op = "load"
            /\ op # "load" => phases \in {0, 1}
            /\ op # "load" /\ Active /\ asked => interruptRequested
            /\ NextCheckStops

LEMMA AskedStep == AskedInv /\ [Next]_vars => AskedInv'
<1> SUFFICES ASSUME AskedInv, [Next]_vars PROVE AskedInv'
  OBVIOUS
<1> USE DEF AskedInv, NextCheckStops, Active
<1>1. CASE Tick \/ Interrupt
  BY <1>1 DEF Tick, Interrupt, engineVars, historyVars
<1>2. ASSUME NEW kind \in Operations, StartOperation(kind) PROVE AskedInv'
  BY <1>2 DEF StartOperation, NoCheck, PhaseCounts
<1>3. CASE BeginPhase
  BY <1>3 DEF BeginPhase
<1>4. CASE EnterJs \/ EnqueueJob \/ StartJob \/ EntryAwaits
  BY <1>4 DEF EnterJs, EnqueueJob, StartJob, EntryAwaits, Running, InJob, controlVars, historyVars
<1>5. ASSUME Active, StopNow \/ op = "load" \/ ~interruptRequested,
             NEW ended \in {"passed", "stopped"}, ended = "stopped" <=> StopNow,
             Checked(ended), pc' # "idle", pc' # "between", UNCHANGED <<op, phases, asked>>
      PROVE  AskedInv'
  BY <1>5 DEF Checked
<1>6. CASE PumpEntersScript \/ PumpStops
  BY <1>5, <1>6 DEF PumpEntersScript, PumpStops, StopNow
<1>7. CASE Check
  BY <1>5, <1>7 DEF Check, CheckPasses, CheckStopsEntry, CheckStopsJob, Running, InJob, AfterEntry,
                    LeaveJob, StopNow, engineVars
<1>8. CASE HostFunction
  BY <1>8 DEF HostFunction, engineVars
<1>9. CASE JobEnds
  BY <1>9 DEF JobEnds, LeaveJob, InJob, controlVars, historyVars
<1>10. CASE EntryEnds \/ AwaitEnds
  <2>1. pc' = "entering" \/ pc' = "settling"
    BY <1>10 DEF EntryEnds, AwaitEnds, AfterEntry
  <2>2. /\ pc = "js" \/ pc = "awaiting"
        /\ UNCHANGED <<interruptRequested, op, phases, asked, check>>
    BY <1>10 DEF EntryEnds, AwaitEnds, controlVars
  <2> QED
    BY <2>1, <2>2
<1>11. CASE Settle
  BY <1>11 DEF Settle, historyVars
<1>12. CASE UNCHANGED vars
  BY <1>12 DEF vars, controlVars, engineVars, historyVars
<1> QED
  BY <1>1, <1>2, <1>3, <1>4, <1>6, <1>7, <1>8, <1>9, <1>10, <1>11, <1>12 DEF Next

\* A check of QuickJS, or of Engine::pump, stops JavaScript exactly when it is due, or an
\* interrupt was asked for since the operation began (a load aside, whose phases forget).
THEOREM StopsExactlyHolds == Spec => []StopsExactly
<1>1. Init => AskedInv
  BY DEF Init, AskedInv, NextCheckStops, NoCheck
<1>2. Inv /\ AskedInv => StopsExactly
  BY DEF Inv, AskedInv, StopsExactly
<1> QED
  BY <1>1, <1>2, InitInv, StepInv, AskedStep, PTL DEF Spec
-----------------------------------------------------------------------------
\* While a phase runs: what stopped an entry has failed the phase, with its request kept;
\* a check stopped JavaScript for a reason that lasts until the phase ends; entries were
\* left out only because of a request or of such a check; a load leaves none out.
SeenInv == /\ Active => /\ saw # {} => failed
                        /\ "interrupt" \in saw => interruptRequested
                        /\ stopped => interruptRequested \/ Expired(deadline)
                        /\ skipped => stopped \/ interruptRequested
           /\ pc = "between" => saw = {}
           /\ pc = "between" \/ Active => (op = "load" => ~ skipped /\ left < 2)
           /\ pc \in {"js", "awaiting", "awaitingJob"} => (op = "load" => left = 0)
           /\ SeenStopIsReported

\* A check starts the clock, and stops JavaScript for a reason that lasts.
LEMMA StopLasts ==
  ASSUME NEW ended \in {"passed", "stopped"}, Checked(ended), ended = "stopped" => StopNow,
         stopped => interruptRequested \/ Expired(deadline)
  PROVE  /\ stopped' => interruptRequested' \/ Expired(deadline)'
         /\ ended = "stopped" => stopped'
         /\ stopped => stopped'
         /\ interruptRequested' = interruptRequested
BY DEF Checked, StopNow, Expired, ClockStarted, PENDING, NO_DEADLINE

LEMMA SeenStep == Inv /\ AskedInv /\ SeenInv /\ [Next]_vars => SeenInv'
<1> SUFFICES ASSUME Inv, AskedInv, SeenInv, [Next]_vars PROVE SeenInv'
  OBVIOUS
<1>t. /\ left \in Nat /\ now \in Nat /\ deadline \in Nat
      /\ saw \subseteq {"interrupt", "budget"} /\ RequestInv
  BY EntriesAssumption, TimeAssumption DEF Inv, ControlTypeOK, EngineTypeOK, HistoryTypeOK
<1>1. CASE Tick
  <2>1. Expired(deadline) => Expired(deadline)'
    BY <1>1, <1>t DEF Tick, Expired
  <2> QED
    BY <1>1, <2>1 DEF Tick, SeenInv, SeenStopIsReported, Active, engineVars, historyVars
<1>2. CASE Interrupt
  <2>1. asked => asked'
    BY <1>2 DEF Interrupt
  <2> QED
    BY <1>2, <2>1 DEF Interrupt, SeenInv, SeenStopIsReported, Active, engineVars, Expired
<1>3. ASSUME NEW kind \in Operations, StartOperation(kind) PROVE SeenInv'
  <2>1. kind = "load" => left' = 1
    BY <1>3 DEF StartOperation, EntryCounts
  <2>2. kind # "load" => stopped' = FALSE
    BY <1>3 DEF StartOperation, Enter
  <2>3. IF kind = "load" THEN pc' = "between" ELSE pc' = "entering"
    BY <1>3 DEF StartOperation
  <2>4. op' = kind /\ saw' = {} /\ skipped' = FALSE
    BY <1>3 DEF StartOperation
  <2> QED
    BY <2>1, <2>2, <2>3, <2>4 DEF SeenInv, SeenStopIsReported, Active
<1>4. CASE BeginPhase
  BY <1>4 DEF BeginPhase, Enter, AskedInv, SeenInv, SeenStopIsReported, Active
<1>5. CASE EnterJs
  <2>1. op = "load" => left' = 0
    BY <1>5, <1>t DEF EnterJs, SeenInv, Active, Inv, EngineTypeOK
  <2> QED
    BY <1>5, <1>t, <2>1 DEF EnterJs, SeenInv, SeenStopIsReported, Active, Expired, controlVars, historyVars
<1>6. CASE PumpEntersScript
  <2>1. /\ stopped' => interruptRequested' \/ Expired(deadline)'
        /\ stopped => stopped'
        /\ interruptRequested' = interruptRequested
    BY <1>6, StopLasts DEF PumpEntersScript, SeenInv, Active
  <2>2. op' # "load" /\ pc' = "js" /\ Active /\ UNCHANGED <<failed, saw, skipped>>
    BY <1>6 DEF PumpEntersScript, Active
  <2> QED
    BY <2>1, <2>2 DEF SeenInv, SeenStopIsReported
<1>7. CASE PumpStops
  <2>1. /\ stopped' => interruptRequested' \/ Expired(deadline)'
        /\ stopped'
        /\ interruptRequested' = interruptRequested
    BY <1>7, StopLasts DEF PumpStops, SeenInv, Active
  <2>2. op' # "load" /\ pc' = "settling" /\ Active /\ UNCHANGED <<failed, saw>>
    BY <1>7 DEF PumpStops, Active
  <2> QED
    BY <2>1, <2>2 DEF SeenInv, SeenStopIsReported
<1>8. CASE CheckPasses
  <2>1. /\ stopped' => interruptRequested' \/ Expired(deadline)'
        /\ stopped => stopped'
        /\ interruptRequested' = interruptRequested
    BY <1>8, StopLasts DEF CheckPasses, SeenInv, Active, Running, InJob
  <2>2. Active /\ Active' /\ UNCHANGED <<op, pc, left, failed, saw, skipped>>
    BY <1>8 DEF CheckPasses, Active, Running, InJob, engineVars
  <2> QED
    BY <2>1, <2>2 DEF SeenInv, SeenStopIsReported, Active
<1>9. CASE CheckStopsEntry
  <2>1. /\ stopped' => interruptRequested' \/ Expired(deadline)'
        /\ stopped'
        /\ interruptRequested' = interruptRequested
    BY <1>9, StopLasts DEF CheckStopsEntry, SeenInv, Active
  <2>2. /\ pc = "js" /\ failed' = TRUE /\ UNCHANGED <<op, left>>
        /\ pc' \in {"entering", "settling"}
    BY <1>9 DEF CheckStopsEntry, AfterEntry
  <2>3. "interrupt" \in saw' => interruptRequested
    BY <1>9 DEF CheckStopsEntry, SeenInv, Active
  <2>4. op = "load" => ~ skipped'
    <3>1. op = "load" => ~(left > 0)
      BY <1>t, <2>2 DEF SeenInv
    <3> QED
      BY <1>9, <3>1 DEF CheckStopsEntry, AfterEntry
  <2>5. op = "load" => left < 2
    BY <2>2 DEF SeenInv, Active
  <2> QED
    BY <2>1, <2>2, <2>3, <2>4, <2>5 DEF SeenInv, SeenStopIsReported, Active
<1>10. CASE CheckStopsJob
  <2>1. /\ stopped' => interruptRequested' \/ Expired(deadline)'
        /\ stopped'
        /\ interruptRequested' = interruptRequested
    BY <1>10, StopLasts DEF CheckStopsJob, SeenInv, Active, InJob
  <2>2. /\ Active /\ (failed => failed') /\ UNCHANGED <<op, left, saw, skipped>>
        /\ \/ pc = "awaitingJob" /\ pc' = "awaiting"
           \/ pc = "settlingJob" /\ pc' = "settling"
    BY <1>10 DEF CheckStopsJob, LeaveJob, InJob, Active
  <2> QED
    BY <2>1, <2>2 DEF SeenInv, SeenStopIsReported, Active
<1>11. CASE HostFunction
  <2>1. Active /\ Active' /\ UNCHANGED <<interruptRequested, stopped, op, pc, left, failed, saw, skipped>>
    BY <1>11 DEF HostFunction, Active, Running, InJob, engineVars
  <2>2. ~ Expired(deadline)
    BY <1>11 DEF HostFunction, Expired
  <2> QED
    BY <2>1, <2>2 DEF SeenInv, SeenStopIsReported, Active
<1>12. CASE EnqueueJob \/ StartJob \/ JobEnds
  <2>1. /\ Active /\ Active' /\ UNCHANGED <<controlVars, historyVars, op, left>> /\ (failed => failed')
        /\ pc' = "js" => pc = "js"
        /\ pc' \in {"awaiting", "awaitingJob"} => pc \in {"awaiting", "awaitingJob"}
    BY <1>12 DEF EnqueueJob, StartJob, JobEnds, LeaveJob, Running, InJob, Active
  <2> QED
    BY <2>1 DEF SeenInv, SeenStopIsReported, Active, Expired, controlVars, historyVars
<1>13. CASE EntryEnds \/ AwaitEnds
  <2>1. Active /\ pc \in {"js", "awaiting"} /\ UNCHANGED <<controlVars, op, left, saw>>
    BY <1>13 DEF EntryEnds, AwaitEnds, Active
  <2>2. failed => failed'
    BY <1>13, Zenon DEF EntryEnds, AwaitEnds
  <2>3. AfterEntry(ShouldStop)
    BY <1>13 DEF EntryEnds, AwaitEnds
  <2>4. pc' \in {"entering", "settling"}
    BY <2>3 DEF AfterEntry
  <2>5. skipped' => stopped \/ interruptRequested
    <3>1. CASE left > 0 /\ (op = "pump" \/ ~ShouldStop)
      BY <2>1, <2>3, <3>1 DEF AfterEntry, SeenInv
    <3>2. CASE ~(left > 0 /\ (op = "pump" \/ ~ShouldStop))
      BY <2>1, <2>3, <3>2 DEF AfterEntry, ShouldStop
    <3> QED
      BY <3>1, <3>2
  <2>6. op = "load" => ~ skipped' /\ left < 2
    <3>1. op = "load" => ~(left > 0) /\ left < 2
      BY <1>t, <2>1 DEF SeenInv
    <3> QED
      BY <2>3, <3>1 DEF AfterEntry
  <2> QED
    BY <2>1, <2>2, <2>4, <2>5, <2>6 DEF SeenInv, SeenStopIsReported, Active, Expired, controlVars
<1>14. CASE EntryAwaits
  BY <1>14 DEF EntryAwaits, SeenInv, SeenStopIsReported, Active, Expired, controlVars, historyVars
<1>15. CASE Settle
  <2>1. Active /\ UNCHANGED <<now, interruptRequested, stopped, op, historyVars>>
    BY <1>15 DEF Settle, Active
  <2>2. PICK error \in {failed, TRUE} :
          \/ /\ Outcome(error) = "ok" /\ phases > 1 /\ pc' = "between" /\ left' = 1
          \/ /\ pc' = "idle" /\ result' = Outcome(error)
    BY <1>15 DEF Settle
  <2>3. Outcome(error) = "ok" => ~ failed /\ ~ Expired(deadline)
    BY DEF Outcome
  <2>4. failed /\ interruptRequested => Outcome(error) = "interrupted"
    BY DEF Outcome
  <2>5. CASE pc' = "between"
    <3>1. saw' = {} /\ (op' = "load" => ~ skipped') /\ left' = 1
      BY <2>1, <2>2, <2>3, <2>5 DEF SeenInv, historyVars
    <3> QED
      BY <2>5, <3>1 DEF SeenInv, SeenStopIsReported, Active
  <2>6. CASE pc' = "idle"
    <3>1. result' = Outcome(error)
      BY <2>2, <2>6
    <3>2. "budget" \in saw' => result' # "ok"
      BY <2>1, <2>3, <3>1 DEF SeenInv, historyVars
    <3>3. "interrupt" \in saw' => result' = "interrupted"
      BY <2>1, <2>4, <3>1 DEF SeenInv, historyVars
    <3>4. skipped' /\ result' = "ok" => asked' /\ op' # "load"
      BY <1>t, <2>1, <2>3, <3>1 DEF SeenInv, RequestInv, historyVars
    <3> QED
      BY <2>6, <3>2, <3>3, <3>4 DEF SeenInv, SeenStopIsReported, Active
  <2> QED
    BY <2>2, <2>5, <2>6
<1>16. CASE UNCHANGED vars
  BY <1>16 DEF vars, controlVars, engineVars, historyVars, SeenInv, SeenStopIsReported, Active, Expired
<1> QED
  BY <1>1, <1>2, <1>3, <1>4, <1>5, <1>6, <1>7, <1>8, <1>9, <1>10, <1>11, <1>12, <1>13, <1>14,
     <1>15, <1>16 DEF Next, Check

\* A stop the operation saw is reported: by the budget as a failure, by an interrupt as
\* interrupted; entries left out without an error were left out on request, in no load.
THEOREM SeenStopIsReportedHolds == Spec => []SeenStopIsReported
<1>1. Init => SeenInv
  BY DEF Init, SeenInv, SeenStopIsReported, Active
<1>2. SeenInv => SeenStopIsReported
  BY DEF SeenInv
<1>3. Init => AskedInv
  BY DEF Init, AskedInv, NextCheckStops, NoCheck
<1> QED
  BY <1>1, <1>2, <1>3, InitInv, StepInv, AskedStep, SeenStep, PTL DEF Spec

-----------------------------------------------------------------------------
(* The inductive invariant of Timers.                                      *)

\* What runs is a script's; between scripts nothing is left to fire.
RunInv == /\ InRun => at \in Scripts
          /\ ~InRun => places = <<>>
          /\ stage = "idle" => at = 1

IsFirst(p) == First(live[at][p], p)

\* What runTimers has still to fire is due, and in order.  Where a list has a timer twice,
\* that holds where it comes first, and a timeout has a place before that one.
PendingInv ==
  InRun =>
    /\ \A n \in DOMAIN places :
         /\ places[n] \in DOMAIN live[at]
         /\ ~Entry(places[n]).cancelled =>
              IF IsFirst(places[n])
              THEN Entry(places[n]).due <= clock
              ELSE \/ Entry(places[n]).interval # Once
                   \/ \E m \in DOMAIN places : m < n /\ live[at][places[m]] = live[at][places[n]]
    /\ \A m, n \in DOMAIN places : m < n =>
         /\ live[at][places[m]] = live[at][places[n]] => places[m] < places[n]
         /\ IsFirst(places[m]) /\ IsFirst(places[n])
            /\ ~Entry(places[m]).cancelled /\ ~Entry(places[n]).cancelled
              => Before(places[m], places[n])

EarlyAt(s) ==
  /\ earliest <= next[s]
  /\ \/ s \in unheard
     \/ next[s] <= known[s] /\ \A due \in DueTimes(timers[s], live[s]) : known[s] <= due

Exact(s) == known[s] = next[s] /\ next[s] = Least(DueTimes(timers[s], live[s]))

Settled(s) == s \in unheard \cup outdated \/ Doubled(s) \/ Exact(s)

\* A script with an old time is entered by the next call.
LooseAt(s) == Settled(s) \/ next[s] <= clock

SettledInv ==
  ~stop => \A s \in Scripts : stage = "idle" \/ s < at => Settled(s)

TimersInv == /\ TimersTypeOK /\ RunInv /\ PendingInv
             /\ \A s \in Scripts : EarlyAt(s) /\ LooseAt(s)
             /\ SettledInv

-----------------------------------------------------------------------------
(* Times and timers.                                                       *)

\* A set of natural numbers has a least one.
LEMMA LeastNumber ==
  ASSUME NEW T \in SUBSET Nat, T # {}
  PROVE  \E m \in T : \A i \in T : m <= i
<1> DEFINE R == {p \in Nat \X Nat : p[1] < p[2]}
<1>1. IsWellFoundedOn(R, Nat)
  BY NatLessThanWellFounded DEF OpToRel
<1>2. PICK m \in T : \A i \in T : <<i, m>> \notin R
  BY <1>1, WFMin
<1>3. \A i \in T : i < m => <<i, m>> \in R
  OBVIOUS
<1>4. \A i \in T : ~(i < m)
  BY <1>2, <1>3
<1> QED
  BY <1>4

LEMMA TimesAreNat == /\ Times \subseteq Nat /\ Infinity \in Nat /\ 0 .. Infinity \subseteq Nat
                     /\ Times \subseteq 0 .. Infinity /\ Infinity \in 0 .. Infinity
                     /\ \A t \in 0 .. Infinity : t <= Infinity
BY DEF Times, Infinity

\* What `reschedule` looks for is there, and none is before it.
LEMMA LeastIs ==
  ASSUME NEW T \in SUBSET (0 .. Infinity)
  PROVE  /\ Least(T) \in 0 .. Infinity
         /\ \A t \in T : Least(T) <= t
         /\ T # {} => Least(T) \in T
<1>1. CASE T = {}
  BY <1>1, TimesAreNat DEF Least
<1>2. CASE T # {}
  <2>1. T \in SUBSET Nat
    BY TimesAreNat
  <2>2. \E m \in T : \A i \in T : m <= i
    BY <1>2, <2>1, LeastNumber
  <2>3. Least(T) = CHOOSE m \in T : \A i \in T : m <= i
    BY <1>2 DEF Least
  <2>4. Least(T) \in T /\ \A i \in T : Least(T) <= i
    BY <2>2, <2>3
  <2> QED
    BY <2>4
<1> QED
  BY <1>1, <1>2

LEMMA LeastIsUnique ==
  ASSUME NEW T \in SUBSET (0 .. Infinity), NEW m \in T, \A t \in T : m <= t
  PROVE  Least(T) = m
<1>1. Least(T) \in T /\ Least(T) <= m /\ m <= Least(T)
  BY LeastIs
<1>2. m \in Nat /\ Least(T) \in Nat
  BY <1>1, TimesAreNat
<1> QED
  BY <1>1, <1>2

\* One more time.
LEMMA LeastWith ==
  ASSUME NEW T \in SUBSET Times, NEW due \in Times
  PROVE  Least(T \cup {due}) = IF due < Least(T) THEN due ELSE Least(T)
<1> DEFINE m == IF due < Least(T) THEN due ELSE Least(T)
<1>0. T \in SUBSET (0 .. Infinity) /\ T \cup {due} \in SUBSET (0 .. Infinity)
  BY TimesAreNat
<1>1. due \in Nat /\ Least(T) \in Nat /\ \A t \in T : t \in Nat
  BY <1>0, LeastIs, TimesAreNat
<1>2. due < Infinity /\ (T = {} => Least(T) = Infinity)
  BY DEF Least, Times, Infinity
<1>3. m \in T \cup {due}
  BY <1>0, <1>1, <1>2, LeastIs
<1>4. \A t \in T \cup {due} : m <= t
  BY <1>0, <1>1, LeastIs
<1> HIDE DEF m
<1>5. Least(T \cup {due}) = m
  BY <1>0, <1>3, <1>4, LeastIsUnique
<1> QED
  BY <1>5 DEF m

\* Timers, and a list of their ids.
Listed(ts, list) == /\ ts \in Seq(Timer) /\ list \in Seq(Nat)
                    /\ \A p \in DOMAIN list : list[p] \in DOMAIN ts

LEMMA TimerTypes ==
  ASSUME NEW t \in Timer
  PROVE  /\ t.due \in Times /\ t.due \in Nat /\ t.due \in 0 .. Infinity
         /\ t.cancelled \in BOOLEAN /\ t.byId \in BOOLEAN
         /\ t.interval \in Nat \cup {Once} /\ (t.interval # Once => t.interval \in Nat)
<1>1. t.due \in Times /\ t.cancelled \in BOOLEAN /\ t.byId \in BOOLEAN
      /\ t.interval \in Delays \cup {Once}
  BY DEF Timer
<1> QED
  BY <1>1, TimesAreNat, TimersAssumption

LEMMA ListedFacts ==
  ASSUME NEW ts, NEW list, Listed(ts, list)
  PROVE  /\ Len(ts) \in Nat /\ DOMAIN ts = 1 .. Len(ts)
         /\ Len(list) \in Nat /\ DOMAIN list = 1 .. Len(list)
         /\ \A id \in DOMAIN ts : id \in Nat /\ ts[id] \in Timer
         /\ \A p \in DOMAIN list : list[p] \in DOMAIN ts /\ list[p] \in Nat
         /\ \A id \in Alive(ts, list) : id \in DOMAIN ts /\ ~ts[id].cancelled
         /\ DueTimes(ts, list) \in SUBSET Times /\ DueTimes(ts, list) \in SUBSET (0 .. Infinity)
         /\ Least(DueTimes(ts, list)) \in 0 .. Infinity
<1>1. /\ Len(ts) \in Nat /\ DOMAIN ts = 1 .. Len(ts)
      /\ Len(list) \in Nat /\ DOMAIN list = 1 .. Len(list)
  BY LenProperties DEF Listed
<1>2. \A id \in DOMAIN ts : id \in Nat /\ ts[id] \in Timer
  BY <1>1, ElementOfSeq DEF Listed
<1>3. \A p \in DOMAIN list : list[p] \in DOMAIN ts /\ list[p] \in Nat
  BY <1>1, ElementOfSeq DEF Listed
<1>4. \A id \in Alive(ts, list) : id \in DOMAIN ts /\ ~ts[id].cancelled
  BY <1>3 DEF Alive
<1>5. DueTimes(ts, list) \in SUBSET Times
  BY <1>2, <1>4, TimerTypes DEF DueTimes
<1>6. DueTimes(ts, list) \in SUBSET (0 .. Infinity)
  BY <1>5, TimesAreNat
<1> QED
  BY <1>1, <1>2, <1>3, <1>4, <1>5, <1>6, LeastIs

\* ts and list become with and longer when the timer t is created.
Longer(ts, list, t, with, longer) ==
  /\ Listed(with, longer) /\ Len(with) = Len(ts) + 1
  /\ Len(ts) + 1 \notin DOMAIN ts /\ with[Len(ts) + 1] = t
  /\ \A id \in DOMAIN ts : id \in DOMAIN with /\ with[id] = ts[id]
  /\ longer[Len(list) + 1] = Len(ts) + 1
  /\ DOMAIN longer = DOMAIN list \cup {Len(list) + 1}
  /\ \A p \in DOMAIN list : p \in DOMAIN longer /\ longer[p] = list[p]
  /\ Alive(with, longer) = Alive(ts, list) \cup {Len(ts) + 1}
  /\ DueTimes(with, longer) = DueTimes(ts, list) \cup {t.due}

LEMMA AddedTimer ==
  ASSUME NEW ts, NEW list, Listed(ts, list), NEW t \in Timer, ~t.cancelled,
         NEW with, with = Append(ts, t), NEW longer, longer = Append(list, Len(ts) + 1)
  PROVE  Longer(ts, list, t, with, longer)
<1> DEFINE new == Len(ts) + 1
           last == Len(list) + 1
<1>1. /\ Len(ts) \in Nat /\ DOMAIN ts = 1 .. Len(ts)
      /\ Len(list) \in Nat /\ DOMAIN list = 1 .. Len(list)
      /\ \A p \in DOMAIN list : list[p] \in DOMAIN ts /\ list[p] \in Nat
      /\ ts \in Seq(Timer) /\ list \in Seq(Nat)
  BY ListedFacts DEF Listed
<1>2. /\ with \in Seq(Timer) /\ Len(with) = new /\ with[new] = t
      /\ \A id \in DOMAIN ts : with[id] = ts[id]
  BY <1>1, AppendProperties
<1>3. /\ longer \in Seq(Nat) /\ Len(longer) = last /\ longer[last] = new
      /\ \A p \in DOMAIN list : longer[p] = list[p]
  BY <1>1, AppendProperties
<1>4. DOMAIN with = DOMAIN ts \cup {new} /\ new \notin DOMAIN ts
  BY <1>1, <1>2, LenProperties
<1>5. DOMAIN longer = DOMAIN list \cup {last} /\ last \notin DOMAIN list
  BY <1>1, <1>3, LenProperties
<1> HIDE DEF new, last
<1>6. Listed(with, longer)
  BY <1>1, <1>2, <1>3, <1>4, <1>5 DEF Listed
<1>7. Alive(with, longer) = Alive(ts, list) \cup {new}
  <2>1. \A p \in DOMAIN list : longer[p] = list[p] /\ with[longer[p]] = ts[list[p]]
    BY <1>1, <1>2, <1>3
  <2>2. longer[last] = new /\ ~with[longer[last]].cancelled
    BY <1>2, <1>3
  <2>3. ASSUME NEW id \in Alive(with, longer) PROVE id \in Alive(ts, list) \cup {new}
    <3>1. PICK p \in DOMAIN longer : id = longer[p] /\ ~with[longer[p]].cancelled
      BY DEF Alive
    <3> QED
      BY <1>5, <2>1, <2>2, <3>1 DEF Alive
  <2>4. ASSUME NEW id \in Alive(ts, list) PROVE id \in Alive(with, longer)
    <3>1. PICK p \in DOMAIN list : id = list[p] /\ ~ts[list[p]].cancelled
      BY DEF Alive
    <3> QED
      BY <1>5, <2>1, <3>1 DEF Alive
  <2>5. new \in Alive(with, longer)
    BY <1>5, <2>2 DEF Alive
  <2> QED
    BY <2>3, <2>4, <2>5
<1>8. \A id \in Alive(ts, list) : with[id] = ts[id]
  BY <1>2, ListedFacts
<1>9. DueTimes(with, longer) = DueTimes(ts, list) \cup {t.due}
  BY <1>2, <1>7, <1>8 DEF DueTimes
<1> QED
  BY <1>2, <1>3, <1>4, <1>5, <1>6, <1>7, <1>9 DEF new, last, Longer

\* One timer changes.
LEMMA ChangedTimer ==
  ASSUME NEW ts, NEW list, Listed(ts, list), NEW id \in DOMAIN ts, NEW t \in Timer
  PROVE  /\ Listed([ts EXCEPT ![id] = t], list)
         /\ Len([ts EXCEPT ![id] = t]) = Len(ts)
<1> DEFINE after == [ts EXCEPT ![id] = t]
<1>1. ts \in Seq(Timer) /\ DOMAIN ts = 1 .. Len(ts)
  BY ListedFacts DEF Listed
<1>2. after \in Seq(Timer) /\ Len(after) = Len(ts)
  BY <1>1, ExceptSeq
<1>3. DOMAIN after = DOMAIN ts
  OBVIOUS
<1> QED
  BY <1>2, <1>3 DEF Listed

LEMMA GoneIsTimer == Gone \in Timer /\ Gone.cancelled
BY DEF Gone, Timer, Times, Infinity

\* A timer is cleared or has finished, perhaps but in part.
LEMMA MarkedTimer ==
  ASSUME NEW ts, NEW list, Listed(ts, list), NEW id \in DOMAIN ts,
         NEW without, without = Marked(ts, id) \/ without = Retired(ts, id)
  PROVE  /\ Listed(without, list) /\ Len(without) = Len(ts) /\ DOMAIN without = DOMAIN ts
         /\ without[id].cancelled
         /\ \A i \in DOMAIN ts \ {id} : without[i] = ts[i]
         /\ Alive(without, list) = Alive(ts, list) \ {id}
         /\ id \notin Alive(ts, list) => DueTimes(without, list) = DueTimes(ts, list)
         /\ DueTimes(without, list) \subseteq DueTimes(ts, list)
         /\ id \in Alive(ts, list) =>
              DueTimes(ts, list) = DueTimes(without, list) \cup {ts[id].due}
<1>1. PICK t \in Timer : t.cancelled /\ without = [ts EXCEPT ![id] = t]
  <2>1. CASE without = Retired(ts, id)
    BY <2>1, GoneIsTimer DEF Retired
  <2>2. CASE without = Marked(ts, id)
    <3> DEFINE m == [ts[id] EXCEPT !.cancelled = TRUE]
    <3>1. m \in Timer /\ m.cancelled
      <4>1. ts[id] \in Timer
        BY ListedFacts
      <4> QED
        BY <4>1 DEF Timer
    <3>2. without = [ts EXCEPT ![id] = m]
      BY <2>2 DEF Marked
    <3> QED
      BY <3>1, <3>2
  <2> QED
    BY <2>1, <2>2
<1>2. /\ Listed(without, list) /\ Len(without) = Len(ts) /\ DOMAIN without = DOMAIN ts
      /\ without[id] = t /\ \A i \in DOMAIN ts \ {id} : without[i] = ts[i]
  BY <1>1, ChangedTimer
<1>3. Alive(without, list) = Alive(ts, list) \ {id}
  <2>1. \A p \in DOMAIN list : list[p] \in DOMAIN ts
    BY ListedFacts
  <2> QED
    BY <1>1, <1>2, <2>1 DEF Alive
<1>4. \A i \in Alive(without, list) : without[i] = ts[i]
  BY <1>2, <1>3, ListedFacts
<1>5. DueTimes(without, list) = {ts[i].due : i \in Alive(ts, list) \ {id}}
  BY <1>3, <1>4 DEF DueTimes
<1>6. DueTimes(ts, list) = {ts[i].due : i \in Alive(ts, list)}
  BY DEF DueTimes
<1>7. id \notin Alive(ts, list) => DueTimes(without, list) = DueTimes(ts, list)
  BY <1>5, <1>6
<1>8. DueTimes(without, list) \subseteq DueTimes(ts, list)
  BY <1>5, <1>6
<1>9. id \in Alive(ts, list) =>
        DueTimes(ts, list) = DueTimes(without, list) \cup {ts[id].due}
  BY <1>5, <1>6
<1> QED
  BY <1>1, <1>2, <1>3, <1>7, <1>8, <1>9

\* An interval timer is set again.
LEMMA LaterTimer ==
  ASSUME NEW ts, NEW list, Listed(ts, list), NEW id \in DOMAIN ts,
         ts[id].interval # Once, ts[id].due + ts[id].interval < Infinity,
         NEW after, after = [ts EXCEPT ![id] = Later(ts[id])]
  PROVE  /\ Listed(after, list) /\ Len(after) = Len(ts) /\ DOMAIN after = DOMAIN ts
         /\ after[id].due >= ts[id].due
         /\ after[id].due = ts[id].due + ts[id].interval
         /\ after[id].interval = ts[id].interval
         /\ after[id].cancelled = ts[id].cancelled
         /\ \A i \in DOMAIN ts \ {id} : after[i] = ts[i]
         /\ Alive(after, list) = Alive(ts, list)
<1> DEFINE t == ts[id]
<1>1. t \in Timer
  BY ListedFacts
<1>2. t.due \in Nat /\ t.interval \in Nat
  BY <1>1, TimerTypes
<1> DEFINE u == Later(t)
<1>3. u \in Timer /\ u.due = t.due + t.interval /\ u.interval = t.interval
      /\ u.cancelled = t.cancelled
  <2>1. t.due + t.interval \in Times
    BY <1>2, TimesAreNat DEF Times
  <2>2. u = [t EXCEPT !.due = t.due + t.interval]
    BY DEF Later
  <2> HIDE DEF t, u
  <2> QED
    BY <1>1, <2>1, <2>2 DEF Timer
<1> HIDE DEF u
<1>4. /\ Listed(after, list) /\ Len(after) = Len(ts) /\ DOMAIN after = DOMAIN ts
      /\ after[id] = u /\ \A i \in DOMAIN ts \ {id} : after[i] = ts[i]
  <2>1. after = [ts EXCEPT ![id] = u] /\ u \in Timer
    BY <1>3 DEF u
  <2>2. Listed([ts EXCEPT ![id] = u], list) /\ Len([ts EXCEPT ![id] = u]) = Len(ts)
    BY <2>1, ChangedTimer
  <2> QED
    BY <2>1, <2>2
<1>5. \A i \in DOMAIN ts : after[i].cancelled = ts[i].cancelled
  BY <1>3, <1>4
<1>6. Alive(after, list) = Alive(ts, list)
  <2>1. \A p \in DOMAIN list : list[p] \in DOMAIN ts
    BY ListedFacts
  <2> QED
    BY <1>5, <2>1 DEF Alive
<1> QED
  BY <1>2, <1>3, <1>4, <1>6

Orders(R, S) == /\ \A p, q \in S : p = q \/ <<p, q>> \in R \/ <<q, p>> \in R
                /\ \A p \in S : <<p, p>> \notin R
                /\ \A p, q, r \in S : <<p, q>> \in R /\ <<q, r>> \in R => <<p, r>> \in R

InOrder(list, S, R) ==
  /\ Cardinality(S) \in Nat /\ DOMAIN list = 1 .. Cardinality(S)
  /\ \A n \in 1 .. Cardinality(S) : list[n] \in S
  /\ \A p \in S : \E n \in 1 .. Cardinality(S) : list[n] = p
  /\ \A m, n \in 1 .. Cardinality(S) : m < n => <<list[m], list[n]>> \in R

\* A finite set is put in order, each member once.
LEMMA RankedIs ==
  ASSUME NEW S, IsFiniteSet(S), NEW R, Orders(R, S)
  PROVE  InOrder(Ranked(S, R), S, R)
<1> DEFINE Precedes(p, q) == <<p, q>> \in R
           Prior(p) == {q \in S : Precedes(q, p)}
           Rank == [p \in S |-> Cardinality(Prior(p))]
           N == Cardinality(S)
           ids == Ranked(S, R)
<1>0. /\ \A p, q \in S : p = q \/ Precedes(p, q) \/ Precedes(q, p)
      /\ \A p \in S : ~Precedes(p, p)
      /\ \A p, q, r \in S : Precedes(p, q) /\ Precedes(q, r) => Precedes(p, r)
  BY DEF Orders
<1> HIDE DEF Precedes
<1>1. N \in Nat
  BY FS_CardinalityType
<1>2. ASSUME NEW p \in S
      PROVE  IsFiniteSet(Prior(p)) /\ Cardinality(Prior(p)) \in 0 .. N - 1
  <2>1. Prior(p) \subseteq S \ {p}
    BY <1>0
  <2>2. IsFiniteSet(S \ {p}) /\ Cardinality(S \ {p}) = N - 1
    BY FS_RemoveElement
  <2> HIDE DEF Prior
  <2>3. IsFiniteSet(Prior(p)) /\ Cardinality(Prior(p)) <= N - 1 /\ Cardinality(Prior(p)) \in Nat
    BY <2>1, <2>2, FS_Subset, FS_CardinalityType
  <2> QED
    BY <1>1, <2>3
<1>3. ASSUME NEW p \in S, NEW q \in S, Precedes(p, q)
      PROVE  Rank[p] < Rank[q]
  <2>1. Prior(p) \subseteq Prior(q)
    BY <1>0, <1>3
  <2>2. p \in Prior(q) /\ p \notin Prior(p)
    BY <1>0, <1>3
  <2>3. IsFiniteSet(Prior(q)) /\ Cardinality(Prior(p)) \in Nat /\ Cardinality(Prior(q)) \in Nat
    <3>1. \A k \in S : IsFiniteSet(Prior(k)) /\ Cardinality(Prior(k)) \in 0 .. N - 1
      BY <1>2
    <3> HIDE DEF Prior, N
    <3> QED
      BY <1>1, <3>1
  <2>4. Cardinality(Prior(p)) <= Cardinality(Prior(q)) /\ Cardinality(Prior(p)) # Cardinality(Prior(q))
    BY <2>1, <2>2, <2>3, FS_Subset
  <2> QED
    BY <2>3, <2>4
<1>4. Rank \in Injection(S, 0 .. N - 1)
  <2>1. Rank \in [S -> 0 .. N - 1]
    BY <1>2
  <2>2. ASSUME NEW p \in S, NEW q \in S, Rank[p] = Rank[q] PROVE p = q
    <3>1. Rank[p] \in Int /\ Rank[q] \in Int
      BY <2>1
    <3> HIDE DEF Rank
    <3> QED
      BY <1>0, <1>3, <2>2, <3>1
  <2> QED
    BY <2>1, <2>2 DEF Injection, IsInjective
<1>5. Rank \in Surjection(S, 0 .. N - 1)
  <2>1. IsFiniteSet(0 .. N - 1) /\ Cardinality(0 .. N - 1) = N
    BY <1>1, FS_Interval
  <2> HIDE DEF Rank
  <2> QED
    BY <1>4, <2>1, FS_Injection
<1>6. DOMAIN ids = 1 .. N /\ \A n \in 1 .. N : ids[n] = CHOOSE p \in S : Cardinality(Prior(p)) = n - 1
  BY DEF Ranked, Precedes
<1> HIDE DEF ids
<1>7. ASSUME NEW n \in 1 .. N PROVE ids[n] \in S /\ Rank[ids[n]] = n - 1
  <2>1. n - 1 \in 0 .. N - 1
    BY <1>1
  <2>2. \E p \in S : Rank[p] = n - 1
    <3> HIDE DEF Rank
    <3> QED
      BY <1>5, <2>1 DEF Surjection
  <2>3. \E p \in S : Cardinality(Prior(p)) = n - 1
    BY <2>2
  <2> QED
    BY <1>6, <2>3
<1>8. ASSUME NEW p \in S PROVE \E n \in 1 .. N : ids[n] = p
  <2>1. Rank[p] \in 0 .. N - 1
    BY <1>2
  <2>2. Rank[p] + 1 \in 1 .. N /\ (Rank[p] + 1) - 1 = Rank[p]
    BY <1>1, <2>1
  <2> DEFINE n == Rank[p] + 1
  <2>3. ids[n] \in S /\ Rank[ids[n]] = Rank[p]
    BY <1>7, <2>2
  <2>4. ids[n] = p
    <3> HIDE DEF Rank
    <3> QED
      BY <1>4, <2>3 DEF Injection, IsInjective
  <2> QED
    BY <2>2, <2>4
<1>9. ASSUME NEW m \in 1 .. N, NEW n \in 1 .. N, m < n
      PROVE  <<ids[m], ids[n]>> \in R
  <2>1. ids[m] \in S /\ ids[n] \in S /\ Rank[ids[m]] = m - 1 /\ Rank[ids[n]] = n - 1
    BY <1>7
  <2>2. Rank[ids[m]] < Rank[ids[n]] /\ Rank[ids[m]] \in Int /\ Rank[ids[n]] \in Int
    BY <1>1, <1>9, <2>1
  <2>3. ~(Rank[ids[n]] < Rank[ids[m]]) /\ ids[m] # ids[n]
    BY <2>2
  <2> HIDE DEF Rank
  <2>4. Precedes(ids[m], ids[n])
    BY <1>0, <1>3, <2>1, <2>3
  <2> QED
    BY <2>4 DEF Precedes
<1> QED
  BY <1>1, <1>6, <1>7, <1>8, <1>9 DEF ids, InOrder

\* The order in which runTimers fires is that of the due times, then of the creation, then
\* of the places, and of all places due.
LEMMA DueOrder ==
  ASSUME NEW s \in Scripts, s = at, Listed(timers[s], live[s]), clock \in Nat
  PROVE  /\ DueInOrder \in Seq(Nat)
         /\ \A p : p \in DuePlaces <=> \E n \in DOMAIN DueInOrder : DueInOrder[n] = p
         /\ \A m, n \in DOMAIN DueInOrder : m < n => Before(DueInOrder[m], DueInOrder[n])
         /\ DueInOrder = <<>> <=> DuePlaces = {}
<1> DEFINE D == DuePlaces
           R == {r \in D \X D : Before(r[1], r[2])}
           N == Cardinality(D)
           ids == DueInOrder
<1>1. \A p \in D : p \in Nat /\ live[at][p] \in Nat /\ Entry(p).due \in Nat /\ p \in 1 .. Len(live[s])
  <2>1. ASSUME NEW p \in D
        PROVE  p \in 1 .. Len(live[s]) /\ live[s][p] \in DOMAIN timers[s] /\ live[s][p] \in Nat
    BY ListedFacts DEF DuePlaces
  <2>2. ASSUME NEW p \in D PROVE timers[s][live[s][p]].due \in Nat
    BY <2>1, ListedFacts, TimerTypes
  <2> QED
    BY <2>1, <2>2 DEF Entry
<1>2. IsFiniteSet(D)
  <2>1. IsFiniteSet(1 .. Len(live[s])) /\ D \subseteq 1 .. Len(live[s])
    <3>1. Len(live[s]) \in Nat
      BY ListedFacts
    <3>2. IsFiniteSet(1 .. Len(live[s]))
      BY <3>1, FS_Interval
    <3>3. D \subseteq 1 .. Len(live[s])
      BY <1>1
    <3> QED
      BY <3>2, <3>3
  <2> QED
    BY <2>1, FS_Subset
<1> HIDE DEF D
<1>3. \A p, q \in D : <<p, q>> \in R <=> Before(p, q)
  OBVIOUS
<1>4. \A p, q \in D : p = q \/ Before(p, q) \/ Before(q, p)
  BY <1>1 DEF Before
<1>5. \A p \in D : ~Before(p, p)
  BY <1>1 DEF Before
<1>6. \A p, q, r \in D : Before(p, q) /\ Before(q, r) => Before(p, r)
  <2>1. \A p, q \in D : live[at][p] = live[at][q] => Entry(p) = Entry(q)
    BY DEF Entry
  <2> QED
    BY <1>1, <2>1 DEF Before
<1> HIDE DEF R
<1>7. Orders(R, D)
  BY <1>3, <1>4, <1>5, <1>6 DEF Orders
<1>8. ids = Ranked(D, R)
  BY DEF DueInOrder, D, R
<1> HIDE DEF ids
<1>9. /\ N \in Nat /\ DOMAIN ids = 1 .. N /\ \A n \in 1 .. N : ids[n] \in D
      /\ \A p \in D : \E n \in 1 .. N : ids[n] = p
      /\ \A m, n \in 1 .. N : m < n => <<ids[m], ids[n]>> \in R
  BY <1>2, <1>7, <1>8, RankedIs DEF InOrder
<1>10. ids \in Seq(Nat)
  <2> DEFINE Nth(n) == CHOOSE p \in D : Cardinality({q \in D : <<q, p>> \in R}) = n - 1
  <2>1. ids = [n \in 1 .. N |-> Nth(n)]
    BY <1>8 DEF Ranked
  <2> HIDE DEF N, Nth
  <2>2. ids \in [1 .. N -> Nat]
    BY <1>1, <1>9, <2>1
  <2> QED
    BY <1>9, <2>2, SeqDef
<1>11. \A p : p \in D <=> \E n \in DOMAIN ids : ids[n] = p
  BY <1>9
<1>12. \A m, n \in DOMAIN ids : m < n => Before(ids[m], ids[n])
  BY <1>3, <1>9
<1>13. ids = <<>> <=> D = {}
  <2>1. ids = <<>> => D = {}
    BY <1>11
  <2>2. D = {} => ids = <<>>
    <3>1. D = {} => N = 0
      BY FS_EmptySet
    <3> QED
      BY <1>9, <1>10, <3>1, LenProperties, EmptySeq
  <2> QED
    BY <2>1, <2>2
<1> QED
  BY <1>10, <1>11, <1>12, <1>13 DEF ids, D

KeptOrder(n) == Ranked(Kept(n), {r \in Kept(n) \X Kept(n) : r[1] < r[2]})

\* The places a sweep keeps among the first n, and where it moves them.
LEMMA KeptPlaces ==
  ASSUME NEW s \in Scripts, s = at, Listed(timers[s], live[s]),
         NEW n \in Nat, n <= Len(live[s])
  PROVE  /\ Cardinality(Kept(n)) \in Nat /\ Cardinality(Kept(n)) <= n
         /\ DOMAIN KeptOrder(n) = 1 .. Cardinality(Kept(n))
         /\ \A i \in 1 .. Cardinality(Kept(n)) : KeptOrder(n)[i] \in Kept(n)
         /\ \A p \in Kept(n) : \E i \in 1 .. Cardinality(Kept(n)) : KeptOrder(n)[i] = p
         /\ \A i, j \in 1 .. Cardinality(Kept(n)) : i < j => KeptOrder(n)[i] < KeptOrder(n)[j]
         /\ Kept(n) \subseteq DOMAIN live[s]
<1> DEFINE K == Kept(n)
           R == {r \in K \X K : r[1] < r[2]}
           kept == KeptOrder(n)
           N == Cardinality(K)
<1>1. K \subseteq 1 .. n /\ K \subseteq Nat
  BY DEF Kept
<1>2. IsFiniteSet(K) /\ Cardinality(K) <= n
  <2>1. IsFiniteSet(1 .. n) /\ Cardinality(1 .. n) = n
    BY FS_Interval
  <2> HIDE DEF K
  <2> QED
    BY <1>1, <2>1, FS_Subset
<1>3. K \subseteq DOMAIN live[s]
  <2>1. DOMAIN live[s] = 1 .. Len(live[s]) /\ Len(live[s]) \in Nat
    BY ListedFacts
  <2> HIDE DEF K
  <2> QED
    BY <1>1, <2>1
<1>4. kept = Ranked(K, R)
  BY DEF KeptOrder
<1> HIDE DEF K, kept
<1>5. \A p, q \in K : <<p, q>> \in R <=> p < q
  OBVIOUS
<1> HIDE DEF R
<1>6. Orders(R, K)
  BY <1>1, <1>5 DEF Orders
<1>7. /\ N \in Nat /\ DOMAIN kept = 1 .. N /\ \A i \in 1 .. N : kept[i] \in K
      /\ \A p \in K : \E i \in 1 .. N : kept[i] = p
      /\ \A i, j \in 1 .. N : i < j => <<kept[i], kept[j]>> \in R
  BY <1>2, <1>4, <1>6, RankedIs DEF InOrder
<1>8. \A i, j \in 1 .. N : i < j => kept[i] < kept[j]
  BY <1>5, <1>7
<1> QED
  BY <1>2, <1>3, <1>7, <1>8 DEF K, kept

\* A sweep, cut short or not, leaves the same timers alive.
LEMMA MovedList ==
  ASSUME NEW s \in Scripts, s = at, Listed(timers[s], live[s]),
         NEW n \in Nat, n <= Len(live[s])
  PROVE  /\ Listed(timers[s], Moved(n))
         /\ Len(Moved(n)) = Len(live[s])
         /\ Alive(timers[s], Moved(n)) = Alive(timers[s], live[s])
<1> DEFINE kept == KeptOrder(n)
           N == Cardinality(Kept(n))
           list == live[s]
           L == Len(list)
           moved == Moved(n)
<1>1. /\ N \in Nat /\ N <= n /\ DOMAIN kept = 1 .. N
      /\ \A i \in 1 .. N : kept[i] \in Kept(n)
      /\ \A p \in Kept(n) : \E i \in 1 .. N : kept[i] = p
      /\ Kept(n) \subseteq DOMAIN list
  BY KeptPlaces
<1>2. moved = [p \in DOMAIN list |-> IF p \in DOMAIN kept THEN list[kept[p]] ELSE list[p]]
  BY DEF Moved, KeptOrder
<1>3. /\ L \in Nat /\ DOMAIN list = 1 .. L
      /\ \A p \in DOMAIN list : list[p] \in DOMAIN timers[s] /\ list[p] \in Nat
  BY ListedFacts
<1>4. \A p : p \in Kept(n) <=> p \in 1 .. n /\ ~timers[s][list[p]].cancelled
  BY DEF Kept, Entry
<1> HIDE DEF kept, N, moved, list, L
<1>5. DOMAIN moved = DOMAIN list
  BY <1>2
<1>6. \A p \in DOMAIN list : IF p \in 1 .. N THEN moved[p] = list[kept[p]] ELSE moved[p] = list[p]
  BY <1>1, <1>2
<1>7. \A p \in DOMAIN list : moved[p] \in DOMAIN timers[s] /\ moved[p] \in Nat
  BY <1>1, <1>3, <1>6
<1>8. moved \in Seq(Nat) /\ Len(moved) = L
  <2>1. moved \in [1 .. L -> Nat]
    BY <1>2, <1>3, <1>7
  <2>2. moved \in Seq(Nat)
    BY <1>3, <2>1, SeqDef
  <2>3. DOMAIN moved = 1 .. L /\ DOMAIN moved = 1 .. Len(moved) /\ Len(moved) \in Nat
    BY <1>3, <1>5, <2>2, LenProperties
  <2> QED
    BY <1>3, <2>2, <2>3
<1>9. Listed(timers[s], moved)
  BY <1>5, <1>7, <1>8 DEF Listed
<1>10. ASSUME NEW id \in Alive(timers[s], list) PROVE id \in Alive(timers[s], moved)
  <2>1. PICK p \in DOMAIN list : list[p] = id /\ ~timers[s][list[p]].cancelled
    BY DEF Alive
  <2>2. CASE p \in 1 .. n
    <3>1. PICK i \in 1 .. N : kept[i] = p
      BY <1>1, <1>4, <2>1, <2>2
    <3>2. i \in DOMAIN list
      BY <1>1, <1>3, <3>1 DEF L, list
    <3>3. moved[i] = list[p]
      BY <1>6, <3>1, <3>2
    <3> QED
      BY <1>5, <2>1, <3>2, <3>3 DEF Alive
  <2>3. CASE p \notin 1 .. n
    <3>1. p \notin 1 .. N
      BY <1>1, <1>3, <2>3
    <3>2. moved[p] = list[p]
      BY <1>6, <3>1
    <3> QED
      BY <1>5, <2>1, <3>2 DEF Alive
  <2> QED
    BY <2>2, <2>3
<1>11. ASSUME NEW id \in Alive(timers[s], moved) PROVE id \in Alive(timers[s], list)
  <2>1. PICK p \in DOMAIN list : moved[p] = id /\ ~timers[s][moved[p]].cancelled
    BY <1>5 DEF Alive
  <2>2. CASE p \in 1 .. N
    <3>1. kept[p] \in DOMAIN list /\ moved[p] = list[kept[p]]
      BY <1>1, <1>6, <2>2
    <3> QED
      BY <2>1, <3>1 DEF Alive
  <2>3. CASE p \notin 1 .. N
    <3>1. moved[p] = list[p]
      BY <1>6, <2>3
    <3> QED
      BY <2>1, <3>1 DEF Alive
  <2> QED
    BY <2>2, <2>3
<1>12. Alive(timers[s], moved) = Alive(timers[s], list)
  BY <1>10, <1>11
<1> QED
  BY <1>8, <1>9, <1>12 DEF moved, list, L

\* One that is not leaves no timer twice that was not there twice.
LEMMA SweptList ==
  ASSUME NEW s \in Scripts, s = at, Listed(timers[s], live[s])
  PROVE  /\ Listed(timers[s], Swept)
         /\ Alive(timers[s], Swept) = Alive(timers[s], live[s])
         /\ \A p, q \in DOMAIN Swept : p < q /\ Swept[p] = Swept[q] => Doubled(s)
<1>1. CASE ~finished[s]
  BY <1>1 DEF Swept, Doubled
<1>2. CASE finished[s]
  <2> DEFINE list == live[s]
             n == Len(list)
             kept == KeptOrder(n)
             N == Cardinality(Kept(n))
             moved == Moved(n)
             swept == Swept
  <2>0. n \in Nat /\ n <= Len(live[s])
    BY ListedFacts
  <2>1. /\ N \in Nat /\ N <= n /\ DOMAIN kept = 1 .. N
        /\ \A i \in 1 .. N : kept[i] \in Kept(n)
        /\ \A p \in Kept(n) : \E i \in 1 .. N : kept[i] = p
        /\ \A i, j \in 1 .. N : i < j => kept[i] < kept[j]
        /\ Kept(n) \subseteq DOMAIN list
    BY <2>0, KeptPlaces
  <2>2. moved = [p \in DOMAIN list |-> IF p \in DOMAIN kept THEN list[kept[p]] ELSE list[p]]
    BY DEF Moved, KeptOrder
  <2>3. /\ n \in Nat /\ DOMAIN list = 1 .. n
        /\ \A p \in DOMAIN list : list[p] \in DOMAIN timers[s] /\ list[p] \in Nat
    BY ListedFacts
  <2>4. \A p : p \in Kept(n) <=> p \in 1 .. n /\ ~timers[s][list[p]].cancelled
    BY DEF Kept, Entry
  <2>5. swept = SubSeq(moved, 1, N)
    BY <1>2 DEF Swept
  <2> HIDE DEF kept, N, moved, n, swept, list
  <2>6. \A p \in 1 .. N : p \in DOMAIN list /\ moved[p] = list[kept[p]] /\ moved[p] \in Nat
                          /\ kept[p] \in DOMAIN list
    BY <2>1, <2>2, <2>3
  <2>7. /\ swept \in Seq(Nat) /\ Len(swept) = N
        /\ \A p \in 1 .. N : swept[p] = list[kept[p]]
    <3>1. /\ swept \in Seq(Nat) /\ Len(swept) = (IF 1 <= N THEN N - 1 + 1 ELSE 0)
          /\ \A i \in 1 .. N - 1 + 1 : swept[i] = moved[1 + i - 1]
      BY <2>1, <2>5, <2>6, SubSeqProperties
    <3>2. N - 1 + 1 = N /\ \A i \in 1 .. N : 1 + i - 1 = i
      BY <2>1
    <3> QED
      BY <2>1, <2>6, <3>1, <3>2
  <2>8. DOMAIN swept = 1 .. N
    BY <2>7, LenProperties
  <2>9. Listed(timers[s], swept)
    BY <2>3, <2>6, <2>7, <2>8 DEF Listed
  <2>10. Alive(timers[s], swept) = Alive(timers[s], list)
    <3>1. ASSUME NEW id \in Alive(timers[s], list) PROVE id \in Alive(timers[s], swept)
      <4>1. PICK p \in DOMAIN list : list[p] = id /\ ~timers[s][list[p]].cancelled
        BY DEF Alive
      <4>2. PICK i \in 1 .. N : kept[i] = p
        BY <2>1, <2>3, <2>4, <4>1
      <4> QED
        BY <2>7, <2>8, <4>1, <4>2 DEF Alive
    <3>2. ASSUME NEW id \in Alive(timers[s], swept) PROVE id \in Alive(timers[s], list)
      <4>1. PICK p \in 1 .. N : swept[p] = id /\ ~timers[s][swept[p]].cancelled
        BY <2>8 DEF Alive
      <4> QED
        BY <2>6, <2>7, <4>1 DEF Alive
    <3> QED
      BY <3>1, <3>2
  <2>11. ASSUME NEW p \in 1 .. N, NEW q \in 1 .. N, p < q, swept[p] = swept[q]
         PROVE  Doubled(s)
    <3>1. kept[p] < kept[q] /\ kept[p] \in DOMAIN list /\ kept[q] \in DOMAIN list
          /\ list[kept[p]] = list[kept[q]]
      BY <2>1, <2>6, <2>7, <2>11
    <3> QED
      BY <3>1 DEF Doubled, list
  <2> QED
    BY <2>8, <2>9, <2>10, <2>11 DEF swept, list
<1> QED
  BY <1>1, <1>2

-----------------------------------------------------------------------------
(* Steps of script code.                                                   *)

\* What the types say of one script.
LEMMA ScriptTypes ==
  ASSUME TimersTypeOK, NEW s \in Scripts
  PROVE  /\ Listed(timers[s], live[s]) /\ Len(timers[s]) <= MaxTimers[s]
         /\ next[s] \in 0 .. Infinity /\ known[s] \in 0 .. Infinity /\ earliest \in 0 .. Infinity
         /\ next[s] \in Nat /\ known[s] \in Nat /\ earliest \in Nat
         /\ clock \in 0 .. MaxClock /\ clock \in Nat /\ s \in Nat /\ at \in Nat
         /\ MaxTimers[s] \in Nat
BY TimesAreNat, TimersAssumption DEF TimersTypeOK, Listed, Scripts

\* The hook `schedule` lowers the engine's time, if at all, and to the script's.
LEMMA LowerIsEarly ==
  ASSUME earliest \in 0 .. Infinity, NEW due \in 0 .. Infinity
  PROVE  /\ Lower(due) \in 0 .. Infinity
         /\ Lower(due) <= earliest /\ Lower(due) <= due
BY TimesAreNat DEF Lower

\* What a step keeps of the scripts that are not s.
OthersSame(s) ==
  \A r \in Scripts \ {s} : /\ timers'[r] = timers[r] /\ live'[r] = live[r]
                           /\ next'[r] = next[r] /\ known'[r] = known[r]
                           /\ r \in unheard' <=> r \in unheard
                           /\ r \in outdated' <=> r \in outdated

LEMMA OneScript ==
  ASSUME TimersInv, NEW s \in Scripts, OthersSame(s), clock' = clock,
         earliest' \in 0 .. Infinity, earliest' <= earliest, EarlyAt(s)', LooseAt(s)'
  PROVE  /\ \A r \in Scripts : EarlyAt(r)' /\ LooseAt(r)'
         /\ \A r \in Scripts \ {s} : Settled(r) => Settled(r)'
<1>1. ASSUME NEW r \in Scripts \ {s} PROVE EarlyAt(r)'
  <2>1. earliest' \in Nat /\ earliest \in Nat /\ next[r] \in Nat
    BY ScriptTypes, TimesAreNat DEF TimersInv
  <2>2. EarlyAt(r)
    BY DEF TimersInv
  <2>3. earliest' <= next[r]
    BY <2>1, <2>2 DEF EarlyAt
  <2> QED
    BY <2>2, <2>3 DEF EarlyAt, OthersSame
<1>2. ASSUME NEW r \in Scripts \ {s}, Settled(r) PROVE Settled(r)'
  BY <1>2 DEF Settled, OthersSame, Doubled, Exact
<1>3. ASSUME NEW r \in Scripts \ {s} PROVE LooseAt(r)'
  BY <1>2 DEF LooseAt, OthersSame, TimersInv
<1> QED
  BY <1>1, <1>2, <1>3

\* The timers and the list of one script change.
LEMMA ListTypes ==
  ASSUME TimersTypeOK, NEW s \in Scripts, NEW ts, NEW list, Listed(ts, list),
         Len(ts) <= MaxTimers[s],
         timers' = [timers EXCEPT ![s] = ts], live' = [live EXCEPT ![s] = list]
  PROVE  /\ timers' \in [Scripts -> Seq(Timer)] /\ live' \in [Scripts -> Seq(Nat)]
         /\ \A r \in Scripts : /\ Len(timers'[r]) <= MaxTimers[r]
                               /\ \A p \in DOMAIN live'[r] : live'[r][p] \in DOMAIN timers'[r]
         /\ timers'[s] = ts /\ live'[s] = list
         /\ \A r \in Scripts \ {s} : timers'[r] = timers[r] /\ live'[r] = live[r]
<1>1. ts \in Seq(Timer) /\ list \in Seq(Nat)
  BY DEF Listed
<1>2. timers' \in [Scripts -> Seq(Timer)] /\ live' \in [Scripts -> Seq(Nat)]
  BY <1>1 DEF TimersTypeOK
<1>3. /\ timers'[s] = ts /\ live'[s] = list
      /\ \A r \in Scripts \ {s} : timers'[r] = timers[r] /\ live'[r] = live[r]
  BY DEF TimersTypeOK
<1>4. ASSUME NEW r \in Scripts
      PROVE  /\ Len(timers'[r]) <= MaxTimers[r]
             /\ \A p \in DOMAIN live'[r] : live'[r][p] \in DOMAIN timers'[r]
  <2>1. CASE r = s
    BY <1>3, <2>1 DEF Listed
  <2>2. CASE r # s
    BY <1>3, <2>2 DEF TimersTypeOK
  <2> QED
    BY <2>1, <2>2
<1> QED
  BY <1>2, <1>3, <1>4

\* What is pending stays so while timers are only added or cancelled.
LEMMA PendingKept ==
  ASSUME PendingInv, InRun, NEW s \in Scripts, s = at, at' = at, Listed(timers[s], live[s]),
         \A p \in DOMAIN live[s] :
           /\ p \in DOMAIN live'[s] /\ live'[s][p] = live[s][p]
           /\ \/ timers'[s][live[s][p]].cancelled
              \/ timers'[s][live[s][p]] = timers[s][live[s][p]],
         places' = places, clock' = clock
  PROVE  PendingInv'
<1>1. DOMAIN live[s] = 1 .. Len(live[s]) /\ Len(live[s]) \in Nat
  BY ListedFacts
<1>2. ASSUME NEW p \in DOMAIN live[s]
      PROVE  /\ p \in DOMAIN live'[at'] /\ live'[at'][p] = live[at][p]
             /\ Entry(p)'.cancelled \/ Entry(p)' = Entry(p)
             /\ IsFirst(p)' <=> IsFirst(p)
  <2>1. \A q \in 1 .. p - 1 : q \in DOMAIN live[s] /\ live'[at'][q] = live[at][q]
    BY <1>1
  <2>2. live'[at'][p] = live[at][p] /\ p \in DOMAIN live'[at']
    OBVIOUS
  <2>3. IsFirst(p)' <=> IsFirst(p)
    BY <2>1, <2>2 DEF IsFirst, First
  <2>4. Entry(p)'.cancelled \/ Entry(p)' = Entry(p)
    BY <2>2 DEF Entry
  <2> QED
    BY <2>2, <2>3, <2>4
<1>3. ASSUME NEW n \in DOMAIN places
      PROVE  /\ places[n] \in DOMAIN live[s]
             /\ ~Entry(places[n]).cancelled =>
                  IF IsFirst(places[n])
                  THEN Entry(places[n]).due <= clock
                  ELSE \/ Entry(places[n]).interval # Once
                       \/ \E m \in DOMAIN places : m < n /\ live[at][places[m]] = live[at][places[n]]
  BY DEF PendingInv
<1>4. ASSUME NEW m \in DOMAIN places, NEW n \in DOMAIN places, m < n
      PROVE  /\ live[at][places[m]] = live[at][places[n]] => places[m] < places[n]
             /\ IsFirst(places[m]) /\ IsFirst(places[n])
                /\ ~Entry(places[m]).cancelled /\ ~Entry(places[n]).cancelled
                  => Before(places[m], places[n])
  BY <1>4 DEF PendingInv
<1>5. ASSUME NEW n \in DOMAIN places
      PROVE  /\ places[n] \in DOMAIN live'[at']
             /\ ~Entry(places[n])'.cancelled =>
                  IF IsFirst(places[n])'
                  THEN Entry(places[n])'.due <= clock
                  ELSE \/ Entry(places[n])'.interval # Once
                       \/ \E m \in DOMAIN places : m < n /\ live'[at'][places[m]] = live'[at'][places[n]]
  <2>1. \A m \in DOMAIN places : places[m] \in DOMAIN live[s]
    BY <1>3
  <2>2. \A m \in DOMAIN places : live'[at'][places[m]] = live[at][places[m]]
    BY <1>2, <2>1
  <2>3. /\ places[n] \in DOMAIN live'[at']
        /\ Entry(places[n])'.cancelled \/ Entry(places[n])' = Entry(places[n])
        /\ IsFirst(places[n])' <=> IsFirst(places[n])
    BY <1>2, <2>1
  <2> QED
    BY <1>3, <2>2, <2>3
<1>6. ASSUME NEW p \in DOMAIN live[s], NEW q \in DOMAIN live[s]
      PROVE  /\ live'[at'][p] = live'[at'][q] <=> live[at][p] = live[at][q]
             /\ IsFirst(p)' /\ IsFirst(q)' /\ ~Entry(p)'.cancelled /\ ~Entry(q)'.cancelled =>
                  /\ IsFirst(p) /\ IsFirst(q) /\ ~Entry(p).cancelled /\ ~Entry(q).cancelled
                  /\ Before(p, q) => Before(p, q)'
  <2>1. /\ live'[at'][p] = live[at][p] /\ live'[at'][q] = live[at][q]
        /\ Entry(p)'.cancelled \/ Entry(p)' = Entry(p)
        /\ Entry(q)'.cancelled \/ Entry(q)' = Entry(q)
        /\ (IsFirst(p)' <=> IsFirst(p)) /\ (IsFirst(q)' <=> IsFirst(q))
    BY <1>2
  <2>2. Entry(p)' = Entry(p) /\ Entry(q)' = Entry(q) /\ Before(p, q) => Before(p, q)'
    BY <2>1 DEF Before
  <2> QED
    BY <2>1, <2>2
<1>7. ASSUME NEW m \in DOMAIN places, NEW n \in DOMAIN places, m < n
      PROVE  /\ live'[at'][places[m]] = live'[at'][places[n]] => places[m] < places[n]
             /\ IsFirst(places[m])' /\ IsFirst(places[n])'
                /\ ~Entry(places[m])'.cancelled /\ ~Entry(places[n])'.cancelled
                  => Before(places[m], places[n])'
  BY <1>3, <1>4, <1>6, <1>7
<1> QED
  BY <1>5, <1>7 DEF PendingInv

KeptTypeOK ==
  /\ clock \in 0 .. MaxClock
  /\ earliest \in 0 .. Infinity
  /\ next \in [Scripts -> 0 .. Infinity] /\ known \in [Scripts -> 0 .. Infinity]
  /\ timers \in [Scripts -> Seq(Timer)]
  /\ live \in [Scripts -> Seq(Nat)]
  /\ \A s \in Scripts : /\ Len(timers[s]) <= MaxTimers[s]
                        /\ \A p \in DOMAIN live[s] : live[s][p] \in DOMAIN timers[s]
  /\ finished \in [Scripts -> BOOLEAN]
  /\ unheard \subseteq Scripts /\ outdated \subseteq Scripts

LEMMA KeptTypes == TimersTypeOK => KeptTypeOK
BY DEF TimersTypeOK, KeptTypeOK

\* What one script keeps becomes ts, list, time and own.
LEMMA NewKept ==
  ASSUME TimersTypeOK, NEW s \in Scripts, NEW ts, NEW list, Listed(ts, list),
         Len(ts) <= MaxTimers[s],
         timers' = [timers EXCEPT ![s] = ts], live' = [live EXCEPT ![s] = list],
         NEW time \in 0 .. Infinity, next' = [next EXCEPT ![s] = time],
         NEW own \in 0 .. Infinity, known' = [known EXCEPT ![s] = own],
         earliest' \in 0 .. Infinity, clock' = clock, finished' \in [Scripts -> BOOLEAN],
         unheard' \in {unheard, unheard \cup {s}, unheard \ {s}},
         outdated' \in {outdated, outdated \cup {s}, outdated \ {s}}
  PROVE  /\ KeptTypeOK' /\ OthersSame(s)
         /\ timers'[s] = ts /\ live'[s] = list /\ next'[s] = time /\ known'[s] = own
<1>1. /\ timers' \in [Scripts -> Seq(Timer)] /\ live' \in [Scripts -> Seq(Nat)]
      /\ \A r \in Scripts : /\ Len(timers'[r]) <= MaxTimers[r]
                            /\ \A p \in DOMAIN live'[r] : live'[r][p] \in DOMAIN timers'[r]
      /\ timers'[s] = ts /\ live'[s] = list
      /\ \A r \in Scripts \ {s} : timers'[r] = timers[r] /\ live'[r] = live[r]
  BY ListTypes
<1>2. /\ next' \in [Scripts -> 0 .. Infinity] /\ next'[s] = time
      /\ known' \in [Scripts -> 0 .. Infinity] /\ known'[s] = own
      /\ \A r \in Scripts \ {s} : next'[r] = next[r] /\ known'[r] = known[r]
  BY DEF TimersTypeOK
<1>3. unheard' \subseteq Scripts /\ outdated' \subseteq Scripts
  BY DEF TimersTypeOK
<1>4. clock' \in 0 .. MaxClock
  BY DEF TimersTypeOK
<1>5. \A r \in Scripts \ {s} : (r \in unheard' <=> r \in unheard) /\ (r \in outdated' <=> r \in outdated)
  OBVIOUS
<1>6. KeptTypeOK'
  BY <1>1, <1>2, <1>3, <1>4 DEF KeptTypeOK
<1>7. OthersSame(s)
  BY <1>1, <1>2, <1>5 DEF OthersSame
<1> QED
  BY <1>1, <1>2, <1>6, <1>7

\* After `reschedule`, the times kept of a script are exact.
LEMMA Rescheduled ==
  ASSUME TimersTypeOK, NEW s \in Scripts, NEW ts, NEW list, Listed(ts, list),
         Len(ts) <= MaxTimers[s],
         timers' = [timers EXCEPT ![s] = ts], live' = [live EXCEPT ![s] = list],
         Reschedule(s, ts, list), clock' = clock, finished' \in [Scripts -> BOOLEAN]
  PROVE  /\ KeptTypeOK' /\ OthersSame(s) /\ earliest' <= earliest
         /\ EarlyAt(s)' /\ Settled(s)' /\ LooseAt(s)'
         /\ timers'[s] = ts /\ live'[s] = list
<1> DEFINE time == Least(DueTimes(ts, list))
<1>1. time \in 0 .. Infinity /\ \A due \in DueTimes(ts, list) : time <= due
  <2>1. DueTimes(ts, list) \in SUBSET (0 .. Infinity)
    BY ListedFacts
  <2> QED
    BY <2>1, LeastIs
<1>2. /\ known' = [known EXCEPT ![s] = time] /\ next' = [next EXCEPT ![s] = time]
      /\ earliest' = Lower(time) /\ unheard' = unheard \ {s} /\ outdated' = outdated \ {s}
  BY DEF Reschedule, Knows, Schedule
<1> HIDE DEF time
<1>3. earliest' \in 0 .. Infinity /\ earliest' <= earliest /\ earliest' <= time
  BY <1>1, <1>2, LowerIsEarly DEF TimersTypeOK
<1>4. /\ KeptTypeOK' /\ OthersSame(s)
      /\ timers'[s] = ts /\ live'[s] = list /\ next'[s] = time /\ known'[s] = time
  BY <1>1, <1>2, <1>3, NewKept
<1>5. EarlyAt(s)'
  <2>1. time <= time
    BY <1>1, TimesAreNat
  <2> QED
    BY <1>1, <1>3, <1>4, <2>1 DEF EarlyAt
<1>6. Settled(s)' /\ LooseAt(s)'
  BY <1>4 DEF Settled, LooseAt, Exact, time
<1> QED
  BY <1>3, <1>4, <1>5, <1>6

\* A stop leaves the call.
LEMMA StoppedKeepsInv ==
  ASSUME TimersInv, KeptTypeOK', \A r \in Scripts : EarlyAt(r)' /\ LooseAt(r)', Stopped
  PROVE  TimersInv'
<1>1. stage' = "scripts" /\ at' = NumScripts + 1 /\ places' = <<>> /\ stop' = TRUE
  BY DEF Stopped
<1>2. TimersTypeOK'
  <2>1. at' \in 1 .. NumScripts + 1 /\ places' \in Seq(Nat)
    BY <1>1, TimersAssumption
  <2> QED
    BY <1>1, <2>1 DEF TimersTypeOK, KeptTypeOK
<1>3. RunInv' /\ PendingInv' /\ SettledInv'
  BY <1>1 DEF RunInv, PendingInv, SettledInv, InRun
<1> QED
  BY <1>2, <1>3 DEF TimersInv

\* Code of a script.
LEMMA ScriptKeepsInv ==
  ASSUME TimersInv, NEW s \in Scripts, Runs(s), KeptTypeOK', OthersSame(s), clock' = clock,
         earliest' <= earliest, EarlyAt(s)', LooseAt(s)', Settled(s) => Settled(s)',
         stage = "callback" =>
           \A p \in DOMAIN live[s] :
             /\ p \in DOMAIN live'[s] /\ live'[s][p] = live[s][p]
             /\ \/ timers'[s][live[s][p]].cancelled
                \/ timers'[s][live[s][p]] = timers[s][live[s][p]],
         UNCHANGED <<runVars, stop>> \/ Stopped
  PROVE  TimersInv'
<1>1. /\ \A r \in Scripts : EarlyAt(r)' /\ LooseAt(r)'
      /\ \A r \in Scripts \ {s} : Settled(r) => Settled(r)'
  BY OneScript DEF KeptTypeOK
<1>2. CASE Stopped
  BY <1>1, <1>2, StoppedKeepsInv
<1>3. CASE UNCHANGED <<runVars, stop>>
  <2>1. UNCHANGED <<stage, at, places, stop>>
    BY <1>3 DEF runVars
  <2>2. TimersTypeOK'
    BY <2>1 DEF TimersInv, TimersTypeOK, KeptTypeOK
  <2>3. RunInv'
    BY <2>1 DEF TimersInv, RunInv, InRun
  <2>4. PendingInv'
    <3> SUFFICES ASSUME InRun' PROVE PendingInv'
      BY DEF PendingInv
    <3>1. stage = "callback" /\ s = at /\ InRun
      BY <2>1 DEF Runs, InRun
    <3>2. PendingInv /\ Listed(timers[s], live[s])
      BY ScriptTypes DEF TimersInv
    <3> QED
      BY <2>1, <3>1, <3>2, PendingKept
  <2>5. SettledInv'
    <3> SUFFICES ASSUME ~stop, NEW r \in Scripts, stage = "idle" \/ r < at PROVE Settled(r)'
      BY <2>1 DEF SettledInv
    <3>1. Settled(r)
      BY DEF TimersInv, SettledInv
    <3> QED
      BY <1>1, <3>1
  <2> QED
    BY <1>1, <2>2, <2>3, <2>4, <2>5 DEF TimersInv
<1> QED
  BY <1>2, <1>3

\* What a script adds, whether or not the engine hears of it.
LEMMA AddKeepsInv ==
  ASSUME TimersInv, NEW s \in Scripts, NEW t \in Timer, ~t.cancelled,
         AddTimer(s, t) \/ AddCut(s, t)
  PROVE  TimersInv'
<1> DEFINE ts == Append(timers[s], t)
           list == Append(live[s], Len(timers[s]) + 1)
           due == t.due
           T == DueTimes(timers[s], live[s])
<1>1. /\ Runs(s) /\ Len(timers[s]) < MaxTimers[s]
      /\ timers' = [timers EXCEPT ![s] = ts] /\ live' = [live EXCEPT ![s] = list]
      /\ UNCHANGED <<clock, finished, outdated>>
      /\ UNCHANGED <<runVars, stop>> \/ Stopped
  BY DEF AddTimer, AddCut, Creates, StopsCaller
<1>2. \/ /\ due < known[s] /\ known' = [known EXCEPT ![s] = due]
         /\ next' = [next EXCEPT ![s] = due] /\ earliest' = Lower(due) /\ unheard' = unheard
      \/ /\ UNCHANGED <<earliest, next>>
         /\ known' = known \/ (due < known[s] /\ known' = [known EXCEPT ![s] = due])
         /\ unheard' = IF due < known[s] THEN unheard \cup {s} ELSE unheard
  BY DEF AddTimer, AddCut, Knows, Schedule
<1>3. TimersTypeOK /\ EarlyAt(s) /\ LooseAt(s)
  BY DEF TimersInv
<1>4. /\ Listed(timers[s], live[s])
      /\ next[s] \in 0 .. Infinity /\ known[s] \in 0 .. Infinity /\ earliest \in 0 .. Infinity
      /\ next[s] \in Nat /\ known[s] \in Nat /\ earliest \in Nat /\ clock \in Nat
      /\ MaxTimers[s] \in Nat
  BY <1>3, ScriptTypes
<1>5. due \in Times /\ due \in Nat /\ due \in 0 .. Infinity
  BY TimerTypes
<1>6. /\ Listed(ts, list) /\ Len(ts) = Len(timers[s]) + 1
      /\ \A id \in DOMAIN timers[s] : ts[id] = timers[s][id]
      /\ DOMAIN list = DOMAIN live[s] \cup {Len(live[s]) + 1}
      /\ \A p \in DOMAIN live[s] : p \in DOMAIN list /\ list[p] = live[s][p]
      /\ DueTimes(ts, list) = T \cup {due}
  <2>1. Listed(timers[s], live[s])
    BY <1>4
  <2>2. ts = Append(timers[s], t) /\ list = Append(live[s], Len(timers[s]) + 1) /\ due = t.due
    OBVIOUS
  <2> HIDE DEF ts, list, due
  <2>3. Longer(timers[s], live[s], t, ts, list)
    BY <2>1, <2>2, AddedTimer
  <2> QED
    BY <2>2, <2>3 DEF Longer
<1>7. /\ \A p \in DOMAIN live[s] : live[s][p] \in DOMAIN timers[s]
      /\ Len(timers[s]) \in Nat /\ T \in SUBSET Times /\ T \in SUBSET (0 .. Infinity)
  BY <1>4, ListedFacts
<1> HIDE DEF ts, list, due, T
<1>8. Len(ts) <= MaxTimers[s]
  BY <1>1, <1>4, <1>6, <1>7
<1> DEFINE time == IF next' = next THEN next[s] ELSE due
           own == IF known' = known THEN known[s] ELSE due
<1>9. /\ next \in [Scripts -> 0 .. Infinity] /\ known \in [Scripts -> 0 .. Infinity]
      /\ finished' \in [Scripts -> BOOLEAN]
  BY <1>1, <1>3 DEF TimersTypeOK
<1>10. /\ time \in 0 .. Infinity /\ next' = [next EXCEPT ![s] = time]
       /\ own \in 0 .. Infinity /\ known' = [known EXCEPT ![s] = own]
  BY <1>2, <1>4, <1>5, <1>9
<1>11. earliest' \in 0 .. Infinity /\ earliest' <= earliest
       /\ unheard' \in {unheard, unheard \cup {s}, unheard \ {s}}
  BY <1>2, <1>4, <1>5, LowerIsEarly
<1> HIDE DEF time, own
<1>12. /\ KeptTypeOK' /\ OthersSame(s)
       /\ timers'[s] = ts /\ live'[s] = list /\ next'[s] = time /\ known'[s] = own
  BY <1>1, <1>3, <1>6, <1>8, <1>9, <1>10, <1>11, NewKept
<1>13. Doubled(s) => Doubled(s)'
  BY <1>6, <1>12 DEF Doubled
<1>14. CASE due < known[s] /\ s \in unheard'
  <2>1. earliest' <= next'[s]
    <3>1. earliest <= next[s]
      BY <1>3 DEF EarlyAt
    <3>2. next' = next \/ (earliest' <= due /\ next'[s] = due)
      BY <1>2, <1>4, <1>5, <1>9, LowerIsEarly
    <3>3. next' = next => earliest' <= next[s]
      BY <1>4, <1>11, <3>1, TimesAreNat
    <3> QED
      BY <3>2, <3>3
  <2>2. EarlyAt(s)' /\ Settled(s)' /\ LooseAt(s)'
    BY <1>14, <2>1 DEF EarlyAt, Settled, LooseAt
  <2> QED
    BY <1>1, <1>6, <1>7, <1>11, <1>12, <2>2, ScriptKeepsInv
<1>15. CASE due < known[s] /\ s \notin unheard'
  <2>1. /\ known' = [known EXCEPT ![s] = due] /\ next' = [next EXCEPT ![s] = due]
        /\ earliest' = Lower(due) /\ s \notin unheard
    BY <1>2, <1>15
  <2>2. time = due /\ own = due
    BY <1>9, <1>12, <2>1
  <2>3. \A d \in T : known[s] <= d /\ d \in Nat
    BY <1>3, <1>7, <2>1, TimesAreNat DEF EarlyAt, T
  <2>4. \A d \in DueTimes(ts, list) : due <= d
    BY <1>4, <1>5, <1>6, <1>15, <2>3
  <2>5. EarlyAt(s)'
    BY <1>4, <1>5, <1>12, <2>1, <2>2, <2>4, LowerIsEarly DEF EarlyAt
  <2>6. due = Least(DueTimes(ts, list))
    <3>1. DueTimes(ts, list) \in SUBSET (0 .. Infinity) /\ due \in DueTimes(ts, list)
      BY <1>5, <1>6, <1>7
    <3> QED
      BY <2>4, <3>1, LeastIsUnique
  <2>7. Settled(s)' /\ LooseAt(s)'
    BY <1>12, <2>2, <2>6 DEF Settled, LooseAt, Exact
  <2> QED
    BY <1>1, <1>6, <1>7, <1>11, <1>12, <2>5, <2>7, ScriptKeepsInv
<1>16. CASE ~(due < known[s])
  <2>1. UNCHANGED <<earliest, next, known, unheard>>
    BY <1>2, <1>16
  <2>2. time = next[s] /\ own = known[s]
    BY <2>1 DEF time, own
  <2>3. known[s] <= due
    BY <1>4, <1>5, <1>16
  <2>4. EarlyAt(s)'
    BY <1>3, <1>6, <1>12, <2>1, <2>3 DEF EarlyAt, T
  <2>5. Exact(s) => Exact(s)'
    <3> SUFFICES ASSUME Exact(s) PROVE Exact(s)'
      OBVIOUS
    <3>1. known[s] = Least(T) /\ next[s] = Least(T)
      BY DEF Exact, T
    <3>2. Least(T \cup {due}) = Least(T)
      BY <1>4, <1>5, <1>7, <1>16, <3>1, LeastWith
    <3> QED
      BY <1>6, <1>12, <2>2, <3>1, <3>2 DEF Exact
  <2>6. Settled(s) => Settled(s)'
    BY <1>1, <1>13, <2>1, <2>5 DEF Settled
  <2>7. LooseAt(s)'
    BY <1>1, <1>3, <2>1, <2>6 DEF LooseAt
  <2> QED
    BY <1>1, <1>6, <1>7, <1>11, <1>12, <2>4, <2>6, <2>7, ScriptKeepsInv
<1> QED
  BY <1>14, <1>15, <1>16

\* What a script clears, in part or wholly.
LEMMA ClearKeepsInv ==
  ASSUME TimersInv, NEW s \in Scripts, NEW id \in DOMAIN timers[s],
         ClearTimer(s, id) \/ ClearCut(s, id)
  PROVE  TimersInv'
<1> DEFINE due == timers[s][id].due
           list == live[s]
           T == DueTimes(timers[s], live[s])
<1>1. TimersTypeOK /\ EarlyAt(s) /\ LooseAt(s)
  BY DEF TimersInv
<1>2. /\ Listed(timers[s], live[s]) /\ Len(timers[s]) <= MaxTimers[s]
      /\ next[s] \in 0 .. Infinity /\ known[s] \in 0 .. Infinity /\ earliest \in 0 .. Infinity
      /\ next[s] \in Nat /\ known[s] \in Nat /\ earliest \in Nat /\ clock \in Nat
  BY <1>1, ScriptTypes
<1>3. \E ts : ts \in {Marked(timers[s], id), Retired(timers[s], id)}
              /\ timers' = [timers EXCEPT ![s] = ts]
  BY DEF ClearTimer, ClearCut
<1>4. PICK ts \in {Marked(timers[s], id), Retired(timers[s], id)} :
        timers' = [timers EXCEPT ![s] = ts]
  BY <1>3
<1>5. /\ Listed(ts, list) /\ Len(ts) = Len(timers[s]) /\ DOMAIN ts = DOMAIN timers[s]
      /\ ts[id].cancelled
      /\ \A i \in DOMAIN timers[s] \ {id} : ts[i] = timers[s][i]
      /\ id \notin Alive(timers[s], list) => DueTimes(ts, list) = T
      /\ DueTimes(ts, list) \subseteq T
      /\ id \in Alive(timers[s], list) => T = DueTimes(ts, list) \cup {due}
  BY <1>2, <1>4, MarkedTimer
<1>6. /\ Runs(s) /\ clock' = clock /\ live' = live /\ unheard' \in {unheard, unheard \ {s}}
      /\ finished' \in [Scripts -> BOOLEAN]
      /\ UNCHANGED <<runVars, stop>> \/ Stopped
  <2>1. finished \in [Scripts -> BOOLEAN]
    BY <1>1 DEF TimersTypeOK
  <2>2. finished' = finished \/ finished' = [finished EXCEPT ![s] = TRUE]
    BY DEF ClearTimer, ClearCut
  <2>3. UNCHANGED <<runVars, stop>> \/ Stopped
    BY DEF ClearTimer, ClearCut, StopsCaller
  <2>4. unheard' \in {unheard, unheard \ {s}}
    BY DEF ClearTimer, ClearCut, RescheduledIfEarliest, Reschedule, timeVars
  <2> QED
    BY <2>1, <2>2, <2>3, <2>4 DEF ClearTimer, ClearCut, Clears
<1>7. /\ \A p \in DOMAIN list : list[p] \in DOMAIN timers[s]
      /\ T \in SUBSET Times /\ T \in SUBSET (0 .. Infinity)
      /\ due \in Times /\ due \in Nat
      /\ DueTimes(ts, list) \in SUBSET Times /\ DueTimes(ts, list) \in SUBSET (0 .. Infinity)
  <2>1. timers[s][id] \in Timer
    BY <1>2, ListedFacts
  <2> QED
    BY <1>2, <1>5, <2>1, ListedFacts, TimerTypes
<1>8. live' = [live EXCEPT ![s] = list] /\ live'[s] = live[s]
  BY <1>1, <1>6 DEF TimersTypeOK
<1>9. Len(ts) <= MaxTimers[s]
  BY <1>2, <1>5
<1>10. ASSUME timers'[s] = ts
       PROVE  \A p \in DOMAIN live[s] :
                /\ p \in DOMAIN live'[s] /\ live'[s][p] = live[s][p]
                /\ \/ timers'[s][live[s][p]].cancelled
                   \/ timers'[s][live[s][p]] = timers[s][live[s][p]]
  BY <1>5, <1>7, <1>8, <1>10
<1> HIDE DEF list, T, due
<1>11. CASE ClearTimer(s, id) /\ due = known[s]
  <2>1. ts = Retired(timers[s], id)
    <3>1. timers'[s] = ts /\ timers'[s] = Retired(timers[s], id)
      BY <1>1, <1>4, <1>11 DEF ClearTimer, TimersTypeOK
    <3> QED
      BY <3>1
  <2>2. Reschedule(s, ts, list)
    BY <1>11, <2>1 DEF ClearTimer, RescheduledIfEarliest, due, list
  <2>3. /\ KeptTypeOK' /\ OthersSame(s) /\ earliest' <= earliest
        /\ EarlyAt(s)' /\ Settled(s)' /\ LooseAt(s)' /\ timers'[s] = ts
    BY <1>1, <1>4, <1>5, <1>6, <1>8, <1>9, <2>2, Rescheduled
  <2> QED
    BY <1>6, <1>10, <2>3, ScriptKeepsInv
<1>12. CASE ~(ClearTimer(s, id) /\ due = known[s])
  <2>1. /\ UNCHANGED <<earliest, next, unheard>>
        /\ outdated' = IF due = known[s] THEN outdated \cup {s} ELSE outdated
        /\ \/ known' = known
           \/ due = known[s] /\ known' = [known EXCEPT ![s] = Least(DueTimes(ts, list))]
    <3>1. CASE ClearTimer(s, id)
      BY <1>12, <3>1 DEF ClearTimer, RescheduledIfEarliest, timeVars, due
    <3>2. CASE ClearCut(s, id) /\ known' # known
      <4>1. /\ timers' = [timers EXCEPT ![s] = Retired(timers[s], id)] /\ due = known[s]
            /\ known' = [known EXCEPT ![s] = Least(DueTimes(Retired(timers[s], id), live[s]))]
        BY <3>2 DEF ClearCut, Knows, due
      <4>2. ts = Retired(timers[s], id)
        <5>1. timers'[s] = ts /\ timers'[s] = Retired(timers[s], id)
          BY <1>1, <1>4, <4>1 DEF TimersTypeOK
        <5> QED
          BY <5>1
      <4> QED
        BY <3>2, <4>1, <4>2 DEF ClearCut, due, list
    <3>3. CASE ClearCut(s, id) /\ known' = known
      BY <3>3 DEF ClearCut, due
    <3> QED
      BY <3>1, <3>2, <3>3
  <2> DEFINE own == IF known' = known THEN known[s] ELSE Least(DueTimes(ts, list))
  <2>2. own \in 0 .. Infinity /\ known' = [known EXCEPT ![s] = own]
        /\ next' = [next EXCEPT ![s] = next[s]]
        /\ outdated' \in {outdated, outdated \cup {s}, outdated \ {s}}
    <3>1. Least(DueTimes(ts, list)) \in 0 .. Infinity
      BY <1>5, ListedFacts
    <3>2. next \in [Scripts -> 0 .. Infinity] /\ known \in [Scripts -> 0 .. Infinity]
      BY <1>1 DEF TimersTypeOK
    <3> QED
      BY <1>2, <2>1, <3>1, <3>2
  <2> HIDE DEF own
  <2>3. earliest' \in 0 .. Infinity /\ earliest' <= earliest
    BY <1>2, <2>1
  <2>4. /\ KeptTypeOK' /\ OthersSame(s)
        /\ timers'[s] = ts /\ live'[s] = list /\ next'[s] = next[s] /\ known'[s] = own
    <3>1. unheard' \in {unheard, unheard \cup {s}, unheard \ {s}}
      BY <1>6
    <3>2. Listed(ts, list)
      BY <1>5
    <3>3. live' = [live EXCEPT ![s] = list] /\ clock' = clock
          /\ finished' \in [Scripts -> BOOLEAN]
      BY <1>6, <1>8
    <3> QED
      BY <1>1, <1>2, <1>4, <1>9, <2>2, <2>3, <3>1, <3>2, <3>3, NewKept
  <2>5. EarlyAt(s)'
    <3> SUFFICES ASSUME s \notin unheard
                 PROVE  next[s] <= own /\ \A d \in DueTimes(ts, list) : own <= d
      BY <1>1, <2>1, <2>4 DEF EarlyAt
    <3>1. next[s] <= known[s] /\ \A d \in T : known[s] <= d
      BY <1>1 DEF EarlyAt, T
    <3>2. \A d \in DueTimes(ts, list) : next[s] <= d
      BY <1>2, <1>5, <1>7, <3>1, TimesAreNat
    <3>3. next[s] <= Least(DueTimes(ts, list))
      <4>1. CASE DueTimes(ts, list) = {}
        BY <1>2, <4>1, TimesAreNat DEF Least
      <4>2. CASE DueTimes(ts, list) # {}
        BY <1>7, <3>2, <4>2, LeastIs
      <4> QED
        BY <4>1, <4>2
    <3>4. CASE own = known[s]
      BY <1>5, <3>1, <3>4
    <3>5. CASE own = Least(DueTimes(ts, list))
      BY <1>7, <3>3, <3>5, LeastIs
    <3> QED
      BY <3>4, <3>5 DEF own
  <2>6. CASE due = known[s]
    <3>1. Settled(s)' /\ LooseAt(s)'
      BY <2>1, <2>6 DEF Settled, LooseAt
    <3> QED
      BY <1>6, <1>10, <2>3, <2>4, <2>5, <3>1, ScriptKeepsInv
  <2>7. CASE due # known[s]
    <3>1. own = known[s] /\ UNCHANGED <<unheard, outdated>>
      BY <2>1, <2>7 DEF own
    <3>2. Exact(s) => Exact(s)'
      <4> SUFFICES ASSUME Exact(s) PROVE next[s] = Least(DueTimes(ts, list))
        BY <2>4, <3>1 DEF Exact
      <4>1. known[s] = next[s] /\ next[s] = Least(T)
        BY DEF Exact, T
      <4>2. CASE id \notin Alive(timers[s], list)
        BY <1>5, <4>1, <4>2
      <4>3. CASE id \in Alive(timers[s], list)
        <5>1. T = DueTimes(ts, list) \cup {due}
          BY <1>5, <4>3
        <5>2. Least(T) = IF due < Least(DueTimes(ts, list)) THEN due ELSE Least(DueTimes(ts, list))
          BY <1>7, <5>1, LeastWith
        <5> QED
          BY <2>7, <4>1, <5>2
      <4> QED
        BY <4>2, <4>3
    <3>3. Doubled(s) => Doubled(s)'
      BY <1>8 DEF Doubled
    <3>4. Settled(s) => Settled(s)'
      BY <3>1, <3>2, <3>3 DEF Settled
    <3>5. LooseAt(s)'
      BY <1>1, <1>6, <2>4, <3>4 DEF LooseAt
    <3> QED
      BY <1>6, <1>10, <2>3, <2>4, <2>5, <3>4, <3>5, ScriptKeepsInv
  <2> QED
    BY <2>6, <2>7
<1> QED
  BY <1>11, <1>12

LEMMA NothingListed == Listed(<<>>, <<>>) /\ DueTimes(<<>>, <<>>) = {} /\ Alive(<<>>, <<>>) = {}
BY DEF Listed, DueTimes, Alive

LEMMA ReloadKeepsInv ==
  ASSUME TimersInv, NEW s \in Scripts, Reload(s)
  PROVE  TimersInv'
<1>1. /\ stage = "idle" /\ next' = [next EXCEPT ![s] = Infinity]
      /\ known' = [known EXCEPT ![s] = Infinity]
      /\ timers' = [timers EXCEPT ![s] = <<>>] /\ live' = [live EXCEPT ![s] = <<>>]
      /\ finished' = [finished EXCEPT ![s] = FALSE]
      /\ unheard' = unheard \ {s} /\ outdated' = outdated \ {s}
      /\ UNCHANGED <<clock, earliest, runVars, stop>>
  BY DEF Reload
<1>2. TimersTypeOK /\ Runs(s)
  BY <1>1 DEF TimersInv, Runs
<1>3. /\ finished' \in [Scripts -> BOOLEAN] /\ earliest' \in 0 .. Infinity
      /\ earliest' <= earliest /\ Len(<<>>) <= MaxTimers[s] /\ earliest <= Infinity
  <2>1. finished \in [Scripts -> BOOLEAN] /\ earliest \in 0 .. Infinity /\ MaxTimers[s] \in Nat
    BY <1>2, TimersAssumption DEF TimersTypeOK
  <2> QED
    BY <1>1, <2>1, TimesAreNat
<1>4. /\ KeptTypeOK' /\ OthersSame(s)
      /\ timers'[s] = <<>> /\ live'[s] = <<>> /\ next'[s] = Infinity /\ known'[s] = Infinity
  BY <1>1, <1>2, <1>3, NothingListed, TimesAreNat, NewKept
<1>5. Infinity = Least(DueTimes(<<>>, <<>>))
  BY NothingListed DEF Least
<1>6. EarlyAt(s)' /\ Settled(s)' /\ LooseAt(s)'
  BY <1>1, <1>3, <1>4, <1>5, NothingListed, TimesAreNat DEF EarlyAt, Settled, LooseAt, Exact
<1> QED
  BY <1>1, <1>2, <1>3, <1>4, <1>6, ScriptKeepsInv

-----------------------------------------------------------------------------
(* Steps of advance_timers.                                                *)

LEMMA AdvanceKeepsInv ==
  ASSUME TimersInv, Advance
  PROVE  TimersInv'
<1>1. /\ stage = "idle" /\ (\E d \in Steps : clock' = clock + d) /\ clock' <= MaxClock
      /\ stage' \in {"idle", "scripts"}
      /\ stage' = "idle" => stop' = stop
      /\ stop' \in {stop, FALSE}
      /\ UNCHANGED <<earliest, next, known, unheard, outdated, timers, live, finished, at, places>>
  BY DEF Advance, timeVars, listVars
<1>2. TimersTypeOK /\ at = 1 /\ places = <<>>
  BY <1>1 DEF TimersInv, RunInv, InRun
<1>3. clock' \in 0 .. MaxClock /\ clock <= clock' /\ clock \in Nat
  BY <1>1, <1>2, TimersAssumption DEF TimersTypeOK
<1>4. TimersTypeOK'
  BY <1>1, <1>2, <1>3 DEF TimersTypeOK
<1>5. RunInv' /\ PendingInv'
  BY <1>1, <1>2 DEF RunInv, PendingInv, InRun
<1>6. ASSUME NEW s \in Scripts PROVE (Settled(s)' <=> Settled(s)) /\ EarlyAt(s)' /\ LooseAt(s)'
  <2>1. (Settled(s)' <=> Settled(s)) /\ (EarlyAt(s)' <=> EarlyAt(s))
    BY <1>1 DEF Settled, EarlyAt, Doubled, Exact
  <2>2. next[s] \in Nat
    BY <1>2, ScriptTypes
  <2>3. LooseAt(s)'
    BY <1>1, <1>3, <2>1, <2>2 DEF LooseAt, TimersInv
  <2> QED
    BY <2>1, <2>3 DEF TimersInv
<1>7. SettledInv'
  <2> SUFFICES ASSUME ~stop', NEW s \in Scripts, stage' = "idle" \/ s < at' PROVE Settled(s)
    BY <1>6 DEF SettledInv
  <2>1. ~(s < at') /\ ~stop
    BY <1>1, <1>2, TimersAssumption DEF Scripts
  <2> QED
    BY <1>1, <2>1 DEF TimersInv, SettledInv
<1> QED
  BY <1>4, <1>5, <1>6, <1>7 DEF TimersInv

LEMMA SkipScriptKeepsInv ==
  ASSUME TimersInv, SkipScript
  PROVE  TimersInv'
<1>1. /\ stage = "scripts" /\ at <= NumScripts /\ next[at] > clock /\ at' = at + 1
      /\ UNCHANGED <<clock, earliest, next, known, unheard, outdated, timers, live, finished,
                     stage, places, stop>>
  BY DEF SkipScript, timeVars, listVars
<1>2. TimersTypeOK /\ at \in Scripts /\ at \in Nat
  <2>1. TimersTypeOK /\ at \in 1 .. NumScripts + 1
    BY DEF TimersInv, TimersTypeOK
  <2> QED
    BY <1>1, <2>1, TimersAssumption DEF Scripts
<1>3. TimersTypeOK'
  <2>1. at' \in 1 .. NumScripts + 1
    BY <1>1, <1>2, TimersAssumption
  <2> QED
    BY <1>1, <1>2, <2>1 DEF TimersTypeOK
<1>4. RunInv' /\ PendingInv'
  BY <1>1 DEF TimersInv, RunInv, PendingInv, InRun
<1>5. ASSUME NEW s \in Scripts PROVE (Settled(s)' <=> Settled(s)) /\ EarlyAt(s)' /\ LooseAt(s)'
  BY <1>1 DEF Settled, EarlyAt, LooseAt, Doubled, Exact, TimersInv
<1>6. Settled(at)
  <2>1. next[at] \in Nat /\ clock \in Nat
    BY <1>2, ScriptTypes
  <2> QED
    BY <1>1, <1>2, <2>1 DEF TimersInv, LooseAt
<1>7. SettledInv'
  <2> SUFFICES ASSUME ~stop, NEW s \in Scripts, s < at + 1 PROVE Settled(s)
    BY <1>1, <1>5 DEF SettledInv
  <2>1. s < at \/ s = at
    BY <1>2, TimersAssumption DEF Scripts
  <2> QED
    BY <1>6, <2>1 DEF TimersInv, SettledInv
<1> QED
  BY <1>3, <1>4, <1>5, <1>7 DEF TimersInv

\* runTimers is done with its script.
LEMMA RescheduleKeepsInv ==
  ASSUME TimersInv, NEW s \in Scripts, s = at, stage \in {"scripts", "run"},
         NEW list, Listed(timers[s], list), live' = [live EXCEPT ![s] = list],
         timers' = timers, Reschedule(s, timers[s], list), AfterRun,
         finished' \in [Scripts -> BOOLEAN], places' = <<>>, UNCHANGED <<clock, stop>>
  PROVE  TimersInv'
<1>1. TimersTypeOK /\ Len(timers[s]) <= MaxTimers[s] /\ at \in Nat /\ stop \in BOOLEAN
  BY ScriptTypes DEF TimersInv, TimersTypeOK
<1>2. timers' = [timers EXCEPT ![s] = timers[s]]
  BY <1>1 DEF TimersTypeOK
<1>3. /\ KeptTypeOK' /\ OthersSame(s) /\ earliest' <= earliest
      /\ EarlyAt(s)' /\ Settled(s)' /\ LooseAt(s)'
  BY <1>1, <1>2, Rescheduled
<1>4. /\ \A r \in Scripts : EarlyAt(r)' /\ LooseAt(r)'
      /\ \A r \in Scripts \ {s} : Settled(r) => Settled(r)'
  BY <1>3, OneScript DEF KeptTypeOK
<1>5. stage' = "scripts" /\ at' = IF stop THEN NumScripts + 1 ELSE at + 1
  BY DEF AfterRun
<1>6. TimersTypeOK'
  <2>1. at' \in 1 .. NumScripts + 1
    BY <1>1, <1>5, TimersAssumption DEF Scripts
  <2>2. places' \in Seq(Nat) /\ clock' \in 0 .. MaxClock /\ stop' \in BOOLEAN
    BY <1>1, EmptySeq DEF TimersTypeOK
  <2>3. KeptTypeOK'
    BY <1>3
  <2> QED
    BY <1>5, <2>1, <2>2, <2>3 DEF TimersTypeOK, KeptTypeOK
<1>7. RunInv' /\ PendingInv'
  BY <1>5 DEF RunInv, PendingInv, InRun
<1>8. SettledInv'
  <2> SUFFICES ASSUME ~stop, NEW r \in Scripts, r < at + 1 PROVE Settled(r)'
    BY <1>5 DEF SettledInv
  <2>1. r < at \/ r = at
    BY <1>1, TimersAssumption DEF Scripts
  <2>2. CASE r = at
    BY <1>3, <2>2
  <2>3. CASE r < at
    <3>1. Settled(r) /\ r # s
      BY <1>1, <2>3 DEF TimersInv, SettledInv
    <3> QED
      BY <1>4, <3>1
  <2> QED
    BY <2>1, <2>2, <2>3
<1> QED
  BY <1>4, <1>6, <1>7, <1>8 DEF TimersInv

\* A script is entered when it is its turn and a timer of it may be due.
LEMMA Entered ==
  ASSUME TimersInv, Enters
  PROVE  /\ at \in Scripts /\ stage = "scripts" /\ places = <<>> /\ next[at] <= clock
         /\ Listed(timers[at], live[at]) /\ clock \in Nat
<1>1. stage = "scripts" /\ at <= NumScripts /\ next[at] <= clock
  BY DEF Enters
<1>2. at \in 1 .. NumScripts + 1 /\ TimersTypeOK /\ places = <<>>
  BY <1>1 DEF TimersInv, TimersTypeOK, RunInv, InRun
<1>3. at \in Scripts
  BY <1>1, <1>2, TimersAssumption DEF Scripts
<1> QED
  BY <1>1, <1>2, <1>3, ScriptTypes

LEMMA BeginRunKeepsInv ==
  ASSUME TimersInv, BeginRun
  PROVE  TimersInv'
<1>1. /\ Enters /\ places' = DueInOrder
      /\ UNCHANGED <<clock, timers, live, finished, stop>>
  BY DEF BeginRun, listVars
<1>2. PICK s \in Scripts : s = at
  BY <1>1, Entered
<1>3. /\ stage = "scripts" /\ places = <<>> /\ Listed(timers[s], live[s]) /\ clock \in Nat
      /\ TimersTypeOK
  BY <1>1, <1>2, Entered DEF TimersInv
<1>4. /\ DueInOrder \in Seq(Nat)
      /\ \A p : p \in DuePlaces <=> \E n \in DOMAIN DueInOrder : DueInOrder[n] = p
      /\ \A m, n \in DOMAIN DueInOrder : m < n => Before(DueInOrder[m], DueInOrder[n])
      /\ DueInOrder = <<>> <=> DuePlaces = {}
  BY <1>2, <1>3, DueOrder
<1>5. CASE DuePlaces = {}
  <2>1. Reschedule(s, timers[s], live[s]) /\ AfterRun /\ places' = <<>>
    BY <1>1, <1>2, <1>4, <1>5 DEF BeginRun
  <2>2. live' = [live EXCEPT ![s] = live[s]] /\ finished' \in [Scripts -> BOOLEAN]
    BY <1>1, <1>3 DEF TimersTypeOK
  <2> QED
    BY <1>1, <1>2, <1>3, <2>1, <2>2, RescheduleKeepsInv
<1>6. CASE DuePlaces # {}
  <2>1. stage' = "run" /\ UNCHANGED <<earliest, next, known, unheard, outdated, at>>
    BY <1>6 DEF BeginRun, timeVars
  <2>2. TimersTypeOK'
    BY <1>1, <1>3, <1>4, <2>1 DEF TimersTypeOK
  <2>3. RunInv'
    BY <1>2, <2>1 DEF RunInv, InRun
  <2>4. \A p, q : /\ Entry(p)' = Entry(p) /\ live'[at'][p] = live[at][p]
                  /\ (IsFirst(p)' <=> IsFirst(p)) /\ (Before(p, q)' <=> Before(p, q))
    BY <1>1, <2>1 DEF Entry, IsFirst, First, Before
  <2>5. ASSUME NEW p \in DuePlaces
        PROVE  /\ p \in DOMAIN live[at] /\ ~Entry(p).cancelled /\ Entry(p).due <= clock
               /\ Entry(p).due \in Nat /\ live[at][p] \in Nat /\ p \in Nat
    <3>1. p \in DOMAIN live[s] /\ ~Entry(p).cancelled /\ Entry(p).due <= clock
      BY <1>2 DEF DuePlaces
    <3>2. live[s][p] \in Nat /\ live[s][p] \in DOMAIN timers[s] /\ p \in Nat
      BY <1>3, <3>1, ListedFacts
    <3>3. timers[s][live[s][p]].due \in Nat
      BY <1>3, <3>2, ListedFacts, TimerTypes
    <3> QED
      BY <1>2, <3>1, <3>2, <3>3 DEF Entry
  <2>6. ASSUME NEW p \in DuePlaces, NEW q \in DuePlaces, live[at][p] = live[at][q], Before(p, q)
        PROVE  p < q
    <3>1. Entry(p) = Entry(q)
      BY <2>6 DEF Entry
    <3> QED
      BY <2>5, <2>6, <3>1 DEF Before
  <2>0. PICK list : list = DueInOrder
    OBVIOUS
  <2>7. /\ \A n \in DOMAIN list : list[n] \in DuePlaces
        /\ \A p \in DuePlaces : \E n \in DOMAIN list : list[n] = p
        /\ \A m, n \in DOMAIN list : m < n => Before(list[m], list[n])
        /\ DOMAIN list \subseteq Nat
    BY <1>4, <2>0, LenProperties
  <2>8. ASSUME NEW n \in DOMAIN list, ~IsFirst(list[n])
        PROVE  \E m \in DOMAIN list : m < n /\ live[at][list[m]] = live[at][list[n]]
    <3>1. list[n] \in DuePlaces
      BY <2>7
    <3>2. PICK q \in 1 .. list[n] - 1 : live[at][q] = live[at][list[n]]
      BY <2>8 DEF IsFirst, First
    <3>3. q \in DuePlaces /\ q < list[n] /\ q \in Nat
      <4>1. list[n] \in DOMAIN live[s] /\ DOMAIN live[s] = 1 .. Len(live[s]) /\ Len(live[s]) \in Nat
        BY <1>2, <1>3, <2>5, <3>1, ListedFacts
      <4>2. q \in DOMAIN live[s] /\ q < list[n] /\ q \in Nat
        BY <3>2, <4>1
      <4>3. Entry(q) = Entry(list[n])
        BY <3>2 DEF Entry
      <4> QED
        BY <1>2, <2>5, <3>1, <4>2, <4>3 DEF DuePlaces
    <3>4. PICK m \in DOMAIN list : list[m] = q
      BY <2>7, <3>3
    <3>5. ~(n < m)
      <4> SUFFICES ASSUME n < m PROVE FALSE
        OBVIOUS
      <4>1. Before(list[n], list[m])
        BY <2>7
      <4>2. list[n] < list[m]
        BY <2>6, <3>1, <3>2, <3>3, <3>4, <4>1
      <4>3. list[n] \in Nat /\ q \in Nat /\ q < list[n] /\ list[n] < q
        BY <2>5, <3>1, <3>3, <3>4, <4>2
      <4> QED
        BY <4>3
    <3>6. m # n
      BY <2>5, <3>1, <3>3, <3>4
    <3> QED
      BY <2>7, <3>2, <3>4, <3>5, <3>6
  <2>9. places' = list
    BY <1>1, <2>0
  <2>10. PendingInv'
    <3>1. ASSUME NEW n \in DOMAIN list
          PROVE  /\ list[n] \in DOMAIN live'[at']
                 /\ ~Entry(list[n])'.cancelled =>
                      IF IsFirst(list[n])'
                      THEN Entry(list[n])'.due <= clock'
                      ELSE \E m \in DOMAIN list : m < n /\ live'[at'][list[m]] = live'[at'][list[n]]
      <4>0. list[n] \in DuePlaces
        BY <2>7
      <4>1. list[n] \in DOMAIN live[at] /\ Entry(list[n]).due <= clock
        BY <2>5, <4>0
      <4>2. ~IsFirst(list[n]) => \E m \in DOMAIN list : m < n /\ live[at][list[m]] = live[at][list[n]]
        BY <2>8
      <4> QED
        BY <1>1, <2>1, <2>4, <4>1, <4>2
    <3>2. ASSUME NEW m \in DOMAIN list, NEW n \in DOMAIN list, m < n
          PROVE  /\ live'[at'][list[m]] = live'[at'][list[n]] => list[m] < list[n]
                 /\ Before(list[m], list[n])'
      <4>1. Before(list[m], list[n]) /\ list[m] \in DuePlaces /\ list[n] \in DuePlaces
        BY <2>7, <3>2
      <4> QED
        BY <2>4, <2>6, <4>1
    <3> QED
      BY <2>9, <3>1, <3>2 DEF PendingInv
  <2>11. ASSUME NEW r \in Scripts PROVE (Settled(r)' <=> Settled(r)) /\ EarlyAt(r)' /\ LooseAt(r)'
    BY <1>1, <2>1 DEF Settled, EarlyAt, LooseAt, Doubled, Exact, TimersInv
  <2>12. SettledInv'
    BY <1>1, <1>3, <2>1, <2>11 DEF TimersInv, SettledInv
  <2> QED
    BY <2>2, <2>3, <2>10, <2>11, <2>12 DEF TimersInv
<1> QED
  BY <1>5, <1>6

LEMMA EndRunKeepsInv ==
  ASSUME TimersInv, EndRun
  PROVE  TimersInv'
<1>1. /\ stage = "run" /\ places = <<>> /\ live' = [live EXCEPT ![at] = Swept]
      /\ finished' = [finished EXCEPT ![at] = FALSE]
      /\ Reschedule(at, timers[at], Swept) /\ AfterRun
      /\ UNCHANGED <<clock, timers, places, stop>>
  BY DEF EndRun, AllFired, SweepsTo
<1>2. PICK s \in Scripts : s = at
  BY <1>1 DEF TimersInv, RunInv, InRun
<1>3. Listed(timers[s], Swept) /\ TimersTypeOK
  BY <1>2, ScriptTypes, SweptList DEF TimersInv
<1>4. finished' \in [Scripts -> BOOLEAN]
  BY <1>1, <1>2, <1>3 DEF TimersTypeOK
<1> QED
  BY <1>1, <1>2, <1>3, <1>4, RescheduleKeepsInv

\* A stop that changes nothing else.
LEMMA StopKeepsInv ==
  ASSUME TimersInv, Stopped, UNCHANGED <<clock, timeVars, listVars>>
  PROVE  TimersInv'
<1>1. UNCHANGED <<clock, earliest, next, known, unheard, outdated, timers, live, finished>>
  BY DEF timeVars, listVars
<1>2. KeptTypeOK'
  BY <1>1 DEF TimersInv, TimersTypeOK, KeptTypeOK
<1>3. ASSUME NEW r \in Scripts PROVE EarlyAt(r)' /\ LooseAt(r)'
  BY <1>1 DEF Settled, EarlyAt, LooseAt, Doubled, Exact, TimersInv
<1> QED
  BY <1>2, <1>3, StoppedKeepsInv

LEMMA TornKept ==
  ASSUME TimersTypeOK, NEW s \in Scripts, NEW list, Listed(timers[s], list),
         live' = [live EXCEPT ![s] = list], finished' \in [Scripts -> BOOLEAN],
         NEW own \in 0 .. Infinity, known' = [known EXCEPT ![s] = own],
         outdated' \in {outdated, outdated \cup {s}},
         UNCHANGED <<clock, earliest, next, unheard, timers>>
  PROVE  /\ KeptTypeOK' /\ OthersSame(s)
         /\ timers'[s] = timers[s] /\ live'[s] = list /\ next'[s] = next[s] /\ known'[s] = own
<1>1. timers' = [timers EXCEPT ![s] = timers[s]] /\ Len(timers[s]) <= MaxTimers[s]
  BY DEF TimersTypeOK
<1>2. /\ timers' \in [Scripts -> Seq(Timer)] /\ live' \in [Scripts -> Seq(Nat)]
      /\ \A r \in Scripts : /\ Len(timers'[r]) <= MaxTimers[r]
                            /\ \A p \in DOMAIN live'[r] : live'[r][p] \in DOMAIN timers'[r]
      /\ timers'[s] = timers[s] /\ live'[s] = list
      /\ \A r \in Scripts \ {s} : timers'[r] = timers[r] /\ live'[r] = live[r]
  BY <1>1, ListTypes
<1>3. /\ known' \in [Scripts -> 0 .. Infinity] /\ known'[s] = own
      /\ \A r \in Scripts \ {s} : known'[r] = known[r]
  BY DEF TimersTypeOK
<1>4. KeptTypeOK'
  BY <1>2, <1>3 DEF TimersTypeOK, KeptTypeOK
<1>5. OthersSame(s)
  BY <1>2, <1>3 DEF OthersSame
<1> QED
  BY <1>2, <1>3, <1>4, <1>5

\* A stop leaves the list of a script half swept, or its time as it was.
LEMMA TornKeepsInv ==
  ASSUME TimersInv, NEW s \in Scripts, Stopped,
         NEW list, Listed(timers[s], list), Alive(timers[s], list) = Alive(timers[s], live[s]),
         live' = [live EXCEPT ![s] = list], finished' \in [Scripts -> BOOLEAN],
         \/ known' = known
         \/ known' = [known EXCEPT ![s] = Least(DueTimes(timers[s], live[s]))],
         outdated' \in {outdated, outdated \cup {s}},
         s \in outdated' \/ next[s] <= clock,
         UNCHANGED <<clock, earliest, next, unheard, timers>>
  PROVE  TimersInv'
<1> DEFINE T == DueTimes(timers[s], live[s])
<1>1. /\ TimersTypeOK /\ EarlyAt(s) /\ Listed(timers[s], live[s])
      /\ Len(timers[s]) <= MaxTimers[s]
      /\ next[s] \in 0 .. Infinity /\ known[s] \in 0 .. Infinity /\ earliest \in 0 .. Infinity
      /\ next[s] \in Nat /\ known[s] \in Nat /\ earliest \in Nat
  <2>1. TimersTypeOK /\ EarlyAt(s)
    BY DEF TimersInv
  <2> QED
    BY <2>1, ScriptTypes
<1>2. T \in SUBSET (0 .. Infinity) /\ Least(T) \in 0 .. Infinity /\ DueTimes(timers[s], list) = T
  <2>1. T \in SUBSET (0 .. Infinity) /\ Least(T) \in 0 .. Infinity
    BY <1>1, ListedFacts
  <2>2. DueTimes(timers[s], list) = T
    BY DEF DueTimes
  <2> QED
    BY <2>1, <2>2
<1>3. PICK own \in 0 .. Infinity : /\ known' = [known EXCEPT ![s] = own]
                                   /\ own = known[s] \/ own = Least(T)
  <2>1. CASE known' = known
    <3>1. known' = [known EXCEPT ![s] = known[s]]
      BY <1>1, <2>1 DEF TimersTypeOK
    <3> QED
      BY <1>1, <3>1
  <2>2. CASE known' = [known EXCEPT ![s] = Least(T)]
    BY <1>2, <2>2
  <2> QED
    BY <2>1, <2>2
<1> HIDE DEF T
<1>4. UNCHANGED <<clock, earliest, next, unheard, timers>>
  OBVIOUS
<1>5. /\ unheard' \in {unheard, unheard \cup {s}, unheard \ {s}}
      /\ outdated' \in {outdated, outdated \cup {s}, outdated \ {s}}
      /\ earliest' \in 0 .. Infinity /\ clock' = clock
  <2>1. unheard' = unheard
    OBVIOUS
  <2>2. earliest' = earliest /\ clock' = clock
    OBVIOUS
  <2> QED
    BY <1>1, <2>1, <2>2
<1>6. /\ KeptTypeOK' /\ OthersSame(s)
      /\ timers'[s] = timers[s] /\ live'[s] = list /\ next'[s] = next[s] /\ known'[s] = own
  BY <1>1, <1>3, <1>4, TornKept
<1>7. EarlyAt(s)'
  <2> SUFFICES ASSUME s \notin unheard
               PROVE  next[s] <= own /\ \A d \in T : own <= d
    BY <1>1, <1>2, <1>6 DEF EarlyAt
  <2>1. next[s] <= known[s] /\ \A d \in T : known[s] <= d
    BY <1>1 DEF EarlyAt, T
  <2>2. \A d \in T : next[s] <= d
    BY <1>1, <1>2, <2>1, TimesAreNat
  <2>3. next[s] <= Least(T)
    <3>1. CASE T = {}
      BY <1>1, <3>1, TimesAreNat DEF Least
    <3>2. CASE T # {}
      BY <1>2, <2>2, <3>2, LeastIs
    <3> QED
      BY <3>1, <3>2
  <2>4. CASE own = known[s]
    BY <2>1, <2>4
  <2>5. CASE own = Least(T)
    BY <1>2, <2>3, <2>5, LeastIs
  <2> QED
    BY <1>3, <2>4, <2>5
<1>8. LooseAt(s)'
  BY <1>6 DEF LooseAt, Settled
<1>9. earliest' <= earliest
  BY <1>1
<1>10. \A r \in Scripts : EarlyAt(r)' /\ LooseAt(r)'
  BY <1>5, <1>6, <1>7, <1>8, <1>9, OneScript
<1> QED
  BY <1>6, <1>10, StoppedKeepsInv

LEMMA SweepCutKeepsInv ==
  ASSUME TimersInv, SweepCut
  PROVE  TimersInv'
<1>1. /\ stage = "run" /\ Stopped /\ outdated' = outdated \cup {at}
      /\ UNCHANGED <<clock, earliest, next, known, unheard, timers, finished>>
  BY DEF SweepCut, AllFired
<1>2. PICK n \in DOMAIN live[at] : live' = [live EXCEPT ![at] = Moved(n)]
  BY DEF SweepCut
<1>3. PICK s \in Scripts : s = at
  BY <1>1 DEF TimersInv, RunInv, InRun
<1>4. Listed(timers[s], live[s]) /\ finished' \in [Scripts -> BOOLEAN]
  BY <1>1, ScriptTypes DEF TimersInv, TimersTypeOK
<1>5. n \in Nat /\ n <= Len(live[s])
  BY <1>2, <1>3, <1>4, ListedFacts
<1>6. Listed(timers[s], Moved(n)) /\ Alive(timers[s], Moved(n)) = Alive(timers[s], live[s])
  BY <1>3, <1>4, <1>5, MovedList
<1> QED
  BY <1>1, <1>2, <1>3, <1>4, <1>6, TornKeepsInv

LEMMA RescheduleCutKeepsInv ==
  ASSUME TimersInv, RescheduleCut
  PROVE  TimersInv'
<1>1. Stopped /\ UNCHANGED <<clock, earliest, next, unheard, timers>>
  BY DEF RescheduleCut, SweepsTo, listVars
<1>2. PICK s \in Scripts : s = at
  BY Entered DEF RescheduleCut, AllFired, TimersInv, RunInv, InRun
<1>3. \/ known' = known
      \/ known' = [known EXCEPT ![s] = Least(DueTimes(timers[s], live[s]))]
  BY <1>2 DEF RescheduleCut, Knows
<1>4. Listed(timers[s], live[s]) /\ TimersTypeOK
  BY ScriptTypes DEF TimersInv
<1>5. CASE AllFired /\ SweepsTo(Swept) /\ outdated' = outdated \cup {at}
  <2>1. live' = [live EXCEPT ![s] = Swept] /\ finished' \in [Scripts -> BOOLEAN]
        /\ outdated' = outdated \cup {s}
    BY <1>2, <1>4, <1>5 DEF SweepsTo, TimersTypeOK
  <2>2. Listed(timers[s], Swept) /\ Alive(timers[s], Swept) = Alive(timers[s], live[s])
    BY <1>2, <1>4, SweptList
  <2> QED
    BY <1>1, <1>2, <1>3, <2>1, <2>2, TornKeepsInv
<1>6. CASE Enters /\ DuePlaces = {} /\ UNCHANGED <<clock, listVars, outdated>>
  <2>1. live' = [live EXCEPT ![s] = live[s]] /\ finished' \in [Scripts -> BOOLEAN]
        /\ outdated' = outdated /\ next[s] <= clock
    BY <1>2, <1>4, <1>6 DEF listVars, TimersTypeOK, Enters
  <2> QED
    BY <1>1, <1>2, <1>3, <1>4, <2>1, TornKeepsInv
<1> QED
  BY <1>5, <1>6 DEF RescheduleCut

-----------------------------------------------------------------------------
(* runTimers fires a timer.                                                *)

\* What it fires next is due, or an interval that a half swept list has again.
LEMMA HeadDue ==
  ASSUME TimersInv, stage = "run", places # <<>>, NEW id, id = live[at][Head(places)]
  PROVE  /\ at \in Scripts /\ Listed(timers[at], live[at]) /\ clock \in Nat
         /\ Head(places) \in DOMAIN live[at]
         /\ id \in DOMAIN timers[at] /\ timers[at][id] \in Timer
         /\ ~timers[at][id].cancelled =>
              /\ id \in Alive(timers[at], live[at])
              /\ IF IsFirst(Head(places)) THEN timers[at][id].due <= clock
                                          ELSE timers[at][id].interval # Once /\ Doubled(at)
              /\ at \in unheard \cup outdated \/ Doubled(at) \/ next[at] <= clock
<1>1. TimersTypeOK /\ RunInv /\ PendingInv /\ InRun
  BY DEF TimersInv, InRun
<1>2. PICK s \in Scripts : s = at
  BY <1>1 DEF RunInv
<1>3. /\ Listed(timers[s], live[s]) /\ clock \in Nat /\ next[s] \in Nat /\ places \in Seq(Nat)
      /\ LooseAt(s)
  BY <1>1, ScriptTypes DEF TimersInv, TimersTypeOK
<1>4. PICK p : p = Head(places) /\ p = places[1] /\ 1 \in DOMAIN places
  BY <1>3, LenProperties, EmptySeq
<1>5. p \in DOMAIN live[s] /\ id = live[s][p]
  BY <1>1, <1>2, <1>4 DEF PendingInv
<1>6. /\ id \in DOMAIN timers[s] /\ timers[s][id] \in Timer
      /\ p \in Nat /\ DOMAIN live[s] = 1 .. Len(live[s]) /\ Len(live[s]) \in Nat
  BY <1>3, <1>5, ListedFacts
<1>7. ASSUME ~timers[s][id].cancelled
      PROVE  /\ id \in Alive(timers[s], live[s])
             /\ IF IsFirst(p) THEN timers[s][id].due <= clock
                              ELSE timers[s][id].interval # Once /\ Doubled(s)
             /\ s \in unheard \cup outdated \/ Doubled(s) \/ next[s] <= clock
  <2>1. id \in Alive(timers[s], live[s])
    BY <1>5, <1>7 DEF Alive
  <2>2. /\ IsFirst(places[1]) => Entry(places[1]).due <= clock
        /\ ~IsFirst(places[1]) =>
             \/ Entry(places[1]).interval # Once
             \/ \E m \in DOMAIN places : m < 1 /\ live[at][places[m]] = live[at][places[1]]
    BY <1>1, <1>2, <1>4, <1>5, <1>7 DEF PendingInv, Entry
  <2>3. \A m \in DOMAIN places : ~(m < 1)
    BY <1>3, LenProperties
  <2>4. IF IsFirst(p) THEN timers[s][id].due <= clock ELSE timers[s][id].interval # Once
    BY <1>2, <1>4, <1>5, <2>2, <2>3 DEF Entry
  <2>5. ~IsFirst(p) => Doubled(s)
    <3> SUFFICES ASSUME ~IsFirst(p) PROVE Doubled(s)
      OBVIOUS
    <3>1. PICK q \in 1 .. p - 1 : live[s][q] = live[s][p]
      BY <1>2, <1>5 DEF IsFirst, First
    <3>2. q \in DOMAIN live[s] /\ q < p
      BY <1>5, <1>6, <3>1
    <3> QED
      BY <1>5, <3>1, <3>2 DEF Doubled
  <2>6. s \in unheard \cup outdated \/ Doubled(s) \/ next[s] <= clock
    <3> SUFFICES ASSUME IsFirst(p), Exact(s) PROVE next[s] <= clock
      BY <1>3, <2>5 DEF LooseAt, Settled
    <3>1. timers[s][id].due \in DueTimes(timers[s], live[s])
      BY <2>1 DEF DueTimes
    <3>2. next[s] <= timers[s][id].due
      BY <1>3, <3>1, ListedFacts, LeastIs DEF Exact
    <3>3. timers[s][id].due \in Nat
      BY <1>6, TimerTypes
    <3> QED
      BY <1>3, <2>4, <3>2, <3>3
  <2> QED
    BY <2>1, <2>4, <2>5, <2>6
<1> QED
  BY <1>2, <1>3, <1>4, <1>5, <1>6, <1>7

\* The rest of what it has to fire, whatever became of the first.
LEMMA PendingTail ==
  ASSUME TimersInv, stage = "run", places # <<>>, places' = Tail(places),
         NEW id, id = live[at][Head(places)],
         \A i \in DOMAIN timers[at] \ {id} : timers'[at][i] = timers[at][i],
         timers'[at][id].cancelled \/ timers'[at][id].interval # Once,
         UNCHANGED <<clock, live, at>>
  PROVE  PendingInv'
<1>1. /\ PendingInv /\ InRun /\ at \in Scripts /\ Listed(timers[at], live[at])
      /\ places \in Seq(Nat)
  BY HeadDue DEF TimersInv, TimersTypeOK, InRun
<1>2. /\ DOMAIN places = 1 .. Len(places) /\ Len(places) \in Nat /\ Len(places) # 0
      /\ places' \in Seq(Nat) /\ Len(places') = Len(places) - 1
      /\ \A n \in 1 .. Len(places') : places'[n] = places[n + 1]
      /\ id = live[at][places[1]]
  BY <1>1, HeadTailProperties, LenProperties, EmptySeq
<1>3. DOMAIN places' = 1 .. Len(places) - 1 /\ 1 \in DOMAIN places
  BY <1>2, LenProperties
<1>4. /\ \A n \in DOMAIN places' : /\ n \in Nat /\ n + 1 \in DOMAIN places /\ n + 1 \in Nat
                                   /\ places'[n] = places[n + 1] /\ 1 < n + 1
      /\ \A m \in DOMAIN places \ {1} : m - 1 \in DOMAIN places' /\ places'[m - 1] = places[m]
      /\ \A m, n \in DOMAIN places' : m < n => m + 1 < n + 1
      /\ \A m \in DOMAIN places, n \in DOMAIN places' : m # 1 /\ m < n + 1 => m - 1 < n
  BY <1>2, <1>3
<1>5. \A p : IsFirst(p)' <=> IsFirst(p)
  BY DEF IsFirst, First
<1>6. ASSUME NEW p \in DOMAIN live[at], live[at][p] # id
      PROVE  Entry(p)' = Entry(p)
  BY <1>1, <1>6, ListedFacts DEF Entry
<1>7. \A p, q \in DOMAIN live[at] : live[at][p] # id /\ live[at][q] # id
                                      => (Before(p, q)' <=> Before(p, q))
  BY <1>6 DEF Before
<1>8. \A n \in DOMAIN places :
        /\ places[n] \in DOMAIN live[at]
        /\ ~Entry(places[n]).cancelled =>
             IF IsFirst(places[n])
             THEN Entry(places[n]).due <= clock
             ELSE \/ Entry(places[n]).interval # Once
                  \/ \E m \in DOMAIN places : m < n /\ live[at][places[m]] = live[at][places[n]]
  BY <1>1 DEF PendingInv
<1>9. \A m, n \in DOMAIN places : m < n =>
        /\ live[at][places[m]] = live[at][places[n]] => places[m] < places[n]
        /\ IsFirst(places[m]) /\ IsFirst(places[n])
           /\ ~Entry(places[m]).cancelled /\ ~Entry(places[n]).cancelled
             => Before(places[m], places[n])
  BY <1>1 DEF PendingInv
\* A later place of the same timer is not its first.
<1>10. ASSUME NEW n \in DOMAIN places, 1 < n, live[at][places[n]] = id
       PROVE  ~IsFirst(places[n])
  <2>1. places[1] < places[n]
    BY <1>2, <1>3, <1>9, <1>10
  <2>2. places[1] \in DOMAIN live[at] /\ places[n] \in DOMAIN live[at]
    BY <1>3, <1>8
  <2>3. places[1] \in 1 .. places[n] - 1
    BY <1>1, <2>1, <2>2, ListedFacts
  <2> QED
    BY <1>2, <1>10, <2>3 DEF IsFirst, First
<1>11. ASSUME NEW n \in DOMAIN places'
       PROVE  /\ places'[n] \in DOMAIN live'[at']
              /\ ~Entry(places[n])'.cancelled =>
                   IF IsFirst(places[n])'
                   THEN Entry(places[n])'.due <= clock'
                   ELSE \/ Entry(places[n])'.interval # Once
                        \/ \E m \in DOMAIN places' :
                             m < n /\ live'[at'][places'[m]] = live'[at'][places'[n]]
  <2>1. PICK k \in DOMAIN places : k = n + 1 /\ 1 < k
    BY <1>4
  <2>2. PICK p \in DOMAIN live[at] : p = places[k] /\ p = places'[n]
    BY <1>4, <1>8, <2>1
  <2>3. CASE live[at][p] = id
    <3>1. Entry(p)' = timers'[at][id]
      BY <2>3 DEF Entry
    <3>2. ~IsFirst(p)
      BY <1>10, <2>1, <2>2, <2>3
    <3>3. Entry(p)'.cancelled \/ Entry(p)'.interval # Once
      BY <3>1
    <3> QED
      BY <1>5, <2>2, <3>2, <3>3
  <2>4. CASE live[at][p] # id
    <3>1. Entry(p)' = Entry(p) /\ (IsFirst(p)' <=> IsFirst(p))
      BY <1>5, <1>6, <2>4
    <3>2. ASSUME NEW m \in DOMAIN places, m < k, live[at][places[m]] = live[at][p]
          PROVE  \E j \in DOMAIN places' : j < n /\ live'[at'][places'[j]] = live'[at'][p]
      <4>1. m # 1
        BY <1>2, <2>4, <3>2
      <4>2. m - 1 \in DOMAIN places' /\ places'[m - 1] = places[m] /\ m - 1 < n
        BY <1>4, <2>1, <3>2, <4>1
      <4> QED
        BY <3>2, <4>2
    <3>3. ~Entry(p).cancelled =>
            IF IsFirst(p) THEN Entry(p).due <= clock
            ELSE \/ Entry(p).interval # Once
                 \/ \E m \in DOMAIN places : m < k /\ live[at][places[m]] = live[at][p]
      BY <1>8, <2>2
    <3> QED
      BY <2>2, <3>1, <3>2, <3>3
  <2> QED
    BY <2>3, <2>4
<1>12. ASSUME NEW m \in DOMAIN places', NEW n \in DOMAIN places', m < n
       PROVE  /\ live'[at'][places'[m]] = live'[at'][places'[n]] => places'[m] < places'[n]
              /\ IsFirst(places[m])' /\ IsFirst(places[n])'
                 /\ ~Entry(places[m])'.cancelled /\ ~Entry(places[n])'.cancelled
                   => Before(places[m], places[n])'
  <2>1. PICK k \in DOMAIN places : k = m + 1 /\ 1 < k /\ places'[m] = places[k]
    BY <1>4
  <2>2. PICK l \in DOMAIN places : l = n + 1 /\ 1 < l /\ places'[n] = places[l]
    BY <1>4
  <2>3. k < l
    BY <1>4, <1>12, <2>1, <2>2
  <2>4. PICK p \in DOMAIN live[at] : p = places[k] /\ p = places'[m]
    BY <1>8, <2>1
  <2>5. PICK q \in DOMAIN live[at] : q = places[l] /\ q = places'[n]
    BY <1>8, <2>2
  <2>6. /\ live[at][p] = live[at][q] => p < q
        /\ IsFirst(p) /\ IsFirst(q) /\ ~Entry(p).cancelled /\ ~Entry(q).cancelled => Before(p, q)
    BY <1>9, <2>3, <2>4, <2>5
  <2>7. ASSUME IsFirst(p)', IsFirst(q)', ~Entry(p)'.cancelled, ~Entry(q)'.cancelled
        PROVE  Before(p, q)'
    <3>1. IsFirst(p) /\ IsFirst(q)
      BY <1>5, <2>7
    <3>2. live[at][p] # id /\ live[at][q] # id
      BY <1>10, <2>1, <2>2, <2>4, <2>5, <3>1
    <3>3. Entry(p)' = Entry(p) /\ Entry(q)' = Entry(q)
      BY <1>6, <3>2
    <3> QED
      BY <1>7, <2>6, <2>7, <3>1, <3>2, <3>3
  <2> QED
    BY <2>4, <2>5, <2>6, <2>7
<1> QED
  BY <1>11, <1>12 DEF PendingInv

\* The timers of one script change, none to an earlier time.
LEMMA FiredKept ==
  ASSUME TimersInv, NEW s \in Scripts, NEW ts, Listed(ts, live[s]), Len(ts) = Len(timers[s]),
         timers' = [timers EXCEPT ![s] = ts],
         \A d \in DueTimes(ts, live[s]) : \E e \in DueTimes(timers[s], live[s]) : e <= d,
         s \in unheard \cup outdated \/ Doubled(s) \/ next[s] <= clock,
         finished' \in [Scripts -> BOOLEAN],
         UNCHANGED <<clock, earliest, next, known, unheard, outdated, live>>
  PROVE  /\ KeptTypeOK'
         /\ \A r \in Scripts : EarlyAt(r)' /\ LooseAt(r)'
         /\ \A r \in Scripts \ {s} : Settled(r) => Settled(r)'
<1>1. TimersTypeOK /\ EarlyAt(s) /\ Len(ts) <= MaxTimers[s]
  BY ScriptTypes DEF TimersInv
<1>2. live' = [live EXCEPT ![s] = live[s]]
  BY <1>1 DEF TimersTypeOK
<1>3. /\ timers' \in [Scripts -> Seq(Timer)] /\ live' \in [Scripts -> Seq(Nat)]
      /\ \A r \in Scripts : /\ Len(timers'[r]) <= MaxTimers[r]
                            /\ \A p \in DOMAIN live'[r] : live'[r][p] \in DOMAIN timers'[r]
      /\ timers'[s] = ts
      /\ \A r \in Scripts \ {s} : timers'[r] = timers[r]
  BY <1>1, <1>2, ListTypes
<1>4. KeptTypeOK'
  BY <1>1, <1>3 DEF TimersTypeOK, KeptTypeOK
<1>5. OthersSame(s)
  BY <1>3 DEF OthersSame
<1>6. EarlyAt(s)'
  <2>1. \A d \in DueTimes(ts, live[s]) : d \in Nat
    BY ListedFacts, TimesAreNat
  <2>2. /\ Listed(timers[s], live[s]) /\ known[s] \in Nat
        /\ \A e \in DueTimes(timers[s], live[s]) : e \in Nat
    BY <1>1, ScriptTypes, ListedFacts, TimesAreNat
  <2>3. (\A e \in DueTimes(timers[s], live[s]) : known[s] <= e)
          => \A d \in DueTimes(ts, live[s]) : known[s] <= d
    BY <2>1, <2>2
  <2> QED
    BY <1>1, <1>3, <2>3 DEF EarlyAt
<1>7. LooseAt(s)'
  BY DEF LooseAt, Settled, Doubled
<1>8. clock' = clock /\ earliest' \in 0 .. Infinity /\ earliest' <= earliest
  BY <1>1, ScriptTypes
<1> QED
  BY <1>4, <1>5, <1>6, <1>7, <1>8, OneScript

LEMMA FireTimerKeepsInv ==
  ASSUME TimersInv, FireTimer
  PROVE  TimersInv'
<1> DEFINE head == live[at][Head(places)]
<1>1. PICK id : id = head
  OBVIOUS
<1> HIDE DEF head
<1>2. /\ stage = "run" /\ places # <<>> /\ places' = Tail(places)
      /\ UNCHANGED <<clock, earliest, next, known, unheard, outdated, live, at, stop>>
  BY DEF FireTimer, timeVars
<1>3. PICK s \in Scripts : s = at
  BY <1>1, <1>2, HeadDue DEF head
<1> DEFINE t == timers[s][id]
           before == DueTimes(timers[s], live[s])
<1>4. /\ Listed(timers[s], live[s]) /\ id \in DOMAIN timers[s] /\ t \in Timer
      /\ ~t.cancelled => /\ id \in Alive(timers[s], live[s])
                         /\ s \in unheard \cup outdated \/ Doubled(s) \/ next[s] <= clock
  BY <1>1, <1>2, <1>3, HeadDue DEF head
<1>5. TimersTypeOK /\ places \in Seq(Nat) /\ places' \in Seq(Nat)
  BY <1>2, HeadTailProperties DEF TimersInv, TimersTypeOK
<1>6. CASE t.cancelled
  <2>1. UNCHANGED <<timers, finished, stage>>
    BY <1>1, <1>3, <1>6 DEF FireTimer, head
  <2>2. PendingInv'
    BY <1>1, <1>2, <1>3, <1>6, <2>1, PendingTail DEF head
  <2>3. TimersTypeOK'
    BY <1>2, <1>5, <2>1 DEF TimersTypeOK
  <2>4. RunInv'
    BY <1>2, <1>3, <2>1 DEF RunInv, InRun
  <2>5. /\ \A r \in Scripts : EarlyAt(r)' /\ LooseAt(r)'
        /\ \A r \in Scripts : Settled(r) => Settled(r)'
    BY <1>2, <2>1 DEF EarlyAt, LooseAt, Settled, Doubled, Exact, TimersInv
  <2>6. SettledInv'
    BY <1>2, <2>1, <2>5 DEF SettledInv, TimersInv
  <2> QED
    BY <2>2, <2>3, <2>4, <2>5, <2>6 DEF TimersInv
<1>7. CASE ~t.cancelled
  <2>1. PICK ts : ts = IF t.interval = Once THEN Retired(timers[s], id)
                       ELSE [timers[s] EXCEPT ![id] = Later(t)]
    OBVIOUS
  <2>2. /\ timers' = [timers EXCEPT ![s] = ts]
        /\ finished' = [finished EXCEPT ![s] = @ \/ t.interval = Once]
        /\ stage' = "callback"
        /\ t.interval # Once => t.due + t.interval < Infinity
    BY <1>1, <1>3, <1>7, <2>1 DEF FireTimer, head
  <2>3. finished' \in [Scripts -> BOOLEAN] /\ timers'[s] = ts
    BY <1>5, <2>2 DEF TimersTypeOK
  <2>4. /\ Listed(ts, live[s]) /\ Len(ts) = Len(timers[s])
        /\ \A i \in DOMAIN timers[s] \ {id} : ts[i] = timers[s][i]
        /\ ts[id].cancelled \/ ts[id].interval # Once
        /\ \A d \in DueTimes(ts, live[s]) : \E e \in before : e <= d
    <3>0. \A d \in before : d \in Nat
      BY <1>4, ListedFacts, TimesAreNat
    <3>1. CASE t.interval = Once
      <4>1. ts = Retired(timers[s], id)
        BY <2>1, <3>1
      <4>2. /\ Listed(ts, live[s]) /\ Len(ts) = Len(timers[s])
            /\ \A i \in DOMAIN timers[s] \ {id} : ts[i] = timers[s][i]
            /\ ts[id].cancelled /\ DueTimes(ts, live[s]) \subseteq before
        BY <1>4, <4>1, MarkedTimer
      <4> HIDE DEF before
      <4>3. \A d \in DueTimes(ts, live[s]) : d \in before /\ d <= d
        BY <3>0, <4>2
      <4> QED
        BY <4>2, <4>3
    <3>2. CASE t.interval # Once
      <4>1. ts = [timers[s] EXCEPT ![id] = Later(timers[s][id])]
        BY <2>1, <3>2
      <4>2. /\ Listed(ts, live[s]) /\ Len(ts) = Len(timers[s])
            /\ \A i \in DOMAIN timers[s] \ {id} : ts[i] = timers[s][i]
            /\ ts[id].interval # Once /\ ts[id].due >= t.due
            /\ Alive(ts, live[s]) = Alive(timers[s], live[s])
        BY <1>4, <2>2, <3>2, <4>1, LaterTimer
      <4>3. ASSUME NEW d \in DueTimes(ts, live[s])
            PROVE  \E e \in before : e <= d
        <5>1. PICK i \in Alive(timers[s], live[s]) : d = ts[i].due
          BY <4>2 DEF DueTimes
        <5>2. i \in DOMAIN timers[s] /\ timers[s][i].due \in before
          BY <1>4, <5>1, ListedFacts DEF DueTimes
        <5>3. timers[s][i].due <= ts[i].due
          <6>1. CASE i = id
            <7>1. ts[id].due \in Nat /\ t.due \in Nat
              BY <1>4, <4>2, ListedFacts, TimerTypes
            <7> QED
              BY <4>2, <6>1, <7>1
          <6>2. CASE i # id
            <7>1. ts[i].due = timers[s][i].due
              BY <4>2, <5>2, <6>2
            <7> QED
              BY <3>0, <5>2, <7>1
          <6> QED
            BY <6>1, <6>2
        <5> QED
          BY <5>1, <5>2, <5>3
      <4> QED
        BY <4>2, <4>3
    <3> QED
      BY <3>1, <3>2
  <2>5. s \in unheard \cup outdated \/ Doubled(s) \/ next[s] <= clock
    BY <1>4, <1>7
  <2>6. /\ KeptTypeOK'
        /\ \A r \in Scripts : EarlyAt(r)' /\ LooseAt(r)'
        /\ \A r \in Scripts \ {s} : Settled(r) => Settled(r)'
    BY <1>2, <2>2, <2>3, <2>4, <2>5, FiredKept
  <2>7. PendingInv'
    <3>1. /\ \A i \in DOMAIN timers[at] \ {id} : timers'[at][i] = timers[at][i]
          /\ timers'[at][id].cancelled \/ timers'[at][id].interval # Once
      BY <1>3, <2>3, <2>4
    <3>2. id = live[at][Head(places)]
      BY <1>1 DEF head
    <3> QED
      BY <1>2, <3>1, <3>2, PendingTail
  <2>8. TimersTypeOK'
    BY <1>2, <1>5, <2>2, <2>6 DEF TimersTypeOK, KeptTypeOK
  <2>9. RunInv'
    BY <1>2, <1>3, <2>2 DEF RunInv, InRun
  <2>10. SettledInv'
    <3> SUFFICES ASSUME ~stop, NEW r \in Scripts, r < at PROVE Settled(r)'
      BY <1>2, <2>2 DEF SettledInv
    <3>1. Settled(r) /\ r # s
      BY <1>2, <1>3 DEF SettledInv, TimersInv, Scripts
    <3> QED
      BY <2>6, <3>1
  <2> QED
    BY <2>6, <2>7, <2>8, <2>9, <2>10 DEF TimersInv
<1> QED
  BY <1>6, <1>7

LEMMA FireCutKeepsInv ==
  ASSUME TimersInv, FireCut
  PROVE  TimersInv'
<1> DEFINE head == live[at][Head(places)]
<1>1. PICK id : id = head
  OBVIOUS
<1> HIDE DEF head
<1>2. /\ stage = "run" /\ places # <<>> /\ Stopped
      /\ UNCHANGED <<clock, earliest, next, known, unheard, outdated, live, finished>>
  BY DEF FireCut, timeVars
<1>3. PICK s \in Scripts : s = at
  BY <1>1, <1>2, HeadDue DEF head
<1>4. ~timers[s][id].cancelled
  BY <1>1, <1>3 DEF FireCut, Entry, head
<1>5. /\ Listed(timers[s], live[s]) /\ id \in DOMAIN timers[s]
      /\ s \in unheard \cup outdated \/ Doubled(s) \/ next[s] <= clock
  BY <1>1, <1>2, <1>3, <1>4, HeadDue DEF head
<1>6. PICK ts : ts = Marked(timers[s], id)
  OBVIOUS
<1>7. timers' = [timers EXCEPT ![s] = ts]
  BY <1>1, <1>3, <1>6 DEF FireCut, head
<1>8. /\ Listed(ts, live[s]) /\ Len(ts) = Len(timers[s])
      /\ DueTimes(ts, live[s]) \subseteq DueTimes(timers[s], live[s])
  BY <1>5, <1>6, MarkedTimer
<1>9. \A d \in DueTimes(ts, live[s]) : \E e \in DueTimes(timers[s], live[s]) : e <= d
  <2>1. \A d \in DueTimes(ts, live[s]) : d \in Nat /\ d <= d
    BY <1>8, ListedFacts, TimesAreNat
  <2> QED
    BY <1>8, <2>1
<1>10. finished' \in [Scripts -> BOOLEAN]
  BY <1>2 DEF TimersInv, TimersTypeOK
<1>11. KeptTypeOK' /\ \A r \in Scripts : EarlyAt(r)' /\ LooseAt(r)'
  BY <1>2, <1>5, <1>7, <1>8, <1>9, <1>10, FiredKept
<1> QED
  BY <1>2, <1>11, StoppedKeepsInv

\* A callback ends, a call of runTimers is stopped, or a stop is asked for.
LEMMA StagesKeepInv ==
  ASSUME TimersInv, RunCut \/ CallbackEnds \/ CallbackStopped \/ AskToStop
  PROVE  TimersInv'
<1>1. CASE RunCut \/ CallbackStopped
  BY <1>1, StopKeepsInv DEF RunCut, CallbackStopped
<1>2. CASE CallbackEnds \/ AskToStop
  <2>1. /\ \/ stage = "callback" /\ stage' = "run" /\ stop' = stop
           \/ stage # "idle" /\ stage' = stage /\ stop' = TRUE
        /\ UNCHANGED <<clock, earliest, next, known, unheard, outdated, timers, live, finished,
                       at, places>>
    BY <1>2 DEF CallbackEnds, AskToStop, timeVars, listVars, runVars
  <2>2. TimersTypeOK' /\ RunInv'
    BY <2>1 DEF TimersInv, TimersTypeOK, RunInv, InRun
  <2>3. InRun' => InRun
    BY <2>1 DEF InRun
  <2>4. \A p, q : /\ Entry(p)' = Entry(p)
                  /\ (IsFirst(p)' <=> IsFirst(p)) /\ (Before(p, q)' <=> Before(p, q))
    BY <2>1 DEF Entry, IsFirst, First, Before
  <2>5. PendingInv'
    BY <2>1, <2>3, <2>4 DEF TimersInv, PendingInv
  <2>6. /\ \A r \in Scripts : EarlyAt(r)' /\ LooseAt(r)'
        /\ \A r \in Scripts : Settled(r) => Settled(r)'
    BY <2>1 DEF EarlyAt, LooseAt, Settled, Doubled, Exact, TimersInv
  <2>7. SettledInv'
    BY <2>1, <2>6 DEF SettledInv, TimersInv
  <2> QED
    BY <2>2, <2>5, <2>6, <2>7 DEF TimersInv
<1> QED
  BY <1>1, <1>2

\* After the loop over the scripts, the engine's time is the least of theirs.
LEMMA EndAdvanceKeepsInv ==
  ASSUME TimersInv, EndAdvance
  PROVE  TimersInv'
<1> DEFINE times == {next[s] : s \in Scripts}
<1>1. /\ stage = "scripts" /\ at = NumScripts + 1 /\ earliest' = Least(times)
      /\ stage' = "idle" /\ at' = 1
      /\ UNCHANGED <<clock, next, known, unheard, outdated, timers, live, finished, places, stop>>
  BY DEF EndAdvance, listVars
<1>2. TimersTypeOK /\ places = <<>>
  BY <1>1 DEF TimersInv, RunInv, InRun
<1>3. times \in SUBSET (0 .. Infinity)
  BY <1>2 DEF TimersTypeOK
<1>4. earliest' \in 0 .. Infinity /\ \A t \in times : earliest' <= t
  BY <1>1, <1>3, LeastIs
<1>5. \A s \in Scripts : earliest' <= next[s]
  BY <1>4
<1> HIDE DEF times
<1>6. at' \in 1 .. NumScripts + 1
  BY <1>1, TimersAssumption
<1>7. TimersTypeOK'
  BY <1>1, <1>2, <1>4, <1>6 DEF TimersTypeOK
<1>8. RunInv' /\ PendingInv'
  BY <1>1, <1>2 DEF RunInv, PendingInv, InRun
<1>9. /\ \A r \in Scripts : EarlyAt(r)' /\ LooseAt(r)'
      /\ \A r \in Scripts : Settled(r) => Settled(r)'
  BY <1>1, <1>5 DEF EarlyAt, LooseAt, Settled, Doubled, Exact, TimersInv
<1>10. SettledInv'
  <2>1. \A r \in Scripts : r < at
    BY <1>1, TimersAssumption DEF Scripts
  <2> QED
    BY <1>1, <1>9, <2>1 DEF SettledInv, TimersInv
<1> QED
  BY <1>7, <1>8, <1>9, <1>10 DEF TimersInv

LEMMA InitTimers == TimersInit => TimersInv
<1> SUFFICES ASSUME TimersInit PROVE TimersInv
  OBVIOUS
<1> USE DEF TimersInit
<1>1. TimersTypeOK
  <2>1. 1 \in 1 .. NumScripts + 1 /\ 0 \in 0 .. MaxClock /\ \A s \in Scripts : 0 <= MaxTimers[s]
    BY TimersAssumption
  <2>2. /\ \A s \in Scripts : timers[s] = <<>> /\ live[s] = <<>>
        /\ Len(<<>>) = 0 /\ DOMAIN <<>> = {}
    OBVIOUS
  <2>3. \A s \in Scripts : /\ Len(timers[s]) <= MaxTimers[s]
                           /\ \A p \in DOMAIN live[s] : live[s][p] \in DOMAIN timers[s]
    BY <2>1, <2>2
  <2>4. <<>> \in Seq(Timer) /\ <<>> \in Seq(Nat) /\ Infinity \in 0 .. Infinity
    BY EmptySeq, TimesAreNat
  <2> HIDE DEF TimersInit
  <2>5. /\ clock = 0 /\ earliest = Infinity /\ stage = "idle" /\ at = 1 /\ places = <<>>
        /\ stop = FALSE /\ unheard = {} /\ outdated = {}
    BY DEF TimersInit
  <2>6. /\ next \in [Scripts -> 0 .. Infinity] /\ known \in [Scripts -> 0 .. Infinity]
        /\ timers \in [Scripts -> Seq(Timer)] /\ live \in [Scripts -> Seq(Nat)]
        /\ finished \in [Scripts -> BOOLEAN]
    BY <2>4 DEF TimersInit
  <2> QED
    BY <2>1, <2>3, <2>4, <2>5, <2>6 DEF TimersTypeOK
<1>2. RunInv /\ PendingInv
  BY DEF RunInv, PendingInv, InRun
<1>3. ASSUME NEW s \in Scripts
      PROVE  EarlyAt(s) /\ Exact(s)
  <2>1. timers[s] = <<>> /\ live[s] = <<>> /\ next[s] = Infinity /\ known[s] = Infinity
        /\ earliest = Infinity
    OBVIOUS
  <2>2. DueTimes(timers[s], live[s]) = {}
    BY <2>1, NothingListed
  <2>3. Infinity <= Infinity
    BY DEF Infinity
  <2> QED
    BY <2>1, <2>2, <2>3 DEF EarlyAt, Exact, Least
<1>4. \A s \in Scripts : EarlyAt(s) /\ Settled(s)
  BY <1>3 DEF Settled
<1> QED
  BY <1>1, <1>2, <1>4 DEF TimersInv, SettledInv, LooseAt

\* A timer that a script asks for.
LEMMA NewTimer ==
  ASSUME TimersInv, NEW delay \in Delays, NEW repeats \in BOOLEAN
  PROVE  New(delay, repeats) \in Timer /\ ~New(delay, repeats).cancelled
<1>1. clock + delay \in Times
  <2>1. clock \in 0 .. MaxClock
    BY DEF TimersInv, TimersTypeOK
  <2>2. MaxClock \in Nat /\ delay \in Nat /\ MaxClock + delay < Infinity
    BY TimersAssumption
  <2> QED
    BY <2>1, <2>2 DEF Times, Infinity
<1> QED
  BY <1>1 DEF New, Timer

LEMMA NextTimers == TimersInv /\ [TimersNext]_timersVars => TimersInv'
<1> SUFFICES ASSUME TimersInv, [TimersNext]_timersVars PROVE TimersInv'
  OBVIOUS
<1>1. ASSUME NEW s \in Scripts, ScriptStep(s) PROVE TimersInv'
  <2>1. ASSUME NEW delay \in Delays, NEW repeats \in BOOLEAN,
               AddTimer(s, New(delay, repeats)) \/ AddCut(s, New(delay, repeats))
        PROVE  TimersInv'
    BY <2>1, NewTimer, AddKeepsInv
  <2>2. ASSUME NEW id \in DOMAIN timers[s], ClearTimer(s, id) \/ ClearCut(s, id)
        PROVE  TimersInv'
    BY <2>2, ClearKeepsInv
  <2> QED
    BY <1>1, <2>1, <2>2, ReloadKeepsInv DEF ScriptStep
<1>2. CASE Advance
  BY <1>2, AdvanceKeepsInv
<1>3. CASE SkipScript
  BY <1>3, SkipScriptKeepsInv
<1>4. CASE Run
  BY <1>4, BeginRunKeepsInv, FireTimerKeepsInv, FireCutKeepsInv, StagesKeepInv, EndRunKeepsInv,
     SweepCutKeepsInv, RescheduleCutKeepsInv DEF Run
<1>5. CASE AskToStop
  BY <1>5, StagesKeepInv
<1>6. CASE EndAdvance
  BY <1>6, EndAdvanceKeepsInv
<1>7. CASE UNCHANGED timersVars
  <2>1. UNCHANGED <<clock, earliest, next, known, unheard, outdated, timers, live, finished,
                    stage, at, places, stop>>
    BY <1>7 DEF timersVars, timeVars, listVars, runVars
  <2>2. TimersTypeOK' /\ RunInv'
    BY <2>1 DEF TimersInv, TimersTypeOK, RunInv, InRun
  <2>3. \A p, q : /\ Entry(p)' = Entry(p)
                  /\ (IsFirst(p)' <=> IsFirst(p)) /\ (Before(p, q)' <=> Before(p, q))
    BY <2>1 DEF Entry, IsFirst, First, Before
  <2>4. PendingInv'
    BY <2>1, <2>3 DEF TimersInv, PendingInv, InRun
  <2>5. /\ \A r \in Scripts : EarlyAt(r)' /\ LooseAt(r)'
        /\ \A r \in Scripts : Settled(r) => Settled(r)'
    BY <2>1 DEF EarlyAt, LooseAt, Settled, Doubled, Exact, TimersInv
  <2>6. SettledInv'
    BY <2>1, <2>5 DEF SettledInv, TimersInv
  <2> QED
    BY <2>2, <2>4, <2>5, <2>6 DEF TimersInv
<1> QED
  BY <1>1, <1>2, <1>3, <1>4, <1>5, <1>6, <1>7 DEF TimersNext

LEMMA TimersInvariant == TimersSpec => []TimersInv
BY InitTimers, NextTimers, PTL DEF TimersSpec

\* The timers of every script, its list of them, the times kept and the run in progress keep
\* their types wherever stops cut addTimer, clearTimer and runTimers short: a list, half
\* swept ones included, names timers of its version.
THEOREM TimersTypeCorrect == TimersSpec => []TimersTypeOK
<1>1. TimersInv => TimersTypeOK
  BY DEF TimersInv
<1> QED
  BY <1>1, TimersInvariant, PTL

\* The engine's time is no later than a script's, and that no later than its live timers:
\* the comparison that lets advance_timers return at once, or pass a script over, passes no
\* timer due, whatever callbacks add and clear and wherever stops fall into runs and clears.
\* Only a script that was stopped in addTimer, before schedule, may have a timer passed.
THEOREM EarliestIsEarlyHolds == TimersSpec => []EarliestIsEarly
<1>1. TimersInv => EarliestIsEarly
  <2> SUFFICES ASSUME TimersInv, NEW s \in Scripts
               PROVE  /\ earliest <= next[s]
                      /\ s \in unheard \/ \A due \in DueTimes(timers[s], live[s]) : next[s] <= due
    BY DEF EarliestIsEarly
  <2>1. TimersTypeOK /\ EarlyAt(s)
    BY DEF TimersInv
  <2>2. next[s] \in Nat /\ known[s] \in Nat /\ \A due \in DueTimes(timers[s], live[s]) : due \in Nat
    BY <2>1, ScriptTypes, ListedFacts, TimesAreNat
  <2> QED
    BY <2>1, <2>2 DEF EarlyAt
<1> QED
  BY <1>1, TimersInvariant, PTL

\* After a call of advance_timers that was not stopped, every script reports exactly when
\* its next timer is due: `reschedule` undid what callbacks left behind, also of a call that
\* was stopped before in a callback or between two timers.  Not exact is only a script that
\* was stopped in addTimer, clearTimer or the sweep, and that no run has put right since.
THEOREM NextIsExactHolds == TimersSpec => []NextIsExact
<1>1. TimersInv => NextIsExact
  BY DEF TimersInv, SettledInv, Settled, Exact, NextIsExact
<1> QED
  BY <1>1, TimersInvariant, PTL

-----------------------------------------------------------------------------
(* The timers of all scripts are the timers of the service.                *)

LEMMA TimerIs ==
  ASSUME NEW s, NEW ts, NEW id
  PROVE  /\ AsTimer(s, ts, id).script = s /\ AsTimer(s, ts, id).id = id
         /\ AsTimer(s, ts, id).due = ts[id].due
         /\ AsTimer(s, ts, id).interval = ts[id].interval
BY DEF AsTimer

\* A timer of the service is one of a script.
LEMMA ServiceTimerIs ==
  ASSUME NEW t \in ServiceTimers
  PROVE  /\ t.script \in Scripts /\ t.id \in Alive(timers[t.script], live[t.script])
         /\ t = AsTimer(t.script, timers[t.script], t.id)
         /\ t.due = timers[t.script][t.id].due
<1>1. PICK s \in Scripts : t \in TimersOf(s, timers[s], live[s])
  BY DEF ServiceTimers
<1>2. PICK id \in Alive(timers[s], live[s]) : t = AsTimer(s, timers[s], id)
  BY <1>1 DEF TimersOf
<1>3. t.script = s /\ t.id = id /\ t.due = timers[s][id].due
  BY <1>2, TimerIs
<1> QED
  BY <1>2, <1>3

LEMMA ServiceTimerOf ==
  ASSUME NEW s \in Scripts, NEW id \in Alive(timers[s], live[s])
  PROVE  AsTimer(s, timers[s], id) \in ServiceTimers
BY DEF ServiceTimers, TimersOf

\* What a step does to the timers of one script, it does to those of the service.
LEMMA ServiceTimersNext ==
  ASSUME NEW s \in Scripts,
         \A r \in Scripts \ {s} : timers'[r] = timers[r] /\ live'[r] = live[r]
  PROVE  LET others == {t \in ServiceTimers : t.script # s}
         IN  /\ ServiceTimers = others \cup TimersOf(s, timers[s], live[s])
             /\ ServiceTimers' = others \cup TimersOf(s, timers'[s], live'[s])
             /\ \A t \in TimersOf(s, timers[s], live[s]) : t.script = s
             /\ \A t \in TimersOf(s, timers'[s], live'[s]) : t.script = s
<1> DEFINE others == {t \in ServiceTimers : t.script # s}
<1>1. \A r \in Scripts : \A t \in TimersOf(r, timers[r], live[r]) : t.script = r
  BY TimerIs DEF TimersOf
<1>2. \A r \in Scripts : \A t \in TimersOf(r, timers'[r], live'[r]) : t.script = r
  BY TimerIs DEF TimersOf
<1>3. ServiceTimers' = UNION {TimersOf(r, timers'[r], live'[r]) : r \in Scripts}
  BY DEF ServiceTimers
<1>4. ASSUME NEW t \in ServiceTimers'
      PROVE  t \in others \cup TimersOf(s, timers'[s], live'[s])
  <2>1. PICK r \in Scripts : t \in TimersOf(r, timers'[r], live'[r])
    BY <1>3
  <2>2. CASE r = s
    BY <2>1, <2>2
  <2>3. CASE r # s
    <3>1. t \in TimersOf(r, timers[r], live[r]) /\ t.script = r
      BY <1>2, <2>1, <2>3
    <3> QED
      BY <2>3, <3>1 DEF ServiceTimers
  <2> QED
    BY <2>2, <2>3
<1>5. ASSUME NEW t \in others \cup TimersOf(s, timers'[s], live'[s])
      PROVE  t \in ServiceTimers'
  <2>1. CASE t \in TimersOf(s, timers'[s], live'[s])
    BY <1>3, <2>1
  <2>2. CASE t \in ServiceTimers /\ t.script # s
    <3>1. PICK r \in Scripts : t \in TimersOf(r, timers[r], live[r])
      BY <2>2 DEF ServiceTimers
    <3>2. r # s
      BY <1>1, <2>2, <3>1
    <3>3. t \in TimersOf(r, timers'[r], live'[r])
      BY <3>1, <3>2
    <3> QED
      BY <1>3, <3>3
  <2> QED
    BY <1>5, <2>1, <2>2
<1>6. ServiceTimers = others \cup TimersOf(s, timers[s], live[s])
  <2>1. ASSUME NEW t \in ServiceTimers, t.script = s PROVE t \in TimersOf(s, timers[s], live[s])
    BY <2>1, ServiceTimerIs DEF TimersOf
  <2>2. TimersOf(s, timers[s], live[s]) \subseteq ServiceTimers
    BY DEF ServiceTimers
  <2> QED
    BY <2>1, <2>2
<1>7. ServiceTimers' = others \cup TimersOf(s, timers'[s], live'[s])
  BY <1>4, <1>5
<1> QED
  BY <1>1, <1>2, <1>6, <1>7

\* The timers of a script when one is added, when one is gone, when one is set again.
LEMMA OfAdded ==
  ASSUME NEW s, NEW ts, NEW list, NEW new, NEW with, NEW longer,
         Alive(with, longer) = Alive(ts, list) \cup {new},
         \A id \in Alive(ts, list) : with[id] = ts[id]
  PROVE  TimersOf(s, with, longer) = TimersOf(s, ts, list) \cup {AsTimer(s, with, new)}
<1>1. \A id \in Alive(ts, list) : AsTimer(s, with, id) = AsTimer(s, ts, id)
  BY DEF AsTimer
<1> QED
  BY <1>1 DEF TimersOf

LEMMA OfGone ==
  ASSUME NEW s, NEW ts, NEW list, NEW gone, NEW without,
         Alive(without, list) = Alive(ts, list) \ {gone},
         \A id \in Alive(ts, list) \ {gone} : without[id] = ts[id]
  PROVE  IF gone \in Alive(ts, list)
         THEN TimersOf(s, without, list) = TimersOf(s, ts, list) \ {AsTimer(s, ts, gone)}
         ELSE TimersOf(s, without, list) = TimersOf(s, ts, list)
<1>1. \A id \in Alive(without, list) : AsTimer(s, without, id) = AsTimer(s, ts, id)
  BY DEF AsTimer
<1>2. \A id \in Alive(without, list) : AsTimer(s, ts, id) # AsTimer(s, ts, gone)
  BY TimerIs
<1> QED
  BY <1>1, <1>2 DEF TimersOf

LEMMA OfAgain ==
  ASSUME NEW s, NEW ts, NEW list, NEW again \in Alive(ts, list), NEW after,
         Alive(after, list) = Alive(ts, list),
         \A id \in Alive(ts, list) \ {again} : after[id] = ts[id]
  PROVE  TimersOf(s, after, list) = (TimersOf(s, ts, list) \ {AsTimer(s, ts, again)})
                                       \cup {AsTimer(s, after, again)}
<1>1. \A id \in Alive(ts, list) \ {again} : AsTimer(s, after, id) = AsTimer(s, ts, id)
  BY DEF AsTimer
<1>2. \A id \in Alive(ts, list) \ {again} : AsTimer(s, ts, id) # AsTimer(s, ts, again)
  BY TimerIs
<1> QED
  BY <1>1, <1>2 DEF TimersOf

\* Another list of the same timers.
LEMMA OfListed ==
  ASSUME NEW s \in Scripts, timers' = timers,
         \A r \in Scripts \ {s} : live'[r] = live[r],
         Alive(timers[s], live'[s]) = Alive(timers[s], live[s])
  PROVE  ServiceTimers' = ServiceTimers
<1>1. TimersOf(s, timers'[s], live'[s]) = TimersOf(s, timers[s], live[s])
  BY DEF TimersOf
<1> QED
  BY <1>1, ServiceTimersNext

\* Which scripts have a timer twice.
LEMMA DoubledSame ==
  ASSUME live' = live
  PROVE  DoubledScripts' = DoubledScripts
BY DEF DoubledScripts, Doubled

LEMMA DoubledOthers ==
  ASSUME NEW s \in Scripts, \A r \in Scripts \ {s} : live'[r] = live[r]
  PROVE  \A r \in Scripts \ {s} : r \in DoubledScripts' <=> r \in DoubledScripts
BY DEF DoubledScripts, Doubled

-----------------------------------------------------------------------------
(* What is still to fire.                                                  *)

LEMMA DueIs == /\ ServiceDue \subseteq ServiceTimers
               /\ stage = "idle" => ServiceDue = {}
               /\ stage' = "idle" => ServiceDue' = {}
BY DEF ServiceDue, StillToFire, InRun, ToEnter

\* What a step keeps of it.
LEMMA SameDue ==
  ASSUME ServiceTimers' = ServiceTimers,
         \A t \in ServiceTimers : StillToFire(t)' <=> StillToFire(t)
  PROVE  ServiceDue' = ServiceDue
BY DEF ServiceDue

\* Nothing, after a stop.
LEMMA StoppedDue ==
  ASSUME stage' = "scripts", at' = NumScripts + 1
  PROVE  ServiceDue' = {}
<1>1. ServiceTimers' = UNION {TimersOf(r, timers'[r], live'[r]) : r \in Scripts}
  BY DEF ServiceTimers
<1>2. ASSUME NEW t \in ServiceTimers' PROVE ~StillToFire(t)'
  <2>1. t.script \in Scripts
    BY <1>1, TimerIs DEF TimersOf
  <2>2. ~(t.script >= NumScripts + 1)
    BY <2>1, TimersAssumption DEF Scripts
  <2> QED
    BY <2>2 DEF StillToFire, InRun, ToEnter
<1> QED
  BY <1>2 DEF ServiceDue

\* A stop ends a call.
LEMMA StoppedIsStop ==
  ASSUME NEW s, stage # "idle", stage' = "scripts", at' = NumScripts + 1, stop' = TRUE,
         clock' = clock, ServiceTimers' = ServiceTimers, unheard' \subseteq unheard,
         \A r \in DoubledScripts' \ DoubledScripts : r = s
  PROVE  Service!SNext
<1>1. ServiceDue' = {}
  BY StoppedDue
<1>2. \A r, q \in DoubledScripts' \ DoubledScripts : r = q
  OBVIOUS
<1>3. Service!Stop
  BY <1>1, <1>2 DEF Service!Stop
<1> QED
  BY <1>3 DEF Service!SNext

\* Code of a script leaves what is still to fire.
LEMMA DueKept ==
  ASSUME TimersInv, NEW s \in Scripts, Runs(s), UNCHANGED <<clock, stage, at, places>>,
         \A r \in Scripts \ {s} : next'[r] = next[r],
         \A p \in DOMAIN live[s] : live'[s][p] = live[s][p]
  PROVE  \A t : t.script \in Scripts => (StillToFire(t)' <=> StillToFire(t))
<1>1. CASE stage = "idle"
  BY <1>1 DEF StillToFire, InRun, ToEnter
<1>2. CASE stage = "callback" /\ s = at
  <2>1. \A n \in DOMAIN places : places[n] \in DOMAIN live[s]
    BY <1>2 DEF TimersInv, PendingInv, InRun
  <2>2. DOMAIN live[s] = 1 .. Len(live[s]) /\ Len(live[s]) \in Nat /\ at \in Nat
    BY ScriptTypes, ListedFacts DEF TimersInv
  <2>3. ASSUME NEW id, NEW p \in DOMAIN live[s] PROVE First(id, p)' <=> First(id, p)
    <3>1. \A q \in 1 .. p - 1 : q \in DOMAIN live[s] /\ live'[at'][q] = live[at][q]
      BY <1>2, <2>2
    <3> QED
      BY <1>2, <3>1 DEF First
  <2>4. \A id : (\E n \in DOMAIN places' : First(id, places[n])')
                   <=> \E n \in DOMAIN places : First(id, places[n])
    <3>1. \A id : \A n \in DOMAIN places : First(id, places[n])' <=> First(id, places[n])
      <4> SUFFICES ASSUME NEW id, NEW n \in DOMAIN places
                   PROVE  First(id, places[n])' <=> First(id, places[n])
        OBVIOUS
      <4>1. PICK p \in DOMAIN live[s] : p = places[n]
        BY <2>1
      <4>2. places'[n] = p
        BY <4>1
      <4> QED
        BY <2>3, <4>1, <4>2
    <3> QED
      BY <3>1
  <2>5. \A r \in Scripts : r > at => next'[r] = next[r]
    BY <1>2, <2>2
  <2> QED
    BY <1>2, <2>4, <2>5 DEF StillToFire, InRun, ToEnter
<1> QED
  BY <1>1, <1>2 DEF Runs

-----------------------------------------------------------------------------
(* Every step is one of the service, or changes nothing of it.             *)

LEMMA AddIsAdd ==
  ASSUME TimersInv, NEW s \in Scripts, NEW delay \in Delays, NEW t \in Timer, ~t.cancelled,
         t.interval \in {delay, Once}, t.due = clock + delay,
         AddTimer(s, t) \/ AddCut(s, t)
  PROVE  Service!SNext
<1>1. PICK ts : ts = Append(timers[s], t)
  OBVIOUS
<1>2. PICK list : list = Append(live[s], Len(timers[s]) + 1)
  OBVIOUS
<1>3. PICK new : new = Len(timers[s]) + 1
  OBVIOUS
<1>4. PICK u : u = AsTimer(s, ts, new)
  OBVIOUS
<1>5. /\ Runs(s) /\ timers' = [timers EXCEPT ![s] = ts] /\ live' = [live EXCEPT ![s] = list]
      /\ clock' = clock
  BY <1>1, <1>2 DEF AddTimer, AddCut, Creates
<1>6. TimersTypeOK /\ Listed(timers[s], live[s])
  BY ScriptTypes DEF TimersInv
<1>7. /\ timers'[s] = ts /\ live'[s] = list
      /\ \A r \in Scripts \ {s} : timers'[r] = timers[r] /\ live'[r] = live[r]
  BY <1>5, <1>6 DEF TimersTypeOK
<1>8. /\ new \notin DOMAIN timers[s] /\ ts[new] = t
      /\ \A id \in DOMAIN timers[s] : ts[id] = timers[s][id]
      /\ list[Len(live[s]) + 1] = new
      /\ DOMAIN list = DOMAIN live[s] \cup {Len(live[s]) + 1}
      /\ \A p \in DOMAIN live[s] : list[p] = live[s][p]
      /\ Alive(ts, list) = Alive(timers[s], live[s]) \cup {new}
  <2>1. Longer(timers[s], live[s], t, ts, list)
    BY <1>1, <1>2, <1>6, AddedTimer
  <2> QED
    BY <1>3, <2>1 DEF Longer
<1>9. \A id \in Alive(timers[s], live[s]) : id \in DOMAIN timers[s] /\ ts[id] = timers[s][id]
  BY <1>6, <1>8, ListedFacts
<1>10. TimersOf(s, ts, list) = TimersOf(s, timers[s], live[s]) \cup {u}
  BY <1>4, <1>8, <1>9, OfAdded
<1>11. ServiceTimers' = ServiceTimers \cup {u}
  BY <1>7, <1>10, ServiceTimersNext
<1>12. u.script = s /\ u.id = new /\ u.due = t.due /\ u.interval = t.interval
  BY <1>4, <1>8, TimerIs
<1>13. \A v \in ServiceTimers : v.script = u.script => v.id # u.id
  BY <1>8, <1>9, <1>12, ServiceTimerIs
<1>14. u.interval \in {delay, Once} /\ u.due = clock + delay
  BY <1>12
<1>15. DoubledScripts' = DoubledScripts
  <2>1. ASSUME NEW p \in DOMAIN list, NEW q \in DOMAIN list, p < q, list[p] = list[q]
        PROVE  p \in DOMAIN live[s] /\ q \in DOMAIN live[s]
    <3>1. DOMAIN live[s] = 1 .. Len(live[s]) /\ Len(live[s]) \in Nat
          /\ \A i \in DOMAIN live[s] : live[s][i] # new
      BY <1>6, <1>8, ListedFacts
    <3>2. p \in DOMAIN live[s]
      BY <1>8, <2>1, <3>1
    <3>3. list[p] # new
      BY <1>8, <3>1, <3>2
    <3> QED
      BY <1>8, <2>1, <3>2, <3>3
  <2>2. Doubled(s)' <=> Doubled(s)
    <3>1. Doubled(s)' => Doubled(s)
      BY <1>7, <1>8, <2>1 DEF Doubled
    <3>2. Doubled(s) => Doubled(s)'
      BY <1>7, <1>8 DEF Doubled
    <3> QED
      BY <3>1, <3>2
  <2>3. \A r \in Scripts \ {s} : r \in DoubledScripts' <=> r \in DoubledScripts
    BY <1>7, DoubledOthers
  <2> QED
    BY <2>2, <2>3 DEF DoubledScripts
<1>16. CASE UNCHANGED <<runVars, stop>> /\ \A r \in Scripts \ {s} : next'[r] = next[r]
  <2>1. UNCHANGED <<stage, at, places, stop>>
    BY <1>16 DEF runVars
  <2>2. \A v : v.script \in Scripts => (StillToFire(v)' <=> StillToFire(v))
    BY <1>5, <1>7, <1>8, <1>16, <2>1, DueKept
  <2>3. ~StillToFire(u)
    <3>1. CASE stage = "idle"
      BY <3>1 DEF StillToFire, InRun, ToEnter
    <3>2. CASE stage = "callback" /\ s = at
      <4>1. \A n \in DOMAIN places : places[n] \in DOMAIN live[s]
        BY <3>2 DEF TimersInv, PendingInv, InRun
      <4>2. \A n \in DOMAIN places : live[s][places[n]] # new
        BY <1>6, <1>8, <4>1, ListedFacts
      <4>3. at \in Nat
        BY <1>6, ScriptTypes
      <4> QED
        BY <1>12, <3>2, <4>2, <4>3 DEF StillToFire, InRun, ToEnter, First
    <3> QED
      BY <1>5, <3>1, <3>2 DEF Runs
  <2>4. ServiceDue' = ServiceDue
    <3>1. ~StillToFire(u)'
      BY <1>12, <2>2, <2>3
    <3>2. \A v \in ServiceTimers : StillToFire(v)' <=> StillToFire(v)
      BY <2>2, ServiceTimerIs
    <3> QED
      BY <1>11, <3>1, <3>2 DEF ServiceDue
  <2>5. \/ UNCHANGED unheard
        \/ stage = "idle" /\ unheard' \in {unheard, unheard \cup {s}}
        \/ stage # "idle" /\ Stopped
    BY <1>5 DEF AddTimer, AddCut, StopsCaller, Runs
  <2>6. ~(stage # "idle" /\ Stopped)
    BY <1>5, <2>1 DEF Stopped, Runs
  <2>7. Service!Add(u)
    <3>1. \/ UNCHANGED <<ServiceDue, stop, unheard>>
          \/ Service!StopsCall /\ unheard' \in {unheard, unheard \cup {u.script}}
      BY <1>12, <2>1, <2>4, <2>5, <2>6 DEF Service!StopsCall
    <3> QED
      BY <1>5, <1>11, <1>12, <1>13, <1>14, <1>15, <2>1, <3>1 DEF Service!Add
  <2> QED
    BY <1>11, <2>7 DEF Service!SNext
<1>17. CASE stage = "callback" /\ Stopped /\ unheard' \in {unheard, unheard \cup {s}}
  <2>1. stage' = "scripts" /\ at' = NumScripts + 1 /\ stop' = TRUE
    BY <1>17 DEF Stopped
  <2>2. ServiceDue' = {}
    BY <2>1, StoppedDue
  <2>3. Service!StopsCall
    BY <1>17, <2>1, <2>2 DEF Service!StopsCall
  <2>4. Service!Add(u)
    BY <1>5, <1>11, <1>12, <1>13, <1>14, <1>15, <1>17, <2>1, <2>3 DEF Service!Add
  <2> QED
    BY <1>11, <2>4 DEF Service!SNext
<1>18. CASE AddTimer(s, t)
  <2>1. UNCHANGED <<runVars, stop>> /\ (next' = next \/ next' = [next EXCEPT ![s] = t.due])
    BY <1>18 DEF AddTimer, Schedule
  <2>2. \A r \in Scripts \ {s} : next'[r] = next[r]
    BY <1>6, <2>1 DEF TimersTypeOK
  <2> QED
    BY <1>16, <2>1, <2>2
<1>19. CASE AddCut(s, t)
  <2>1. next' = next /\ unheard' \in {unheard, unheard \cup {s}}
        /\ \/ UNCHANGED <<runVars, stop>>
           \/ stage = "callback" /\ Stopped
    BY <1>19 DEF AddCut, StopsCaller
  <2> QED
    BY <1>16, <1>17, <2>1
<1> QED
  BY <1>18, <1>19

LEMMA ClearIsClear ==
  ASSUME TimersInv, NEW s \in Scripts, NEW id \in DOMAIN timers[s],
         ClearTimer(s, id) \/ ClearCut(s, id)
  PROVE  Service!SNext
<1>1. PICK u : u = AsTimer(s, timers[s], id)
  OBVIOUS
<1>2. /\ Runs(s) /\ clock' = clock /\ live' = live
      /\ \/ timers' = [timers EXCEPT ![s] = Marked(timers[s], id)]
         \/ timers' = [timers EXCEPT ![s] = Retired(timers[s], id)]
  BY DEF ClearTimer, ClearCut, Clears
<1>3. TimersTypeOK /\ Listed(timers[s], live[s])
  BY ScriptTypes DEF TimersInv
<1>4. PICK ts : /\ ts = Marked(timers[s], id) \/ ts = Retired(timers[s], id)
                /\ timers' = [timers EXCEPT ![s] = ts]
  BY <1>2
<1>5. timers'[s] = ts /\ \A r \in Scripts \ {s} : timers'[r] = timers[r] /\ live'[r] = live[r]
  BY <1>2, <1>3, <1>4 DEF TimersTypeOK
<1>6. /\ Alive(ts, live[s]) = Alive(timers[s], live[s]) \ {id}
      /\ \A i \in DOMAIN timers[s] \ {id} : ts[i] = timers[s][i]
  BY <1>3, <1>4, MarkedTimer
<1>7. \A i \in Alive(timers[s], live[s]) \ {id} : ts[i] = timers[s][i]
  BY <1>3, <1>6, ListedFacts
<1>8. u.script = s /\ u.id = id
  BY <1>1, TimerIs
<1>9. IF id \in Alive(timers[s], live[s])
      THEN TimersOf(s, ts, live[s]) = TimersOf(s, timers[s], live[s]) \ {u}
      ELSE TimersOf(s, ts, live[s]) = TimersOf(s, timers[s], live[s])
  BY <1>1, <1>6, <1>7, OfGone
<1>10. IF id \in Alive(timers[s], live[s])
       THEN u \in ServiceTimers /\ ServiceTimers' = ServiceTimers \ {u}
       ELSE ServiceTimers' = ServiceTimers
  <2>1. LET others == {v \in ServiceTimers : v.script # s}
        IN  /\ ServiceTimers = others \cup TimersOf(s, timers[s], live[s])
            /\ ServiceTimers' = others \cup TimersOf(s, timers'[s], live'[s])
    BY <1>5, ServiceTimersNext
  <2>2. id \in Alive(timers[s], live[s]) => u \in ServiceTimers
    BY <1>1, ServiceTimerOf
  <2> QED
    BY <1>2, <1>5, <1>8, <1>9, <2>1, <2>2
<1>11. DoubledScripts' = DoubledScripts
  BY <1>2, DoubledSame
<1>12. \/ /\ UNCHANGED <<stage, at, places, stop>> /\ \A r \in Scripts \ {s} : next'[r] = next[r]
          /\ unheard' \in {unheard, unheard \ {s}}
       \/ stage = "callback" /\ Stopped /\ unheard' = unheard
  <2>1. CASE ClearTimer(s, id)
    <3>1. /\ UNCHANGED <<stage, at, places, stop>>
          /\ \/ UNCHANGED <<next, unheard>>
             \/ \E ts1, l1 : Reschedule(s, ts1, l1)
      BY <2>1 DEF ClearTimer, RescheduledIfEarliest, runVars, timeVars
    <3>2. \/ UNCHANGED <<next, unheard>>
          \/ (\E d : next' = [next EXCEPT ![s] = d]) /\ unheard' = unheard \ {s}
      BY <3>1 DEF Reschedule, Schedule
    <3> QED
      BY <1>3, <3>1, <3>2 DEF TimersTypeOK
  <2>2. CASE ClearCut(s, id)
    BY <2>2 DEF ClearCut, StopsCaller, runVars
  <2> QED
    BY <2>1, <2>2
<1>13. CASE /\ UNCHANGED <<stage, at, places, stop>> /\ \A r \in Scripts \ {s} : next'[r] = next[r]
            /\ unheard' \in {unheard, unheard \ {s}}
  <2>1. \A v : v.script \in Scripts => (StillToFire(v)' <=> StillToFire(v))
    BY <1>2, <1>13, DueKept
  <2>2. \A v \in ServiceTimers : StillToFire(v)' <=> StillToFire(v)
    BY <2>1, ServiceTimerIs
  <2>3. CASE id \in Alive(timers[s], live[s])
    <3>1. ServiceDue' = ServiceDue \ {u}
      BY <1>10, <2>2, <2>3 DEF ServiceDue
    <3>2. Service!Clear(u)
      BY <1>2, <1>8, <1>10, <1>11, <1>13, <2>3, <3>1 DEF Service!Clear
    <3> QED
      BY <1>10, <2>3, <3>2 DEF Service!SNext
  <2>4. CASE id \notin Alive(timers[s], live[s])
    <3>1. ServiceTimers' = ServiceTimers /\ ServiceDue' = ServiceDue
      BY <1>10, <2>2, <2>4, SameDue
    <3>2. Service!LookThrough
      BY <1>2, <1>11, <1>13, <3>1 DEF Service!LookThrough
    <3> QED
      BY <3>2 DEF Service!SNext
  <2> QED
    BY <2>3, <2>4
<1>14. CASE stage = "callback" /\ Stopped /\ unheard' = unheard
  <2>1. stage' = "scripts" /\ at' = NumScripts + 1 /\ stop' = TRUE
    BY <1>14 DEF Stopped
  <2>2. ServiceDue' = {}
    BY <2>1, StoppedDue
  <2>3. CASE id \in Alive(timers[s], live[s])
    <3>1. Service!StopsCall
      BY <1>14, <2>1, <2>2 DEF Service!StopsCall
    <3>2. Service!Clear(u)
      BY <1>2, <1>10, <1>11, <1>14, <2>1, <2>3, <3>1 DEF Service!Clear
    <3> QED
      BY <1>10, <2>3, <3>2 DEF Service!SNext
  <2>4. CASE id \notin Alive(timers[s], live[s])
    BY <1>2, <1>10, <1>11, <1>14, <2>1, <2>4, StoppedIsStop
  <2> QED
    BY <2>3, <2>4
<1> QED
  BY <1>12, <1>13, <1>14

LEMMA ReloadIsDrop ==
  ASSUME TimersInv, NEW s \in Scripts, Reload(s)
  PROVE  Service!SNext
<1>1. /\ stage = "idle" /\ stage' = stage
      /\ timers' = [timers EXCEPT ![s] = <<>>] /\ live' = [live EXCEPT ![s] = <<>>]
      /\ unheard' = unheard \ {s} /\ UNCHANGED <<clock, stop>>
  BY DEF Reload, runVars
<1>2. /\ timers'[s] = <<>> /\ live'[s] = <<>>
      /\ \A r \in Scripts \ {s} : timers'[r] = timers[r] /\ live'[r] = live[r]
  BY <1>1 DEF TimersInv, TimersTypeOK
<1>3. TimersOf(s, timers'[s], live'[s]) = {}
  BY <1>2, NothingListed DEF TimersOf
<1>4. ServiceTimers' = {t \in ServiceTimers : t.script # s}
  BY <1>2, <1>3, ServiceTimersNext
<1>5. ServiceDue = {} /\ ServiceDue' = {}
  BY <1>1, DueIs
<1>6. DoubledScripts' = DoubledScripts \ {s}
  <2>1. ~Doubled(s)'
    BY <1>2 DEF Doubled
  <2>2. \A r \in Scripts \ {s} : r \in DoubledScripts' <=> r \in DoubledScripts
    BY <1>2, DoubledOthers
  <2> QED
    BY <2>1, <2>2 DEF DoubledScripts
<1>7. Service!Drop(s)
  BY <1>1, <1>4, <1>5, <1>6 DEF Service!Drop
<1> QED
  BY <1>7 DEF Service!SNext

\* Where a call looks at the scripts, all timers due are still to fire, but for those the
\* engine has not heard of; where it returns at once, none is due that it has heard of.
LEMMA AdvanceIsAdvance ==
  ASSUME TimersInv, EarliestIsEarly, Advance
  PROVE  Service!SNext
<1>1. /\ stage = "idle" /\ at' = at /\ (\E d \in Steps : clock' = clock + d)
      /\ \/ clock' >= earliest /\ stage' = "scripts" /\ stop' = FALSE
         \/ ~(clock' >= earliest) /\ UNCHANGED <<stage, stop>>
      /\ UNCHANGED <<earliest, next, unheard, timers, live>>
  BY DEF Advance, LooksAtScripts, timeVars, listVars
<1>2. TimersTypeOK /\ clock \in Nat /\ clock' \in Nat /\ stop \in BOOLEAN /\ at = 1
  <2>1. TimersTypeOK /\ at = 1
    BY <1>1 DEF TimersInv, RunInv
  <2>2. clock \in Nat /\ stop \in BOOLEAN
    BY <2>1, TimersAssumption DEF TimersTypeOK
  <2> QED
    BY <1>1, <2>1, <2>2, TimersAssumption
<1>3. ServiceTimers' = ServiceTimers /\ DoubledScripts' = DoubledScripts
  BY <1>1, DoubledSame DEF ServiceTimers
<1>4. PICK missed : missed = {s \in unheard : ~(next[s] <= clock')}
  OBVIOUS
<1>5. ASSUME NEW t \in ServiceTimers
      PROVE  /\ t.script \in Scripts /\ t.script >= 1
             /\ t.due <= clock' /\ t.script \notin missed => next[t.script] <= clock'
             /\ earliest <= next[t.script]
             /\ earliest \in Nat /\ next[t.script] \in Nat
  <2>1. t.script \in Scripts /\ t.due \in DueTimes(timers[t.script], live[t.script])
    BY ServiceTimerIs DEF DueTimes
  <2>2. /\ earliest \in Nat /\ next[t.script] \in Nat
        /\ Listed(timers[t.script], live[t.script])
    BY <1>2, <2>1, ScriptTypes
  <2>3. t.due \in Nat
    BY <2>1, <2>2, ListedFacts, TimesAreNat
  <2>4. earliest <= next[t.script] /\ (t.script \in unheard \/ next[t.script] <= t.due)
    BY <2>1 DEF EarliestIsEarly
  <2>5. t.due <= clock' /\ t.script \notin missed => next[t.script] <= clock'
    BY <1>2, <1>4, <2>2, <2>3, <2>4
  <2> QED
    BY <2>1, <2>2, <2>4, <2>5 DEF Scripts
<1>6. ServiceDue' = {t \in ServiceTimers : t.due <= clock' /\ t.script \notin missed}
  <2>1. CASE clock' >= earliest /\ stage' = "scripts"
    <3>1. ASSUME NEW t \in ServiceTimers
          PROVE  StillToFire(t)' <=> t.due <= clock' /\ t.script \notin missed
      <4>1. StillToFire(t)' <=> t.due <= clock' /\ next[t.script] <= clock'
        BY <1>1, <1>2, <1>5, <2>1 DEF StillToFire, InRun, ToEnter
      <4> QED
        BY <1>4, <1>5, <4>1
    <3> QED
      BY <1>3, <3>1 DEF ServiceDue
  <2>2. CASE ~(clock' >= earliest) /\ stage' = stage
    <3>1. ServiceDue' = {}
      BY <1>1, <2>2, DueIs
    <3>2. \A t \in ServiceTimers : ~(next[t.script] <= clock')
      BY <1>2, <1>5, <2>2
    <3> QED
      BY <1>5, <3>1, <3>2
  <2> QED
    BY <1>1, <2>1, <2>2
<1>7. (stage' # "idle") \in {TRUE, ServiceDue' # {}} /\ stop' = (stop /\ ~(stage' # "idle"))
  <2>1. CASE stage' = "scripts" /\ stop' = FALSE
    BY <2>1
  <2>2. CASE ~(clock' >= earliest) /\ UNCHANGED <<stage, stop>>
    <3>1. ServiceDue' = {}
      BY <1>1, <2>2, DueIs
    <3> QED
      BY <1>1, <1>2, <2>2, <3>1
  <2> QED
    BY <1>1, <2>1, <2>2
<1>8. Service!Advance
  <2>1. missed \in SUBSET unheard
    BY <1>4
  <2> QED
    BY <1>1, <1>3, <1>6, <1>7, <2>1 DEF Service!Advance
<1> QED
  BY <1>8 DEF Service!SNext

LEMMA SkipScriptIsSilent ==
  ASSUME TimersInv, SkipScript
  PROVE  UNCHANGED Service!svars
<1>1. /\ stage = "scripts" /\ stage' = stage /\ at' = at + 1 /\ next[at] > clock
      /\ UNCHANGED <<clock, next, unheard, timers, live, stop>> /\ at <= NumScripts
  BY DEF SkipScript, timeVars, listVars
<1>2. at \in Scripts /\ clock \in Nat /\ next[at] \in Nat
  <2>1. TimersTypeOK /\ at \in 1 .. NumScripts + 1
    BY DEF TimersInv, TimersTypeOK
  <2>2. at \in Scripts
    BY <1>1, <2>1, TimersAssumption DEF Scripts
  <2> QED
    BY <2>1, <2>2, ScriptTypes
<1>3. ServiceTimers' = ServiceTimers /\ DoubledScripts' = DoubledScripts
  BY <1>1, DoubledSame DEF ServiceTimers
<1>4. ASSUME NEW t \in ServiceTimers PROVE StillToFire(t)' <=> StillToFire(t)
  <2>1. t.script \in Nat /\ at \in Nat
    BY <1>2, ServiceTimerIs DEF Scripts
  <2>2. t.script >= at + 1 <=> t.script >= at /\ t.script # at
    BY <2>1
  <2>3. ~(next[at] <= clock)
    BY <1>1, <1>2
  <2> QED
    BY <1>1, <2>2, <2>3 DEF StillToFire, InRun, ToEnter
<1>5. ServiceDue' = ServiceDue
  BY <1>3, <1>4, SameDue
<1> QED
  BY <1>1, <1>3, <1>5 DEF Service!svars

\* runTimers is done with its script: a stop that no check has seen takes the rest.
LEMMA AfterRunIsService ==
  ASSUME TimersInv, NEW s \in Scripts, s = at, stage \in {"scripts", "run"}, AfterRun,
         UNCHANGED <<clock, stop>>, ServiceTimers' = ServiceTimers,
         \A t \in ServiceTimers : t.script = s => ~StillToFire(t),
         \A r \in Scripts \ {s} : next'[r] = next[r],
         unheard' \subseteq unheard, DoubledScripts' \subseteq DoubledScripts
  PROVE  Service!SNext
<1>1. stage' = "scripts" /\ at' = IF stop THEN NumScripts + 1 ELSE at + 1
  BY DEF AfterRun
<1>2. CASE stop
  <2>1. at' = NumScripts + 1 /\ stop' = TRUE
    BY <1>1, <1>2 DEF TimersInv, TimersTypeOK
  <2> QED
    BY <1>1, <2>1, StoppedIsStop
<1>3. CASE ~stop
  <2>1. ASSUME NEW t \in ServiceTimers PROVE StillToFire(t)' <=> StillToFire(t)
    <3>1. t.script \in Scripts /\ t.script \in Nat /\ at \in Nat
      BY ServiceTimerIs DEF Scripts
    <3>2. CASE t.script = s
      <4>1. ~(t.script >= at + 1)
        BY <3>1, <3>2
      <4> QED
        BY <1>1, <1>3, <3>2, <4>1 DEF StillToFire, InRun, ToEnter
    <3>3. CASE t.script # s
      <4>1. next'[t.script] = next[t.script]
        BY <3>1, <3>3
      <4>2. /\ t.script >= at + 1 <=> t.script > at
            /\ t.script >= at <=> t.script > at
        BY <3>1, <3>3
      <4> QED
        BY <1>1, <1>3, <3>3, <4>1, <4>2 DEF StillToFire, InRun, ToEnter
    <3> QED
      BY <3>2, <3>3
  <2>2. ServiceDue' = ServiceDue
    BY <2>1, SameDue
  <2>3. Service!LookThrough
    BY <1>1, <2>2 DEF Service!LookThrough
  <2> QED
    BY <2>3 DEF Service!SNext
<1> QED
  BY <1>2, <1>3

\* What the places that runTimers has found say of the timers of its script.
LEMMA DueIsPlaced ==
  ASSUME NEW s \in Scripts, s = at, Listed(timers[s], live[s]), NEW id \in Alive(timers[s], live[s])
  PROVE  timers[s][id].due <= clock <=> \E p \in DuePlaces : First(id, p)
<1>1. DOMAIN live[s] = 1 .. Len(live[s]) /\ Len(live[s]) \in Nat
  BY ListedFacts
<1>2. PICK P : P = {p \in DOMAIN live[s] : live[s][p] = id}
  OBVIOUS
<1>3. ~timers[s][id].cancelled /\ P # {} /\ P \in SUBSET Nat
  BY <1>1, <1>2 DEF Alive
<1>4. PICK p \in P : \A q \in P : p <= q
  BY <1>3, LeastNumber
<1>5. p \in DOMAIN live[s] /\ First(id, p)
  <2>1. p \in DOMAIN live[s] /\ live[s][p] = id
    BY <1>2
  <2>2. ASSUME NEW q \in 1 .. p - 1 PROVE live[s][q] # id
    <3>1. q \in DOMAIN live[s] /\ ~(p <= q)
      BY <1>1, <2>1
    <3> QED
      BY <1>2, <1>4, <3>1
  <2> QED
    BY <2>1, <2>2 DEF First
<1>6. timers[s][id].due <= clock => p \in DuePlaces
  BY <1>3, <1>5 DEF DuePlaces, Entry, First
<1>7. ASSUME NEW q \in DuePlaces, First(id, q) PROVE timers[s][id].due <= clock
  BY <1>7 DEF DuePlaces, Entry, First
<1> QED
  BY <1>5, <1>6, <1>7

LEMMA BeginRunIsService ==
  ASSUME TimersInv, BeginRun
  PROVE  Service!SNext \/ UNCHANGED Service!svars
<1>1. /\ Enters /\ places' = DueInOrder
      /\ UNCHANGED <<clock, timers, live, stop>>
  BY DEF BeginRun, listVars
<1>2. PICK s \in Scripts : s = at
  BY <1>1, Entered
<1>3. /\ stage = "scripts" /\ Listed(timers[s], live[s]) /\ clock \in Nat /\ next[s] <= clock
      /\ TimersTypeOK /\ s \in Nat
  BY <1>1, <1>2, Entered, ScriptTypes DEF TimersInv
<1>4. ServiceTimers' = ServiceTimers /\ DoubledScripts' = DoubledScripts
  BY <1>1, DoubledSame DEF ServiceTimers
<1>5. ASSUME NEW t \in ServiceTimers, t.script = s
      PROVE  t.due <= clock <=> \E p \in DuePlaces : First(t.id, p)
  BY <1>2, <1>3, <1>5, ServiceTimerIs, DueIsPlaced
<1>6. CASE DuePlaces = {}
  <2>1. Reschedule(s, timers[s], live[s]) /\ AfterRun
    BY <1>2, <1>6 DEF BeginRun
  <2>2. \A t \in ServiceTimers : t.script = s => ~StillToFire(t)
    BY <1>3, <1>5, <1>6 DEF StillToFire, InRun
  <2>3. /\ unheard' \subseteq unheard
        /\ \E d : next' = [next EXCEPT ![s] = d]
    BY <2>1 DEF Reschedule, Schedule
  <2>4. \A r \in Scripts \ {s} : next'[r] = next[r]
    BY <1>3, <2>3 DEF TimersTypeOK
  <2> QED
    BY <1>1, <1>2, <1>3, <1>4, <2>1, <2>2, <2>3, <2>4, AfterRunIsService
<1>7. CASE DuePlaces # {}
  <2>1. stage' = "run" /\ UNCHANGED <<next, unheard, at>>
    BY <1>7 DEF BeginRun, timeVars
  <2>2. \A p : p \in DuePlaces <=> \E n \in DOMAIN places' : places'[n] = p
    BY <1>1, <1>2, <1>3, DueOrder
  <2>3. \A id, p : First(id, p)' <=> First(id, p)
    BY <1>1, <2>1 DEF First
  <2>4. ASSUME NEW t \in ServiceTimers PROVE StillToFire(t)' <=> StillToFire(t)
    <3>1. t.script \in Nat
      BY ServiceTimerIs DEF Scripts
    <3>2. CASE t.script = s
      <4>1. (\E n \in DOMAIN places' : First(t.id, places[n])') <=> t.due <= clock
        BY <1>5, <2>2, <2>3, <3>2
      <4>2. ~(t.script > at) /\ t.script >= at
        BY <1>2, <1>3, <3>2
      <4> QED
        BY <1>1, <1>2, <1>3, <2>1, <3>2, <4>1, <4>2 DEF StillToFire, InRun, ToEnter
    <3>3. CASE t.script # s
      <4>1. t.script > at <=> t.script >= at
        BY <1>2, <1>3, <3>1, <3>3
      <4> QED
        BY <1>1, <1>2, <1>3, <2>1, <3>3, <4>1 DEF StillToFire, InRun, ToEnter
    <3> QED
      BY <3>2, <3>3
  <2>5. ServiceDue' = ServiceDue
    BY <1>4, <2>4, SameDue
  <2> QED
    BY <1>1, <1>3, <1>4, <2>1, <2>5 DEF Service!svars
<1> QED
  BY <1>6, <1>7

LEMMA EndRunIsService ==
  ASSUME TimersInv, EndRun
  PROVE  Service!SNext
<1>1. /\ stage = "run" /\ places = <<>> /\ live' = [live EXCEPT ![at] = Swept]
      /\ Reschedule(at, timers[at], Swept) /\ AfterRun
      /\ UNCHANGED <<clock, timers, stop>>
  BY DEF EndRun, AllFired, SweepsTo
<1>2. PICK s \in Scripts : s = at
  BY <1>1 DEF TimersInv, RunInv, InRun
<1>3. TimersTypeOK /\ Listed(timers[s], live[s]) /\ s \in Nat
  BY ScriptTypes DEF TimersInv
<1>4. live'[s] = Swept /\ \A r \in Scripts \ {s} : live'[r] = live[r]
  BY <1>1, <1>2, <1>3 DEF TimersTypeOK
<1>5. /\ Alive(timers[s], live'[s]) = Alive(timers[s], live[s])
      /\ Doubled(s)' => Doubled(s)
  <2>1. /\ Alive(timers[s], Swept) = Alive(timers[s], live[s])
        /\ \A p, q \in DOMAIN Swept : p < q /\ Swept[p] = Swept[q] => Doubled(s)
    BY <1>2, <1>3, SweptList
  <2>2. Doubled(s)' <=> \E p, q \in DOMAIN Swept : p < q /\ Swept[p] = Swept[q]
    BY <1>4 DEF Doubled
  <2> QED
    BY <1>4, <2>1, <2>2
<1>6. ServiceTimers' = ServiceTimers
  BY <1>1, <1>4, <1>5, OfListed
<1>7. DoubledScripts' \subseteq DoubledScripts
  <2>1. \A r \in Scripts \ {s} : r \in DoubledScripts' <=> r \in DoubledScripts
    BY <1>4, DoubledOthers
  <2> QED
    BY <1>5, <2>1 DEF DoubledScripts
<1>8. \A t \in ServiceTimers : t.script = s => ~StillToFire(t)
  <2>1. DOMAIN places = {} /\ ~(at > at)
    BY <1>1, <1>2, <1>3
  <2> QED
    BY <1>1, <1>2, <2>1 DEF StillToFire, InRun, ToEnter
<1>9. /\ unheard' \subseteq unheard
      /\ \E d : next' = [next EXCEPT ![s] = d]
  BY <1>1, <1>2 DEF Reschedule, Schedule
<1>10. \A r \in Scripts \ {s} : next'[r] = next[r]
  BY <1>3, <1>9 DEF TimersTypeOK
<1> QED
  BY <1>1, <1>2, <1>6, <1>7, <1>8, <1>9, <1>10, AfterRunIsService

\* A call is stopped anywhere but in a timer function of a script.
LEMMA CutIsStop ==
  ASSUME TimersInv, RunCut \/ CallbackStopped \/ SweepCut \/ RescheduleCut
  PROVE  Service!SNext
<1>1. /\ stage # "idle" /\ stage' = "scripts" /\ at' = NumScripts + 1 /\ stop' = TRUE
      /\ UNCHANGED <<clock, unheard, timers>>
  BY DEF RunCut, CallbackStopped, SweepCut, RescheduleCut, Stopped, AllFired, Enters, SweepsTo,
         timeVars, listVars
<1>2. CASE live' = live
  <2>1. ServiceTimers' = ServiceTimers /\ DoubledScripts' = DoubledScripts
    BY <1>1, <1>2, DoubledSame DEF ServiceTimers
  <2> QED
    BY <1>1, <2>1, StoppedIsStop
<1>3. ASSUME stage = "run", NEW s \in Scripts, s = at, live' = [live EXCEPT ![s] = live'[s]],
             Alive(timers[s], live'[s]) = Alive(timers[s], live[s])
      PROVE  Service!SNext
  <2>1. \A r \in Scripts \ {s} : live'[r] = live[r]
    BY <1>3 DEF TimersInv, TimersTypeOK
  <2>2. ServiceTimers' = ServiceTimers
    BY <1>1, <1>3, <2>1, OfListed
  <2>3. \A r \in DoubledScripts' \ DoubledScripts : r = s
    <3>1. DoubledScripts' \subseteq Scripts
      BY DEF DoubledScripts
    <3> QED
      BY <2>1, <3>1, DoubledOthers
  <2> QED
    BY <1>1, <2>2, <2>3, StoppedIsStop
<1>4. stage = "run" => at \in Scripts /\ TimersTypeOK /\ Listed(timers[at], live[at])
  <2>1. stage = "run" => at \in Scripts /\ TimersTypeOK
    BY DEF TimersInv, RunInv, InRun
  <2> QED
    BY <2>1, ScriptTypes
<1>5. CASE RunCut \/ CallbackStopped
  BY <1>2, <1>5 DEF RunCut, CallbackStopped, listVars
<1>6. CASE SweepCut
  <2>1. stage = "run"
    BY <1>6 DEF SweepCut, AllFired
  <2>2. PICK n \in DOMAIN live[at] : live' = [live EXCEPT ![at] = Moved(n)]
    BY <1>6 DEF SweepCut
  <2>3. PICK s \in Scripts : s = at
    BY <1>4, <2>1
  <2>4. n \in Nat /\ n <= Len(live[s])
    BY <1>4, <2>1, <2>2, <2>3, ListedFacts
  <2>5. Alive(timers[s], Moved(n)) = Alive(timers[s], live[s])
    BY <1>4, <2>1, <2>3, <2>4, MovedList
  <2>6. live'[s] = Moved(n)
    BY <1>4, <2>1, <2>2, <2>3 DEF TimersTypeOK
  <2> QED
    BY <1>3, <2>1, <2>2, <2>3, <2>5, <2>6
<1>7. CASE RescheduleCut
  <2>1. CASE AllFired /\ SweepsTo(Swept)
    <3>1. stage = "run" /\ live' = [live EXCEPT ![at] = Swept]
      BY <2>1 DEF AllFired, SweepsTo
    <3>2. PICK s \in Scripts : s = at
      BY <1>4, <3>1
    <3>3. Alive(timers[s], Swept) = Alive(timers[s], live[s])
      BY <1>4, <3>1, <3>2, SweptList
    <3>4. live'[s] = Swept
      BY <1>4, <3>1, <3>2 DEF TimersTypeOK
    <3> QED
      BY <1>3, <3>1, <3>2, <3>3, <3>4
  <2>2. CASE UNCHANGED listVars
    BY <1>2, <2>2 DEF listVars
  <2> QED
    BY <1>7, <2>1, <2>2 DEF RescheduleCut
<1> QED
  BY <1>5, <1>6, <1>7

\* A stop is asked for, or a callback ends, with its script's timers as they are.
LEMMA StagesAreService ==
  ASSUME TimersInv, CallbackEnds \/ AskToStop
  PROVE  Service!SNext \/ UNCHANGED Service!svars
<1>1. /\ \/ stage = "callback" /\ stage' = "run" /\ stop' = stop
         \/ stage # "idle" /\ stage' = stage /\ stop' = TRUE
      /\ UNCHANGED <<clock, next, unheard, timers, live, at, places>>
  BY DEF CallbackEnds, AskToStop, timeVars, listVars, runVars
<1>2. ServiceTimers' = ServiceTimers /\ DoubledScripts' = DoubledScripts
  BY <1>1, DoubledSame DEF ServiceTimers
<1>3. \A t \in ServiceTimers : StillToFire(t)' <=> StillToFire(t)
  BY <1>1 DEF StillToFire, InRun, ToEnter, First
<1>4. (stage # "idle") = (stage' # "idle")
  BY <1>1
<1>5. ServiceDue' = ServiceDue
  BY <1>2, <1>3, SameDue
<1>6. CASE stop' = stop
  BY <1>1, <1>2, <1>4, <1>5, <1>6 DEF Service!svars
<1>7. CASE stage # "idle" /\ stop' = TRUE
  <2>1. \A s, r \in DoubledScripts' \ DoubledScripts : s = r
    BY <1>2
  <2> QED
    BY <1>1, <1>4, <1>5, <1>2, <1>7, <2>1 DEF Service!SNext, Service!Stop
<1> QED
  BY <1>1, <1>6, <1>7

\* The loop over the scripts leaves none to fire.
LEMMA EndAdvanceIsEndAdvance ==
  ASSUME TimersInv, EndAdvance
  PROVE  Service!SNext
<1>1. /\ stage = "scripts" /\ at = NumScripts + 1
      /\ stage' = "idle" /\ UNCHANGED <<clock, unheard, timers, live, stop>>
  BY DEF EndAdvance, listVars
<1>2. ServiceTimers' = ServiceTimers /\ DoubledScripts' = DoubledScripts
  BY <1>1, DoubledSame DEF ServiceTimers
<1>3. ServiceDue = {}
  <2>1. ASSUME NEW t \in ServiceTimers PROVE ~StillToFire(t)
    <3>1. t.script \in 1 .. NumScripts
      BY ServiceTimerIs DEF Scripts
    <3>2. ~(t.script >= at)
      BY <1>1, <3>1, TimersAssumption
    <3> QED
      BY <1>1, <3>2 DEF StillToFire, InRun, ToEnter
  <2> QED
    BY <2>1 DEF ServiceDue
<1>4. ServiceDue' = {} /\ (stage # "idle") = TRUE /\ (stage' # "idle") = FALSE
  BY <1>1, DueIs
<1>5. Service!EndAdvance
  BY <1>1, <1>2, <1>3, <1>4 DEF Service!EndAdvance
<1> QED
  BY <1>5 DEF Service!SNext

\* Of what is still to fire, the head of the places takes its timer, if that is the place
\* where the list has it first.
LEMMA TailDue ==
  ASSUME TimersInv, stage = "run", places # <<>>, places' = Tail(places),
         NEW id, id = live[at][Head(places)], stage' \in {"run", "callback"},
         UNCHANGED <<clock, next, live, at>>
  PROVE  /\ \A t : StillToFire(t)' <=> StillToFire(t) /\ ~(t.script = at /\ t.id = id)
         /\ \A t : t.script = at /\ t.id = id => (StillToFire(t) <=> IsFirst(Head(places)))
<1>1. /\ PendingInv /\ InRun /\ at \in Scripts /\ at \in Nat /\ Listed(timers[at], live[at])
      /\ places \in Seq(Nat)
  BY HeadDue, ScriptTypes DEF TimersInv, TimersTypeOK, InRun
<1>2. /\ DOMAIN places = 1 .. Len(places) /\ Len(places) \in Nat /\ Len(places) # 0
      /\ places' \in Seq(Nat) /\ Len(places') = Len(places) - 1
      /\ \A n \in 1 .. Len(places') : places'[n] = places[n + 1]
      /\ id = live[at][places[1]] /\ Head(places) = places[1]
  BY <1>1, HeadTailProperties, LenProperties, EmptySeq
<1>3. DOMAIN places' = 1 .. Len(places) - 1 /\ 1 \in DOMAIN places
  BY <1>2, LenProperties
<1>4. /\ \A n \in DOMAIN places' : /\ n + 1 \in DOMAIN places /\ places'[n] = places[n + 1]
                                   /\ n + 1 # 1
      /\ \A m \in DOMAIN places \ {1} : m - 1 \in DOMAIN places' /\ places'[m - 1] = places[m]
      /\ \A m \in DOMAIN places \ {1} : 1 < m
  BY <1>2, <1>3
<1>5. \A i, p : First(i, p)' <=> First(i, p)
  BY DEF First
<1>6. ASSUME NEW n \in DOMAIN places \ {1} PROVE ~First(id, places[n])
  <2> SUFFICES ASSUME First(id, places[n]) PROVE FALSE
    OBVIOUS
  <2>1. live[at][places[1]] = live[at][places[n]]
    BY <1>2 DEF First
  <2>2. places[1] < places[n]
    BY <1>1, <1>3, <1>4, <2>1 DEF PendingInv
  <2>3. places[1] \in DOMAIN live[at] /\ places[n] \in DOMAIN live[at]
    BY <1>1, <1>3 DEF PendingInv
  <2>4. DOMAIN live[at] = 1 .. Len(live[at]) /\ Len(live[at]) \in Nat
    BY <1>1, ListedFacts
  <2>5. places[1] \in 1 .. places[n] - 1
    BY <2>2, <2>3, <2>4
  <2> QED
    BY <1>2, <2>5 DEF First
<1>7. ASSUME NEW i
      PROVE  (\E n \in DOMAIN places' : First(i, places[n])')
                <=> i # id /\ \E n \in DOMAIN places : First(i, places[n])
  <2>1. ASSUME NEW n \in DOMAIN places', First(i, places'[n])
        PROVE  i # id /\ \E k \in DOMAIN places : First(i, places[k])
    <3>1. PICK k \in DOMAIN places : k # 1 /\ places'[n] = places[k]
      BY <1>4
    <3> QED
      BY <1>6, <2>1, <3>1
  <2>2. ASSUME NEW k \in DOMAIN places, First(i, places[k]), i # id
        PROVE  \E n \in DOMAIN places' : First(i, places'[n])
    <3>1. k # 1
      BY <1>2, <2>2 DEF First
    <3> QED
      BY <1>4, <2>2, <3>1
  <2>3. (\E n \in DOMAIN places' : First(i, places[n])')
           <=> \E n \in DOMAIN places' : First(i, places'[n])
    BY <1>5
  <2> QED
    BY <2>1, <2>2, <2>3
<1>8. (\E n \in DOMAIN places : First(id, places[n])) <=> First(id, places[1])
  BY <1>3, <1>6
<1>9. IsFirst(Head(places)) <=> First(id, places[1])
  BY <1>2 DEF IsFirst
<1>10. ~(at > at) /\ InRun' /\ InRun
  BY <1>1 DEF InRun
<1>11. \A t : StillToFire(t)' <=> StillToFire(t) /\ ~(t.script = at /\ t.id = id)
  BY <1>7, <1>10 DEF StillToFire, ToEnter, InRun
<1>12. \A t : t.script = at /\ t.id = id => (StillToFire(t) <=> IsFirst(Head(places)))
  BY <1>8, <1>9, <1>10 DEF StillToFire, ToEnter, InRun
<1> QED
  BY <1>11, <1>12

\* The timer at the head is the service's next: unless a callback has cleared it, it fires,
\* or fires again where a half swept list has it twice.
LEMMA FireTimerIsFire ==
  ASSUME TimersInv, FireTimer
  PROVE  Service!SNext \/ UNCHANGED Service!svars
<1>1. /\ stage = "run" /\ places # <<>> /\ places' = Tail(places)
      /\ stage' \in {"run", "callback"}
      /\ UNCHANGED <<clock, next, unheard, live, at, stop>>
  BY DEF FireTimer, timeVars
<1>2. PICK p : p = Head(places)
  OBVIOUS
<1>3. PICK id : id = live[at][p]
  OBVIOUS
<1>4. PICK s \in Scripts : s = at
  BY <1>1, HeadDue
<1>5. PICK t : t = timers[s][id]
  OBVIOUS
<1>6. /\ TimersTypeOK /\ Listed(timers[s], live[s]) /\ p \in DOMAIN live[s]
      /\ id \in DOMAIN timers[s] /\ t \in Timer
      /\ ~t.cancelled => /\ id \in Alive(timers[s], live[s])
                         /\ ~IsFirst(p) => t.interval # Once /\ Doubled(s)
  BY <1>1, <1>2, <1>3, <1>4, <1>5, HeadDue DEF TimersInv
<1>7. /\ \A v : StillToFire(v)' <=> StillToFire(v) /\ ~(v.script = s /\ v.id = id)
      /\ \A v : v.script = s /\ v.id = id => (StillToFire(v) <=> IsFirst(p))
  BY <1>1, <1>2, <1>3, <1>4, TailDue
<1>8. DoubledScripts' = DoubledScripts
  BY <1>1, DoubledSame
<1>9. CASE t.cancelled
  <2>1. timers' = timers /\ stage' = stage
    BY <1>2, <1>3, <1>4, <1>5, <1>9 DEF FireTimer
  <2>2. ServiceTimers' = ServiceTimers
    BY <1>1, <2>1 DEF ServiceTimers
  <2>3. ASSUME NEW v \in ServiceTimers PROVE ~(v.script = s /\ v.id = id)
    BY <1>5, <1>6, <1>9, ServiceTimerIs, ListedFacts
  <2>4. ServiceDue' = ServiceDue
    BY <1>7, <2>2, <2>3, SameDue
  <2> QED
    BY <1>1, <1>8, <2>1, <2>2, <2>4 DEF Service!svars
<1>10. CASE ~t.cancelled
  <2>1. PICK ts : ts = IF t.interval = Once THEN Retired(timers[s], id)
                       ELSE [timers[s] EXCEPT ![id] = Later(t)]
    OBVIOUS
  <2>2. /\ timers' = [timers EXCEPT ![s] = ts] /\ stage' = "callback"
        /\ t.interval # Once => t.due + t.interval < Infinity
    BY <1>2, <1>3, <1>4, <1>5, <1>10, <2>1 DEF FireTimer
  <2>3. timers'[s] = ts /\ \A r \in Scripts \ {s} : timers'[r] = timers[r] /\ live'[r] = live[r]
    BY <1>1, <1>6, <2>2 DEF TimersTypeOK
  <2>4. PICK u : u = AsTimer(s, timers[s], id)
    OBVIOUS
  <2>5. PICK again : again = AsTimer(s, ts, id)
    OBVIOUS
  <2>6. /\ u.script = s /\ u.id = id /\ u.due = t.due /\ u.interval = t.interval
        /\ again.script = s /\ again.id = id
    BY <1>5, <2>4, <2>5, TimerIs
  <2>7. u \in ServiceTimers
    BY <1>6, <1>10, <2>4, ServiceTimerOf
  <2>8. PICK more : more = IF u.interval = Once THEN {} ELSE {again}
    OBVIOUS
  <2>9. TimersOf(s, ts, live[s]) = (TimersOf(s, timers[s], live[s]) \ {u}) \cup more
    <3>1. CASE t.interval = Once
      <4>1. ts = Retired(timers[s], id)
        BY <2>1, <3>1
      <4>2. /\ Alive(ts, live[s]) = Alive(timers[s], live[s]) \ {id}
            /\ \A i \in DOMAIN timers[s] \ {id} : ts[i] = timers[s][i]
        BY <1>6, <4>1, MarkedTimer
      <4>3. \A i \in Alive(timers[s], live[s]) \ {id} : ts[i] = timers[s][i]
        BY <1>6, <4>2, ListedFacts
      <4>4. TimersOf(s, ts, live[s]) = TimersOf(s, timers[s], live[s]) \ {u}
        BY <1>6, <1>10, <2>4, <4>2, <4>3, OfGone
      <4> QED
        BY <2>6, <2>8, <3>1, <4>4
    <3>2. CASE t.interval # Once
      <4>1. ts = [timers[s] EXCEPT ![id] = Later(timers[s][id])]
        BY <1>5, <2>1, <3>2
      <4>2. /\ Alive(ts, live[s]) = Alive(timers[s], live[s])
            /\ \A i \in DOMAIN timers[s] \ {id} : ts[i] = timers[s][i]
        BY <1>5, <1>6, <2>2, <3>2, <4>1, LaterTimer
      <4>3. \A i \in Alive(timers[s], live[s]) \ {id} : ts[i] = timers[s][i]
        BY <1>6, <4>2, ListedFacts
      <4>4. TimersOf(s, ts, live[s]) = (TimersOf(s, timers[s], live[s]) \ {u}) \cup {again}
        BY <1>6, <1>10, <2>4, <2>5, <4>2, <4>3, OfAgain
      <4> QED
        BY <2>6, <2>8, <3>2, <4>4
    <3> QED
      BY <3>1, <3>2
  <2>10. ServiceTimers' = (ServiceTimers \ {u}) \cup more
    <3>1. LET others == {v \in ServiceTimers : v.script # s}
          IN  /\ ServiceTimers = others \cup TimersOf(s, timers[s], live[s])
              /\ ServiceTimers' = others \cup TimersOf(s, timers'[s], live'[s])
      BY <2>3, ServiceTimersNext
    <3> QED
      BY <1>1, <2>3, <2>6, <2>9, <3>1
  <2>11. u.interval # Once => again = [u EXCEPT !.due = @ + u.interval]
    <3> SUFFICES ASSUME t.interval # Once PROVE again = [u EXCEPT !.due = u.due + u.interval]
      BY <2>6
    <3>1. ts = [timers[s] EXCEPT ![id] = Later(timers[s][id])]
      BY <1>5, <2>1
    <3>2. ts[id].due = t.due + t.interval /\ ts[id].interval = t.interval
      BY <1>5, <1>6, <2>2, <3>1, LaterTimer
    <3>3. u = [script |-> s, id |-> id, due |-> t.due, interval |-> t.interval]
      BY <1>5, <2>4 DEF AsTimer
    <3>4. again = [script |-> s, id |-> id, due |-> t.due + t.interval, interval |-> t.interval]
      BY <2>5, <3>2 DEF AsTimer
    <3> QED
      BY <3>3, <3>4
  <2>12. Service!Fires(u)
    BY <2>8, <2>10, <2>11 DEF Service!Fires
  <2>13. \A v \in ServiceTimers : v.script = s /\ v.id = id => v = u
    BY <2>4, ServiceTimerIs
  <2>14. ServiceDue' = ServiceDue \ {u}
    <3>1. \A v \in more : ~StillToFire(v)'
      BY <1>7, <2>6, <2>8
    <3>2. \A v \in ServiceTimers \ {u} : StillToFire(v)' <=> StillToFire(v)
      BY <1>7, <2>13
    <3> QED
      BY <2>10, <3>1, <3>2 DEF ServiceDue
  <2>15. CASE IsFirst(p)
    <3>1. u \in ServiceDue
      BY <1>7, <2>6, <2>7, <2>15 DEF ServiceDue
    <3>2. ASSUME NEW v \in ServiceDue \ {u} PROVE Service!Before(u, v)
      <4>1. /\ v \in ServiceTimers /\ StillToFire(v) /\ v.script \in Scripts
            /\ v.id \in Alive(timers[v.script], live[v.script])
            /\ v.due = timers[v.script][v.id].due
        BY <3>2, ServiceTimerIs DEF ServiceDue
      <4>2. CASE v.script # s
        <5>1. v.script > s
          BY <1>1, <1>4, <4>1, <4>2 DEF StillToFire, ToEnter
        <5> QED
          BY <2>6, <5>1 DEF Service!Before, Scripts
      <4>3. CASE v.script = s
        <5>1. v.id # id
          BY <2>13, <3>2, <4>1, <4>3
        <5>2. ~(s > s)
          BY DEF Scripts
        <5>3. PICK n \in DOMAIN places : First(v.id, places[n])
          BY <1>1, <1>4, <4>1, <4>3, <5>2 DEF StillToFire, ToEnter
        <5>4. PICK q : q = places[n] /\ live[s][q] = v.id
          BY <1>4, <5>3 DEF First
        <5>5. 1 \in DOMAIN places /\ p = places[1] /\ n \in Nat /\ n >= 1
          <6>1. places \in Seq(Nat)
            BY <1>6 DEF TimersTypeOK
          <6> QED
            BY <1>1, <1>2, <6>1, LenProperties, EmptySeq
        <5>6. n # 1
          BY <1>3, <1>4, <5>1, <5>4, <5>5
        <5>7. 1 < n
          BY <5>5, <5>6
        <5>8. IsFirst(q) /\ ~Entry(p).cancelled /\ ~Entry(q).cancelled
          BY <1>3, <1>4, <1>5, <1>6, <1>10, <4>1, <4>3, <5>3, <5>4, ListedFacts
             DEF IsFirst, Entry
        <5>9. Before(p, q)
          BY <1>1, <2>15, <5>4, <5>5, <5>7, <5>8 DEF TimersInv, PendingInv, InRun
        <5>10. Entry(p).due = u.due /\ Entry(q).due = v.due /\ live[at][p] = id /\ live[at][q] = v.id
          BY <1>3, <1>4, <1>5, <2>6, <4>1, <4>3, <5>4 DEF Entry
        <5> QED
          BY <2>6, <4>3, <5>1, <5>9, <5>10 DEF Before, Service!Before
      <4> QED
        BY <4>2, <4>3
    <3>3. Service!Fire(u)
      BY <1>1, <1>8, <2>2, <2>12, <2>14, <3>1, <3>2 DEF Service!Fire
    <3> QED
      BY <3>1, <3>3 DEF Service!SNext
  <2>16. CASE ~IsFirst(p)
    <3>1. u \notin ServiceDue
      BY <1>7, <2>6, <2>16 DEF ServiceDue
    <3>2. u.interval # Once /\ u.script \in DoubledScripts
      BY <1>6, <1>10, <2>6, <2>16 DEF DoubledScripts
    <3>3. ServiceDue' = ServiceDue
      BY <2>14, <3>1
    <3>4. Service!FireAgain(u)
      BY <1>1, <1>8, <2>2, <2>7, <2>12, <3>1, <3>2, <3>3 DEF Service!FireAgain
    <3> QED
      BY <2>7, <3>4 DEF Service!SNext
  <2> QED
    BY <2>15, <2>16
<1> QED
  BY <1>9, <1>10

\* A timer that a stop keeps from its callback is gone.
LEMMA FireCutIsClear ==
  ASSUME TimersInv, FireCut
  PROVE  Service!SNext
<1>1. /\ stage = "run" /\ places # <<>>
      /\ stage' = "scripts" /\ at' = NumScripts + 1 /\ stop' = TRUE
      /\ UNCHANGED <<clock, unheard, live>>
  BY DEF FireCut, Stopped, timeVars
<1>2. PICK id : id = live[at][Head(places)]
  OBVIOUS
<1>3. PICK s \in Scripts : s = at
  BY <1>1, HeadDue
<1>4. /\ ~timers[s][id].cancelled
      /\ timers' = [timers EXCEPT ![s] = Marked(timers[s], id)]
  BY <1>2, <1>3 DEF FireCut, Entry
<1>5. /\ TimersTypeOK /\ Listed(timers[s], live[s])
      /\ id \in DOMAIN timers[s] /\ id \in Alive(timers[s], live[s])
  BY <1>1, <1>2, <1>3, <1>4, HeadDue DEF TimersInv
<1>6. PICK ts : ts = Marked(timers[s], id)
  OBVIOUS
<1>7. timers'[s] = ts /\ \A r \in Scripts \ {s} : timers'[r] = timers[r] /\ live'[r] = live[r]
  BY <1>1, <1>4, <1>5, <1>6 DEF TimersTypeOK
<1>8. /\ Alive(ts, live[s]) = Alive(timers[s], live[s]) \ {id}
      /\ \A i \in DOMAIN timers[s] \ {id} : ts[i] = timers[s][i]
  BY <1>5, <1>6, MarkedTimer
<1>9. PICK u : u = AsTimer(s, timers[s], id)
  OBVIOUS
<1>10. TimersOf(s, ts, live[s]) = TimersOf(s, timers[s], live[s]) \ {u}
  <2>1. \A i \in Alive(timers[s], live[s]) \ {id} : ts[i] = timers[s][i]
    BY <1>5, <1>8, ListedFacts
  <2> QED
    BY <1>5, <1>8, <1>9, <2>1, OfGone
<1>11. u.script = s /\ u \in ServiceTimers
  BY <1>5, <1>9, TimerIs, ServiceTimerOf
<1>12. ServiceTimers' = ServiceTimers \ {u}
  <2>1. LET others == {v \in ServiceTimers : v.script # s}
        IN  /\ ServiceTimers = others \cup TimersOf(s, timers[s], live[s])
            /\ ServiceTimers' = others \cup TimersOf(s, timers'[s], live'[s])
    BY <1>7, ServiceTimersNext
  <2> QED
    BY <1>1, <1>7, <1>10, <1>11, <2>1
<1>13. ServiceDue' = {} /\ DoubledScripts' = DoubledScripts
  BY <1>1, StoppedDue, DoubledSame
<1>14. Service!StopsCall
  BY <1>1, <1>13 DEF Service!StopsCall
<1>15. Service!Clear(u)
  BY <1>1, <1>11, <1>12, <1>13, <1>14 DEF Service!Clear
<1> QED
  BY <1>11, <1>15 DEF Service!SNext

\* Every step of the timers is one of the service, or changes nothing of it.
LEMMA StepIsServiceStep ==
  ASSUME TimersInv, EarliestIsEarly, [TimersNext]_timersVars
  PROVE  [Service!SNext]_Service!svars
<1>1. ASSUME NEW s \in Scripts, ScriptStep(s) PROVE Service!SNext
  <2>1. ASSUME NEW delay \in Delays, NEW repeats \in BOOLEAN,
               AddTimer(s, New(delay, repeats)) \/ AddCut(s, New(delay, repeats))
        PROVE  Service!SNext
    <3>1. PICK t : t = New(delay, repeats)
      OBVIOUS
    <3>2. t.interval \in {delay, Once} /\ t.due = clock + delay /\ ~t.cancelled
      BY <3>1 DEF New
    <3>3. t \in Timer
      BY <3>1, NewTimer
    <3> QED
      BY <2>1, <3>1, <3>2, <3>3, AddIsAdd
  <2>2. ASSUME NEW id \in DOMAIN timers[s], ClearTimer(s, id) \/ ClearCut(s, id)
        PROVE  Service!SNext
    BY <2>2, ClearIsClear
  <2> QED
    BY <1>1, <2>1, <2>2, ReloadIsDrop DEF ScriptStep
<1>2. CASE Advance
  BY <1>2, AdvanceIsAdvance
<1>3. CASE SkipScript
  BY <1>3, SkipScriptIsSilent
<1>4. CASE Run
  BY <1>4, BeginRunIsService, FireTimerIsFire, FireCutIsClear, CutIsStop, StagesAreService,
     EndRunIsService DEF Run
<1>5. CASE AskToStop
  BY <1>5, StagesAreService
<1>6. CASE EndAdvance
  BY <1>6, EndAdvanceIsEndAdvance
<1>7. CASE UNCHANGED timersVars
  <2>1. UNCHANGED <<clock, next, unheard, timers, live, stage, at, places, stop>>
    BY <1>7 DEF timersVars, timeVars, listVars, runVars
  <2>2. ServiceTimers' = ServiceTimers /\ DoubledScripts' = DoubledScripts
    BY <2>1, DoubledSame DEF ServiceTimers
  <2>3. \A t \in ServiceTimers : StillToFire(t)' <=> StillToFire(t)
    BY <2>1 DEF StillToFire, InRun, ToEnter, First
  <2>4. ServiceDue' = ServiceDue
    BY <2>2, <2>3, SameDue
  <2> QED
    BY <2>1, <2>2, <2>4 DEF Service!svars
<1> QED
  BY <1>1, <1>2, <1>3, <1>4, <1>5, <1>6, <1>7 DEF TimersNext

\* The timers of all scripts behave as the documentation of advance_timers says: each call
\* fires what was due when it began, once, in script, due and creation order, leaves a
\* timer made by a callback to the next call, and leaves one due behind only when stopped.
\* Stops inside the timer functions add what the service has beyond the documentation: a
\* script whose addTimer was left before schedule may have timers passed over until it
\* reschedules, and an interval that a stop left twice in the list may fire twice in a call.
THEOREM ImplementsTimerService == TimersSpec => IsTimerService
<1>1. TimersInit => Service!SInit
  <2> SUFFICES ASSUME TimersInit PROVE Service!SInit
    OBVIOUS
  <2>1. clock = 0 /\ stage = "idle" /\ stop = FALSE /\ unheard = {}
    BY DEF TimersInit
  <2>2. \A s \in Scripts : timers[s] = <<>> /\ live[s] = <<>>
    BY DEF TimersInit
  <2>3. ServiceTimers = {}
    BY <2>2, NothingListed DEF ServiceTimers, TimersOf
  <2>4. DoubledScripts = {}
    BY <2>2 DEF DoubledScripts, Doubled
  <2>5. ServiceDue = {} /\ (stage # "idle") = FALSE
    BY <2>1, DueIs
  <2> QED
    BY <2>1, <2>3, <2>4, <2>5 DEF Service!SInit
<1>2. TimersSpec => []EarliestIsEarly
  BY EarliestIsEarlyHolds
<1> QED
  BY <1>1, <1>2, TimersInvariant, StepIsServiceStep, PTL
     DEF TimersSpec, IsTimerService, Service!TimerService
=============================================================================
