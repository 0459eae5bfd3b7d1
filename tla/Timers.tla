------------------------------- MODULE Timers -------------------------------
(***************************************************************************)
(* Script timers: runner/timers.rs, the timer functions of                 *)
(* assets/context_prelude.js and Engine::advance_timers.  Each script      *)
(* keeps its live timers and reports the due time of its earliest one; the *)
(* engine keeps a time no later than any of those, so that most calls      *)
(* return after one comparison.                                            *)
(*                                                                         *)
(* All of it runs on the engine thread; what interleaves are the callbacks *)
(* that add and clear timers while a call fires them, and stops.  QuickJS  *)
(* looks for one at every call and every branch, so that a stop may cut    *)
(* each timer function short: an action whose name ends in Cut is such a   *)
(* function, left at any of its checks.                                    *)
(***************************************************************************)
EXTENDS Integers, Sequences, FiniteSets

CONSTANTS NumScripts,  \* scripts, numbered in load order
          Delays,      \* delays a script may ask for
          Steps,       \* how far one call may move the clock
          MaxTimers,   \* bound on the timers a version of each script creates
          MaxClock     \* bound on the clock

Scripts == 1 .. NumScripts
Infinity == 1000       \* and bound on the due times of intervals
Once == -1             \* the interval of a timeout, undefined in the code

ASSUME TimersAssumption ==
  /\ NumScripts \in Nat /\ MaxTimers \in [Scripts -> Nat]
  /\ Delays \subseteq Nat /\ Steps \subseteq Nat
  /\ MaxClock \in Nat /\ \A delay \in Delays : MaxClock + delay < Infinity

VARIABLES
  clock,     \* TimerClock
  earliest,  \* Engine::earliest_timer
  next,      \* NextTimer of each script
  known,     \* `earliest` of each script's prelude
  timers,    \* the timers the version created, by id; byId says which are in that Map
  live,      \* `live` of the prelude: ids
  finished,  \* its `finished` is not 0
  stage,     \* idle, scripts (between two scripts), run (inside runTimers), callback
  at,        \* the script whose timers run
  places,    \* where in its `live` those are that runTimers still has to fire, in order
  stop,      \* ExecutionControl::should_stop
  \* History.
  unheard,   \* scripts where a stop kept the engine from hearing of an earlier timer
  outdated   \* scripts where a stop left an old time or a half swept list

timeVars == <<earliest, next, known, unheard, outdated>>
listVars == <<timers, live, finished>>
runVars == <<stage, at, places>>
timersVars == <<clock, timeVars, listVars, runVars, stop>>

TimersInit == /\ clock = 0
              /\ earliest = Infinity
              /\ next = [s \in Scripts |-> Infinity]
              /\ known = [s \in Scripts |-> Infinity]
              /\ timers = [s \in Scripts |-> <<>>]
              /\ live = [s \in Scripts |-> <<>>]
              /\ finished = [s \in Scripts |-> FALSE]
              /\ stage = "idle"
              /\ at = 1
              /\ places = <<>>
              /\ stop = FALSE
              /\ unheard = {}
              /\ outdated = {}

-----------------------------------------------------------------------------
(* The times kept.                                                         *)

Least(times) == IF times = {} THEN Infinity ELSE CHOOSE t \in times : \A u \in times : t <= u

\* The entries of a list that were not cleared and have not finished.
Alive(ts, list) == {list[p] : p \in {q \in DOMAIN list : ~ts[list[q]].cancelled}}

DueTimes(ts, list) == {ts[id].due : id \in Alive(ts, list)}

Lower(due) == IF due < earliest THEN due ELSE earliest

\* A bug: the engine's own time is not lowered.
ScheduleOnlyNext(s, due) == next' = [next EXCEPT ![s] = due] /\ UNCHANGED earliest

\* The hook `schedule` of a script.
Schedule(s, due) == next' = [next EXCEPT ![s] = due] /\ earliest' = Lower(due)

Knows(s, due) == known' = [known EXCEPT ![s] = due]

\* `reschedule`, over the timers as they have become.
Reschedule(s, ts, list) == /\ Knows(s, Least(DueTimes(ts, list)))
                           /\ Schedule(s, Least(DueTimes(ts, list)))
                           /\ unheard' = unheard \ {s}
                           /\ outdated' = outdated \ {s}

-----------------------------------------------------------------------------
(* The timer functions of scripts.                                         *)

\* The script whose JavaScript runs now; between calls of advance_timers, any.
Runs(s) == stage = "idle" \/ (stage = "callback" /\ s = at)

\* A stop ends the run, and with it the loop over the scripts.
Stopped == stage' = "scripts" /\ at' = NumScripts + 1 /\ places' = <<>> /\ stop' = TRUE

\* One in a timer function: of a callback, or of any other call of the script.
StopsCaller == IF stage = "callback" THEN Stopped ELSE UNCHANGED <<runVars, stop>>

New(delay, repeats) == [due |-> clock + delay, interval |-> IF repeats THEN delay ELSE Once,
                        cancelled |-> FALSE, byId |-> TRUE]

\* The first part of addTimer.
Creates(s, t) == /\ Runs(s)
                 /\ Len(timers[s]) < MaxTimers[s]
                 /\ timers' = [timers EXCEPT ![s] = Append(@, t)]
                 /\ live' = [live EXCEPT ![s] = Append(@, Len(timers[s]) + 1)]
                 /\ UNCHANGED <<clock, finished>>

\* setTimeout and setInterval.
AddTimer(s, t) == /\ Creates(s, t)
                  /\ IF t.due < known[s] THEN Knows(s, t.due) /\ Schedule(s, t.due)
                                         ELSE UNCHANGED <<earliest, next, known>>
                  /\ UNCHANGED <<unheard, outdated, runVars, stop>>

\* They are left once the timer is in the array, and before schedule.  One that byId.set
\* did not reach is one that no clear names.
AddCut(s, t) == /\ Creates(s, t)
                /\ UNCHANGED known \/ (t.due < known[s] /\ Knows(s, t.due))
                /\ unheard' = IF t.due < known[s] THEN unheard \cup {s} ELSE unheard
                /\ UNCHANGED <<earliest, next, outdated>>
                /\ StopsCaller

Marked(ts, id) == [ts EXCEPT ![id].cancelled = TRUE]

\* Nothing reads the rest of a timer that is retired.
Gone == [due |-> 0, interval |-> Once, cancelled |-> TRUE, byId |-> FALSE]

Retired(ts, id) == [ts EXCEPT ![id] = Gone]

\* A bug: the earliest timer is looked for before the cleared one is marked.
RescheduledEarly(s, id) ==
  IF timers[s][id].due = known[s] THEN Reschedule(s, timers[s], live[s]) ELSE UNCHANGED timeVars

RescheduledIfEarliest(s, id) ==
  IF timers[s][id].due = known[s] THEN Reschedule(s, Retired(timers[s], id), live[s])
                                  ELSE UNCHANGED timeVars

Clears(s, id) == Runs(s) /\ timers[s][id].byId /\ UNCHANGED <<clock, live>>

\* clearTimeout and clearInterval: the timer is marked, to be swept by the next run.
ClearTimer(s, id) == /\ Clears(s, id)
                     /\ timers' = [timers EXCEPT ![s] = Retired(@, id)]
                     /\ finished' = [finished EXCEPT ![s] = TRUE]
                     /\ RescheduledIfEarliest(s, id)
                     /\ UNCHANGED <<runVars, stop>>

\* They are left before byId.delete, or later, but before schedule.
ClearCut(s, id) ==
  /\ Clears(s, id)
  /\ \/ timers' = [timers EXCEPT ![s] = Marked(@, id)] /\ UNCHANGED <<finished, known>>
     \/ /\ timers' = [timers EXCEPT ![s] = Retired(@, id)]
        /\ finished' = [finished EXCEPT ![s] = TRUE]
        /\ \/ UNCHANGED known
           \/ /\ timers[s][id].due = known[s]
              /\ Knows(s, Least(DueTimes(Retired(timers[s], id), live[s])))
  /\ outdated' = IF timers[s][id].due = known[s] THEN outdated \cup {s} ELSE outdated
  /\ UNCHANGED <<earliest, next, unheard>>
  /\ StopsCaller

\* A reload starts with a new prelude environment.
Reload(s) == /\ stage = "idle"
             /\ next' = [next EXCEPT ![s] = Infinity]
             /\ known' = [known EXCEPT ![s] = Infinity]
             /\ timers' = [timers EXCEPT ![s] = <<>>]
             /\ live' = [live EXCEPT ![s] = <<>>]
             /\ finished' = [finished EXCEPT ![s] = FALSE]
             /\ unheard' = unheard \ {s}
             /\ outdated' = outdated \ {s}
             /\ UNCHANGED <<clock, earliest, runVars, stop>>

-----------------------------------------------------------------------------
(* Engine::advance_timers, and what runTimers does for one script.         *)

\* A bug: the time itself does not count.
LooksAtScriptsLate == clock' > earliest

\* Below the earliest due time, a call returns at once.
LooksAtScripts == clock' >= earliest

Advance == /\ stage = "idle"
           /\ \E d \in Steps : clock' = clock + d
           /\ clock' <= MaxClock
           /\ IF LooksAtScripts THEN stage' = "scripts" /\ stop' = FALSE
                                ELSE UNCHANGED <<stage, stop>>
           /\ UNCHANGED <<timeVars, listVars, at, places>>

SkipScript == /\ stage = "scripts"
              /\ at <= NumScripts
              /\ next[at] > clock
              /\ at' = at + 1
              /\ UNCHANGED <<clock, timeVars, listVars, stage, places, stop>>

Entry(p) == timers[at][live[at][p]]

\* The order of the places: by due time, then creation; one timer's as they are, for the
\* sort is stable.
Before(p, q) == \/ Entry(p).due < Entry(q).due
                \/ Entry(p).due = Entry(q).due /\ live[at][p] < live[at][q]
                \/ live[at][p] = live[at][q] /\ p < q

DuePlaces == {p \in DOMAIN live[at] : ~Entry(p).cancelled /\ Entry(p).due <= clock}

\* The members of S in the order R: each comes after those R puts before it.
Ranked(S, R) ==
  [n \in 1 .. Cardinality(S) |-> CHOOSE p \in S : Cardinality({q \in S : <<q, p>> \in R}) = n - 1]

DueInOrder == Ranked(DuePlaces, {r \in DuePlaces \X DuePlaces : Before(r[1], r[2])})

\* Between two scripts, the engine asks should_stop.
AfterRun == stage' = "scripts" /\ at' = IF stop THEN NumScripts + 1 ELSE at + 1

Enters == stage = "scripts" /\ at <= NumScripts /\ next[at] <= clock

\* runTimers begins; with nothing due it reschedules and returns.
BeginRun == /\ Enters
            /\ places' = DueInOrder
            /\ IF DuePlaces = {} THEN Reschedule(at, timers[at], live[at]) /\ AfterRun
                                 ELSE stage' = "run" /\ UNCHANGED <<timeVars, at>>
            /\ UNCHANGED <<clock, listVars, stop>>

\* It is left while it looks for what is due, sorts it, or between two timers.
RunCut == /\ Enters \/ stage = "run"
          /\ Stopped
          /\ UNCHANGED <<clock, timeVars, listVars>>

\* An interval stays in phase, however late.
Later(t) == [t EXCEPT !.due = @ + t.interval]

\* `fire` looks at the timer again: a callback may have cleared it.
FireTimer ==
  /\ stage = "run"
  /\ places # <<>>
  /\ places' = Tail(places)
  /\ LET id == live[at][Head(places)]
         t == timers[at][id]
     IN  IF t.cancelled
         THEN UNCHANGED <<timers, finished, stage>>
         ELSE /\ t.interval # Once => t.due + t.interval < Infinity
              /\ timers' = [timers EXCEPT ![at] = IF t.interval = Once
                                                  THEN Retired(@, id)
                                                  ELSE [@ EXCEPT ![id] = Later(t)]]
              /\ finished' = [finished EXCEPT ![at] = @ \/ t.interval = Once]
              /\ stage' = "callback"
  /\ UNCHANGED <<clock, timeVars, live, at, stop>>

\* It is left before byId.delete, with a timer it marked.
FireCut == /\ stage = "run"
           /\ places # <<>>
           /\ ~Entry(Head(places)).cancelled
           /\ Entry(Head(places)).interval = Once
           /\ timers' = [timers EXCEPT ![at] = Marked(@, live[at][Head(places)])]
           /\ Stopped
           /\ UNCHANGED <<clock, timeVars, live, finished>>

\* The callback returns, or throws what runTimers keeps for its end.
CallbackEnds == /\ stage = "callback"
                /\ stage' = "run"
                /\ UNCHANGED <<clock, timeVars, listVars, at, places, stop>>

\* A check stops the callback, or its call.
CallbackStopped == /\ stage = "callback"
                   /\ Stopped
                   /\ UNCHANGED <<clock, timeVars, listVars>>

\* An interrupt from any thread, which no check sees before the script's run ends.
AskToStop == /\ stage # "idle"
             /\ stop' = TRUE
             /\ UNCHANGED <<clock, timeVars, listVars, runVars>>

\* Those among the first n places the sweep keeps.
Kept(n) == {p \in 1 .. n : ~Entry(p).cancelled}

\* `live` when the sweep has moved them to its front.
Moved(n) == LET kept == Ranked(Kept(n), {r \in Kept(n) \X Kept(n) : r[1] < r[2]})
            IN  [p \in DOMAIN live[at] |->
                   IF p \in DOMAIN kept THEN live[at][kept[p]] ELSE live[at][p]]

\* `live` after the sweep.
Swept == IF finished[at]
         THEN SubSeq(Moved(Len(live[at])), 1, Cardinality(Kept(Len(live[at]))))
         ELSE live[at]

SweepsTo(list) == /\ live' = [live EXCEPT ![at] = list]
                  /\ finished' = [finished EXCEPT ![at] = FALSE]
                  /\ UNCHANGED <<clock, timers>>

AllFired == stage = "run" /\ places = <<>>

\* runTimers sweeps what is marked and reschedules.
EndRun == /\ AllFired
          /\ SweepsTo(Swept)
          /\ Reschedule(at, timers[at], Swept)
          /\ AfterRun
          /\ UNCHANGED <<places, stop>>

\* It is left in the loop that sweeps.
SweepCut == /\ AllFired
            /\ finished[at]
            /\ \E n \in DOMAIN live[at] : live' = [live EXCEPT ![at] = Moved(n)]
            /\ outdated' = outdated \cup {at}
            /\ Stopped
            /\ UNCHANGED <<clock, earliest, next, known, unheard, timers, finished>>

\* It is left after that, before schedule.
RescheduleCut ==
  /\ \/ AllFired /\ SweepsTo(Swept) /\ outdated' = outdated \cup {at}
     \/ Enters /\ DuePlaces = {} /\ UNCHANGED <<clock, listVars, outdated>>
  /\ \/ UNCHANGED known
     \/ Knows(at, Least(DueTimes(timers[at], live[at])))
  /\ Stopped
  /\ UNCHANGED <<earliest, next, unheard>>

\* The loop over the scripts is over: the earliest due time is set exactly.
EndAdvance == /\ stage = "scripts"
              /\ at = NumScripts + 1
              /\ earliest' = Least({next[s] : s \in Scripts})
              /\ stage' = "idle"
              /\ at' = 1
              /\ UNCHANGED <<clock, next, known, unheard, outdated, listVars, places, stop>>

-----------------------------------------------------------------------------
ScriptStep(s) ==
  \/ \E delay \in Delays, repeats \in BOOLEAN :
       AddTimer(s, New(delay, repeats)) \/ AddCut(s, New(delay, repeats))
  \/ \E id \in DOMAIN timers[s] : ClearTimer(s, id) \/ ClearCut(s, id)
  \/ Reload(s)

Run == \/ BeginRun \/ RunCut \/ FireTimer \/ FireCut \/ CallbackEnds \/ CallbackStopped
       \/ EndRun \/ SweepCut \/ RescheduleCut

TimersNext == \/ \E s \in Scripts : ScriptStep(s)
              \/ Advance \/ SkipScript \/ Run \/ AskToStop \/ EndAdvance

TimersSpec == TimersInit /\ [][TimersNext]_timersVars

-----------------------------------------------------------------------------
(* Properties.                                                             *)

Times == 0 .. Infinity - 1
Timer == [due : Times, interval : Delays \cup {Once}, cancelled : BOOLEAN, byId : BOOLEAN]

TimersTypeOK ==
  /\ clock \in 0 .. MaxClock
  /\ earliest \in 0 .. Infinity
  /\ next \in [Scripts -> 0 .. Infinity] /\ known \in [Scripts -> 0 .. Infinity]
  /\ timers \in [Scripts -> Seq(Timer)]
  /\ live \in [Scripts -> Seq(Nat)]
  /\ \A s \in Scripts : /\ Len(timers[s]) <= MaxTimers[s]
                        /\ \A p \in DOMAIN live[s] : live[s][p] \in DOMAIN timers[s]
  /\ finished \in [Scripts -> BOOLEAN]
  /\ stage \in {"idle", "scripts", "run", "callback"}
  /\ at \in 1 .. NumScripts + 1
  /\ places \in Seq(Nat)
  /\ stop \in BOOLEAN
  /\ unheard \subseteq Scripts /\ outdated \subseteq Scripts

\* The engine's time is no later than any script's, and a script's no later than any of
\* its live timers, however stops cut runs and clears short: a call that returns at once,
\* or passes a script over, leaves no due timer behind.  Only where a stop fell into
\* addTimer, before schedule, a timer is late, until the script reschedules.
EarliestIsEarly ==
  \A s \in Scripts : /\ earliest <= next[s]
                     /\ s \in unheard \/ \A due \in DueTimes(timers[s], live[s]) : next[s] <= due

\* A script with an entry twice in its list: a stop fell into the sweep.
Doubled(s) == \E p, q \in DOMAIN live[s] : p < q /\ live[s][p] = live[s][q]

\* After a call that was not stopped, each script reports its earliest timer exactly,
\* whatever its callbacks added and cleared and wherever earlier calls were stopped, but
\* for a stop that fell into a timer function of the script or into its sweep.
NextIsExact ==
  stage = "idle" /\ ~stop =>
    \A s \in Scripts : \/ s \in unheard \cup outdated \/ Doubled(s)
                       \/ next[s] = Least(DueTimes(timers[s], live[s]))

\* The timers of the service are those not cleared or finished.
AsTimer(s, ts, id) == [script |-> s, id |-> id, due |-> ts[id].due, interval |-> ts[id].interval]

TimersOf(s, ts, list) == {AsTimer(s, ts, id) : id \in Alive(ts, list)}

ServiceTimers == UNION {TimersOf(s, timers[s], live[s]) : s \in Scripts}

\* A timer listed twice is the service's where it comes first.
First(id, p) == live[at][p] = id /\ \A q \in 1 .. p - 1 : live[at][q] # id

InRun == stage \in {"run", "callback"}

ToEnter(s) == \/ stage = "scripts" /\ s >= at
              \/ InRun /\ s > at

\* Those still to fire: what runTimers has left of its script, and what is due in the
\* scripts to be entered.
StillToFire(t) ==
  \/ InRun /\ t.script = at /\ \E n \in DOMAIN places : First(t.id, places[n])
  \/ ToEnter(t.script) /\ t.due <= clock /\ next[t.script] <= clock

ServiceDue == {t \in ServiceTimers : StillToFire(t)}

DoubledScripts == {s \in Scripts : Doubled(s)}

Service == INSTANCE TimerService WITH
             timers <- ServiceTimers, due <- ServiceDue,
             advancing <- stage # "idle", stopped <- stop,
             late <- unheard, doubled <- DoubledScripts

\* The timers of all scripts behave as the documentation of advance_timers says, but for
\* what stops in addTimer and in the sweep leave behind.
IsTimerService == Service!TimerService
=============================================================================
