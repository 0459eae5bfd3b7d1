---------------------------- MODULE TimerService ----------------------------
(***************************************************************************)
(* What the documentation of Engine::advance_timers promises of script     *)
(* timers, without saying how: a call moves the clock, then the timers due *)
(* fire once each, script by script in load order, each script's in due    *)
(* order, then creation order.  Only an interrupt or an exhausted budget   *)
(* leaves some for the next call.                                          *)
(*                                                                         *)
(* Two things the documentation does not have: a script that was stopped   *)
(* as it set a timer may have its timers passed over, and in one stopped   *)
(* at the end of a run an interval may fire again in the same call.        *)
(***************************************************************************)
EXTENDS Integers

CONSTANTS Scripts,    \* scripts, numbered in load order
          Delays,     \* delays a script may ask for
          Once,       \* the interval of a timer that does not repeat
          Steps       \* how far one call may move the clock

VARIABLES clock,      \* engine time
          timers,     \* those set and not cleared or finished: script, id, due, interval
          due,        \* those a running call has still to fire
          advancing,  \* a call runs
          stopped,    \* it was interrupted or is out of budget
          late,       \* scripts that were stopped as they set a timer
          doubled     \* scripts stopped at the end of a run, some of whose timers fire twice

svars == <<clock, timers, due, advancing, stopped, late, doubled>>

SInit == /\ clock = 0
         /\ timers = {}
         /\ due = {}
         /\ advancing = FALSE
         /\ stopped = FALSE
         /\ late = {}
         /\ doubled = {}

\* Of a running call, a stop leaves the rest.
StopsCall == IF advancing THEN stopped' = TRUE /\ due' = {} ELSE UNCHANGED <<stopped, due>>

\* A timer created while a call runs waits for the next call.
Add(t) == /\ \A u \in timers : u.script = t.script => u.id # t.id
          /\ \E delay \in Delays : t.interval \in {delay, Once} /\ t.due = clock + delay
          /\ timers' = timers \cup {t}
          /\ \/ UNCHANGED <<due, stopped, late>>
             \/ StopsCall /\ late' \in {late, late \cup {t.script}}
          /\ UNCHANGED <<clock, advancing, doubled>>

\* It is cleared, or a stop falls between its removal and its callback.
Clear(t) == /\ t \in timers
            /\ timers' = timers \ {t}
            /\ \/ due' = due \ {t} /\ UNCHANGED stopped
               \/ StopsCall
            /\ late' \in {late, late \ {t.script}}
            /\ UNCHANGED <<clock, advancing, doubled>>

\* A reload or unload drops the timers of the version.
Drop(s) == /\ ~advancing
           /\ timers' = {t \in timers : t.script # s}
           /\ late' = late \ {s}
           /\ doubled' = doubled \ {s}
           /\ UNCHANGED <<clock, due, advancing, stopped>>

Advance == /\ ~advancing
           /\ \E d \in Steps : clock' = clock + d
           /\ \E missed \in SUBSET late :
                due' = {t \in timers : t.due <= clock' /\ t.script \notin missed}
           /\ advancing' \in {TRUE, due' # {}}
           /\ stopped' = (stopped /\ ~advancing')
           /\ UNCHANGED <<timers, late, doubled>>

Before(t, u) == \/ t.script < u.script
                \/ t.script = u.script /\ t.due < u.due
                \/ t.script = u.script /\ t.due = u.due /\ t.id < u.id

\* An interval stays in phase, however late it fires.
Fires(t) == timers' = (timers \ {t}) \cup
              IF t.interval = Once THEN {} ELSE {[t EXCEPT !.due = @ + t.interval]}

Fire(t) == /\ t \in due
           /\ \A u \in due \ {t} : Before(t, u)
           /\ due' = due \ {t}
           /\ Fires(t)
           /\ UNCHANGED <<clock, advancing, stopped, late, doubled>>

FireAgain(t) == /\ advancing
                /\ t \in timers \ due
                /\ t.script \in doubled
                /\ t.interval # Once
                /\ Fires(t)
                /\ UNCHANGED <<clock, due, advancing, stopped, late, doubled>>

\* A script's timers are looked through: none is late any more.
LookThrough == /\ UNCHANGED <<clock, advancing, stopped, timers, due>>
               /\ late' \subseteq late
               /\ doubled' \subseteq doubled

\* A stop may leave timers of one script to fire twice.
Stop == /\ advancing
        /\ stopped' = TRUE
        /\ due' \in {due, {}}
        /\ late' \subseteq late
        /\ \A s, r \in doubled' \ doubled : s = r
        /\ UNCHANGED <<clock, timers, advancing>>

\* Those a stopped call left out stay due for the next one.
EndAdvance == /\ advancing
              /\ due = {}
              /\ advancing' = FALSE
              /\ UNCHANGED <<clock, timers, due, stopped, late, doubled>>

SNext == \/ LookThrough
         \/ Stop
         \/ EndAdvance
         \/ Advance
         \/ \E s \in Scripts : Drop(s)
         \/ \E t \in due : Fire(t)
         \/ \E t \in timers : Clear(t) \/ FireAgain(t)
         \/ \E t \in timers' : Add(t)

TimerService == SInit /\ [][SNext]_svars
=============================================================================
