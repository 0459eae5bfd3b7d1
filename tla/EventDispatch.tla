---------------------------- MODULE EventDispatch ----------------------------
(***************************************************************************)
(* Event handlers and their delivery: ctx.on and ctx.off of the context    *)
(* prelude, the engine's copy of the handler lists (runner/events.rs) and  *)
(* Engine::dispatch (runner/engine/dispatch.rs), which serves the scripts  *)
(* of a group that follow one another in one visit to their context.       *)
(*                                                                         *)
(* While a handler runs, it may register and remove handlers, its own and, *)
(* through the global object they share, those of its group's scripts.     *)
(***************************************************************************)
EXTENDS Integers, Sequences, FiniteSets

CONSTANTS NumScripts,  \* loaded scripts, numbered in load order
          GroupOf,     \* the group of each, or Own
          Events,
          Handlers,    \* handler functions of one script
          Listening,   \* what each script listens to at first: each event once
          MaxHandlers, \* bound on the handlers of one event of one script
          MaxChanges   \* bound on the registrations and removals

Own == "own"
Scripts == 1 .. NumScripts
Heard == Seq([event : Events, handlers : Seq(Handlers) \ {<<>>}])

ASSUME NumScriptsAssumption == NumScripts \in Nat /\ MaxChanges \in Nat /\ MaxHandlers \in Nat
ASSUME ListeningAssumption ==
  /\ Listening \in [Scripts -> Heard]
  /\ \A s \in Scripts : \A i, j \in DOMAIN Listening[s] :
       Listening[s][i].event = Listening[s][j].event => i = j

VARIABLES
  lists,      \* the prelude's Map `handlers`; an event without a list has <<>>
  heard,      \* ListenedEvents: a Vec of events and handlers
  pc,         \* idle, visit, script, call, js, telling
  event,      \* the event emitted
  start,      \* first script of the visit
  at,         \* the script served, or whose code runs
  taken,      \* the handlers taken for it
  next,       \* which of them is called next
  change,     \* the list setHandlers is called for: script and event
  delivered,  \* count of scripts served
  stop,       \* ExecutionControl::should_stop
  stopped,    \* dispatch's own flag
  \* History.
  changes,    \* registrations and removals so far
  torn,       \* lists changed without the engine being told
  listed,     \* the lists when the emit began
  touched,    \* scripts whose lists changed before they were served, or are torn
  unencoded,  \* scripts the event could not be encoded for
  log         \* handlers the emit called: script and handler

dispatchVars == <<event, start, taken, next, delivered, stopped>>
historyVars == <<changes, torn, listed, touched, unencoded, log>>
vars == <<lists, heard, pc, at, change, stop, dispatchVars, historyVars>>

Emitting == start # 0

Position(s, e) == {i \in DOMAIN heard[s] : heard[s][i].event = e}

Listens(s, e) == Position(s, e) # {}

HandlersOf(s, e) == heard[s][CHOOSE i \in Position(s, e) : TRUE].handlers

\* What a delivery to script s is made of.
HeardOf(s, e) == IF Listens(s, e) THEN HandlersOf(s, e) ELSE <<>>

Init == /\ heard = Listening
        /\ lists = [s \in Scripts |-> [e \in Events |-> HeardOf(s, e)]]
        /\ pc = "idle"
        /\ event \in Events
        /\ start = 0
        /\ at = 1
        /\ taken = <<>>
        /\ next = 1
        /\ change = <<1, CHOOSE e \in Events : TRUE>>
        /\ delivered = 0
        /\ stop = FALSE
        /\ stopped = FALSE
        /\ changes = 0
        /\ torn = {}
        /\ listed = lists
        /\ touched = {}
        /\ unencoded = {}
        /\ log = <<>>

-----------------------------------------------------------------------------
(* ListenedEvents.                                                         *)

\* Vec::swap_remove.
SwapRemoved(seq, i) ==
  [j \in 1 .. Len(seq) - 1 |-> IF j = i THEN seq[Len(seq)] ELSE seq[j]]

\* A bug: the last entry is dropped, whichever is meant.
RecordedPopping(s, e, handlers) ==
  IF ~Listens(s, e)
  THEN IF handlers = <<>> THEN heard[s]
       ELSE Append(heard[s], [event |-> e, handlers |-> handlers])
  ELSE LET i == CHOOSE i \in Position(s, e) : TRUE
       IN  IF handlers = <<>> THEN SubSeq(heard[s], 1, Len(heard[s]) - 1)
           ELSE [heard[s] EXCEPT ![i].handlers = handlers]

Recorded(s, e, handlers) ==
  IF ~Listens(s, e)
  THEN IF handlers = <<>> THEN heard[s]
       ELSE Append(heard[s], [event |-> e, handlers |-> handlers])
  ELSE LET i == CHOOSE i \in Position(s, e) : TRUE
       IN  IF handlers = <<>> THEN SwapRemoved(heard[s], i)
           ELSE [heard[s] EXCEPT ![i].handlers = handlers]

-----------------------------------------------------------------------------
(* Script code.                                                            *)

SharesContext(s, t) == GroupOf[s] # Own /\ GroupOf[s] = GroupOf[t]

\* Code of the script at `at` changes the list of event e of script s, then calls
\* setHandlers.
Changes(s, e, list) ==
  /\ pc = "js"
  /\ s = at \/ SharesContext(s, at)
  /\ changes < MaxChanges
  /\ changes' = changes + 1
  /\ lists' = [lists EXCEPT ![s][e] = list]
  /\ change' = <<s, e>>
  /\ touched' = IF s > at THEN touched \cup {s} ELSE touched
  /\ pc' = "telling"
  /\ UNCHANGED <<heard, at, stop, dispatchVars, torn, listed, unencoded, log>>

On(s, e, h) == /\ Len(lists[s][e]) < MaxHandlers
               /\ Changes(s, e, Append(lists[s][e], h))

\* The first registration of h is removed; without one, nothing happens.
Off(s, e, h) == LET registered == {i \in DOMAIN lists[s][e] : lists[s][e][i] = h}
                IN  \E i \in registered :
                      /\ \A j \in registered : i <= j
                      /\ Changes(s, e, SubSeq(lists[s][e], 1, i - 1)
                                       \o SubSeq(lists[s][e], i + 1, Len(lists[s][e])))

Tell == /\ pc = "telling"
        /\ LET s == change[1] IN
             heard' = [heard EXCEPT ![s] = Recorded(s, change[2], lists[s][change[2]])]
        /\ torn' = torn \ {change}
        /\ pc' = "js"
        /\ UNCHANGED <<lists, at, change, stop, dispatchVars, changes, listed, touched, unencoded,
                       log>>

\* An interrupt, or the end of the budget: JavaScript stops at a later check, or reaches
\* none.
Interrupt == /\ pc # "idle"
             /\ ~stop
             /\ stop' = TRUE
             /\ UNCHANGED <<lists, heard, pc, at, change, dispatchVars, historyVars>>

\* After a handler, or the code of a call: returned, thrown or stopped.
AfterCode == IF ~Emitting THEN pc' = "idle" /\ stop' = FALSE /\ UNCHANGED <<next, stopped>>
             ELSE IF stop THEN pc' = "visit" /\ stopped' = TRUE /\ UNCHANGED <<next, stop>>
             ELSE pc' = "call" /\ next' = next + 1 /\ UNCHANGED <<stop, stopped>>

CodeEnds == /\ pc = "js"
            /\ AfterCode
            /\ UNCHANGED <<lists, heard, at, change, event, start, taken, delivered, historyVars>>

\* The check at the call of setHandlers stops the code: the list has changed already.
StoppedTelling == /\ pc = "telling"
                  /\ stop
                  /\ torn' = torn \cup {change}
                  /\ AfterCode
                  /\ UNCHANGED <<lists, heard, at, change, event, start, taken, delivered, changes,
                                 listed, touched, unencoded, log>>

\* Engine::call, or another operation that runs code of a script.
Call(s) == /\ pc = "idle"
           /\ at' = s
           /\ pc' = "js"
           /\ start' = 0
           /\ UNCHANGED <<lists, heard, change, stop, event, taken, next, delivered, stopped,
                          historyVars>>

-----------------------------------------------------------------------------
(* Engine::dispatch.                                                       *)

Emit(e) == /\ pc = "idle"
           /\ event' = e
           /\ start' = 1
           /\ at' = 1
           /\ pc' = "visit"
           /\ delivered' = 0
           /\ stopped' = FALSE
           /\ listed' = lists
           /\ touched' = {s \in Scripts : <<s, e>> \in torn}
           /\ unencoded' = {}
           /\ log' = <<>>
           /\ UNCHANGED <<lists, heard, change, stop, taken, next, changes, torn>>

\* The scripts of one visit.
Visited == {s \in start .. NumScripts :
              s = start \/ \A t \in start + 1 .. s : SharesContext(start, t)}

PastVisit == start + Cardinality(Visited)

\* A bug: a visit serves all its scripts.
ToServeAll == IF \E s \in Visited : Listens(s, event) THEN Visited ELSE {}

ToServe == {s \in Visited : Listens(s, event)}

VisitNone == /\ pc = "visit" /\ ~stopped /\ start <= NumScripts
             /\ ToServe = {}
             /\ start' = PastVisit
             /\ UNCHANGED <<lists, heard, pc, at, change, stop, event, taken, next, delivered,
                            stopped, historyVars>>

\* The event cannot be encoded: all that listen fail.  dispatch looks for a stop then
\* only for a script visited on its own.
VisitFails == /\ pc = "visit" /\ ~stopped /\ start <= NumScripts
              /\ ToServe # {}
              /\ delivered' = delivered + Cardinality(ToServe)
              /\ unencoded' = unencoded \cup {s \in Visited : Listens(s, event)}
              /\ stopped' = (stop /\ Cardinality(Visited) = 1)
              /\ start' = PastVisit
              /\ UNCHANGED <<lists, heard, pc, at, change, stop, event, taken, next, changes, torn,
                             listed, touched, log>>

Visit == /\ pc = "visit" /\ ~stopped /\ start <= NumScripts
         /\ ToServe # {}
         /\ at' = start
         /\ pc' = "script"
         /\ UNCHANGED <<lists, heard, change, stop, dispatchVars, historyVars>>

\* The handlers of the next script of the visit are taken as they are now.
ServeScript == /\ pc = "script"
               /\ at < PastVisit
               /\ IF Listens(at, event)
                  THEN /\ taken' = HandlersOf(at, event)
                       /\ next' = 1
                       /\ delivered' = delivered + 1
                       /\ pc' = "call"
                       /\ UNCHANGED at
                  ELSE at' = at + 1 /\ UNCHANGED <<pc, taken, next, delivered>>
               /\ UNCHANGED <<lists, heard, change, stop, event, start, stopped, historyVars>>

EndVisit == /\ pc = "script"
            /\ at = PastVisit
            /\ start' = at
            /\ pc' = "visit"
            /\ UNCHANGED <<lists, heard, at, change, stop, event, taken, next, delivered, stopped,
                           historyVars>>

\* A bug: the list is read again before each handler.
ToCallNow == HeardOf(at, event)

ToCall == taken

EnterHandler == /\ pc = "call"
                /\ next <= Len(ToCall)
                /\ log' = Append(log, <<at, ToCall[next]>>)
                /\ pc' = "js"
                /\ UNCHANGED <<lists, heard, at, change, stop, dispatchVars, changes, torn, listed,
                               touched, unencoded>>

ScriptServed == /\ pc = "call"
                /\ next > Len(ToCall)
                /\ stopped' = stop
                /\ IF stop THEN pc' = "visit" /\ UNCHANGED at
                           ELSE pc' = "script" /\ at' = at + 1
                /\ UNCHANGED <<lists, heard, change, stop, event, start, taken, next, delivered,
                               historyVars>>

Finish == /\ pc = "visit"
          /\ stopped \/ start > NumScripts
          /\ pc' = "idle"
          /\ stop' = FALSE
          /\ UNCHANGED <<lists, heard, at, change, dispatchVars, historyVars>>

-----------------------------------------------------------------------------
Code == \/ \E s \in Scripts, e \in Events, h \in Handlers : On(s, e, h) \/ Off(s, e, h)
        \/ Tell \/ StoppedTelling \/ CodeEnds

Dispatch == VisitNone \/ VisitFails \/ Visit \/ ServeScript \/ EndVisit \/ EnterHandler
            \/ ScriptServed \/ Finish

Next == \/ \E s \in Scripts : Call(s)
        \/ \E e \in Events : Emit(e)
        \/ Code \/ Dispatch \/ Interrupt

Spec == Init /\ [][Next]_vars

-----------------------------------------------------------------------------
(* Properties.                                                             *)

TypeOK == /\ lists \in [Scripts -> [Events -> Seq(Handlers)]]
          /\ heard \in [Scripts -> Heard]
          /\ pc \in {"idle", "visit", "script", "call", "js", "telling"}
          /\ event \in Events
          /\ start \in 0 .. NumScripts + 1
          /\ at \in 1 .. NumScripts + 1
          /\ pc \in {"call", "js", "telling"} => at \in Scripts
          /\ taken \in Seq(Handlers)
          /\ next \in 1 .. Len(taken) + 1
          /\ delivered \in 0 .. NumScripts
          /\ torn \subseteq Scripts \X Events
          /\ log \in Seq(Scripts \X Handlers)

\* The engine's copy is the prelude's list, whatever is registered and removed by whom,
\* also during a delivery of the event, except while the engine is being told of a
\* change and where code was stopped right then.
SnapshotExact ==
  \A s \in Scripts, e \in Events :
    /\ Cardinality(Position(s, e)) <= 1
    /\ (pc = "telling" => change # <<s, e>>) /\ <<s, e>> \notin torn => HeardOf(s, e) = lists[s][e]

CallsOf(calls, s) == {i \in DOMAIN calls : calls[i][1] = s}

\* Of the calls, those of handlers of s are of the first n of the list, in its order.
FirstCalled(calls, s, list, n) == \E k \in 0 .. Len(calls) :
                                    /\ CallsOf(calls, s) = k + 1 .. k + n
                                    /\ \A j \in 1 .. n : calls[k + j][2] = list[j]

Passed(s) == \/ s < start
             \/ s < at /\ (stopped \/ pc \in {"script", "call", "js", "telling"})

\* An event reaches the scripts in load order, groups or not, each of them through the
\* handlers it had when the emit began, once each and in registration order, although
\* handlers come and go meanwhile; a stop cuts this short and skips nothing before.
\* (Another script's handler may change a list before its turn.)
DeliversAsListed ==
  Emitting =>
    /\ \A i \in 1 .. Len(log) - 1 : log[i][1] <= log[i + 1][1]
    /\ \A s \in Scripts \ (touched \cup unencoded) :
         \E n \in 0 .. Len(listed[s][event]) :
           /\ FirstCalled(log, s, listed[s][event], n)
           /\ Passed(s) => n = Len(listed[s][event])

Served == {s \in Scripts : CallsOf(log, s) # {}} \cup unencoded

\* emit returns the number of scripts that had a handler called, or an event they
\* listen to that could not be encoded.
CountsServed ==
  Emitting /\ pc \in {"idle", "visit"} =>
    delivered = Cardinality(Served)
=============================================================================
