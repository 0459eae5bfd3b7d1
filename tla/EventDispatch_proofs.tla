------------------------ MODULE EventDispatch_proofs ------------------------
(***************************************************************************)
(* That the engine's copy of the handler lists is exact, and that an emit  *)
(* delivers as listed and counts what it served, for any number of         *)
(* scripts, groups, events, handlers and changes.                          *)
(***************************************************************************)
EXTENDS EventDispatch, SequenceTheorems, FiniteSetTheorems, WellFoundedInduction, TLAPS

Entry == [event : Events, handlers : Seq(Handlers) \ {<<>>}]

(***************************************************************************)
(* Position, HeardOf and Recorded, of a list instead of a script.          *)
(***************************************************************************)
PositionIn(L, e) == {i \in DOMAIN L : L[i].event = e}

Lookup(L, e) == IF PositionIn(L, e) # {}
                THEN L[CHOOSE i \in PositionIn(L, e) : TRUE].handlers
                ELSE <<>>

Distinct(L) == \A i, j \in DOMAIN L : L[i].event = L[j].event => i = j

\* M has the entries of L for the event e.
Covers(M, L, e) == \A i \in DOMAIN L : L[i].event = e => \E j \in DOMAIN M : M[j] = L[i]

\* Looking an event up finds its entry, when no event is listed twice.
LEMMA Found ==
  ASSUME NEW L, Distinct(L), NEW i \in DOMAIN L
  PROVE  /\ PositionIn(L, L[i].event) = {i}
         /\ Lookup(L, L[i].event) = L[i].handlers
<1>1. PositionIn(L, L[i].event) = {i}
  BY DEF PositionIn, Distinct
<1>2. (CHOOSE j \in {i} : TRUE) = i
  OBVIOUS
<1> QED BY <1>1, <1>2 DEF Lookup

\* Two lists agree on an event that has the same entries in both.
LEMMA SameLookup ==
  ASSUME NEW L, NEW M, Distinct(L), Distinct(M), NEW e, Covers(M, L, e), Covers(L, M, e)
  PROVE  Lookup(M, e) = Lookup(L, e)
<1>1. CASE PositionIn(L, e) = {}
  <2>1. PositionIn(M, e) = {}
    BY <1>1 DEF PositionIn, Covers
  <2> QED BY <1>1, <2>1 DEF Lookup
<1>2. CASE PositionIn(L, e) # {}
  <2>1. PICK i \in DOMAIN L : L[i].event = e
    BY <1>2 DEF PositionIn
  <2>2. PICK j \in DOMAIN M : M[j] = L[i]
    BY <2>1 DEF Covers
  <2>3. Lookup(L, e) = L[i].handlers
    BY <2>1, Found
  <2>4. Lookup(M, e) = M[j].handlers
    BY <2>1, <2>2, Found
  <2> QED BY <2>2, <2>3, <2>4
<1> QED BY <1>1, <1>2

Pushed(L, e, hs) == Append(L, [event |-> e, handlers |-> hs])

Replaced(L, k, hs) == [L EXCEPT ![k].handlers = hs]

\* A new event is pushed.
LEMMA LookupPushed ==
  ASSUME NEW L \in Seq(Entry), Distinct(L), NEW e \in Events, PositionIn(L, e) = {},
         NEW hs \in Seq(Handlers), hs # <<>>, NEW M,
         M = Pushed(L, e, hs)
  PROVE  /\ M \in Seq(Entry)
         /\ Distinct(M)
         /\ Lookup(M, e) = hs
         /\ \A f \in Events \ {e} : Lookup(M, f) = Lookup(L, f)
<1> DEFINE new == [event |-> e, handlers |-> hs]
<1>1. new \in Entry
  BY DEF Entry
<1>2. /\ M \in Seq(Entry)
      /\ DOMAIN L = 1 .. Len(L)
      /\ Len(L) \in Nat
      /\ DOMAIN M = 1 .. Len(L) + 1
      /\ \A i \in 1 .. Len(L) : M[i] = L[i]
      /\ M[Len(L) + 1] = new
  BY <1>1 DEF Pushed
<1>3. new.event = e /\ new.handlers = hs
  OBVIOUS
<1>4. \A i \in 1 .. Len(L) : L[i].event # e
  BY <1>2 DEF PositionIn
<1> HIDE DEF new
<1>5. Distinct(M)
  BY <1>2, <1>3, <1>4 DEF Distinct
<1>6. Lookup(M, e) = hs
  <2>1. Len(L) + 1 \in DOMAIN M
    BY <1>2
  <2>2. Lookup(M, M[Len(L) + 1].event) = M[Len(L) + 1].handlers
    BY <1>5, <2>1, Found
  <2> QED BY <1>2, <1>3, <2>2
<1>7. ASSUME NEW f \in Events \ {e}
      PROVE  Lookup(M, f) = Lookup(L, f)
  <2>1. Covers(M, L, f)
    BY <1>2 DEF Covers
  <2>2. Covers(L, M, f)
    <3> SUFFICES ASSUME NEW j \in DOMAIN M, M[j].event = f
                 PROVE  \E i \in DOMAIN L : L[i] = M[j]
      BY DEF Covers
    <3>1. j # Len(L) + 1
      BY <1>2, <1>3
    <3>2. j \in 1 .. Len(L)
      BY <1>2, <3>1
    <3> QED BY <1>2, <3>2
  <2> QED BY <1>5, <2>1, <2>2, SameLookup
<1> QED BY <1>2, <1>5, <1>6, <1>7

\* The handlers of an event listed are replaced.
LEMMA LookupReplaced ==
  ASSUME NEW L \in Seq(Entry), Distinct(L), NEW k \in DOMAIN L,
         NEW hs \in Seq(Handlers), hs # <<>>, NEW M,
         M = Replaced(L, k, hs)
  PROVE  /\ M \in Seq(Entry)
         /\ Distinct(M)
         /\ Lookup(M, L[k].event) = hs
         /\ \A f \in Events \ {L[k].event} : Lookup(M, f) = Lookup(L, f)
<1> DEFINE new == [L[k] EXCEPT !.handlers = hs]
<1>1. L[k] \in Entry
  BY ElementOfSeq, LenProperties
<1>2. new \in Entry /\ new.event = L[k].event /\ new.handlers = hs
  BY <1>1 DEF Entry
<1>3. M = [L EXCEPT ![k] = new]
  BY DEF Replaced
<1>4. DOMAIN L = 1 .. Len(L) /\ Len(L) \in Nat
  BY LenProperties
<1> HIDE DEF new
<1>5. /\ M \in Seq(Entry)
      /\ DOMAIN M = DOMAIN L
      /\ M[k] = new
      /\ \A i \in DOMAIN L \ {k} : M[i] = L[i]
  BY <1>2, <1>3, <1>4, ExceptSeq, LenProperties
<1>6. Distinct(M)
  BY <1>2, <1>5 DEF Distinct
<1>7. Lookup(M, L[k].event) = hs
  <2>1. k \in DOMAIN M
    BY <1>5
  <2>2. Lookup(M, M[k].event) = M[k].handlers
    BY <1>6, <2>1, Found
  <2> QED BY <1>2, <1>5, <2>2
<1>8. ASSUME NEW f \in Events \ {L[k].event}
      PROVE  Lookup(M, f) = Lookup(L, f)
  <2>1. Covers(M, L, f)
    BY <1>5 DEF Covers
  <2>2. Covers(L, M, f)
    BY <1>2, <1>5 DEF Covers
  <2> QED BY <1>6, <2>1, <2>2, SameLookup
<1> QED BY <1>5, <1>6, <1>7, <1>8

\* An entry is removed, and the last one takes its place.
LEMMA LookupRemoved ==
  ASSUME NEW L \in Seq(Entry), Distinct(L), NEW k \in DOMAIN L, NEW M,
         M = SwapRemoved(L, k)
  PROVE  /\ M \in Seq(Entry)
         /\ Distinct(M)
         /\ Lookup(M, L[k].event) = <<>>
         /\ \A f \in Events \ {L[k].event} : Lookup(M, f) = Lookup(L, f)
<1>1. DOMAIN L = 1 .. Len(L) /\ Len(L) \in Nat /\ Len(L) - 1 \in Nat
  BY LenProperties
<1>2. \A j \in 1 .. Len(L) - 1 : (IF j = k THEN L[Len(L)] ELSE L[j]) \in Entry
  BY <1>1, ElementOfSeq
<1>3. /\ DOMAIN M = 1 .. Len(L) - 1
      /\ \A j \in 1 .. Len(L) - 1 : M[j] = IF j = k THEN L[Len(L)] ELSE L[j]
  BY DEF SwapRemoved
<1>4. M \in Seq(Entry)
  <2>1. M = [j \in 1 .. Len(L) - 1 |-> IF j = k THEN L[Len(L)] ELSE L[j]]
    BY DEF SwapRemoved
  <2>2. M \in [1 .. Len(L) - 1 -> Entry]
    BY <1>2, <2>1
  <2> QED BY <1>1, <2>2, SeqDef
<1>5. Distinct(M)
  BY <1>1, <1>3 DEF Distinct
<1>6. \A j \in DOMAIN M : M[j].event # L[k].event
  BY <1>1, <1>3 DEF Distinct
<1>7. Lookup(M, L[k].event) = <<>>
  BY <1>6 DEF Lookup, PositionIn
<1>8. ASSUME NEW f \in Events \ {L[k].event}
      PROVE  Lookup(M, f) = Lookup(L, f)
  <2>1. Covers(M, L, f)
    <3> SUFFICES ASSUME NEW i \in DOMAIN L, L[i].event = f
                 PROVE  \E j \in DOMAIN M : M[j] = L[i]
      BY DEF Covers
    <3>1. i # k
      OBVIOUS
    <3>2. CASE i = Len(L)
      BY <1>1, <1>3, <3>1, <3>2
    <3>3. CASE i # Len(L)
      <4>1. i \in 1 .. Len(L) - 1
        BY <1>1, <3>3
      <4> QED BY <1>3, <3>1, <4>1
    <3> QED BY <3>2, <3>3
  <2>2. Covers(L, M, f)
    BY <1>1, <1>3 DEF Covers
  <2> QED BY <1>5, <2>1, <2>2, SameLookup
<1> QED BY <1>4, <1>5, <1>7, <1>8

-----------------------------------------------------------------------------
(***************************************************************************)
(* The inductive invariant: the lists are lists of handlers, no event is   *)
(* listed twice, the hand-over in progress is of a list there is, and the  *)
(* two copies agree outside what is being told or was torn.                *)
(***************************************************************************)
ListsInv == lists \in [Scripts -> [Events -> Seq(Handlers)]]

HeardInv == /\ heard \in [Scripts -> Seq(Entry)]
            /\ \A s \in Scripts : Distinct(heard[s])

ChangeInv == pc = "telling" => change \in Scripts \X Events

Agree(s, e) == Lookup(heard[s], e) = lists[s][e]

AgreeInv == \A s \in Scripts, e \in Events :
              (pc = "telling" => change # <<s, e>>) /\ <<s, e>> \notin torn => Agree(s, e)

Inv == ListsInv /\ HeardInv /\ ChangeInv /\ AgreeInv

LEMMA HeardIsLookup ==
  \A s \in Scripts, e \in Events :
    /\ Position(s, e) = PositionIn(heard[s], e)
    /\ HeardOf(s, e) = Lookup(heard[s], e)
BY DEF Position, PositionIn, HeardOf, HandlersOf, Listens, Lookup

LEMMA InitInv == Init => Inv
<1> SUFFICES ASSUME Init PROVE Inv
  OBVIOUS
<1> USE DEF Init
<1>1. HeardInv
  BY ListeningAssumption DEF HeardInv, Heard, Entry, Distinct
<1>2. \A s \in Scripts, e \in Events : lists[s][e] = Lookup(heard[s], e)
  BY HeardIsLookup
<1>3. ListsInv
  <2>1. ASSUME NEW s \in Scripts, NEW e \in Events
        PROVE  Lookup(heard[s], e) \in Seq(Handlers)
    <3>1. CASE PositionIn(heard[s], e) = {}
      BY <3>1 DEF Lookup
    <3>2. CASE PositionIn(heard[s], e) # {}
      <4>1. PICK i \in DOMAIN heard[s] : heard[s][i].event = e
        BY <3>2 DEF PositionIn
      <4>2. Lookup(heard[s], e) = heard[s][i].handlers
        BY <1>1, <4>1, Found DEF HeardInv
      <4>3. heard[s][i] \in Entry
        BY <1>1, <4>1, ElementOfSeq, LenProperties DEF HeardInv
      <4> QED BY <4>2, <4>3 DEF Entry
    <3> QED BY <3>1, <3>2
  <2> QED BY <1>2, <2>1 DEF ListsInv
<1>4. ChangeInv
  BY DEF ChangeInv
<1>5. AgreeInv
  BY <1>2 DEF AgreeInv, Agree
<1> QED BY <1>1, <1>3, <1>4, <1>5 DEF Inv

\* Steps that change no list, neither copy, and tell of none.
LEMMA QuietKeepsInv ==
  ASSUME Inv, UNCHANGED <<lists, heard, change, torn>>, pc' = "telling" <=> pc = "telling"
  PROVE  Inv'
<1>1. ListsInv' /\ HeardInv' /\ ChangeInv'
  BY DEF Inv, ListsInv, HeardInv, ChangeInv
<1>2. AgreeInv'
  BY DEF Inv, AgreeInv, Agree
<1> QED BY <1>1, <1>2 DEF Inv

\* Script code changes a list: on and off.
LEMMA ChangesKeepsInv ==
  ASSUME Inv, NEW s \in Scripts, NEW e \in Events, NEW list \in Seq(Handlers),
         Changes(s, e, list)
  PROVE  Inv'
<1> USE DEF Changes
<1>1. ListsInv' /\ HeardInv' /\ ChangeInv'
  BY DEF Inv, ListsInv, HeardInv, ChangeInv
<1>2. ASSUME NEW t \in Scripts, NEW f \in Events, <<t, f>> # <<s, e>>, <<t, f>> \notin torn
      PROVE  Agree(t, f)'
  <2>1. Agree(t, f)
    BY <1>2 DEF Inv, AgreeInv
  <2>2. lists'[t][f] = lists[t][f]
    BY <1>2 DEF Inv, ListsInv
  <2> QED BY <2>1, <2>2 DEF Agree
<1>3. AgreeInv'
  BY <1>2 DEF AgreeInv
<1> QED BY <1>1, <1>3 DEF Inv

\* The engine records the list it is handed, whichever way it has to.
LEMMA RecordedIsHeard ==
  ASSUME HeardInv, NEW s \in Scripts, NEW e \in Events, NEW hs \in Seq(Handlers), NEW M,
         M = Recorded(s, e, hs)
  PROVE  /\ M \in Seq(Entry)
         /\ Distinct(M)
         /\ Lookup(M, e) = hs
         /\ \A f \in Events \ {e} : Lookup(M, f) = Lookup(heard[s], f)
<1> DEFINE L == heard[s]
<1>1. L \in Seq(Entry) /\ Distinct(L)
  BY DEF HeardInv
<1>2. Position(s, e) = PositionIn(L, e)
  BY HeardIsLookup
<1>3. CASE PositionIn(L, e) = {} /\ hs = <<>>
  <2>1. M = L
    BY <1>2, <1>3 DEF Recorded, Listens
  <2>2. Lookup(L, e) = <<>>
    BY <1>3 DEF Lookup
  <2> QED BY <1>1, <1>3, <2>1, <2>2
<1>4. CASE PositionIn(L, e) = {} /\ hs # <<>>
  <2>1. M = Pushed(L, e, hs)
    BY <1>2, <1>4 DEF Recorded, Listens, Pushed
  <2> QED BY <1>1, <1>4, <2>1, LookupPushed
<1>5. CASE PositionIn(L, e) # {}
  <2>1. PICK k \in DOMAIN L : L[k].event = e
    BY <1>5 DEF PositionIn
  <2>2. PositionIn(L, e) = {k}
    BY <1>1, <2>1, Found
  <2>3. (CHOOSE i \in Position(s, e) : TRUE) = k
    BY <1>2, <2>2
  <2>4. M = IF hs = <<>> THEN SwapRemoved(L, k) ELSE [L EXCEPT ![k].handlers = hs]
    BY <1>2, <1>5, <2>3 DEF Recorded, Listens
  <2>5. CASE hs = <<>>
    BY <1>1, <2>1, <2>4, <2>5, LookupRemoved
  <2>6. CASE hs # <<>>
    <3>1. M = Replaced(L, k, hs)
      BY <2>4, <2>6 DEF Replaced
    <3> QED BY <1>1, <2>1, <2>6, <3>1, LookupReplaced
  <2> QED BY <2>5, <2>6
<1> QED BY <1>3, <1>4, <1>5

\* The engine is told of the change.
LEMMA TellKeepsInv ==
  ASSUME Inv, Tell
  PROVE  Inv'
<1> USE DEF Tell
<1>1. PICK s \in Scripts, e \in Events : change = <<s, e>>
  BY DEF Inv, ChangeInv
<1> DEFINE hs == lists[s][e]
<1>2. hs \in Seq(Handlers)
  BY DEF Inv, ListsInv
<1>3. heard' = [heard EXCEPT ![s] = Recorded(s, e, hs)]
  BY <1>1
<1>4. /\ Recorded(s, e, hs) \in Seq(Entry)
      /\ Distinct(Recorded(s, e, hs))
      /\ Lookup(Recorded(s, e, hs), e) = hs
      /\ \A f \in Events \ {e} : Lookup(Recorded(s, e, hs), f) = Lookup(heard[s], f)
  BY <1>2, RecordedIsHeard DEF Inv
<1>5. /\ heard'[s] = Recorded(s, e, hs)
      /\ \A t \in Scripts \ {s} : heard'[t] = heard[t]
  BY <1>3 DEF Inv, HeardInv
<1>6. ListsInv' /\ ChangeInv'
  BY DEF Inv, ListsInv, ChangeInv
<1>7. HeardInv'
  BY <1>3, <1>4, <1>5 DEF Inv, HeardInv
<1>8. ASSUME NEW t \in Scripts, NEW f \in Events, <<t, f>> \notin torn'
      PROVE  Agree(t, f)'
  <2>1. CASE t = s /\ f = e
    BY <1>4, <1>5, <2>1 DEF Agree
  <2>2. CASE ~(t = s /\ f = e)
    <3>1. change # <<t, f>> /\ <<t, f>> \notin torn
      BY <1>1, <1>8, <2>2
    <3>2. Agree(t, f)
      BY <3>1 DEF Inv, AgreeInv
    <3>3. Lookup(heard'[t], f) = Lookup(heard[t], f)
      BY <1>4, <1>5, <2>2
    <3> QED BY <3>2, <3>3 DEF Agree
  <2> QED BY <2>1, <2>2
<1>9. AgreeInv'
  BY <1>8 DEF AgreeInv
<1> QED BY <1>6, <1>7, <1>9 DEF Inv

\* The code is stopped before the engine is told: the list is torn from now on.
LEMMA StoppedTellingKeepsInv ==
  ASSUME Inv, StoppedTelling
  PROVE  Inv'
<1>1. /\ pc = "telling" /\ pc' # "telling"
      /\ torn' = torn \cup {change}
      /\ UNCHANGED <<lists, heard, change>>
  BY DEF StoppedTelling, AfterCode
<1>2. ListsInv' /\ HeardInv' /\ ChangeInv'
  BY <1>1 DEF Inv, ListsInv, HeardInv, ChangeInv
<1>3. AgreeInv'
  BY <1>1 DEF Inv, AgreeInv, Agree
<1> QED BY <1>2, <1>3 DEF Inv

\* A registration and a removal change one list to a list of handlers.
LEMMA OnOffChange ==
  ASSUME Inv, NEW s \in Scripts, NEW e \in Events, NEW h \in Handlers, On(s, e, h) \/ Off(s, e, h)
  PROVE  \E list \in Seq(Handlers) : Changes(s, e, list)
<1> DEFINE list == lists[s][e]
<1>1. list \in Seq(Handlers)
  BY DEF Inv, ListsInv
<1>2. CASE On(s, e, h)
  <2>1. Append(list, h) \in Seq(Handlers)
    BY <1>1
  <2> QED BY <1>2, <2>1 DEF On
<1>3. CASE Off(s, e, h)
  <2>1. PICK i \in DOMAIN list :
          Changes(s, e, SubSeq(list, 1, i - 1) \o SubSeq(list, i + 1, Len(list)))
    BY <1>3 DEF Off
  <2>2. i \in 1 .. Len(list) /\ Len(list) \in Nat
    BY <1>1, LenProperties
  <2>3. /\ SubSeq(list, 1, i - 1) \in Seq(Handlers)
        /\ SubSeq(list, i + 1, Len(list)) \in Seq(Handlers)
    BY <1>1, <2>2
  <2>4. SubSeq(list, 1, i - 1) \o SubSeq(list, i + 1, Len(list)) \in Seq(Handlers)
    BY <2>3, ConcatProperties
  <2> QED BY <2>1, <2>4
<1> QED BY <1>2, <1>3

LEMMA NextKeepsInv == Inv /\ [Next]_vars => Inv'
<1> SUFFICES ASSUME Inv, [Next]_vars PROVE Inv'
  OBVIOUS
<1>1. ASSUME NEW s \in Scripts, NEW e \in Events, NEW h \in Handlers, On(s, e, h) \/ Off(s, e, h)
      PROVE  Inv'
  <2>1. PICK list \in Seq(Handlers) : Changes(s, e, list)
    BY <1>1, OnOffChange
  <2> QED BY <2>1, ChangesKeepsInv
<1>2. CASE Tell
  BY <1>2, TellKeepsInv
<1>3. CASE StoppedTelling
  BY <1>3, StoppedTellingKeepsInv
<1>4. CASE CodeEnds
  BY <1>4, QuietKeepsInv DEF CodeEnds, AfterCode, historyVars
<1>5. ASSUME NEW s \in Scripts, Call(s)
      PROVE  Inv'
  BY <1>5, QuietKeepsInv DEF Call, historyVars
<1>6. ASSUME NEW e \in Events, Emit(e)
      PROVE  Inv'
  BY <1>6, QuietKeepsInv DEF Emit
<1>7. CASE VisitNone \/ VisitFails \/ Visit
  BY <1>7, QuietKeepsInv DEF VisitNone, VisitFails, Visit, historyVars
<1>8. CASE ServeScript \/ EndVisit
  BY <1>8, QuietKeepsInv DEF ServeScript, EndVisit, historyVars
<1>9. CASE EnterHandler
  BY <1>9, QuietKeepsInv DEF EnterHandler
<1>10. CASE ScriptServed \/ Finish
  BY <1>10, QuietKeepsInv DEF ScriptServed, Finish, historyVars
<1>11. CASE Interrupt
  BY <1>11, QuietKeepsInv DEF Interrupt, historyVars
<1>12. CASE UNCHANGED vars
  BY <1>12, QuietKeepsInv DEF vars, historyVars
<1> QED
  BY <1>1, <1>2, <1>3, <1>4, <1>5, <1>6, <1>7, <1>8, <1>9, <1>10, <1>11, <1>12
  DEF Next, Code, Dispatch

LEMMA InvIsExact == Inv => SnapshotExact
<1> SUFFICES ASSUME Inv, NEW s \in Scripts, NEW e \in Events
             PROVE  /\ Cardinality(Position(s, e)) <= 1
                    /\ (pc = "telling" => change # <<s, e>>) /\ <<s, e>> \notin torn
                         => HeardOf(s, e) = lists[s][e]
  BY DEF SnapshotExact
<1>1. Cardinality(Position(s, e)) <= 1
  <2>1. CASE Position(s, e) = {}
    BY <2>1, FS_EmptySet
  <2>2. CASE Position(s, e) # {}
    <3>1. PICK i \in DOMAIN heard[s] : heard[s][i].event = e
      BY <2>2 DEF Position
    <3>2. Position(s, e) = {i}
      BY <3>1, Found, HeardIsLookup DEF Inv, HeardInv
    <3> QED BY <3>2, FS_Singleton
  <2> QED BY <2>1, <2>2
<1>2. (pc = "telling" => change # <<s, e>>) /\ <<s, e>> \notin torn
       => HeardOf(s, e) = lists[s][e]
  BY HeardIsLookup DEF Inv, AgreeInv, Agree
<1> QED BY <1>1, <1>2

\* The engine's snapshots are the prelude's lists, with no event listed twice: through
\* pushes, replacements and swap removals of ListenedEvents, in or out of a delivery, by
\* the script or another of its group, until a stop tears one of them.
THEOREM SpecSnapshotExact == Spec => []SnapshotExact
<1>1. Spec => []Inv
  BY InitInv, NextKeepsInv, PTL DEF Spec
<1> QED BY <1>1, InvIsExact, PTL
-----------------------------------------------------------------------------
(***************************************************************************)
(* The inductive invariant of a delivery.  An emit that goes on has called *)
(* handlers of the scripts before Front only; of those from there on, the  *)
(* lists are still as they were when it began, unless touched.             *)
(***************************************************************************)
DispatchTypes ==
  /\ pc \in {"idle", "visit", "script", "call", "js", "telling"}
  /\ event \in Events
  /\ start \in 0 .. NumScripts + 1
  /\ at \in 1 .. NumScripts + 1
  /\ pc \in {"call", "js", "telling"} => at \in Scripts
  /\ taken \in Seq(Handlers)
  /\ next \in 1 .. Len(taken) + 1
  /\ delivered \in Nat
  /\ stop \in BOOLEAN /\ stopped \in BOOLEAN
  /\ torn \subseteq Scripts \X Events
  /\ listed \in [Scripts -> [Events -> Seq(Handlers)]]
  /\ touched \subseteq Scripts /\ unencoded \subseteq Scripts
  /\ log \in Seq(Scripts \X Handlers)

Serving == Emitting /\ pc \in {"call", "js", "telling"}

\* Where the emit is.
PlaceInv ==
  /\ pc \in {"visit", "script", "call"} => Emitting
  /\ Emitting => /\ stopped => pc \in {"visit", "idle"}
                 /\ pc = "visit" /\ ~stopped => at <= start
                 /\ pc = "script" => start <= NumScripts /\ at \in start .. PastVisit
                 /\ Serving => start <= NumScripts /\ at \in start .. PastVisit - 1

Running == Emitting /\ ~stopped /\ pc # "idle"

\* The first script that is not yet reached.
Front == IF pc = "visit" THEN start ELSE IF pc = "script" THEN at ELSE at + 1

AheadInv ==
  Running => /\ \A i \in DOMAIN log : log[i][1] < Front
             /\ \A s \in unencoded : s < start
             /\ \A s \in Scripts \ touched : s >= Front =>
                  lists[s][event] = listed[s][event] /\ <<s, event>> \notin torn

\* The handlers of the script served that were called: the last entries of the log.
Entered == IF pc = "call" THEN next - 1 ELSE next

ServedInv ==
  Serving => /\ taken # <<>>
             /\ Entered <= Len(taken) /\ Entered <= Len(log)
             /\ \A i \in DOMAIN log : log[i][1] = at <=> i > Len(log) - Entered
             /\ \A j \in 1 .. Entered : log[Len(log) - Entered + j][2] = taken[j]
             /\ at \notin touched => taken = listed[at][event]

\* A script is counted when its handlers are taken.
DeliveredInv ==
  Emitting => delivered = Cardinality(Served) + (IF pc = "call" /\ next = 1 THEN 1 ELSE 0)

\* What emit returned stays.
RestInv == ~Emitting => delivered <= NumScripts

DeliveryInv == /\ DispatchTypes /\ PlaceInv /\ AheadInv /\ ServedInv
               /\ DeliversAsListed /\ DeliveredInv

\* A set of natural numbers has a least one.
LEMMA Least ==
  ASSUME NEW T \in SUBSET Nat, T # {}
  PROVE  \E m \in T : \A i \in T : m <= i
<1> DEFINE R == {p \in Nat \X Nat : p[1] < p[2]}
<1>1. IsWellFoundedOn(R, Nat)
  BY NatLessThanWellFounded DEF OpToRel
<1>2. PICK m \in T : \A i \in T : <<i, m>> \notin R
  BY <1>1, WFMin
<1>3. \A i \in T : i < m => <<i, m>> \in R
  OBVIOUS
<1>4. \A i \in T : ~(i < m)
  BY <1>2, <1>3
<1> QED
  BY <1>4

\* A visit is of scripts that follow one another, from `start` on.
LEMMA VisitedIs ==
  ASSUME start \in 1 .. NumScripts
  PROVE  PastVisit \in start + 1 .. NumScripts + 1 /\ Visited = start .. PastVisit - 1
<1> DEFINE T == {s \in start + 1 .. NumScripts + 1 : s \notin Visited}
<1>1. NumScripts \in Nat /\ start \in Nat
  BY NumScriptsAssumption
<1>2. T \in SUBSET Nat /\ NumScripts + 1 \in T
  BY <1>1 DEF Visited
<1>3. PICK m \in T : \A i \in T : m <= i
  BY <1>2, Least
<1>4. m \in start + 1 .. NumScripts + 1 /\ m \notin Visited
      /\ \A s \in start + 1 .. m - 1 : s \in Visited
  BY <1>1, <1>3
<1>5. ASSUME NEW s \in Visited PROVE s \in start .. m - 1
  <2>1. s \in start .. NumScripts /\ (s = start \/ \A t \in start + 1 .. s : SharesContext(start, t))
    BY DEF Visited
  <2>2. ASSUME m <= s PROVE FALSE
    <3>1. m \in start .. NumScripts /\ m # start
      BY <1>1, <1>4, <2>1, <2>2
    <3>2. \A t \in start + 1 .. m : t \in start + 1 .. s
      BY <1>1, <2>1, <2>2
    <3>3. s # start
      BY <1>1, <1>4, <2>1, <2>2
    <3> QED
      BY <1>4, <2>1, <3>1, <3>2, <3>3 DEF Visited
  <2> QED
    BY <1>1, <1>4, <2>1, <2>2
<1>6. start \in Visited
  BY <1>1 DEF Visited
<1>7. Visited = start .. m - 1
  <2>1. ASSUME NEW s \in start .. m - 1 PROVE s \in Visited
    <3>1. s = start \/ s \in start + 1 .. m - 1
      BY <1>1, <1>4
    <3> QED
      BY <1>4, <1>6, <3>1
  <2> QED
    BY <1>5, <2>1
<1>8. Cardinality(start .. m - 1) = m - start
  BY <1>1, <1>4, FS_Interval
<1>9. PastVisit = m
  BY <1>1, <1>4, <1>7, <1>8 DEF PastVisit
<1> QED
  BY <1>4, <1>7, <1>9

\* No handler of a script was called.
LEMMA NoneCalled ==
  ASSUME DispatchTypes, NEW s, \A i \in DOMAIN log : log[i][1] # s, NEW list
  PROVE  FirstCalled(log, s, list, 0) /\ CallsOf(log, s) = {}
<1>1. Len(log) \in Nat
  BY DEF DispatchTypes
<1>2. CallsOf(log, s) = {}
  BY DEF CallsOf
<1> QED
  BY <1>1, <1>2 DEF FirstCalled

\* A step that calls no handler delivers as listed if it does to the scripts it passes.
LEMMA DeliveriesKept ==
  ASSUME DeliversAsListed, UNCHANGED <<event, log, listed>>, Emitting' => Emitting,
         touched \subseteq touched', unencoded \subseteq unencoded',
         \A s \in Scripts \ (touched' \cup unencoded') :
            Emitting' /\ Passed(s)' => \/ Passed(s)
                                       \/ FirstCalled(log, s, listed[s][event], Len(listed[s][event])),
         \A s \in Scripts : Len(listed[s][event]) \in Nat
  PROVE  DeliversAsListed'
<1> SUFFICES ASSUME Emitting'
             PROVE  /\ \A i \in 1 .. Len(log) - 1 : log[i][1] <= log[i + 1][1]
                    /\ \A s \in Scripts \ (touched' \cup unencoded') :
                         \E n \in 0 .. Len(listed[s][event]) :
                           /\ FirstCalled(log, s, listed[s][event], n)
                           /\ Passed(s)' => n = Len(listed[s][event])
  BY DEF DeliversAsListed
<1>1. \A i \in 1 .. Len(log) - 1 : log[i][1] <= log[i + 1][1]
  BY DEF DeliversAsListed
<1>2. ASSUME NEW s \in Scripts \ (touched' \cup unencoded')
      PROVE  \E n \in 0 .. Len(listed[s][event]) : /\ FirstCalled(log, s, listed[s][event], n)
                                                   /\ Passed(s)' => n = Len(listed[s][event])
  <2>1. PICK n \in 0 .. Len(listed[s][event]) : /\ FirstCalled(log, s, listed[s][event], n)
                                                /\ Passed(s) => n = Len(listed[s][event])
    BY DEF DeliversAsListed
  <2>2. CASE Passed(s)' => Passed(s)
    BY <2>1, <2>2
  <2>3. CASE FirstCalled(log, s, listed[s][event], Len(listed[s][event]))
    <3>1. Len(listed[s][event]) \in 0 .. Len(listed[s][event])
      OBVIOUS
    <3> QED
      BY <2>3, <3>1
  <2> QED
    BY <2>2, <2>3
<1> QED
  BY <1>1, <1>2

\* What is ahead of an emit is as listed.
LEMMA ListedAhead ==
  ASSUME Inv, DispatchTypes, AheadInv, Running, pc \in {"visit", "script"},
         NEW s \in Scripts \ touched, s >= Front
  PROVE  HeardOf(s, event) = listed[s][event]
<1>1. lists[s][event] = listed[s][event] /\ <<s, event>> \notin torn /\ event \in Events
  BY DEF AheadInv, DispatchTypes
<1>2. Agree(s, event)
  BY <1>1 DEF Inv, AgreeInv
<1> QED
  BY <1>1, <1>2, HeardIsLookup DEF Agree

LEMMA ListLengths ==
  ASSUME DispatchTypes
  PROVE  \A s \in Scripts : listed[s][event] \in Seq(Handlers) /\ Len(listed[s][event]) \in Nat
<1>1. \A s \in Scripts : listed[s][event] \in Seq(Handlers)
  BY DEF DispatchTypes
<1> QED
  BY <1>1

LEMMA NothingCounted ==
  ASSUME UNCHANGED <<log, unencoded>>
  PROVE  Served' = Served
BY DEF Served

-----------------------------------------------------------------------------
(* Script code.                                                            *)

\* A handler, or the code of a call, changes a list.
LEMMA ChangesKeepsDelivery ==
  ASSUME Inv, DeliveryInv, NEW s \in Scripts, NEW e \in Events, NEW list \in Seq(Handlers),
         Changes(s, e, list)
  PROVE  DeliveryInv'
<1> USE DEF DeliveryInv
<1>1. /\ pc = "js" /\ pc' = "telling" /\ lists' = [lists EXCEPT ![s][e] = list]
      /\ touched' = IF s > at THEN touched \cup {s} ELSE touched
      /\ UNCHANGED <<heard, at, stop, event, start, taken, next, delivered, stopped>>
      /\ UNCHANGED <<torn, listed, unencoded, log>>
  BY DEF Changes, dispatchVars
<1>2. touched \subseteq touched' /\ touched' \subseteq touched \cup {s} /\ at \notin touched' \ touched
      /\ (s > at => s \in touched') /\ at \in Nat
  BY <1>1, NumScriptsAssumption DEF DispatchTypes
<1>3. DispatchTypes'
  BY <1>1, <1>2 DEF DispatchTypes
<1>4. PlaceInv'
  BY <1>1 DEF PlaceInv, Emitting, Serving, PastVisit, Visited
<1>5. AheadInv'
  <2>1. Running' => Running /\ Front' = Front /\ Front = at + 1
    BY <1>1 DEF Running, Emitting, Front
  <2>2. ASSUME NEW t \in Scripts \ touched', t >= at + 1
        PROVE  t \notin touched /\ lists'[t] = lists[t]
    <3>1. t > at /\ t # s
      BY <1>2, <2>2, NumScriptsAssumption DEF Scripts
    <3> QED
      BY <1>1, <1>2, <3>1 DEF Inv, ListsInv
  <2> QED
    BY <1>1, <2>1, <2>2 DEF AheadInv
<1>6. ServedInv'
  BY <1>1, <1>2 DEF ServedInv, Serving, Emitting, Entered
<1>7. DeliversAsListed'
  <2>1. \A t \in Scripts : Passed(t)' <=> Passed(t)
    BY <1>1 DEF Passed
  <2> QED
    BY <1>1, <1>2, <2>1, DeliveriesKept, ListLengths DEF Emitting
<1>8. DeliveredInv'
  BY <1>1, NothingCounted DEF DeliveredInv, Emitting
<1> QED
  BY <1>3, <1>4, <1>5, <1>6, <1>7, <1>8

\* The engine is told of it.
LEMMA TellKeepsDelivery ==
  ASSUME Inv, DeliveryInv, Tell
  PROVE  DeliveryInv'
<1> USE DEF DeliveryInv
<1>1. /\ pc = "telling" /\ pc' = "js" /\ torn' = torn \ {change}
      /\ UNCHANGED <<lists, at, change, stop, event, start, taken, next, delivered, stopped>>
      /\ UNCHANGED <<listed, touched, unencoded, log>>
  BY DEF Tell, dispatchVars
<1>2. DispatchTypes'
  BY <1>1 DEF DispatchTypes
<1>3. PlaceInv'
  BY <1>1 DEF PlaceInv, Emitting, Serving, PastVisit, Visited
<1>4. AheadInv'
  BY <1>1 DEF AheadInv, Running, Emitting, Front
<1>5. ServedInv'
  BY <1>1 DEF ServedInv, Serving, Emitting, Entered
<1>6. DeliversAsListed'
  <2>1. \A t \in Scripts : Passed(t)' <=> Passed(t)
    BY <1>1 DEF Passed
  <2> QED
    BY <1>1, <2>1, DeliveriesKept, ListLengths DEF Emitting
<1>7. DeliveredInv'
  BY <1>1, NothingCounted DEF DeliveredInv, Emitting
<1> QED
  BY <1>2, <1>3, <1>4, <1>5, <1>6, <1>7

\* The code ends, or is stopped before the engine is told.
LEMMA AfterCodeKeepsDelivery ==
  ASSUME Inv, DeliveryInv, CodeEnds \/ StoppedTelling
  PROVE  DeliveryInv'
<1> USE DEF DeliveryInv
<1>1. /\ pc \in {"js", "telling"} /\ AfterCode
      /\ UNCHANGED <<lists, heard, at, change, event, start, taken, delivered>>
      /\ UNCHANGED <<listed, touched, unencoded, log>>
      /\ torn' = torn \/ (stop /\ torn' = torn \cup {change} /\ pc = "telling")
  BY DEF CodeEnds, StoppedTelling, historyVars
<1>2. \/ ~Emitting /\ pc' = "idle" /\ stop' = FALSE /\ UNCHANGED <<next, stopped>>
      \/ Emitting /\ stop /\ pc' = "visit" /\ stopped' = TRUE /\ UNCHANGED <<next, stop>>
      \/ Emitting /\ ~stop /\ pc' = "call" /\ next' = next + 1 /\ UNCHANGED <<stop, stopped>>
  BY <1>1 DEF AfterCode
<1>3. /\ Emitting' <=> Emitting
      /\ Emitting => /\ Serving /\ next <= Len(taken) /\ start \in 1 .. NumScripts
                     /\ at \in start .. PastVisit - 1 /\ ~stopped
  <2>1. Emitting' <=> Emitting
    BY <1>1 DEF Emitting
  <2>2. ASSUME Emitting PROVE /\ Serving /\ next <= Len(taken) /\ start \in 1 .. NumScripts
                              /\ at \in start .. PastVisit - 1 /\ ~stopped
    BY <1>1, <2>2 DEF Serving, ServedInv, Entered, PlaceInv, DispatchTypes, Emitting
  <2> QED
    BY <2>1, <2>2
<1>4. DispatchTypes'
  <2>1. next' \in 1 .. Len(taken) + 1
    <3>1. next \in 1 .. Len(taken) + 1 /\ Len(taken) \in Nat
      BY DEF DispatchTypes
    <3> QED
      BY <1>2, <1>3, <3>1
  <2>2. torn' \subseteq Scripts \X Events
    BY <1>1 DEF DispatchTypes, Inv, ChangeInv
  <2>3. at \in Scripts
    BY <1>1 DEF DispatchTypes
  <2> QED
    BY <1>1, <1>2, <2>1, <2>2, <2>3 DEF DispatchTypes
<1>5. PlaceInv'
  <2>1. PastVisit' = PastVisit
    BY <1>1 DEF PastVisit, Visited
  <2> QED
    BY <1>1, <1>2, <1>3, <2>1 DEF PlaceInv, Serving, DispatchTypes
<1>6. AheadInv'
  <2>1. Running' => Running /\ Front' = Front /\ ~stop
    BY <1>1, <1>2, <1>3 DEF Running, Front
  <2> QED
    BY <1>1, <2>1 DEF AheadInv
<1>7. ServedInv'
  <2> SUFFICES ASSUME Serving' PROVE ServedInv'
    BY DEF ServedInv
  <2>1. Serving /\ next' = next + 1 /\ pc' = "call" /\ next \in Nat
    BY <1>1, <1>2, <1>3 DEF Serving, DispatchTypes
  <2>2. Entered' = Entered
    BY <1>1, <2>1 DEF Entered
  <2> QED
    BY <1>1, <2>1, <2>2 DEF ServedInv
<1>8. DeliversAsListed'
  <2>1. \A t \in Scripts : Emitting /\ Passed(t)' => Passed(t)
    BY <1>1, <1>2 DEF Passed
  <2> QED
    BY <1>1, <1>3, <2>1, DeliveriesKept, ListLengths
<1>9. DeliveredInv'
  <2>1. ASSUME Emitting PROVE ~(pc' = "call" /\ next' = 1) /\ pc # "call"
    BY <1>1, <1>2, <2>1 DEF DispatchTypes
  <2> QED
    BY <1>1, <1>3, <2>1, NothingCounted DEF DeliveredInv
<1> QED
  BY <1>4, <1>5, <1>6, <1>7, <1>8, <1>9


\* Code is run: there is no emit.
LEMMA CallKeepsDelivery ==
  ASSUME Inv, DeliveryInv, NEW s \in Scripts, Call(s)
  PROVE  DeliveryInv'
<1> USE DEF DeliveryInv
<1>1. /\ pc' = "js" /\ at' = s /\ start' = 0
      /\ UNCHANGED <<stop, event, taken, next, delivered, stopped>>
      /\ UNCHANGED <<torn, listed, touched, unencoded, log>>
  BY DEF Call, historyVars
<1>2. ~Emitting'
  BY <1>1 DEF Emitting
<1>3. DispatchTypes'
  BY <1>1, NumScriptsAssumption DEF DispatchTypes, Scripts
<1> QED
  BY <1>1, <1>2, <1>3
  DEF PlaceInv, AheadInv, Running, ServedInv, Serving, DeliversAsListed, DeliveredInv

\* The budget ends.
LEMMA InterruptKeepsDelivery ==
  ASSUME Inv, DeliveryInv, Interrupt
  PROVE  DeliveryInv'
<1> USE DEF DeliveryInv
<1>1. /\ stop' = TRUE
      /\ UNCHANGED <<lists, pc, at, event, start, taken, next, delivered, stopped>>
      /\ UNCHANGED <<torn, listed, touched, unencoded, log>>
  BY DEF Interrupt, dispatchVars, historyVars
<1>2. DispatchTypes'
  BY <1>1 DEF DispatchTypes
<1>3. PlaceInv' /\ AheadInv'
  BY <1>1 DEF PlaceInv, Emitting, Serving, PastVisit, Visited, AheadInv, Running, Front
<1>4. ServedInv'
  BY <1>1 DEF ServedInv, Serving, Emitting, Entered
<1>5. DeliversAsListed'
  <2>1. \A t \in Scripts : Passed(t)' <=> Passed(t)
    BY <1>1 DEF Passed
  <2> QED
    BY <1>1, <2>1, DeliveriesKept, ListLengths DEF Emitting
<1>6. DeliveredInv'
  BY <1>1, NothingCounted DEF DeliveredInv, Emitting
<1> QED
  BY <1>2, <1>3, <1>4, <1>5, <1>6

-----------------------------------------------------------------------------
(* Engine::dispatch.                                                       *)

\* An emit begins.
LEMMA EmitKeepsDelivery ==
  ASSUME Inv, DeliveryInv, NEW e \in Events, Emit(e)
  PROVE  DeliveryInv'
<1> USE DEF DeliveryInv
<1>1. /\ event' = e /\ start' = 1 /\ at' = 1 /\ pc' = "visit" /\ delivered' = 0 /\ stopped' = FALSE
      /\ listed' = lists /\ touched' = {s \in Scripts : <<s, e>> \in torn} /\ unencoded' = {}
      /\ log' = <<>>
      /\ UNCHANGED <<lists, stop, taken, next, torn>>
  BY DEF Emit
<1>2. DispatchTypes'
  <2>1. /\ start' \in 0 .. NumScripts + 1 /\ at' \in 1 .. NumScripts + 1
        /\ touched' \subseteq Scripts /\ unencoded' \subseteq Scripts
    BY <1>1, NumScriptsAssumption
  <2>2. log' \in Seq(Scripts \X Handlers) /\ listed' \in [Scripts -> [Events -> Seq(Handlers)]]
    BY <1>1 DEF Inv, ListsInv
  <2> QED
    BY <1>1, <2>1, <2>2 DEF DispatchTypes
<1>3. PlaceInv'
  BY <1>1 DEF PlaceInv, Serving, Emitting
<1>4. AheadInv' /\ ServedInv'
  BY <1>1 DEF AheadInv, Front, ServedInv, Serving
<1>5. DeliversAsListed'
  <2>1. \A i \in 1 .. Len(log') - 1 : log'[i][1] <= log'[i + 1][1]
    BY <1>1
  <2>2. ASSUME NEW s \in Scripts
        PROVE  /\ FirstCalled(log', s, lists[s][e], 0) /\ ~Passed(s)'
               /\ 0 \in 0 .. Len(lists[s][e])
    <3>1. CallsOf(log', s) = {} /\ Len(log') = 0
      BY <1>1 DEF CallsOf
    <3>2. Len(lists[s][e]) \in Nat
      BY DEF Inv, ListsInv
    <3>3. ~Passed(s)'
      BY <1>1, NumScriptsAssumption DEF Passed, Scripts
    <3> QED
      BY <3>1, <3>2, <3>3 DEF FirstCalled
  <2> QED
    BY <1>1, <2>1, <2>2 DEF DeliversAsListed
<1>6. DeliveredInv'
  <2>1. Served' = {}
    BY <1>1 DEF Served, CallsOf
  <2> QED
    BY <1>1, <2>1, FS_EmptySet DEF DeliveredInv
<1> QED
  BY <1>2, <1>3, <1>4, <1>5, <1>6

\* Where a visit begins.
LEMMA VisitBegins ==
  ASSUME DeliveryInv, pc = "visit", ~stopped, start <= NumScripts, Emitting
  PROVE  /\ Running /\ Front = start /\ start \in 1 .. NumScripts /\ at <= start
         /\ PastVisit \in start + 1 .. NumScripts + 1 /\ Visited = start .. PastVisit - 1
<1>1. start \in 1 .. NumScripts /\ at <= start
  BY NumScriptsAssumption DEF DeliveryInv, DispatchTypes, Emitting, PlaceInv
<1> QED
  BY <1>1, VisitedIs DEF Running, Front

\* A script that listens no more when it would be served was listed without a handler.
LEMMA NothingToCall ==
  ASSUME Inv, DeliveryInv, Running, pc \in {"visit", "script"}, NEW s \in Scripts \ touched,
         s >= Front, ~Listens(s, event)
  PROVE  FirstCalled(log, s, listed[s][event], Len(listed[s][event]))
<1>1. listed[s][event] = <<>>
  BY ListedAhead DEF HeardOf, DeliveryInv
<1>2. \A i \in DOMAIN log : log[i][1] # s
  <2>1. Front \in Nat /\ s \in Nat /\ \A i \in DOMAIN log : log[i][1] \in Nat
    BY NumScriptsAssumption DEF DeliveryInv, DispatchTypes, Front, Scripts
  <2> QED
    BY <2>1 DEF DeliveryInv, AheadInv
<1> QED
  BY <1>1, <1>2, NoneCalled DEF DeliveryInv

\* No script of the visit listens.
LEMMA VisitNoneKeepsDelivery ==
  ASSUME Inv, DeliveryInv, VisitNone
  PROVE  DeliveryInv'
<1> USE DEF DeliveryInv
<1>1. /\ pc = "visit" /\ ~stopped /\ start <= NumScripts /\ ToServe = {} /\ start' = PastVisit
      /\ UNCHANGED <<lists, heard, pc, at, stop, event, taken, next, delivered, stopped>>
      /\ UNCHANGED <<torn, listed, touched, unencoded, log>>
  BY DEF VisitNone, historyVars
<1>2. /\ Running /\ Emitting /\ Front = start /\ start \in 1 .. NumScripts /\ at <= start
      /\ PastVisit \in start + 1 .. NumScripts + 1 /\ Visited = start .. PastVisit - 1
  BY <1>1, VisitBegins DEF PlaceInv
<1>3. Emitting' /\ Front' = PastVisit
  BY <1>1, <1>2 DEF Emitting, Front
<1>4. DispatchTypes'
  BY <1>1, <1>2, NumScriptsAssumption DEF DispatchTypes
<1>5. PlaceInv'
  BY <1>1, <1>2, <1>3, NumScriptsAssumption DEF PlaceInv, Serving, DispatchTypes
<1>6. AheadInv'
  <2>1. \A x \in Nat : x < start => x < PastVisit
    BY <1>2, NumScriptsAssumption
  <2>2. \A s \in Scripts : s >= PastVisit => s >= start
    BY <1>2, NumScriptsAssumption DEF Scripts
  <2>3. (\A i \in DOMAIN log : log[i][1] \in Nat) /\ \A s \in unencoded : s \in Nat
    BY NumScriptsAssumption DEF DispatchTypes, Scripts
  <2> QED
    BY <1>1, <1>2, <1>3, <2>1, <2>2, <2>3 DEF AheadInv
<1>7. ServedInv'
  BY <1>1 DEF ServedInv, Serving
<1>8. DeliversAsListed'
  <2>1. ASSUME NEW s \in Scripts \ (touched \cup unencoded), Passed(s)'
        PROVE  Passed(s) \/ FirstCalled(log, s, listed[s][event], Len(listed[s][event]))
    <3>1. s < PastVisit
      BY <1>1, <2>1 DEF Passed
    <3>2. CASE s < start
      BY <3>2 DEF Passed
    <3>3. CASE s >= start
      <4>1. s \in Visited
        BY <1>2, <3>1, <3>3, NumScriptsAssumption DEF Scripts
      <4>2. ~Listens(s, event)
        BY <1>1, <4>1 DEF ToServe
      <4> QED
        BY <1>1, <1>2, <3>3, <4>2, NothingToCall
    <3> QED
      BY <1>2, <3>2, <3>3, NumScriptsAssumption DEF Scripts
  <2> QED
    BY <1>1, <1>2, <2>1, DeliveriesKept, ListLengths
<1>9. DeliveredInv'
  BY <1>1, <1>2, NothingCounted DEF DeliveredInv
<1> QED
  BY <1>4, <1>5, <1>6, <1>7, <1>8, <1>9

\* The scripts served are finitely many, and among them only those before Front.
LEMMA ServedIsFinite ==
  ASSUME DispatchTypes
  PROVE  Served \subseteq Scripts /\ IsFiniteSet(Served) /\ Cardinality(Served) <= NumScripts
<1>1. Served \subseteq Scripts
  <2>1. \A s \in Served : s \in unencoded \/ \E i \in DOMAIN log : log[i][1] = s
    BY DEF Served, CallsOf
  <2>2. \A i \in DOMAIN log : log[i][1] \in Scripts
    BY DEF DispatchTypes
  <2> QED
    BY <2>1, <2>2 DEF DispatchTypes
<1>2. IsFiniteSet(Scripts) /\ Cardinality(Scripts) = NumScripts
  <2>1. Cardinality(1 .. NumScripts) = NumScripts
    BY NumScriptsAssumption, FS_Interval
  <2> QED
    BY <2>1, NumScriptsAssumption, FS_Interval DEF Scripts
<1> QED
  BY <1>1, <1>2, FS_Subset

\* The event cannot be encoded.
LEMMA VisitFailsKeepsDelivery ==
  ASSUME Inv, DeliveryInv, VisitFails
  PROVE  DeliveryInv'
<1> USE DEF DeliveryInv
<1>1. /\ pc = "visit" /\ ~stopped /\ start <= NumScripts /\ start' = PastVisit
      /\ delivered' = delivered + Cardinality(ToServe)
      /\ unencoded' = unencoded \cup ToServe
      /\ stopped' = (stop /\ Cardinality(Visited) = 1)
      /\ UNCHANGED <<lists, heard, pc, at, stop, event, taken, next>>
      /\ UNCHANGED <<torn, listed, touched, log>>
  BY DEF VisitFails, ToServe
<1>2. /\ Running /\ Emitting /\ Front = start /\ start \in 1 .. NumScripts /\ at <= start
      /\ PastVisit \in start + 1 .. NumScripts + 1 /\ Visited = start .. PastVisit - 1
  BY <1>1, VisitBegins DEF PlaceInv
<1>3. Emitting' /\ Front' = PastVisit
  BY <1>1, <1>2 DEF Emitting, Front
<1>4. ToServe \subseteq start .. PastVisit - 1 /\ ToServe \subseteq Scripts
  BY <1>2, NumScriptsAssumption DEF ToServe, Scripts
<1>5. IsFiniteSet(ToServe) /\ Cardinality(ToServe) \in Nat
  <2>1. IsFiniteSet(start .. PastVisit - 1)
    BY <1>2, FS_Interval, NumScriptsAssumption
  <2> QED
    BY <1>4, <2>1, FS_Subset, FS_CardinalityType
<1>6. DispatchTypes'
  <2>1. delivered' \in Nat
    BY <1>1, <1>5 DEF DispatchTypes
  <2>2. start' \in 0 .. NumScripts + 1
    BY <1>1, <1>2, NumScriptsAssumption
  <2>3. stopped' \in BOOLEAN /\ unencoded' \subseteq Scripts
    BY <1>1, <1>4 DEF DispatchTypes
  <2> QED
    BY <1>1, <2>1, <2>2, <2>3 DEF DispatchTypes
<1>7. PlaceInv'
  BY <1>1, <1>2, <1>3, NumScriptsAssumption DEF PlaceInv, Serving, DispatchTypes
<1>8. AheadInv'
  <2>1. \A x \in Nat : x < start => x < PastVisit
    BY <1>2, NumScriptsAssumption
  <2>2. \A s \in Scripts : s >= PastVisit => s >= start
    BY <1>2, NumScriptsAssumption DEF Scripts
  <2>3. (\A i \in DOMAIN log : log[i][1] \in Nat) /\ \A s \in unencoded : s \in Nat
    BY NumScriptsAssumption DEF DispatchTypes, Scripts
  <2>4. \A s \in ToServe : s < PastVisit
    BY <1>2, <1>4, NumScriptsAssumption
  <2>5. \A s \in unencoded' : s < start'
    BY <1>1, <1>2, <2>1, <2>3, <2>4 DEF AheadInv
  <2> QED
    BY <1>1, <1>2, <1>3, <2>1, <2>2, <2>3, <2>5 DEF AheadInv
<1>9. ServedInv'
  BY <1>1 DEF ServedInv, Serving
<1>10. DeliversAsListed'
  <2>1. ASSUME NEW s \in Scripts \ (touched' \cup unencoded'), Passed(s)'
        PROVE  Passed(s) \/ FirstCalled(log, s, listed[s][event], Len(listed[s][event]))
    <3>1. s < PastVisit
      BY <1>1, <1>2, <2>1, NumScriptsAssumption DEF Passed, Scripts, DispatchTypes
    <3>2. CASE s < start
      BY <3>2 DEF Passed
    <3>3. CASE s >= start
      <4>1. s \in Visited
        BY <1>2, <3>1, <3>3, NumScriptsAssumption DEF Scripts
      <4>2. ~Listens(s, event) /\ s \notin touched
        BY <1>1, <2>1, <4>1 DEF ToServe
      <4> QED
        BY <1>1, <1>2, <3>3, <4>2, NothingToCall
    <3> QED
      BY <1>2, <3>2, <3>3, NumScriptsAssumption DEF Scripts
  <2> QED
    BY <1>1, <1>2, <2>1, DeliveriesKept, ListLengths
<1>11. DeliveredInv'
  <2>1. Served' = Served \cup ToServe
    BY <1>1 DEF Served
  <2>2. Served \cap ToServe = {}
    <3>1. ASSUME NEW s \in Served PROVE s < start
      <4>1. s \in unencoded \/ \E i \in DOMAIN log : log[i][1] = s
        BY DEF Served, CallsOf
      <4> QED
        BY <1>2, <4>1 DEF AheadInv
    <3>2. \A s \in ToServe : ~(s < start)
      BY <1>2, <1>4, NumScriptsAssumption
    <3> QED
      BY <3>1, <3>2
  <2>3. Cardinality(Served \cup ToServe)
          = Cardinality(Served) + Cardinality(ToServe) - Cardinality(Served \cap ToServe)
    BY <1>5, ServedIsFinite, FS_Union
  <2>4. Cardinality(Served') = Cardinality(Served) + Cardinality(ToServe)
    <3>1. Cardinality(Served \cap ToServe) = 0
      BY <2>2, FS_EmptySet
    <3>2. Cardinality(Served) \in Nat
      BY ServedIsFinite, FS_CardinalityType
    <3> QED
      BY <1>5, <2>1, <2>3, <3>1, <3>2
  <2>5. delivered = Cardinality(Served) + 0
    BY <1>1, <1>2 DEF DeliveredInv
  <2>6. Cardinality(Served) \in Nat
    BY ServedIsFinite, FS_CardinalityType
  <2> QED
    BY <1>1, <1>5, <2>4, <2>5, <2>6 DEF DeliveredInv
<1> QED
  BY <1>6, <1>7, <1>8, <1>9, <1>10, <1>11

\* A visit begins.
LEMMA VisitKeepsDelivery ==
  ASSUME Inv, DeliveryInv, Visit
  PROVE  DeliveryInv'
<1> USE DEF DeliveryInv
<1>1. /\ pc = "visit" /\ ~stopped /\ start <= NumScripts /\ at' = start /\ pc' = "script"
      /\ UNCHANGED <<lists, heard, stop, event, start, taken, next, delivered, stopped>>
      /\ UNCHANGED <<torn, listed, touched, unencoded, log>>
  BY DEF Visit, dispatchVars, historyVars
<1>2. /\ Running /\ Emitting /\ Front = start /\ start \in 1 .. NumScripts /\ at <= start
      /\ PastVisit \in start + 1 .. NumScripts + 1
  BY <1>1, VisitBegins DEF PlaceInv
<1>3. Emitting' /\ Front' = start /\ PastVisit' = PastVisit
  BY <1>1, <1>2 DEF Emitting, Front, PastVisit, Visited
<1>4. DispatchTypes'
  BY <1>1, <1>2, NumScriptsAssumption DEF DispatchTypes
<1>5. PlaceInv'
  BY <1>1, <1>2, <1>3, NumScriptsAssumption DEF PlaceInv, Serving
<1>6. AheadInv' /\ ServedInv'
  BY <1>1, <1>2, <1>3 DEF AheadInv, ServedInv, Serving
<1>7. DeliversAsListed'
  <2>1. \A t \in Scripts : Passed(t)' => Passed(t)
    BY <1>1 DEF Passed
  <2> QED
    BY <1>1, <1>2, <2>1, DeliveriesKept, ListLengths
<1>8. DeliveredInv'
  BY <1>1, <1>2, NothingCounted DEF DeliveredInv
<1> QED
  BY <1>4, <1>5, <1>6, <1>7, <1>8

\* The handlers recorded for an event are some.
LEMMA HandlersAreSome ==
  ASSUME Inv, NEW s \in Scripts, NEW e \in Events, Listens(s, e)
  PROVE  HandlersOf(s, e) \in Seq(Handlers) \ {<<>>} /\ HandlersOf(s, e) = HeardOf(s, e)
<1>1. PICK i \in DOMAIN heard[s] : heard[s][i].event = e
  BY DEF Listens, Position
<1>2. heard[s][i] \in Entry
  BY <1>1, ElementOfSeq, LenProperties DEF Inv, HeardInv
<1>3. Lookup(heard[s], e) = heard[s][i].handlers
  BY <1>1, Found DEF Inv, HeardInv
<1>4. HeardOf(s, e) = Lookup(heard[s], e) /\ HandlersOf(s, e) = HeardOf(s, e)
  BY HeardIsLookup DEF HeardOf
<1> QED
  BY <1>2, <1>3, <1>4 DEF Entry

\* The next script of a visit is served, if it still listens.
LEMMA ServeScriptKeepsDelivery ==
  ASSUME Inv, DeliveryInv, ServeScript
  PROVE  DeliveryInv'
<1> USE DEF DeliveryInv
<1>1. /\ pc = "script" /\ at < PastVisit
      /\ \/ /\ Listens(at, event) /\ taken' = HandlersOf(at, event) /\ next' = 1
            /\ delivered' = delivered + 1 /\ pc' = "call" /\ at' = at
         \/ /\ ~Listens(at, event) /\ at' = at + 1 /\ UNCHANGED <<pc, taken, next, delivered>>
      /\ UNCHANGED <<lists, heard, stop, event, start, stopped>>
      /\ UNCHANGED <<torn, listed, touched, unencoded, log>>
  BY DEF ServeScript, historyVars
<1>2. /\ Running /\ Emitting /\ Front = at /\ start \in 1 .. NumScripts /\ at \in start .. PastVisit - 1
      /\ PastVisit \in start + 1 .. NumScripts + 1 /\ at \in Scripts /\ ~stopped
  <2>1. Emitting /\ ~stopped /\ start \in 1 .. NumScripts /\ at \in start .. PastVisit
    BY <1>1, NumScriptsAssumption DEF PlaceInv, Emitting, DispatchTypes
  <2>2. PastVisit \in start + 1 .. NumScripts + 1
    BY <2>1, VisitedIs
  <2>3. at \in start .. PastVisit - 1 /\ at \in Scripts
    BY <1>1, <2>1, <2>2, NumScriptsAssumption DEF Scripts
  <2> QED
    BY <1>1, <2>1, <2>2, <2>3 DEF Running, Front
<1>3. Emitting' /\ PastVisit' = PastVisit /\ event \in Events
  BY <1>1, <1>2 DEF Emitting, PastVisit, Visited, DispatchTypes
<1>4. /\ \A i \in DOMAIN log : log[i][1] \in Nat /\ log[i][1] < at
      /\ Len(log) \in Nat /\ DOMAIN log = 1 .. Len(log)
  <2>1. log \in Seq(Scripts \X Handlers)
    BY DEF DispatchTypes
  <2>2. \A i \in DOMAIN log : log[i][1] \in Nat
    BY <2>1, NumScriptsAssumption DEF Scripts
  <2> QED
    BY <1>2, <2>1, <2>2 DEF AheadInv
<1>5. Front' = at + 1 /\ at \in Nat
  <2>1. at \in Nat
    BY <1>2, NumScriptsAssumption DEF Scripts
  <2> QED
    BY <1>1, <2>1 DEF Front
<1>6. AheadInv'
  <2>1. \A i \in DOMAIN log : log[i][1] < at + 1
    BY <1>4, <1>5
  <2>2. \A s \in Scripts : s >= at + 1 => s >= at
    BY <1>5, NumScriptsAssumption DEF Scripts
  <2> QED
    BY <1>1, <1>2, <1>5, <2>1, <2>2 DEF AheadInv
<1>7. CASE Listens(at, event)
  <2>1. /\ taken' = HandlersOf(at, event) /\ next' = 1 /\ delivered' = delivered + 1
        /\ pc' = "call" /\ at' = at
    BY <1>1, <1>7
  <2>2. taken' \in Seq(Handlers) /\ taken' # <<>> /\ taken' = HeardOf(at, event)
    BY <1>2, <1>3, <1>7, <2>1, HandlersAreSome
  <2>3. DispatchTypes'
    <3>1. next' \in 1 .. Len(taken') + 1 /\ delivered' \in Nat
      <4>1. Len(taken') \in Nat
        BY <2>2
      <4> QED
        BY <2>1, <4>1 DEF DispatchTypes
    <3> QED
      BY <1>1, <1>2, <2>1, <2>2, <3>1 DEF DispatchTypes
  <2>4. PlaceInv'
    BY <1>1, <1>2, <1>3, <2>1, NumScriptsAssumption DEF PlaceInv, Serving
  <2>5. ServedInv'
    <3>1. Entered' = 0
      BY <2>1 DEF Entered
    <3>2. 0 <= Len(taken') /\ 0 <= Len(log)
      BY <1>4, <2>2
    <3>3. \A i \in DOMAIN log : log[i][1] = at <=> i > Len(log) - 0
      BY <1>4, <1>5
    <3>4. at \notin touched => taken' = listed[at][event]
      <4>1. at >= Front
        BY <1>2, <1>5
      <4> QED
        BY <1>1, <1>2, <2>2, <4>1, ListedAhead
    <3> QED
      BY <1>1, <2>1, <2>2, <3>1, <3>2, <3>3, <3>4 DEF ServedInv
  <2>6. DeliversAsListed'
    <3>1. \A t \in Scripts : Passed(t)' => Passed(t)
      BY <1>1, <2>1 DEF Passed
    <3> QED
      BY <1>1, <1>2, <3>1, DeliveriesKept, ListLengths
  <2>7. DeliveredInv'
    <3>1. delivered = Cardinality(Served) + 0 /\ Served' = Served
      BY <1>1, <1>2, NothingCounted DEF DeliveredInv
    <3>2. Cardinality(Served) \in Nat
      BY ServedIsFinite, FS_CardinalityType
    <3> QED
      BY <2>1, <3>1, <3>2 DEF DeliveredInv
  <2> QED
    BY <1>6, <2>3, <2>4, <2>5, <2>6, <2>7
<1>8. CASE ~Listens(at, event)
  <2>1. at' = at + 1 /\ UNCHANGED <<pc, taken, next, delivered>>
    BY <1>1, <1>8
  <2>2. DispatchTypes'
    BY <1>1, <1>2, <2>1, NumScriptsAssumption DEF DispatchTypes, Scripts
  <2>3. PlaceInv'
    BY <1>1, <1>2, <1>3, <2>1, NumScriptsAssumption DEF PlaceInv, Serving
  <2>4. ServedInv'
    BY <1>1, <2>1 DEF ServedInv, Serving
  <2>5. DeliversAsListed'
    <3>1. ASSUME NEW s \in Scripts \ (touched \cup unencoded), Passed(s)'
          PROVE  Passed(s) \/ FirstCalled(log, s, listed[s][event], Len(listed[s][event]))
      <4>1. CASE s = at
        <5>1. at >= Front
          BY <1>2, <1>5
        <5> QED
          BY <1>1, <1>2, <1>8, <3>1, <4>1, <5>1, NothingToCall
      <4>2. CASE s # at
        <5>1. s < start \/ s < at + 1
          BY <1>1, <2>1, <3>1 DEF Passed
        <5>2. s < start \/ s < at
          BY <1>5, <4>2, <5>1, NumScriptsAssumption DEF Scripts
        <5> QED
          BY <1>1, <5>2 DEF Passed
      <4> QED
        BY <4>1, <4>2
    <3> QED
      BY <1>1, <1>2, <3>1, DeliveriesKept, ListLengths
  <2>6. DeliveredInv'
    BY <1>1, <1>2, <2>1, NothingCounted DEF DeliveredInv
  <2> QED
    BY <1>6, <2>2, <2>3, <2>4, <2>5, <2>6
<1> QED
  BY <1>7, <1>8

\* All scripts of the visit are served.
LEMMA EndVisitKeepsDelivery ==
  ASSUME Inv, DeliveryInv, EndVisit
  PROVE  DeliveryInv'
<1> USE DEF DeliveryInv
<1>1. /\ pc = "script" /\ at = PastVisit /\ start' = at /\ pc' = "visit"
      /\ UNCHANGED <<lists, heard, at, stop, event, taken, next, delivered, stopped>>
      /\ UNCHANGED <<torn, listed, touched, unencoded, log>>
  BY DEF EndVisit, historyVars
<1>2. /\ Emitting /\ ~stopped /\ start \in 1 .. NumScripts
      /\ at \in start + 1 .. NumScripts + 1
  <2>1. Emitting /\ ~stopped /\ start \in 1 .. NumScripts
    BY <1>1, NumScriptsAssumption DEF PlaceInv, Emitting, DispatchTypes
  <2> QED
    BY <1>1, <2>1, VisitedIs
<1>3. Emitting' /\ Front' = at /\ Front = at /\ Running
  BY <1>1, <1>2, NumScriptsAssumption DEF Emitting, Front, Running
<1>4. DispatchTypes'
  BY <1>1, <1>2, NumScriptsAssumption DEF DispatchTypes
<1>5. PlaceInv'
  BY <1>1, <1>2, <1>3, NumScriptsAssumption DEF PlaceInv, Serving
<1>6. AheadInv'
  <2>1. \A s \in unencoded : s < at
    <3>1. \A s \in unencoded : s < start /\ s \in Nat
      BY <1>3, NumScriptsAssumption DEF AheadInv, DispatchTypes, Scripts
    <3> QED
      BY <1>2, <3>1, NumScriptsAssumption
  <2> QED
    BY <1>1, <1>3, <2>1 DEF AheadInv
<1>7. ServedInv'
  BY <1>1 DEF ServedInv, Serving
<1>8. DeliversAsListed'
  <2>1. \A t \in Scripts : Passed(t)' => Passed(t)
    BY <1>1 DEF Passed
  <2> QED
    BY <1>1, <1>2, <2>1, DeliveriesKept, ListLengths
<1>9. DeliveredInv'
  BY <1>1, <1>2, NothingCounted DEF DeliveredInv
<1> QED
  BY <1>4, <1>5, <1>6, <1>7, <1>8, <1>9

\* What is known while handlers of a script are called.
LEMMA ServingPlace ==
  ASSUME DeliveryInv, pc = "call"
  PROVE  /\ Serving /\ Emitting /\ Running /\ Front = at + 1 /\ ~stopped
         /\ start \in 1 .. NumScripts /\ at \in start .. PastVisit - 1
         /\ PastVisit \in start + 1 .. NumScripts + 1 /\ at \in Scripts /\ at \in Nat
         /\ next \in 1 .. Len(taken) + 1 /\ Len(taken) \in Nat /\ Entered = next - 1
<1> USE DEF DeliveryInv
<1>1. Serving /\ Emitting /\ ~stopped /\ start \in 1 .. NumScripts /\ at \in start .. PastVisit - 1
  BY NumScriptsAssumption DEF PlaceInv, Serving, Emitting, DispatchTypes
<1>2. Running /\ Front = at + 1 /\ at \in Scripts /\ Entered = next - 1
  BY <1>1 DEF Running, Front, DispatchTypes, Entered
<1>3. PastVisit \in start + 1 .. NumScripts + 1
  BY <1>1, VisitedIs
<1>4. next \in 1 .. Len(taken) + 1 /\ Len(taken) \in Nat
  BY DEF DispatchTypes
<1>5. at \in Nat
  BY <1>2, NumScriptsAssumption DEF Scripts
<1> QED
  BY <1>1, <1>2, <1>3, <1>4, <1>5

\* A handler is called.
LEMMA EnterHandlerKeepsDelivery ==
  ASSUME Inv, DeliveryInv, EnterHandler
  PROVE  DeliveryInv'
<1> USE DEF DeliveryInv
<1> DEFINE L == Len(log)
           call == <<at, taken[next]>>
<1>1. /\ pc = "call" /\ next <= Len(taken) /\ log' = Append(log, call) /\ pc' = "js"
      /\ UNCHANGED <<lists, heard, at, stop, event, start, taken, next, delivered, stopped>>
      /\ UNCHANGED <<torn, listed, touched, unencoded>>
  BY DEF EnterHandler, ToCall, dispatchVars
<1>2. /\ Serving /\ Emitting /\ Running /\ Front = at + 1 /\ ~stopped
      /\ start \in 1 .. NumScripts /\ at \in start .. PastVisit - 1
      /\ PastVisit \in start + 1 .. NumScripts + 1 /\ at \in Scripts /\ at \in Nat
      /\ next \in 1 .. Len(taken) /\ Len(taken) \in Nat /\ Entered = next - 1
  BY <1>1, ServingPlace
<1>3. call \in Scripts \X Handlers /\ call[1] = at /\ call[2] = taken[next]
  <2>1. taken[next] \in Handlers
    BY <1>2 DEF DispatchTypes
  <2> QED
    BY <1>2, <2>1
<1> HIDE DEF call
<1>4. /\ L \in Nat /\ DOMAIN log = 1 .. L
      /\ log' \in Seq(Scripts \X Handlers) /\ Len(log') = L + 1 /\ DOMAIN log' = 1 .. L + 1
      /\ \A i \in 1 .. L : log'[i] = log[i]
      /\ log'[L + 1] = call
  <2>1. log \in Seq(Scripts \X Handlers)
    BY DEF DispatchTypes
  <2> QED
    BY <1>1, <1>3, <2>1
<1> HIDE DEF L
<1>5. /\ Emitting' /\ Serving' /\ PastVisit' = PastVisit /\ Front' = at + 1 /\ Entered' = next
  BY <1>1, <1>2 DEF Emitting, Serving, PastVisit, Visited, Front, Entered
<1>6. /\ taken # <<>> /\ next - 1 <= L
      /\ \A i \in 1 .. L : log[i][1] = at <=> i > L - (next - 1)
      /\ \A j \in 1 .. next - 1 : log[L - (next - 1) + j][2] = taken[j]
      /\ at \notin touched => taken = listed[at][event]
      /\ \A i \in 1 .. L : log[i][1] \in Nat /\ log[i][1] < at + 1
  <2>1. log \in Seq(Scripts \X Handlers)
    BY DEF DispatchTypes
  <2>2. \A i \in 1 .. L : log[i][1] \in Nat
    BY <1>4, <2>1, NumScriptsAssumption DEF Scripts
  <2> QED
    BY <1>2, <1>4, <2>2 DEF ServedInv, AheadInv, L
<1>7. DispatchTypes'
  BY <1>1, <1>4 DEF DispatchTypes
<1>8. PlaceInv'
  BY <1>1, <1>2, <1>5 DEF PlaceInv
<1>9. AheadInv'
  <2>1. \A i \in 1 .. L + 1 : log'[i][1] < at + 1
    <3> SUFFICES ASSUME NEW i \in 1 .. L + 1 PROVE log'[i][1] < at + 1
      OBVIOUS
    <3>1. CASE i = L + 1
      BY <1>2, <1>3, <1>4, <3>1
    <3>2. CASE i # L + 1
      <4>1. i \in 1 .. L
        BY <1>4, <3>2
      <4> QED
        BY <1>4, <1>6, <4>1
    <3> QED
      BY <3>1, <3>2
  <2> QED
    BY <1>1, <1>2, <1>4, <1>5, <2>1 DEF AheadInv
<1>10. /\ \A i \in 1 .. L + 1 : log'[i][1] = at <=> i > L + 1 - next
       /\ \A j \in 1 .. next : log'[L + 1 - next + j][2] = taken[j]
  <2>1. ASSUME NEW i \in 1 .. L + 1 PROVE log'[i][1] = at <=> i > L + 1 - next
    <3>1. CASE i = L + 1
      BY <1>2, <1>3, <1>4, <3>1
    <3>2. CASE i # L + 1
      <4>1. i \in 1 .. L
        BY <1>4, <3>2
      <4>2. log[i][1] = at <=> i > L - (next - 1)
        BY <1>6, <4>1
      <4>3. L - (next - 1) = L + 1 - next
        BY <1>2, <1>4
      <4> QED
        BY <1>4, <4>1, <4>2, <4>3
    <3> QED
      BY <3>1, <3>2
  <2>2. ASSUME NEW j \in 1 .. next PROVE log'[L + 1 - next + j][2] = taken[j]
    <3>1. CASE j = next
      <4>1. L + 1 - next + j = L + 1
        BY <1>2, <1>4, <3>1
      <4> QED
        BY <1>3, <1>4, <3>1, <4>1
    <3>2. CASE j # next
      <4>1. j \in 1 .. next - 1 /\ L - (next - 1) + j \in 1 .. L
            /\ L + 1 - next + j = L - (next - 1) + j
        BY <1>2, <1>4, <1>6, <3>2
      <4> QED
        BY <1>4, <1>6, <4>1
    <3> QED
      BY <3>1, <3>2
  <2> QED
    BY <2>1, <2>2
<1>11. ServedInv'
  <2>1. Len(log') - Entered' = L + 1 - next /\ next <= L + 1
    BY <1>2, <1>4, <1>5, <1>6
  <2> QED
    BY <1>1, <1>2, <1>4, <1>5, <1>6, <1>10, <2>1 DEF ServedInv
<1>12. \A s \in Scripts \ {at} : CallsOf(log', s) = CallsOf(log, s)
  BY <1>3, <1>4 DEF CallsOf
<1>13. DeliversAsListed'
  <2>1. \A i \in 1 .. L : log'[i][1] <= log'[i + 1][1]
    <3> SUFFICES ASSUME NEW i \in 1 .. L PROVE log'[i][1] <= log'[i + 1][1]
      OBVIOUS
    <3>1. CASE i = L
      <4>1. log[i][1] <= at
        BY <1>2, <1>6
      <4> QED
        BY <1>3, <1>4, <3>1, <4>1
    <3>2. CASE i # L
      <4>1. i \in 1 .. L - 1 /\ i + 1 \in 1 .. L
        BY <1>4, <3>2
      <4>2. log[i][1] <= log[i + 1][1]
        BY <1>2, <1>4, <4>1 DEF DeliversAsListed, L
      <4> QED
        BY <1>4, <4>1, <4>2
    <3> QED
      BY <3>1, <3>2
  <2>2. ASSUME NEW s \in Scripts \ (touched \cup unencoded)
        PROVE  \E n \in 0 .. Len(listed[s][event]) :
                 FirstCalled(log', s, listed[s][event], n)
                 /\ (Passed(s)' => n = Len(listed[s][event]))
    <3>1. Passed(s)' => Passed(s)
      BY <1>1 DEF Passed
    <3>2. CASE s # at
      <4>1. PICK n \in 0 .. Len(listed[s][event]) :
              FirstCalled(log, s, listed[s][event], n) /\ (Passed(s) => n = Len(listed[s][event]))
        BY <1>2 DEF DeliversAsListed
      <4>2. PICK k \in 0 .. L : /\ CallsOf(log, s) = k + 1 .. k + n
                                /\ \A j \in 1 .. n : log[k + j][2] = listed[s][event][j]
        BY <4>1 DEF FirstCalled, L
      <4>3. CallsOf(log', s) = k + 1 .. k + n /\ k \in 0 .. L + 1
        BY <1>4, <1>12, <3>2, <4>2
      <4>4. ASSUME NEW j \in 1 .. n PROVE log'[k + j][2] = listed[s][event][j]
        <5>1. k + j \in CallsOf(log, s)
          <6>1. n \in Int /\ k \in Int
            BY ListLengths
          <6> QED
            BY <4>2, <6>1
        <5>2. k + j \in 1 .. L
          BY <1>4, <5>1 DEF CallsOf
        <5> QED
          BY <1>4, <4>2, <5>2
      <4>5. FirstCalled(log', s, listed[s][event], n)
        BY <1>4, <4>3, <4>4 DEF FirstCalled
      <4> QED
        BY <3>1, <4>1, <4>5
    <3>3. CASE s = at
      <4>1. taken = listed[s][event] /\ next \in 0 .. Len(listed[s][event])
        BY <1>2, <1>6, <3>3
      <4>2. ~Passed(s)'
        BY <1>1, <1>2, <3>3 DEF Passed
      <4>3. CallsOf(log', at) = (L + 1 - next) + 1 .. (L + 1 - next) + next
        <5>1. CallsOf(log', at) = {i \in 1 .. L + 1 : i > L + 1 - next}
          BY <1>4, <1>10 DEF CallsOf
        <5>2. L + 1 - next >= 0
          BY <1>2, <1>4, <1>6
        <5> QED
          BY <1>2, <1>4, <5>1, <5>2
      <4>4. L + 1 - next \in 0 .. Len(log')
        BY <1>2, <1>4, <1>6
      <4>5. FirstCalled(log', s, listed[s][event], next)
        BY <1>10, <3>3, <4>1, <4>3, <4>4 DEF FirstCalled
      <4> QED
        BY <4>1, <4>2, <4>5
    <3> QED
      BY <3>2, <3>3
  <2>3. Len(log') - 1 = L
    BY <1>4
  <2> QED
    BY <1>1, <2>1, <2>2, <2>3 DEF DeliversAsListed
<1>14. DeliveredInv'
  <2>1. IsFiniteSet(Served) /\ Cardinality(Served) \in Nat
    BY ServedIsFinite, FS_CardinalityType
  <2>2. Served' = Served \cup {at}
    <3>1. CallsOf(log', at) # {}
      <4>1. L + 1 \in CallsOf(log', at)
        BY <1>3, <1>4 DEF CallsOf
      <4> QED
        BY <4>1
    <3> QED
      BY <1>1, <1>2, <1>12, <3>1 DEF Served
  <2>3. CASE next = 1
    <3>1. at \notin Served
      <4>1. at \notin unencoded
        BY <1>2 DEF AheadInv, DispatchTypes
      <4>2. CallsOf(log, at) = {}
        BY <1>4, <1>6, <2>3 DEF CallsOf
      <4> QED
        BY <4>1, <4>2 DEF Served
    <3>2. Cardinality(Served') = Cardinality(Served) + 1
      BY <2>1, <2>2, <3>1, FS_AddElement
    <3> QED
      BY <1>1, <1>2, <2>1, <2>3, <3>2 DEF DeliveredInv
  <2>4. CASE next # 1
    <3>1. at \in Served
      <4>1. L \in 1 .. L /\ L > L - (next - 1)
        BY <1>2, <1>4, <1>6, <2>4
      <4>2. L \in CallsOf(log, at)
        BY <1>4, <1>6, <4>1 DEF CallsOf
      <4> QED
        BY <1>2, <4>2 DEF Served
    <3>2. Served' = Served
      BY <2>2, <3>1
    <3> QED
      BY <1>1, <1>2, <2>4, <3>2 DEF DeliveredInv
  <2> QED
    BY <2>3, <2>4
<1> QED
  BY <1>7, <1>8, <1>9, <1>11, <1>13, <1>14

\* All handlers of the script were called.
LEMMA ScriptServedKeepsDelivery ==
  ASSUME Inv, DeliveryInv, ScriptServed
  PROVE  DeliveryInv'
<1> USE DEF DeliveryInv
<1>1. /\ pc = "call" /\ next > Len(taken) /\ stopped' = stop
      /\ \/ stop /\ pc' = "visit" /\ at' = at
         \/ ~stop /\ pc' = "script" /\ at' = at + 1
      /\ UNCHANGED <<lists, heard, stop, event, start, taken, next, delivered>>
      /\ UNCHANGED <<torn, listed, touched, unencoded, log>>
  BY DEF ScriptServed, ToCall, historyVars
<1>2. /\ Serving /\ Emitting /\ Running /\ Front = at + 1 /\ ~stopped
      /\ start \in 1 .. NumScripts /\ at \in start .. PastVisit - 1
      /\ PastVisit \in start + 1 .. NumScripts + 1 /\ at \in Scripts /\ at \in Nat
      /\ next = Len(taken) + 1 /\ Len(taken) \in Nat /\ Entered = Len(taken)
  BY <1>1, ServingPlace
<1>3. Emitting' /\ PastVisit' = PastVisit /\ stop \in BOOLEAN
  BY <1>1, <1>2 DEF Emitting, PastVisit, Visited, DispatchTypes
<1>4. /\ taken # <<>> /\ Len(taken) <= Len(log)
      /\ \A i \in DOMAIN log : log[i][1] = at <=> i > Len(log) - Len(taken)
      /\ \A j \in 1 .. Len(taken) : log[Len(log) - Len(taken) + j][2] = taken[j]
      /\ at \notin touched => taken = listed[at][event]
  BY <1>2 DEF ServedInv
<1>5. DispatchTypes'
  <2>1. at' \in 1 .. NumScripts + 1 /\ pc' \in {"visit", "script"}
    BY <1>1, <1>2, NumScriptsAssumption
  <2> QED
    BY <1>1, <1>3, <2>1 DEF DispatchTypes
<1>6. PlaceInv'
  BY <1>1, <1>2, <1>3, NumScriptsAssumption DEF PlaceInv, Serving
<1>7. AheadInv'
  <2> SUFFICES ASSUME Running' PROVE AheadInv'
    BY DEF AheadInv
  <2>1. Front' = at + 1
    BY <1>1 DEF Running, Front
  <2> QED
    BY <1>1, <1>2, <2>1 DEF AheadInv
<1>8. ServedInv'
  BY <1>1 DEF ServedInv, Serving
<1>9. DeliversAsListed'
  <2>1. ASSUME NEW s \in Scripts \ (touched \cup unencoded), Passed(s)'
        PROVE  Passed(s) \/ FirstCalled(log, s, listed[s][event], Len(listed[s][event]))
    <3>1. CASE s = at
      <4>1. taken = listed[s][event]
        BY <1>4, <2>1, <3>1
      <4>2. Len(log) \in Nat /\ DOMAIN log = 1 .. Len(log)
        BY DEF DispatchTypes
      <4>3. /\ CallsOf(log, s) = (Len(log) - Len(taken)) + 1 .. (Len(log) - Len(taken)) + Len(taken)
            /\ Len(log) - Len(taken) \in 0 .. Len(log)
        <5>1. CallsOf(log, s) = {i \in 1 .. Len(log) : i > Len(log) - Len(taken)}
          BY <1>4, <3>1, <4>2 DEF CallsOf
        <5> QED
          BY <1>2, <1>4, <4>2, <5>1
      <4> QED
        BY <1>4, <4>1, <4>3 DEF FirstCalled
    <3>2. CASE s # at
      <4>1. s < start \/ s < at \/ s < at + 1
        BY <1>1, <2>1 DEF Passed
      <4>2. s < start \/ s < at
        BY <1>2, <3>2, <4>1, NumScriptsAssumption DEF Scripts
      <4> QED
        BY <1>1, <4>2 DEF Passed
    <3> QED
      BY <3>1, <3>2
  <2> QED
    BY <1>1, <1>2, <2>1, DeliveriesKept, ListLengths
<1>10. DeliveredInv'
  <2>1. next # 1
    <3>1. Len(taken) # 0
      BY <1>4 DEF DispatchTypes
    <3> QED
      BY <1>2, <3>1
  <2> QED
    BY <1>1, <1>2, <2>1, NothingCounted DEF DeliveredInv
<1> QED
  BY <1>5, <1>6, <1>7, <1>8, <1>9, <1>10

\* The emit is over.
LEMMA FinishKeepsDelivery ==
  ASSUME Inv, DeliveryInv, Finish
  PROVE  DeliveryInv'
<1> USE DEF DeliveryInv
<1>1. /\ pc = "visit" /\ (stopped \/ start > NumScripts) /\ pc' = "idle" /\ stop' = FALSE
      /\ UNCHANGED <<lists, heard, at, event, start, taken, next, delivered, stopped>>
      /\ UNCHANGED <<torn, listed, touched, unencoded, log>>
  BY DEF Finish, dispatchVars, historyVars
<1>2. DispatchTypes'
  BY <1>1 DEF DispatchTypes
<1>3. PlaceInv' /\ AheadInv' /\ ServedInv'
  BY <1>1 DEF PlaceInv, Emitting, Serving, AheadInv, Running, ServedInv
<1>4. DeliversAsListed'
  <2>1. \A t \in Scripts : Passed(t)' => Passed(t)
    BY <1>1 DEF Passed
  <2> QED
    BY <1>1, <2>1, DeliveriesKept, ListLengths DEF Emitting
<1>5. DeliveredInv'
  BY <1>1, NothingCounted DEF DeliveredInv, Emitting
<1> QED
  BY <1>2, <1>3, <1>4, <1>5

-----------------------------------------------------------------------------
LEMMA InitDelivery == Init => DeliveryInv
<1> SUFFICES ASSUME Init PROVE DeliveryInv
  OBVIOUS
<1> USE DEF Init
<1>1. lists \in [Scripts -> [Events -> Seq(Handlers)]]
  BY InitInv DEF Inv, ListsInv
<1>2. DispatchTypes
  <2>1. listed \in [Scripts -> [Events -> Seq(Handlers)]]
    BY <1>1
  <2>2. taken \in Seq(Handlers) /\ Len(taken) = 0 /\ log \in Seq(Scripts \X Handlers)
    OBVIOUS
  <2>3. start \in 0 .. NumScripts + 1 /\ at \in 1 .. NumScripts + 1
    BY NumScriptsAssumption
  <2>4. /\ pc = "idle" /\ next = 1 /\ delivered = 0 /\ event \in Events
        /\ stop = FALSE /\ stopped = FALSE /\ torn = {} /\ touched = {} /\ unencoded = {}
    OBVIOUS
  <2>5. next \in 1 .. Len(taken) + 1
    BY <2>2, <2>4
  <2> HIDE DEF Init
  <2> QED
    BY <2>1, <2>2, <2>3, <2>4, <2>5 DEF DispatchTypes
<1>3. ~Emitting
  BY DEF Emitting
<1> QED
  BY <1>2, <1>3
  DEF DeliveryInv, PlaceInv, AheadInv, Running, ServedInv, Serving, DeliversAsListed, DeliveredInv

LEMMA NextKeepsDelivery == Inv /\ DeliveryInv /\ [Next]_vars => DeliveryInv'
<1> SUFFICES ASSUME Inv, DeliveryInv, [Next]_vars PROVE DeliveryInv'
  OBVIOUS
<1>1. ASSUME NEW s \in Scripts, NEW e \in Events, NEW h \in Handlers, On(s, e, h) \/ Off(s, e, h)
      PROVE  DeliveryInv'
  <2>1. PICK list \in Seq(Handlers) : Changes(s, e, list)
    BY <1>1, OnOffChange
  <2> QED
    BY <2>1, ChangesKeepsDelivery
<1>2. CASE Tell
  BY <1>2, TellKeepsDelivery
<1>3. CASE StoppedTelling \/ CodeEnds
  BY <1>3, AfterCodeKeepsDelivery
<1>4. ASSUME NEW s \in Scripts, Call(s) PROVE DeliveryInv'
  BY <1>4, CallKeepsDelivery
<1>5. ASSUME NEW e \in Events, Emit(e) PROVE DeliveryInv'
  BY <1>5, EmitKeepsDelivery
<1>6. CASE VisitNone
  BY <1>6, VisitNoneKeepsDelivery
<1>7. CASE VisitFails
  BY <1>7, VisitFailsKeepsDelivery
<1>8. CASE Visit
  BY <1>8, VisitKeepsDelivery
<1>9. CASE ServeScript
  BY <1>9, ServeScriptKeepsDelivery
<1>10. CASE EndVisit
  BY <1>10, EndVisitKeepsDelivery
<1>11. CASE EnterHandler
  BY <1>11, EnterHandlerKeepsDelivery
<1>12. CASE ScriptServed
  BY <1>12, ScriptServedKeepsDelivery
<1>13. CASE Finish
  BY <1>13, FinishKeepsDelivery
<1>14. CASE Interrupt
  BY <1>14, InterruptKeepsDelivery
<1>15. CASE UNCHANGED vars
  <2> USE <1>15 DEF vars, dispatchVars, historyVars, DeliveryInv
  <2>1. DispatchTypes' /\ PlaceInv'
    BY DEF DispatchTypes, PlaceInv, Emitting, Serving, PastVisit, Visited
  <2>2. AheadInv' /\ ServedInv'
    BY DEF AheadInv, Running, Emitting, Front, ServedInv, Serving, Entered
  <2>3. DeliversAsListed'
    BY DeliveriesKept, ListLengths DEF Emitting, Passed
  <2>4. DeliveredInv'
    BY NothingCounted DEF DeliveredInv, Emitting
  <2> QED
    BY <2>1, <2>2, <2>3, <2>4
<1> QED
  BY <1>1, <1>2, <1>3, <1>4, <1>5, <1>6, <1>7, <1>8, <1>9, <1>10, <1>11, <1>12, <1>13, <1>14,
     <1>15
  DEF Next, Code, Dispatch

\* Each script served is one of the scripts.
LEMMA DeliveredBound ==
  ASSUME DeliveryInv, Emitting
  PROVE  delivered <= NumScripts
<1> USE DEF DeliveryInv
<1>1. Served \subseteq Scripts /\ IsFiniteSet(Served) /\ Cardinality(Served) \in Nat
      /\ Cardinality(Served) <= NumScripts
  BY ServedIsFinite, FS_CardinalityType
<1>2. CASE ~(pc = "call" /\ next = 1)
  BY <1>1, <1>2 DEF DeliveredInv
<1>3. CASE pc = "call" /\ next = 1
  <2>1. at \in Scripts /\ Entered = 0 /\ Serving /\ Running /\ start <= at
    BY <1>3, ServingPlace
  <2>2. at \notin Served
    <3>1. at \notin unencoded
      <4>1. at \in Nat /\ start \in Nat
        BY <1>3, ServingPlace
      <4> QED
        BY <2>1, <4>1 DEF AheadInv
    <3>2. \A i \in DOMAIN log : log[i][1] # at
      BY <2>1 DEF ServedInv, DispatchTypes
    <3> QED
      BY <3>1, <3>2 DEF Served, CallsOf
  <2>3. Cardinality(Served \cup {at}) = Cardinality(Served) + 1
    BY <1>1, <2>2, FS_AddElement
  <2>4. IsFiniteSet(Scripts) /\ Cardinality(Scripts) = NumScripts
    <3>1. Cardinality(1 .. NumScripts) = NumScripts
      BY NumScriptsAssumption, FS_Interval
    <3> QED
      BY <3>1, NumScriptsAssumption, FS_Interval DEF Scripts
  <2>5. Cardinality(Served \cup {at}) <= NumScripts
    BY <1>1, <2>1, <2>4, FS_Subset
  <2> QED
    BY <1>3, <2>3, <2>5 DEF DeliveredInv
<1> QED
  BY <1>2, <1>3

LEMMA NextKeepsRest ==
  ASSUME DeliveryInv, RestInv, [Next]_vars
  PROVE  RestInv'
<1> SUFFICES ASSUME ~Emitting' PROVE delivered' <= NumScripts
  BY DEF RestInv
<1>1. CASE ~Emitting
  <2>1. pc \notin {"visit", "script", "call"}
    BY <1>1 DEF DeliveryInv, PlaceInv
  <2>2. delivered' = delivered
    BY <2>1
    DEF Next, Code, Dispatch, On, Off, Changes, Tell, StoppedTelling, CodeEnds, Call, Emit, VisitNone,
        VisitFails, Visit, ServeScript, EndVisit, EnterHandler, ScriptServed, Finish, Interrupt,
        Emitting, vars, dispatchVars
  <2> QED
    BY <1>1, <2>2 DEF RestInv
<1>2. CASE Emitting
  <2>1. delivered' = delivered
    <3>1. CASE UNCHANGED vars
      BY <3>1 DEF vars, dispatchVars
    <3>2. CASE \E s \in Scripts : Call(s)
      BY <3>2 DEF Call
    <3>3. CASE \E e \in Events : Emit(e)
      BY <3>3 DEF Emit, Emitting
    <3>4. CASE Code \/ Interrupt
      BY <3>4 DEF Code, On, Off, Changes, Tell, StoppedTelling, CodeEnds, Interrupt, dispatchVars
    <3>5. CASE Visit \/ EnterHandler \/ ScriptServed \/ Finish \/ EndVisit \/ VisitNone
      BY <3>5 DEF Visit, EnterHandler, ScriptServed, Finish, EndVisit, VisitNone, dispatchVars
    <3>6. CASE ServeScript
      BY <1>2, <3>6 DEF ServeScript, Emitting
    <3>7. CASE VisitFails
      <4>1. pc = "visit" /\ ~stopped /\ start <= NumScripts /\ start' = PastVisit
        BY <3>7 DEF VisitFails
      <4>2. PastVisit \in start + 1 .. NumScripts + 1 /\ start \in 1 .. NumScripts
        BY <1>2, <4>1, VisitBegins
      <4> QED
        BY <4>1, <4>2 DEF Emitting
    <3> QED
      BY <3>1, <3>2, <3>3, <3>4, <3>5, <3>6, <3>7 DEF Next, Dispatch
  <2> QED
    BY <1>2, <2>1, DeliveredBound
<1> QED
  BY <1>1, <1>2

LEMMA DeliveryIsInvariant == Spec => [](Inv /\ DeliveryInv /\ RestInv)
<1>1. Init => Inv /\ DeliveryInv /\ RestInv
  <2>1. Init => RestInv
    BY NumScriptsAssumption DEF Init, RestInv
  <2> QED
    BY <2>1, InitInv, InitDelivery
<1>2. Inv /\ DeliveryInv /\ RestInv /\ [Next]_vars => (Inv /\ DeliveryInv /\ RestInv)'
  BY NextKeepsInv, NextKeepsDelivery, NextKeepsRest
<1> QED
  BY <1>1, <1>2, PTL DEF Spec

\* Every variable keeps its type; emit returns no more than the number of scripts.
THEOREM TypeCorrect == Spec => []TypeOK
<1>1. Inv /\ DeliveryInv /\ RestInv => TypeOK
  <2> SUFFICES ASSUME Inv, DeliveryInv, RestInv PROVE TypeOK
    OBVIOUS
  <2>1. delivered \in 0 .. NumScripts
    BY DeliveredBound, NumScriptsAssumption DEF RestInv, DeliveryInv, DispatchTypes
  <2>2. heard \in [Scripts -> Heard]
    BY DEF Inv, HeardInv, Heard, Entry
  <2> QED
    BY <2>1, <2>2 DEF TypeOK, DeliveryInv, DispatchTypes, Inv, ListsInv
<1> QED
  BY <1>1, DeliveryIsInvariant, PTL

\* Engine::dispatch, grouped or not, calls the handlers each script had when the emit
\* began, in load order and registration order, whatever handlers register and remove.
THEOREM DeliversAsListedHolds == Spec => []DeliversAsListed
<1>1. DeliveryInv => DeliversAsListed
  BY DEF DeliveryInv
<1> QED
  BY <1>1, DeliveryIsInvariant, PTL

\* What emit returns counts each script once: when its handlers are taken, or when the
\* event could not be encoded for it, and never both.
THEOREM CountsServedHolds == Spec => []CountsServed
<1>1. DeliveryInv => CountsServed
  <2> SUFFICES ASSUME DeliveryInv, Emitting, pc \in {"idle", "visit"}
               PROVE  delivered = Cardinality(Served)
    BY DEF CountsServed
  <2>1. Cardinality(Served) \in Nat
    BY ServedIsFinite, FS_CardinalityType DEF DeliveryInv
  <2> QED
    BY <2>1 DEF DeliveryInv, DeliveredInv
<1> QED
  BY <1>1, DeliveryIsInvariant, PTL
=============================================================================
