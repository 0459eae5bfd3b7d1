------------------------ MODULE HostPromises_proofs ------------------------
(***************************************************************************)
(* Proofs about HostPromises for any number of versions and calls.         *)
(***************************************************************************)
EXTENDS HostPromises, TLAPS

-----------------------------------------------------------------------------
(* Type correctness, one part of the state at a time.                      *)

LEMMA InboxType == TypeOK /\ [Next]_vars => InboxTypeOK'
<1> SUFFICES ASSUME TypeOK, [Next]_vars PROVE InboxTypeOK'
  OBVIOUS
<1> USE DEF TypeOK, InboxTypeOK, inboxVars
<1>1. ASSUME NEW v \in Versions, Cancel(v) PROVE InboxTypeOK'
  BY <1>1 DEF Cancel
<1>2. ASSUME NEW c \in Calls, Push(c) PROVE InboxTypeOK'
  <2> DEFINE v == VersionOf[c]
  <2>1. v \in Versions
    BY VersionOfAssumption
  <2>2. Append(ready[v], c) \in Seq(Calls)
    BY <2>1
  <2>3. ready' = ready \/ ready' = [ready EXCEPT ![v] = Append(ready[v], c)]
    BY <1>2 DEF Push
  <2>4. ready' \in [Versions -> Seq(Calls)]
    BY <2>1, <2>2, <2>3
  <2> QED
    BY <1>2, <2>4 DEF Push
<1>3. ASSUME NEW c \in Calls, RaiseWake(c) PROVE InboxTypeOK'
  BY <1>3 DEF RaiseWake
<1>4. ASSUME Pop, UNCHANGED <<cancelled, wake>> PROVE InboxTypeOK'
  <2>1. op = "poll" => at \in Versions
    BY DEF EngineTypeOK
  <2>2. at \in Versions /\ ready[at] # <<>> /\ ready' = [ready EXCEPT ![at] = Tail(ready[at])]
    BY <1>4, <2>1 DEF Pop
  <2>3. ready' \in [Versions -> Seq(Calls)]
    BY <2>2
  <2> QED
    BY <1>4, <2>3
<1>5. CASE StartPump
  BY <1>5 DEF StartPump
<1>6. CASE EndPump
  BY <1>6 DEF EndPump, EngineTypeOK
<1>7. CASE UNCHANGED inboxVars
  BY <1>7
<1> QED
  BY <1>1, <1>2, <1>3, <1>4, <1>5, <1>6, <1>7
     DEF Next, Lifecycle, Calling, HostStep, Pumping, vars, Mount, Mounted, Retire,
         RefuseCall, StartCall, HandlerReturns, HandlerFails, Resolve, Encode, Reject,
         DropResolver, Interrupted, Skip, Enter, Deliver, SettleFails, EncoderPanics, Drained

LEMMA ScopeType == TypeOK /\ [Next]_vars => ScopeTypeOK'
<1> SUFFICES ASSUME TypeOK, [Next]_vars PROVE ScopeTypeOK'
  OBVIOUS
<1> USE VersionOfAssumption DEF TypeOK, ScopeTypeOK, scopeVars, Phases, PromiseStates
<1>1. ASSUME NEW v \in Versions, Mount(v) \/ Mounted(v) \/ Retire(v) PROVE ScopeTypeOK'
  BY <1>1 DEF Mount, Mounted, Retire
<1>2. ASSUME NEW v \in Versions, Cancel(v) PROVE ScopeTypeOK'
  BY <1>2 DEF Cancel
<1>3. ASSUME NEW c \in Calls, RefuseCall(c) PROVE ScopeTypeOK'
  BY <1>3 DEF RefuseCall
<1>4. ASSUME NEW c \in Calls, StartCall(c) PROVE ScopeTypeOK'
  BY <1>4 DEF StartCall
<1>5. CASE HandlerFails
  BY <1>5 DEF HandlerFails
<1>6. CASE Deliver
  BY <1>6 DEF Deliver, Pop, Outcomes
<1>7. ASSUME Pop, UNCHANGED <<phase, promise>> PROVE ScopeTypeOK'
  BY <1>7 DEF Pop
<1>8. CASE UNCHANGED scopeVars
  BY <1>8
<1> QED
  BY <1>1, <1>2, <1>3, <1>4, <1>5, <1>6, <1>7, <1>8
     DEF Next, Lifecycle, Calling, HostStep, Pumping, vars, HandlerReturns, Resolve, Encode,
         Reject, DropResolver, Push, RaiseWake, StartPump, Interrupted, Skip, Enter,
         SettleFails, EncoderPanics, Drained, EndPump

LEMMA HostType == TypeOK /\ [Next]_vars => HostTypeOK'
<1> SUFFICES ASSUME TypeOK, [Next]_vars PROVE HostTypeOK'
  OBVIOUS
<1> USE DEF TypeOK, HostTypeOK, hostVars, ResolverStates, Settlements
<1>1. ASSUME NEW c \in Calls, StartCall(c) PROVE HostTypeOK'
  BY <1>1 DEF StartCall
<1>2. ASSUME NEW c \in Calls, Resolve(c) PROVE HostTypeOK'
  BY <1>2 DEF Resolve
<1>3. ASSUME NEW c \in Calls, NEW s \in Settlements, Send(c, s), UNCHANGED verdict
      PROVE  HostTypeOK'
  BY <1>3 DEF Send
<1>4. ASSUME NEW c \in Calls, Encode(c) \/ Reject(c) \/ DropResolver(c) PROVE HostTypeOK'
  BY <1>3, <1>4 DEF Encode, Reject, DropResolver
<1>5. ASSUME NEW c \in Calls, Push(c) PROVE HostTypeOK'
  BY <1>5 DEF Push
<1>6. ASSUME NEW c \in Calls, RaiseWake(c) PROVE HostTypeOK'
  BY <1>6 DEF RaiseWake
<1>7. CASE UNCHANGED hostVars
  BY <1>7
<1> QED
  BY <1>1, <1>2, <1>4, <1>5, <1>6, <1>7
     DEF Next, Lifecycle, Calling, HostStep, Pumping, vars, Mount, Mounted, Retire, Cancel,
         RefuseCall, HandlerReturns, HandlerFails, StartPump, Interrupted, Skip, Enter,
         Deliver, SettleFails, EncoderPanics, Drained, EndPump

LEMMA EngineType == TypeOK /\ [Next]_vars => EngineTypeOK'
<1> SUFFICES ASSUME TypeOK, [Next]_vars PROVE EngineTypeOK'
  OBVIOUS
<1> USE NumVersionsAssumption DEF TypeOK, EngineTypeOK, engineVars
<1>1. ASSUME NEW c \in Calls, StartCall(c) PROVE EngineTypeOK'
  BY <1>1 DEF StartCall
<1>2. CASE HandlerReturns \/ HandlerFails
  BY <1>2 DEF HandlerReturns, HandlerFails
<1>3. CASE StartPump
  <2>1. op' = "visit" /\ at' = 1 /\ raise' = FALSE /\ calling' = calling
    BY <1>3 DEF StartPump
  <2>2. at' \in 1 .. NumVersions + 1
    BY <2>1
  <2> QED
    BY <2>1, <2>2
<1>4. ASSUME Interrupted PROVE EngineTypeOK'
  <2>1. op' = "visit" /\ at' = NumVersions + 1 /\ raise' = TRUE /\ calling' = calling
    BY <1>4 DEF Interrupted
  <2>2. at' \in 1 .. NumVersions + 1
    BY <2>1
  <2> QED
    BY <2>1, <2>2
<1>5. CASE Skip
  BY <1>5 DEF Skip
<1>6. CASE Enter
  BY <1>6 DEF Enter, Versions
<1>7. CASE SettleFails
  BY <1>7 DEF SettleFails, Pop, Versions
<1>8. CASE EncoderPanics
  BY <1>8 DEF EncoderPanics
<1>9. CASE Drained
  BY <1>9 DEF Drained, Versions
<1>10. CASE EndPump
  BY <1>10 DEF EndPump
<1>11. CASE UNCHANGED engineVars
  BY <1>11
<1> QED
  BY <1>1, <1>2, <1>3, <1>4, <1>5, <1>6, <1>7, <1>8, <1>9, <1>10, <1>11
     DEF Next, Lifecycle, Calling, HostStep, Pumping, vars, Mount, Mounted, Retire, Cancel,
         RefuseCall, Resolve, Encode, Reject, DropResolver, Push, RaiseWake, Deliver

\* Every reachable state of the async host calls is well typed.
THEOREM TypeCorrect == Spec => []TypeOK
<1>1. Init => TypeOK
  <2> SUFFICES ASSUME Init PROVE TypeOK
    OBVIOUS
  <2>1. InboxTypeOK
    <3>1. ready = [v \in Versions |-> <<>>] /\ <<>> \in Seq(Calls)
      BY DEF Init
    <3>2. ready \in [Versions -> Seq(Calls)]
      BY <3>1
    <3> QED
      BY <3>2 DEF Init, InboxTypeOK
  <2>2. ScopeTypeOK
    BY DEF Init, ScopeTypeOK, Phases, PromiseStates
  <2>3. HostTypeOK
    BY DEF Init, HostTypeOK, ResolverStates
  <2>4. EngineTypeOK
    <3>1. at \in 1 .. NumVersions + 1
      BY NumVersionsAssumption DEF Init
    <3> QED
      BY <3>1 DEF Init, EngineTypeOK
  <2> QED
    BY <2>1, <2>2, <2>3, <2>4 DEF TypeOK
<1>2. TypeOK /\ [Next]_vars => TypeOK'
  BY InboxType, ScopeType, HostType, EngineType DEF TypeOK
<1> QED
  BY <1>1, <1>2, PTL DEF Spec

-----------------------------------------------------------------------------
(* Lemmas about inboxes as sequences.                                      *)

Elements(s) == {s[i] : i \in DOMAIN s}

LEMMA AppendElements ==
  ASSUME NEW S, NEW s \in Seq(S), NEW e \in S
  PROVE  Elements(Append(s, e)) = Elements(s) \cup {e}
<1>1. /\ DOMAIN s = 1 .. Len(s)
      /\ DOMAIN Append(s, e) = 1 .. Len(s) + 1
      /\ \A i \in 1 .. Len(s) : Append(s, e)[i] = s[i]
      /\ Append(s, e)[Len(s) + 1] = e
      /\ Len(s) \in Nat
  OBVIOUS
<1>2. 1 .. Len(s) + 1 = (1 .. Len(s)) \cup {Len(s) + 1}
  BY <1>1
<1> QED
  BY <1>1, <1>2 DEF Elements

LEMMA TailElements ==
  ASSUME NEW S, NEW s \in Seq(S), s # <<>>
  PROVE  /\ Head(s) \in Elements(s)
         /\ Elements(Tail(s)) \subseteq Elements(s)
         /\ Elements(s) \subseteq Elements(Tail(s)) \cup {Head(s)}
<1>1. /\ DOMAIN s = 1 .. Len(s)
      /\ Len(s) \in Nat \ {0}
      /\ Tail(s) \in Seq(S)
      /\ Len(Tail(s)) = Len(s) - 1
      /\ DOMAIN Tail(s) = 1 .. Len(s) - 1
      /\ Head(s) = s[1]
      /\ \A i \in 1 .. Len(s) - 1 : Tail(s)[i] = s[i + 1]
  OBVIOUS
<1>2. Head(s) \in Elements(s)
  BY <1>1 DEF Elements
<1>3. ASSUME NEW i \in DOMAIN Tail(s) PROVE Tail(s)[i] \in Elements(s)
  BY <1>1, <1>3 DEF Elements
<1>4. ASSUME NEW i \in DOMAIN s, i # 1 PROVE s[i] \in Elements(Tail(s))
  <2>1. i - 1 \in DOMAIN Tail(s) /\ Tail(s)[i - 1] = s[i]
    BY <1>1, <1>4
  <2> QED
    BY <2>1 DEF Elements
<1> QED
  BY <1>1, <1>2, <1>3, <1>4 DEF Elements

-----------------------------------------------------------------------------
(* The invariant the safety proofs rest on.                                *)

LEMMA PhaseStep == TypeOK /\ PhaseInv /\ [Next]_vars => PhaseInv'
<1> SUFFICES ASSUME TypeOK, PhaseInv, [Next]_vars PROVE PhaseInv'
  OBVIOUS
<1> USE DEF PhaseInv
<1>t. phase \in [Versions -> Phases] /\ cancelled \in [Versions -> BOOLEAN]
  BY DEF TypeOK, ScopeTypeOK, InboxTypeOK
<1>1. ASSUME NEW v \in Versions, Mount(v) \/ Mounted(v) \/ Retire(v) PROVE PhaseInv'
  BY <1>1, <1>t DEF Mount, Mounted, Retire, BetweenOperations, inboxVars, engineVars
<1>2. ASSUME NEW v \in Versions, Cancel(v) PROVE PhaseInv'
  BY <1>2, <1>t DEF Cancel, engineVars
<1>3. ASSUME NEW c \in Calls, RefuseCall(c) \/ StartCall(c) PROVE PhaseInv'
  BY <1>3 DEF RefuseCall, StartCall, inboxVars, engineVars
<1>4. CASE HandlerReturns \/ HandlerFails
  BY <1>4 DEF HandlerReturns, HandlerFails, inboxVars, scopeVars
<1>5. ASSUME NEW c \in Calls, HostStep(c) PROVE PhaseInv'
  BY <1>5 DEF HostStep, Resolve, Encode, Reject, DropResolver, Push, RaiseWake,
     inboxVars, scopeVars, engineVars
<1>6. CASE StartPump \/ Enter \/ EndPump
  BY <1>6 DEF StartPump, Enter, EndPump, BetweenOperations, inboxVars, scopeVars
<1>7. CASE Interrupted \/ Skip \/ Drained
  BY <1>7 DEF Interrupted, Skip, Drained, inboxVars, scopeVars
<1>8. CASE Deliver \/ SettleFails \/ EncoderPanics
  BY <1>8 DEF Deliver, SettleFails, EncoderPanics, Pop, engineVars
<1>9. CASE UNCHANGED vars
  BY <1>9 DEF vars, inboxVars, scopeVars, engineVars
<1> QED
  BY <1>1, <1>2, <1>3, <1>4, <1>5, <1>6, <1>7, <1>8, <1>9 DEF Next, Lifecycle, Calling, Pumping

LEMMA RetiredStep ==
  TypeOK /\ PhaseInv /\ RetiredHoldsNothing /\ [Next]_vars => RetiredHoldsNothing'
<1> SUFFICES ASSUME TypeOK, PhaseInv, RetiredHoldsNothing, [Next]_vars PROVE RetiredHoldsNothing'
  OBVIOUS
<1> USE VersionOfAssumption DEF RetiredHoldsNothing
<1>t. /\ ready \in [Versions -> Seq(Calls)] /\ cancelled \in [Versions -> BOOLEAN]
      /\ pending \in [Versions -> SUBSET Calls]
  BY DEF TypeOK, ScopeTypeOK, InboxTypeOK
<1>1. ASSUME NEW v \in Versions, Cancel(v) PROVE RetiredHoldsNothing'
  BY <1>1, <1>t DEF Cancel
<1>2. ASSUME NEW c \in Calls, StartCall(c) PROVE RetiredHoldsNothing'
  BY <1>2, <1>t DEF StartCall, inboxVars
<1>3. CASE HandlerFails
  BY <1>3, <1>t DEF HandlerFails, inboxVars, TypeOK, EngineTypeOK
<1>4. ASSUME NEW c \in Calls, Push(c) PROVE RetiredHoldsNothing'
  BY <1>4, <1>t DEF Push, scopeVars
<1>5. ASSUME Pop, UNCHANGED cancelled PROVE RetiredHoldsNothing'
  BY <1>5, <1>t DEF Pop
<1>6. CASE UNCHANGED <<cancelled, ready, pending>>
  BY <1>6
<1> QED
  BY <1>1, <1>2, <1>3, <1>4, <1>5, <1>6
     DEF Next, Lifecycle, Calling, HostStep, Pumping, vars, inboxVars, scopeVars, Mount,
         Mounted, Retire, RefuseCall, HandlerReturns, Resolve, Encode, Reject, DropResolver,
         RaiseWake, StartPump, Interrupted, Skip, Enter, Deliver, SettleFails, EncoderPanics,
         Drained, EndPump

LEMMA CallStep == TypeOK /\ SafetyInv /\ [Next]_vars => CallInv'
<1> SUFFICES ASSUME TypeOK, SafetyInv, [Next]_vars PROVE CallInv'
  OBVIOUS
<1> USE VersionOfAssumption DEF CallInv
<1>t. /\ phase \in [Versions -> Phases] /\ promise \in [Calls -> PromiseStates]
      /\ resolver \in [Calls -> ResolverStates]
      /\ answer \in [Calls -> Settlements \cup {"none"}]
      /\ verdict \in [Calls -> {"none", "ok", "cancelled"}]
  BY DEF TypeOK, ScopeTypeOK, HostTypeOK
<1>i. CallInv
  BY DEF SafetyInv
<1>1. ASSUME NEW v \in Versions, Mount(v) \/ Mounted(v) \/ Retire(v) \/ Cancel(v) PROVE CallInv'
  <2>1. UNCHANGED <<promise, resolver, answer, verdict>>
    BY <1>1 DEF Mount, Mounted, Retire, Cancel, hostVars
  <2>2. \A w \in Versions : phase'[w] = "new" => phase[w] = "new"
    BY <1>1, <1>t DEF Mount, Mounted, Retire, Cancel
  <2> QED
    BY <1>i, <2>1, <2>2
<1>2. ASSUME NEW c \in Calls, RefuseCall(c) PROVE CallInv'
  BY <1>2, <1>t, <1>i DEF RefuseCall, hostVars
<1>3. ASSUME NEW c \in Calls, StartCall(c) PROVE CallInv'
  BY <1>3, <1>t, <1>i DEF StartCall, Settlements
<1>4. CASE HandlerFails
  <2>1. calling \in Calls
    BY <1>4 DEF HandlerFails, TypeOK, EngineTypeOK
  <2>2. promise[calling] = "waiting"
    BY <1>4, <2>1 DEF HandlerFails, SafetyInv, ScopeInv
  <2> QED
    BY <1>4, <2>1, <2>2, <1>t, <1>i DEF HandlerFails, hostVars
<1>5. ASSUME NEW c \in Calls, Resolve(c) PROVE CallInv'
  BY <1>5, <1>t, <1>i DEF Resolve, scopeVars
<1>6. ASSUME NEW c \in Calls, NEW settlement \in Settlements, Send(c, settlement),
             resolver[c] \in {"held", "encoding"}, UNCHANGED <<phase, promise, verdict>>
      PROVE  CallInv'
  BY <1>6, <1>t, <1>i DEF Send
<1>7. ASSUME NEW c \in Calls, Encode(c) \/ Reject(c) \/ DropResolver(c) PROVE CallInv'
  BY <1>6, <1>7 DEF Encode, Reject, DropResolver, scopeVars, Settlements
<1>8. ASSUME NEW c \in Calls, Push(c) PROVE CallInv'
  BY <1>8, <1>t, <1>i DEF Push, scopeVars
<1>9. ASSUME NEW c \in Calls, RaiseWake(c) PROVE CallInv'
  BY <1>9, <1>t, <1>i DEF RaiseWake, scopeVars
<1>10. CASE Deliver
  <2>1. at \in Versions /\ phase[at] = "loaded"
    BY <1>10 DEF Deliver, Pop, TypeOK, EngineTypeOK, SafetyInv, PhaseInv
  <2>2. UNCHANGED <<phase, resolver, answer, verdict>>
    BY <1>10 DEF Deliver, hostVars
  <2>3. ASSUME NEW c \in Calls, c \in pending[at], NEW outcome \in {"resolved", "rejected"},
               promise' = [promise EXCEPT ![c] = outcome]
        PROVE  CallInv'
    <3>1. VersionOf[c] = at /\ promise[c] = "waiting"
      BY <2>1, <2>3 DEF SafetyInv, ScopeInv
    <3> QED
      BY <2>1, <2>2, <2>3, <3>1, <1>t, <1>i
  <2>4. pending[at] \subseteq Calls
    BY <2>1 DEF TypeOK, ScopeTypeOK
  <2>5. CASE UNCHANGED promise
    BY <2>2, <2>5, <1>i
  <2> QED
    BY <1>10, <2>3, <2>4, <2>5 DEF Deliver, Outcomes
<1>11. CASE UNCHANGED <<phase, promise, hostVars>>
  BY <1>11, <1>i DEF hostVars
<1> QED
  BY <1>1, <1>2, <1>3, <1>4, <1>5, <1>7, <1>8, <1>9, <1>10, <1>11
     DEF Next, Lifecycle, Calling, HostStep, Pumping, vars, scopeVars, hostVars,
         HandlerReturns, StartPump, Interrupted, Skip, Enter, SettleFails, EncoderPanics,
         Drained, EndPump

\* A pop only takes from the queue and the pending calls of the version polled.
LEMMA PopTakes ==
  ASSUME TypeOK, Pop
  PROVE  /\ at \in Versions
         /\ Head(ready[at]) \in Calls
         /\ \A v \in Versions : Elements(ready'[v]) \subseteq Elements(ready[v])
         /\ \A v \in Versions : pending'[v] \subseteq pending[v]
         /\ \A v \in Versions \ {at} : ready'[v] = ready[v] /\ pending'[v] = pending[v]
         /\ ready'[at] = Tail(ready[at])
         /\ pending'[at] = pending[at] \ {Head(ready[at])}
<1>1. /\ at \in Versions /\ ready \in [Versions -> Seq(Calls)]
      /\ pending \in [Versions -> SUBSET Calls] /\ ready[at] # <<>>
  BY DEF Pop, TypeOK, EngineTypeOK, InboxTypeOK, ScopeTypeOK
<1>2. /\ ready' = [ready EXCEPT ![at] = Tail(ready[at])]
      /\ pending' = [pending EXCEPT ![at] = pending[at] \ {Head(ready[at])}]
  BY DEF Pop
<1>3. Elements(Tail(ready[at])) \subseteq Elements(ready[at])
  BY <1>1, TailElements
<1>4. Head(ready[at]) \in Calls
  BY <1>1
<1> QED
  BY <1>1, <1>2, <1>3, <1>4

LEMMA ScopeStep == TypeOK /\ SafetyInv /\ [Next]_vars => ScopeInv'
<1> SUFFICES ASSUME TypeOK, SafetyInv, [Next]_vars PROVE ScopeInv'
  OBVIOUS
<1> USE VersionOfAssumption DEF ScopeInv, Queued
<1>t. /\ ready \in [Versions -> Seq(Calls)] /\ promise \in [Calls -> PromiseStates]
      /\ pending \in [Versions -> SUBSET Calls]
      /\ resolver \in [Calls -> ResolverStates]
      /\ verdict \in [Calls -> {"none", "ok", "cancelled"}]
  BY DEF TypeOK, ScopeTypeOK, HostTypeOK, InboxTypeOK
<1>i. ScopeInv /\ CallInv
  BY DEF SafetyInv
<1>1. ASSUME NEW v \in Versions, Cancel(v) PROVE ScopeInv'
  <2>1. \A w \in Versions : /\ Elements(ready'[w]) \subseteq Elements(ready[w])
                          /\ pending'[w] \subseteq pending[w]
    BY <1>1, <1>t DEF Cancel, Elements
  <2> QED
    BY <1>1, <1>i, <2>1 DEF Cancel, hostVars, Elements
<1>2. ASSUME NEW c \in Calls, RefuseCall(c) PROVE ScopeInv'
  BY <1>2, <1>t, <1>i DEF RefuseCall, hostVars, inboxVars
<1>3. ASSUME NEW c \in Calls, StartCall(c) PROVE ScopeInv'
  BY <1>3, <1>t, <1>i DEF StartCall, inboxVars
<1>4. CASE HandlerFails
  <2>1. calling \in Calls /\ VersionOf[calling] \in Versions
    BY <1>4 DEF HandlerFails, TypeOK, EngineTypeOK
  <2> QED
    BY <1>4, <2>1, <1>t, <1>i DEF HandlerFails, hostVars, inboxVars
<1>5. ASSUME NEW c \in Calls, Push(c) PROVE ScopeInv'
  <2>1. verdict[c] = "none"
    BY <1>5, <1>i DEF Push, CallInv
  <2>2. CASE cancelled[VersionOf[c]]
    BY <1>5, <1>t, <1>i, <2>1, <2>2 DEF Push, scopeVars
  <2>3. CASE ~cancelled[VersionOf[c]]
    <3> DEFINE v == VersionOf[c]
    <3>1. /\ ready' = [ready EXCEPT ![v] = Append(ready[v], c)]
          /\ verdict' = [verdict EXCEPT ![c] = "ok"]
          /\ UNCHANGED <<pending, promise>>
      BY <1>5, <2>3 DEF Push, scopeVars
    <3>2. Elements(Append(ready[v], c)) = Elements(ready[v]) \cup {c}
      BY <1>t, AppendElements
    <3>3. \A w \in Versions : ready'[w] = IF w = v THEN Append(ready[v], c) ELSE ready[w]
      BY <1>t, <3>1
    <3>4. \A w \in Versions : \A d \in Elements(ready[w]) : d # c /\ VersionOf[d] = w /\ verdict[d] = "ok"
      BY <1>i, <2>1 DEF Elements
    <3>5. \A w \in Versions : \A d \in Elements(ready'[w]) : VersionOf[d] = w /\ verdict'[d] = "ok"
      <4> SUFFICES ASSUME NEW w \in Versions, NEW d \in Elements(ready'[w])
                   PROVE  VersionOf[d] = w /\ verdict'[d] = "ok"
        OBVIOUS
      <4>1. CASE d \in Elements(ready[w])
        BY <1>t, <3>1, <3>4, <4>1
      <4>2. CASE w = v /\ d = c
        BY <1>t, <3>1, <4>2
      <4> QED
        BY <3>2, <3>3, <4>1, <4>2
    <3> QED
      BY <3>1, <3>5, <1>i DEF Elements
  <2> QED
    BY <2>2, <2>3
<1>6. ASSUME Pop, UNCHANGED verdict,
             \A c \in Calls : promise'[c] = promise[c] \/ c \notin pending'[VersionOf[c]]
      PROVE  ScopeInv'
  <2>1. /\ \A v \in Versions : Elements(ready'[v]) \subseteq Elements(ready[v])
        /\ \A v \in Versions : pending'[v] \subseteq pending[v]
    BY <1>6, PopTakes
  <2>2. \A v \in Versions : \A c \in Elements(ready'[v]) : VersionOf[c] = v /\ verdict'[c] = "ok"
    BY <1>6, <1>i, <2>1 DEF Elements
  <2>3. \A v \in Versions : \A c \in pending'[v] : VersionOf[c] = v /\ promise'[c] = "waiting"
    BY <1>6, <1>i, <1>t, <2>1
  <2> QED
    BY <2>2, <2>3 DEF Elements
<1>7. CASE Deliver
  <2>1. at \in Versions /\ pending'[at] = pending[at] \ {Head(ready[at])}
    BY <1>7, PopTakes DEF Deliver
  <2>2. \A c \in Calls : promise'[c] = promise[c] \/ c = Head(ready[at])
    BY <1>7, <1>t DEF Deliver
  <2>3. Head(ready[at]) \in pending[at] => VersionOf[Head(ready[at])] = at
    BY <2>1, <1>i
  <2>4. UNCHANGED verdict /\ Pop
    BY <1>7 DEF Deliver, hostVars
  <2>5. CASE Head(ready[at]) \in pending[at]
    BY <2>1, <2>2, <2>3, <2>4, <2>5, <1>6
  <2>6. CASE Head(ready[at]) \notin pending[at]
    BY <1>7, <2>4, <2>6, <1>6 DEF Deliver
  <2> QED
    BY <2>5, <2>6
<1>8. CASE SettleFails \/ EncoderPanics
  BY <1>8, <1>6 DEF SettleFails, EncoderPanics, hostVars
<1>9. CASE UNCHANGED <<ready, pending, promise, verdict>>
  BY <1>9, <1>i
<1>10. ASSUME NEW c \in Calls, Resolve(c) PROVE ScopeInv'
  <2>1. verdict[c] = "none"
    BY <1>10, <1>i DEF Resolve, CallInv
  <2> QED
    BY <1>10, <2>1, <1>i, <1>t DEF Resolve, inboxVars, scopeVars
<1> QED
  BY <1>1, <1>2, <1>3, <1>4, <1>5, <1>7, <1>8, <1>9, <1>10
     DEF Next, Lifecycle, Calling, HostStep, Pumping, vars, inboxVars, scopeVars, hostVars, Mount,
         Mounted, Retire, HandlerReturns, Encode, Reject, DropResolver, Send, RaiseWake,
         StartPump, Interrupted, Skip, Enter, Drained, EndPump

\* Whatever resolvers on other threads do, a retired version keeps no answer and
\* no Promise function (HostPromises::cancel), and the two sides of every call
\* stay consistent.
THEOREM Safety == Spec => []SafetyInv
<1>1. Init => SafetyInv
  BY VersionOfAssumption DEF Init, SafetyInv, PhaseInv, CallInv, ScopeInv, RetiredHoldsNothing, Queued
<1>2. TypeOK /\ SafetyInv /\ [Next]_vars => SafetyInv'
  BY PhaseStep, CallStep, ScopeStep, RetiredStep DEF SafetyInv
<1> QED
  BY <1>1, <1>2, TypeCorrect, PTL DEF Spec

-----------------------------------------------------------------------------
(* No answer is forgotten.                                                 *)

\* A version in use, whose queued answer the pump must be led to.
InUse(v) == phase[v] \in {"mounting", "loaded"} /\ ready[v] # <<>>

\* A thread is between queueing an answer of version v and raising the flag.
Waking(v) == \E c \in Calls : VersionOf[c] = v /\ resolver[c] = "waking"

LEMMA NoLostWakeStep ==
  "encoder_panics" \notin Faults /\ TypeOK /\ SafetyInv /\ NoLostWake /\ [Next]_vars => NoLostWake'
<1> SUFFICES ASSUME "encoder_panics" \notin Faults, TypeOK, SafetyInv, NoLostWake, [Next]_vars,
                    NEW v \in Versions, InUse(v)'
             PROVE  (wake \/ Waking(v) \/ PumpWillSee(v))'
  BY DEF NoLostWake, InUse, Waking
<1>t. /\ phase \in [Versions -> Phases] /\ ready \in [Versions -> Seq(Calls)]
      /\ resolver \in [Calls -> ResolverStates]
      /\ op = "poll" => at \in Versions
  BY DEF TypeOK, ScopeTypeOK, HostTypeOK, InboxTypeOK, EngineTypeOK
<1>i. InUse(v) => wake \/ Waking(v) \/ PumpWillSee(v)
  BY DEF NoLostWake, InUse, Waking
<1>1. ASSUME NEW w \in Versions, Mount(w) PROVE (wake \/ Waking(v) \/ PumpWillSee(v))'
  <2>1. phase[v] # "new"
    <3> SUFFICES ASSUME phase[v] = "new" PROVE FALSE
      OBVIOUS
    <3>1. Head(ready[v]) \in Queued(v)
      BY <1>1, <1>t, TailElements DEF Mount, InUse, inboxVars, Queued, Elements
    <3>2. Head(ready[v]) \in Calls
      BY <1>1, <1>t DEF Mount, InUse, inboxVars
    <3> QED
      BY <3>1, <3>2 DEF SafetyInv, ScopeInv, CallInv
  <2>2. InUse(v)
    BY <1>1, <1>t, <2>1 DEF Mount, InUse, inboxVars
  <2> QED
    BY <1>1, <1>i, <2>2 DEF Mount, Waking, PumpWillSee, inboxVars, hostVars, engineVars
<1>2. ASSUME NEW w \in Versions, Mounted(w) \/ Retire(w) \/ Cancel(w)
      PROVE  (wake \/ Waking(v) \/ PumpWillSee(v))'
  <2>1. InUse(v)
    BY <1>2, <1>t DEF Mounted, Retire, Cancel, InUse, inboxVars
  <2> QED
    BY <1>2, <1>i, <2>1 DEF Mounted, Retire, Cancel, Waking, PumpWillSee, inboxVars, hostVars, engineVars
<1>3. ASSUME InUse(v), wake' = wake, \A c \in Calls : resolver[c] = "waking" => resolver'[c] = "waking",
             PumpWillSee(v) => PumpWillSee(v)'
      PROVE  (wake \/ Waking(v) \/ PumpWillSee(v))'
  BY <1>3, <1>i DEF Waking
<1>4. ASSUME NEW c \in Calls, RefuseCall(c) \/ StartCall(c)
      PROVE  (wake \/ Waking(v) \/ PumpWillSee(v))'
  <2>1. resolver[c] = "none" \/ resolver' = resolver
    BY <1>4 DEF RefuseCall, StartCall, SafetyInv, CallInv, hostVars
  <2> QED
    BY <1>3, <1>4, <1>t, <2>1 DEF RefuseCall, StartCall, InUse, PumpWillSee, inboxVars, hostVars, engineVars
<1>5. CASE HandlerReturns \/ HandlerFails
  BY <1>3, <1>5 DEF HandlerReturns, HandlerFails, InUse, PumpWillSee, inboxVars, scopeVars, hostVars
<1>6. ASSUME NEW c \in Calls, Resolve(c) \/ Encode(c) \/ Reject(c) \/ DropResolver(c)
      PROVE  (wake \/ Waking(v) \/ PumpWillSee(v))'
  BY <1>3, <1>6, <1>t DEF Resolve, Encode, Reject, DropResolver, Send, InUse, PumpWillSee,
     inboxVars, scopeVars, engineVars
<1>7. ASSUME NEW c \in Calls, Push(c) PROVE (wake \/ Waking(v) \/ PumpWillSee(v))'
  <2>1. CASE VersionOf[c] = v /\ ~cancelled[v]
    BY <1>7, <1>t, <2>1 DEF Push, Waking
  <2>2. CASE VersionOf[c] # v \/ cancelled[v]
    BY <1>3, <1>7, <1>t, <2>2, VersionOfAssumption DEF Push, InUse, PumpWillSee, scopeVars, engineVars
  <2> QED
    BY <2>1, <2>2
<1>8. ASSUME NEW c \in Calls, RaiseWake(c) PROVE (wake \/ Waking(v) \/ PumpWillSee(v))'
  BY <1>8 DEF RaiseWake
<1>9. CASE StartPump
  BY <1>9 DEF StartPump, PumpWillSee, Versions
<1>10. CASE Interrupted
  BY <1>10 DEF Interrupted, PumpWillSee
<1>11. CASE Skip \/ Drained
  <2>1. InUse(v) /\ op' = "visit" /\ at' = at + 1 /\ at \in Nat /\ v \in Nat
    BY <1>11 DEF Skip, Drained, InUse, inboxVars, scopeVars, TypeOK, EngineTypeOK, Versions
  <2>2. v # at
    <3>1. phase[v] # "mounting"
      BY <1>11 DEF Skip, Drained, SafetyInv, PhaseInv
    <3> QED
      BY <1>11, <2>1, <3>1 DEF Skip, Drained, InUse
  <2>3. PumpWillSee(v) => PumpWillSee(v)'
    BY <1>11, <2>1, <2>2 DEF Skip, Drained, PumpWillSee
  <2> QED
    BY <1>3, <1>11, <2>1, <2>3 DEF Skip, Drained, inboxVars, hostVars
<1>12. CASE Enter
  BY <1>3, <1>12 DEF Enter, InUse, PumpWillSee, inboxVars, scopeVars, hostVars
<1>13. CASE Deliver \/ SettleFails
  <2>1. InUse(v)
    BY <1>13, <1>t DEF Deliver, SettleFails, Pop, InUse
  <2>2. PumpWillSee(v) => PumpWillSee(v)'
    BY <1>13 DEF Deliver, SettleFails, Pop, PumpWillSee, engineVars
  <2> QED
    BY <1>3, <1>13, <2>1, <2>2 DEF Deliver, SettleFails, hostVars
<1>14. CASE EncoderPanics
  BY <1>14 DEF EncoderPanics
<1>15. CASE EndPump
  <2>1. InUse(v) /\ wake' = (wake \/ raise) /\ resolver' = resolver
    BY <1>15 DEF EndPump, InUse, scopeVars, hostVars
  <2>2. PumpWillSee(v) => raise
    BY <1>15, NumVersionsAssumption DEF EndPump, PumpWillSee, Versions
  <2> QED
    BY <1>i, <2>1, <2>2 DEF Waking
<1>16. CASE UNCHANGED vars
  BY <1>3, <1>16 DEF vars, InUse, PumpWillSee, inboxVars, scopeVars, hostVars, engineVars
<1> QED
  BY <1>1, <1>2, <1>4, <1>5, <1>6, <1>7, <1>8, <1>9, <1>10, <1>11, <1>12, <1>13, <1>14, <1>15, <1>16
     DEF Next, Lifecycle, Calling, HostStep, Pumping

\* Lowering one flag for all versions before looking at any inbox loses no
\* answer, for any number of threads and versions, as long as no conversion of an
\* output panics.
THEOREM NoLostWakeHolds ==
  ASSUME "encoder_panics" \notin Faults
  PROVE  Spec => []NoLostWake
<1>1. Init => NoLostWake
  BY DEF Init, NoLostWake
<1>2. TypeOK /\ SafetyInv /\ NoLostWake /\ [Next]_vars => NoLostWake'
  BY NoLostWakeStep
<1> QED
  BY <1>1, <1>2, TypeCorrect, Safety, PTL DEF Spec

-----------------------------------------------------------------------------
(* A script in use never waits for nothing.                                *)

LEMMA WaitingStep ==
  ASSUME Faults \cap {"settle_fails", "encoder_panics"} = {}, TypeOK, SafetyInv, WaitingCanSettle,
         [Next]_vars, NEW c \in Calls, NEW v \in Versions, v = VersionOf[c],
         promise'[c] = "waiting", ~cancelled'[v]
  PROVE  /\ c \in pending'[v]
         /\ resolver'[c] \in {"held", "encoding", "sending"} \/ c \in Elements(ready'[v])
<1> DEFINE Source == resolver[c] \in {"held", "encoding", "sending"} \/ c \in Elements(ready[v])
           Goal == c \in pending'[v] /\ Source'
<1>t. /\ ready \in [Versions -> Seq(Calls)] /\ pending \in [Versions -> SUBSET Calls]
      /\ promise \in [Calls -> PromiseStates] /\ resolver \in [Calls -> ResolverStates]
      /\ cancelled \in [Versions -> BOOLEAN]
  BY DEF TypeOK, ScopeTypeOK, HostTypeOK, InboxTypeOK
<1>i. promise[c] = "waiting" /\ ~cancelled[v] => c \in pending[v] /\ Source
  BY DEF WaitingCanSettle, Queued, Elements
<1>1. ASSUME NEW w \in Versions, Mount(w) \/ Mounted(w) \/ Retire(w) PROVE Goal
  BY <1>1, <1>i DEF Mount, Mounted, Retire, inboxVars, hostVars
<1>2. ASSUME NEW w \in Versions, Cancel(w) PROVE Goal
  <2>1. w # v
    BY <1>2, <1>t DEF Cancel
  <2> QED
    BY <1>2, <1>t, <1>i, <2>1 DEF Cancel, hostVars
<1>3. ASSUME NEW d \in Calls, RefuseCall(d) PROVE Goal
  BY <1>3, <1>t, <1>i DEF RefuseCall, inboxVars, hostVars
<1>4. ASSUME NEW d \in Calls, StartCall(d) PROVE Goal
  <2>1. CASE d = c
    BY <1>4, <1>t, <2>1 DEF StartCall
  <2>2. CASE d # c
    BY <1>4, <1>t, <1>i, <2>2, VersionOfAssumption DEF StartCall, inboxVars
  <2> QED
    BY <2>1, <2>2
<1>5. CASE HandlerReturns
  BY <1>5, <1>i DEF HandlerReturns, inboxVars, scopeVars, hostVars
<1>6. CASE HandlerFails
  <2>1. calling \in Calls /\ VersionOf[calling] \in Versions
    BY <1>6, VersionOfAssumption DEF HandlerFails, TypeOK, EngineTypeOK
  <2>2. c # calling
    BY <1>6, <1>t, <2>1 DEF HandlerFails
  <2> QED
    BY <1>6, <1>t, <1>i, <2>1, <2>2 DEF HandlerFails, inboxVars, hostVars
<1>7. ASSUME NEW d \in Calls, Resolve(d) PROVE Goal
  <2>1. ~(d = c /\ cancelled[v])
    BY <1>7 DEF Resolve, inboxVars
  <2> QED
    BY <1>7, <1>t, <1>i, <2>1 DEF Resolve, inboxVars, scopeVars
<1>8. ASSUME NEW d \in Calls, Encode(d) \/ Reject(d) \/ DropResolver(d) PROVE Goal
  BY <1>8, <1>t, <1>i DEF Encode, Reject, DropResolver, Send, inboxVars, scopeVars
<1>9. ASSUME NEW d \in Calls, Push(d) PROVE Goal
  <2>1. promise[c] = "waiting" /\ ~cancelled[v] /\ UNCHANGED pending
    BY <1>9 DEF Push, scopeVars
  <2>2. CASE d = c
    <3>1. ready' = [ready EXCEPT ![v] = Append(ready[v], c)]
      BY <1>9, <2>1, <2>2 DEF Push
    <3>2. Elements(Append(ready[v], c)) = Elements(ready[v]) \cup {c}
      BY <1>t, AppendElements
    <3> QED
      BY <1>t, <1>i, <2>1, <3>1, <3>2
  <2>3. CASE d # c
    <3>1. ready'[v] = ready[v] \/ ready'[v] = Append(ready[v], d)
      BY <1>9, <1>t DEF Push
    <3>2. Elements(Append(ready[v], d)) = Elements(ready[v]) \cup {d}
      BY <1>t, AppendElements
    <3>3. resolver'[c] = resolver[c]
      BY <1>9, <1>t, <2>3 DEF Push
    <3> QED
      BY <1>i, <2>1, <3>1, <3>2, <3>3
  <2> QED
    BY <2>2, <2>3
<1>10. ASSUME NEW d \in Calls, RaiseWake(d) PROVE Goal
  BY <1>10, <1>t, <1>i DEF RaiseWake, scopeVars
<1>11. CASE StartPump \/ Interrupted \/ Skip \/ Enter \/ Drained \/ EndPump
  BY <1>11, <1>i DEF StartPump, Interrupted, Skip, Enter, Drained, EndPump, inboxVars, scopeVars, hostVars
<1>12. CASE Deliver
  <2> DEFINE h == Head(ready[at])
  <2>1. /\ at \in Versions /\ ready'[at] = Tail(ready[at]) /\ pending'[at] = pending[at] \ {h}
        /\ \A w \in Versions \ {at} : ready'[w] = ready[w] /\ pending'[w] = pending[w]
    BY <1>12, PopTakes DEF Deliver
  <2>2. promise[c] = "waiting" /\ ~cancelled[v] /\ UNCHANGED <<cancelled, resolver>>
    <3>1. h \in pending[at] => promise[h] = "waiting"
      BY <2>1 DEF SafetyInv, ScopeInv
    <3> QED
      BY <1>12, <1>t, <3>1 DEF Deliver, Outcomes, hostVars
  <2>3. CASE at = v
    <3>1. c # h
      BY <1>12, <1>t, <1>i, <2>2, <2>3 DEF Deliver, Outcomes
    <3>2. Elements(ready[v]) \subseteq Elements(Tail(ready[v])) \cup {h}
      BY <1>12, <1>t, <2>1, <2>3, TailElements DEF Deliver, Pop
    <3> QED
      BY <1>i, <2>1, <2>2, <2>3, <3>1, <3>2
  <2>4. CASE at # v
    BY <1>i, <2>1, <2>2, <2>4
  <2> QED
    BY <2>3, <2>4
<1>13. CASE UNCHANGED vars
  BY <1>13, <1>i DEF vars, inboxVars, scopeVars, hostVars
<1>14. Goal
  <2>1. ~SettleFails /\ ~EncoderPanics
    BY DEF SettleFails, EncoderPanics
  <2>2. CASE Lifecycle
    BY <1>1, <1>2, <2>2 DEF Lifecycle
  <2>3. CASE Calling
    BY <1>3, <1>4, <1>5, <1>6, <2>3 DEF Calling
  <2>4. ASSUME NEW d \in Calls, HostStep(d) PROVE Goal
    BY <1>7, <1>8, <1>9, <1>10, <2>4 DEF HostStep
  <2>5. CASE Pumping
    BY <1>11, <1>12, <2>1, <2>5 DEF Pumping
  <2> QED
    BY <1>13, <2>2, <2>3, <2>4, <2>5 DEF Next
<1> QED
  BY <1>14

\* While QuickJS can call the Promise functions and no conversion panics, every
\* Promise a script in use waits on still has its functions and an answer to come.
THEOREM WaitingCanSettleHolds ==
  ASSUME Faults \cap {"settle_fails", "encoder_panics"} = {}
  PROVE  Spec => []WaitingCanSettle
<1>1. Init => WaitingCanSettle
  BY DEF Init, WaitingCanSettle
<1>2. TypeOK /\ SafetyInv /\ WaitingCanSettle /\ [Next]_vars => WaitingCanSettle'
  <2> SUFFICES ASSUME TypeOK, SafetyInv, WaitingCanSettle, [Next]_vars, NEW c \in Calls,
                      NEW v \in Versions, v = VersionOf[c],
                      promise'[c] = "waiting", ~cancelled'[v]
               PROVE  /\ c \in pending'[v]
                      /\ resolver'[c] \in {"held", "encoding", "sending"} \/ c \in Elements(ready'[v])
    BY VersionOfAssumption DEF WaitingCanSettle, Queued, Elements
  <2> QED
    BY WaitingStep
<1> QED
  BY <1>1, <1>2, TypeCorrect, Safety, PTL DEF Spec

-----------------------------------------------------------------------------
(* Refinement: inboxes, threads and polling implement a one-shot reply.    *)

\* Until the inbox answers, what a resolver does is its own business.
LEMMA SideKept ==
  ASSUME UNCHANGED verdict,
         \A c \in Calls : /\ verdict[c] = "ok" => answer'[c] = answer[c]
                          /\ resolver'[c] = "none" <=> resolver[c] = "none"
  PROVE  UNCHANGED HostSide
<1>1. \A c \in Calls : Side(c)' = Side(c)
  BY DEF Side
<1> QED
  BY <1>1 DEF HostSide

LEMMA SideChanges ==
  ASSUME NEW c \in Calls, NEW side, Side(c)' = side,
         \A d \in Calls \ {c} : /\ verdict'[d] = verdict[d] /\ answer'[d] = answer[d]
                                /\ resolver'[d] = resolver[d]
  PROVE  HostSide' = [HostSide EXCEPT ![c] = side]
<1>1. \A d \in Calls \ {c} : Side(d)' = Side(d)
  BY DEF Side
<1>2. HostSide' = [d \in Calls |-> Side(d)'] /\ HostSide = [d \in Calls |-> Side(d)]
  BY DEF HostSide
<1> QED
  BY <1>1, <1>2

LEMMA RefinesStep == TypeOK /\ SafetyInv /\ [Next]_vars => [OneShot!Next]_OneShot!vars
<1> SUFFICES ASSUME TypeOK, SafetyInv, [Next]_vars PROVE [OneShot!Next]_OneShot!vars
  OBVIOUS
<1> USE VersionOfAssumption
<1>t. /\ promise \in [Calls -> PromiseStates] /\ cancelled \in [Versions -> BOOLEAN]
      /\ phase \in [Versions -> Phases]
      /\ resolver \in [Calls -> ResolverStates]
      /\ answer \in [Calls -> Settlements \cup {"none"}]
      /\ verdict \in [Calls -> {"none", "ok", "cancelled"}]
  BY DEF TypeOK, ScopeTypeOK, HostTypeOK, InboxTypeOK
<1>i. CallInv /\ PhaseInv /\ ScopeInv /\ RetiredHoldsNothing
  BY DEF SafetyInv
<1>s. \A c \in Calls : HostSide[c] = Side(c)
  BY DEF HostSide
<1>1. ASSUME NEW v \in Versions, Cancel(v) PROVE OneShot!Retire(v)
  <2>1. v \notin RetiredVersions /\ RetiredVersions' = RetiredVersions \cup {v}
    BY <1>1, <1>t, <1>i DEF Cancel, RetiredVersions, PhaseInv
  <2>2. UNCHANGED <<promise, HostSide>>
    BY <1>1 DEF Cancel, HostSide, Side, hostVars
  <2> QED
    BY <2>1, <2>2 DEF OneShot!Retire
<1>2. ASSUME NEW c \in Calls, RefuseCall(c) PROVE OneShot!Refuse(c)
  BY <1>2 DEF RefuseCall, OneShot!Refuse, HostSide, Side, RetiredVersions, hostVars, inboxVars
<1>3. ASSUME NEW c \in Calls, StartCall(c) PROVE OneShot!Start(c)
  <2>1. verdict[c] = "none"
    BY <1>3, <1>i DEF StartCall, CallInv
  <2>2. HostSide' = [HostSide EXCEPT ![c] = "held"]
    BY <1>3, <1>t, <2>1, SideChanges DEF StartCall, Side
  <2> QED
    BY <1>3, <2>2 DEF StartCall, OneShot!Start, RetiredVersions, inboxVars
<1>4. CASE HandlerFails
  <2>1. calling \in Calls /\ VersionOf[calling] \in Versions
    BY <1>4 DEF HandlerFails, TypeOK, EngineTypeOK
  <2>2. promise[calling] = "waiting" /\ VersionOf[calling] \notin RetiredVersions
    BY <1>4, <1>i, <2>1 DEF HandlerFails, ScopeInv, RetiredHoldsNothing, RetiredVersions
  <2>3. OneShot!HandlerFails(calling)
    BY <1>4, <2>2 DEF HandlerFails, OneShot!HandlerFails, HostSide, Side, RetiredVersions, hostVars, inboxVars
  <2> QED
    BY <2>1, <2>3 DEF OneShot!Next
<1>5. ASSUME NEW c \in Calls, NEW side, HostSide' = [HostSide EXCEPT ![c] = side],
             UNCHANGED <<promise, cancelled>>, Side(c) = "held",
             IF cancelled[VersionOf[c]] THEN side = "cancelled" ELSE side \in Settlements
      PROVE  OneShot!Answer(c)
  <2>1. HostSide[c] = "held"
    BY <1>s, <1>5
  <2>2. side \in IF VersionOf[c] \in RetiredVersions THEN {"cancelled"} ELSE OneShot!Answers
    BY <1>5 DEF RetiredVersions, Settlements, OneShot!Answers
  <2>3. UNCHANGED <<promise, RetiredVersions>>
    BY <1>5 DEF RetiredVersions
  <2> QED
    BY <1>5, <2>1, <2>2, <2>3 DEF OneShot!Answer
<1>6. ASSUME NEW c \in Calls, Resolve(c), cancelled[VersionOf[c]] PROVE OneShot!Answer(c)
  <2>1. Side(c) = "held"
    BY <1>6, <1>i DEF Resolve, Side, CallInv
  <2>2. HostSide' = [HostSide EXCEPT ![c] = "cancelled"]
    BY <1>6, <1>t, SideChanges DEF Resolve, Side
  <2> QED
    BY <1>5, <1>6, <2>1, <2>2 DEF Resolve, inboxVars, scopeVars
<1>7. ASSUME UNCHANGED <<promise, cancelled, verdict>>,
             \A c \in Calls : /\ verdict[c] = "ok" => answer'[c] = answer[c]
                              /\ resolver'[c] = "none" <=> resolver[c] = "none"
      PROVE  UNCHANGED OneShot!vars
  BY <1>7, SideKept DEF OneShot!vars, RetiredVersions
<1>8. ASSUME NEW c \in Calls, Resolve(c), ~cancelled[VersionOf[c]] PROVE UNCHANGED OneShot!vars
  BY <1>7, <1>8, <1>t DEF Resolve, inboxVars, scopeVars
<1>9. ASSUME NEW c \in Calls, Encode(c) \/ Reject(c) \/ DropResolver(c) PROVE UNCHANGED OneShot!vars
  <2>1. verdict[c] = "none"
    BY <1>9, <1>i DEF Encode, Reject, DropResolver, CallInv
  <2> QED
    BY <1>7, <1>9, <1>t, <2>1 DEF Encode, Reject, DropResolver, Send, inboxVars, scopeVars
<1>10. ASSUME NEW c \in Calls, Push(c) PROVE OneShot!Answer(c)
  <2>1. Side(c) = "held" /\ answer[c] \in Settlements
    BY <1>10, <1>i DEF Push, Side, CallInv
  <2> DEFINE side == IF cancelled[VersionOf[c]] THEN "cancelled" ELSE answer[c]
  <2>2. Side(c)' = side
    BY <1>10, <1>t DEF Push, Side
  <2>3. HostSide' = [HostSide EXCEPT ![c] = side]
    <3> HIDE DEF side
    <3> QED
      BY <1>10, <1>t, <2>2, SideChanges DEF Push
  <2> QED
    BY <1>5, <1>10, <2>1, <2>3 DEF Push, scopeVars
<1>11. ASSUME NEW c \in Calls, RaiseWake(c) PROVE UNCHANGED OneShot!vars
  BY <1>7, <1>11, <1>t DEF RaiseWake, scopeVars
<1>12. CASE Deliver
  <2> DEFINE c == Head(ready[at])
  <2>1. at \in Versions /\ c \in Calls /\ c \in Queued(at) /\ phase[at] = "loaded"
    <3>1. at \in Versions /\ ready[at] \in Seq(Calls) /\ ready[at] # <<>> /\ phase[at] = "loaded"
      BY <1>12, <1>i DEF Deliver, Pop, PhaseInv, TypeOK, EngineTypeOK, InboxTypeOK
    <3> QED
      BY <3>1, TailElements DEF Queued, Elements
  <2>2. UNCHANGED <<HostSide, RetiredVersions>>
    BY <1>12 DEF Deliver, HostSide, Side, RetiredVersions, hostVars
  <2>3. CASE c \in pending[at]
    <3>1. promise[c] = "waiting" /\ VersionOf[c] \notin RetiredVersions
      BY <1>i, <2>1, <2>3 DEF ScopeInv, RetiredVersions, RetiredHoldsNothing
    <3>2. HostSide[c] = answer[c] /\ answer[c] \in OneShot!Answers
      BY <1>i, <1>s, <2>1 DEF ScopeInv, CallInv, Side, OneShot!Answers, Settlements
    <3>3. \E p \in Outcomes(answer[c]) : promise' = [promise EXCEPT ![c] = p]
      BY <1>12, <2>3 DEF Deliver
    <3>4. OneShot!Deliver(c)
      BY <2>2, <3>1, <3>2, <3>3 DEF OneShot!Deliver, Outcomes
    <3> QED
      BY <2>1, <3>4 DEF OneShot!Next
  <2>4. CASE c \notin pending[at]
    BY <1>12, <2>2, <2>4 DEF Deliver, OneShot!vars
  <2> QED
    BY <2>3, <2>4
<1>13. CASE UNCHANGED <<promise, cancelled, hostVars>>
  BY <1>7, <1>13 DEF hostVars
<1>14. CASE Lifecycle
  BY <1>1, <1>13, <1>14 DEF Lifecycle, Mount, Mounted, Retire, inboxVars, OneShot!Next
<1>15. CASE Calling
  BY <1>2, <1>3, <1>4, <1>13, <1>15 DEF Calling, HandlerReturns, inboxVars, scopeVars, OneShot!Next
<1>16. ASSUME NEW c \in Calls, HostStep(c) PROVE [OneShot!Next]_OneShot!vars
  BY <1>6, <1>8, <1>9, <1>10, <1>11, <1>16 DEF HostStep, OneShot!Next
<1>17. CASE Pumping
  BY <1>12, <1>13, <1>17 DEF Pumping, StartPump, Interrupted, Skip, Enter, SettleFails,
     EncoderPanics, Drained, EndPump, inboxVars, scopeVars
<1>18. CASE UNCHANGED vars
  BY <1>13, <1>18 DEF vars, inboxVars, scopeVars
<1> QED
  BY <1>14, <1>15, <1>16, <1>17, <1>18 DEF Next

\* Every behaviour of the resolvers, inboxes and pump is one of a one-shot reply:
\* a Promise settles at most once, as its host answered, and never after the
\* version that made the call is retired.
THEOREM ImplementsOneShotReply == Spec => OneShotSpec
<1>1. Init => OneShot!Init
  BY VersionOfAssumption DEF Init, OneShot!Init, HostSide, Side, RetiredVersions
<1>2. TypeOK /\ SafetyInv /\ [Next]_vars => [OneShot!Next]_OneShot!vars
  BY RefinesStep
<1> QED
  BY <1>1, <1>2, TypeCorrect, Safety, PTL DEF Spec, OneShotSpec, OneShot!Spec
=============================================================================
