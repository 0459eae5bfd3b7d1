---------------------------- MODULE HostPromises ----------------------------
(***************************************************************************)
(* Async host calls: contract/host_resolver.rs (resolvers and their inbox, *)
(* used from any thread), runner/host_promises.rs (the Promises of one     *)
(* script version, engine thread only) and Engine::pump, which moves       *)
(* answers from the inboxes to the Promises when the shared wake flag says *)
(* one was queued.                                                         *)
(*                                                                         *)
(* A step is what one thread does between two points where another could   *)
(* see it: one critical section of the inbox lock, one access to the wake  *)
(* flag, or a stretch of engine-thread code that touches neither.          *)
(***************************************************************************)
EXTENDS Naturals, Sequences

CONSTANTS NumVersions,  \* script versions, numbered in load order
          Calls,        \* the async host calls they may make
          VersionOf,    \* the version that makes each call
          Faults        \* what may go wrong while answers are delivered

Versions == 1 .. NumVersions

FaultKinds == {"interrupt",       \* the pump's budget ends or the host interrupts it
               "settle_fails",    \* QuickJS fails to call a Promise function
               "encoder_panics"}  \* ReplyValue::into_js panics

ASSUME NumVersionsAssumption == NumVersions \in Nat
ASSUME VersionOfAssumption == VersionOf \in [Calls -> Versions]
ASSUME FaultsAssumption == Faults \subseteq FaultKinds

VARIABLES
  phase,      \* where each version is in its life
  cancelled,  \* InboxState::cancelled of each version
  ready,      \* InboxState::ready: calls answered and not yet polled, oldest first
  wake,       \* Engine::host_wake
  pending,    \* Scope::pending: calls whose Promise functions are held
  promise,    \* the script's Promise of each call
  resolver,   \* how far the thread that owns each HostResolver is
  answer,     \* the Settlement each resolver sends
  verdict,    \* whether the inbox took it: Ok, or Err(VmError::Cancelled)
  op,         \* what the engine thread is doing
  at,         \* the version the pump visits
  raise,      \* the pump must raise the wake flag before it returns
  calling     \* the call whose handler runs, while op = "handler"

inboxVars == <<cancelled, ready, wake>>
scopeVars == <<phase, pending, promise>>
hostVars == <<resolver, answer, verdict>>
engineVars == <<op, at, raise, calling>>
vars == <<inboxVars, scopeVars, hostVars, engineVars>>

Phases == {"new", "mounting", "loaded", "retiring", "retired"}
PromiseStates == {"none", "waiting", "resolved", "rejected"}
ResolverStates == {"none", "held", "encoding", "sending", "waking", "gone"}
Settlements == {"resolved", "rejected", "dropped"}

InboxTypeOK == /\ cancelled \in [Versions -> BOOLEAN]
               /\ ready \in [Versions -> Seq(Calls)]
               /\ wake \in BOOLEAN

ScopeTypeOK == /\ phase \in [Versions -> Phases]
               /\ pending \in [Versions -> SUBSET Calls]
               /\ promise \in [Calls -> PromiseStates]

HostTypeOK == /\ resolver \in [Calls -> ResolverStates]
              /\ answer \in [Calls -> Settlements \cup {"none"}]
              /\ verdict \in [Calls -> {"none", "ok", "cancelled"}]

EngineTypeOK == /\ op \in {"idle", "handler", "visit", "poll"}
                /\ at \in 1 .. NumVersions + 1
                /\ op = "poll" => at \in Versions
                /\ raise \in BOOLEAN
                /\ calling \in Calls \cup {"none"}
                /\ op = "handler" => calling \in Calls

\* The engine's fields and the resolvers hold values of their Rust types; a poll
\* is always of some version and a running handler of some call.
TypeOK == InboxTypeOK /\ ScopeTypeOK /\ HostTypeOK /\ EngineTypeOK

Init == /\ phase = [v \in Versions |-> "new"]
        /\ cancelled = [v \in Versions |-> FALSE]
        /\ ready = [v \in Versions |-> <<>>]
        /\ wake = FALSE
        /\ pending = [v \in Versions |-> {}]
        /\ promise = [c \in Calls |-> "none"]
        /\ resolver = [c \in Calls |-> "none"]
        /\ answer = [c \in Calls |-> "none"]
        /\ verdict = [c \in Calls |-> "none"]
        /\ op = "idle"
        /\ at = 1
        /\ raise = FALSE
        /\ calling = "none"

-----------------------------------------------------------------------------
(* The life of a version: engine thread, between operations on the others. *)

\* No load, reload or unload is in progress.
BetweenOperations ==
  op = "idle" /\ \A v \in Versions : phase[v] \notin {"mounting", "retiring"}

Mount(v) == /\ BetweenOperations
            /\ phase[v] = "new"
            /\ phase' = [phase EXCEPT ![v] = "mounting"]
            /\ UNCHANGED <<inboxVars, pending, promise, hostVars, engineVars>>

Mounted(v) == /\ op = "idle"
              /\ phase[v] = "mounting"
              /\ phase' = [phase EXCEPT ![v] = "loaded"]
              /\ UNCHANGED <<inboxVars, pending, promise, hostVars, engineVars>>

\* The version leaves Engine::scripts; its dispose callbacks may still call.
Retire(v) == /\ BetweenOperations
             /\ phase[v] = "loaded"
             /\ phase' = [phase EXCEPT ![v] = "retiring"]
             /\ UNCHANGED <<inboxVars, pending, promise, hostVars, engineVars>>

\* HostPromises::cancel, called by retire or by dropping the scope of a failed
\* mount.  Only the engine thread looks at the pending calls, so taking them is
\* one step with the inbox's critical section before it.
Cancel(v) == /\ op = "idle"
             /\ phase[v] \in {"mounting", "retiring"}
             /\ phase' = [phase EXCEPT ![v] = "retired"]
             /\ cancelled' = [cancelled EXCEPT ![v] = TRUE]
             /\ ready' = [ready EXCEPT ![v] = <<>>]
             /\ pending' = [pending EXCEPT ![v] = {}]
             /\ UNCHANGED <<wake, promise, hostVars, engineVars>>

-----------------------------------------------------------------------------
(* A script calls an async host function: WeakHostPromises::call.          *)

\* The scope is gone or cancelled, or the input does not convert: the Promise
\* rejects and no handler runs.
RefuseCall(c) == /\ op = "idle"
                 /\ phase[VersionOf[c]] # "new"
                 /\ promise[c] = "none"
                 /\ promise' = [promise EXCEPT ![c] = "rejected"]
                 /\ UNCHANGED <<inboxVars, phase, pending, hostVars, engineVars>>

StartCall(c) == /\ op = "idle"
                /\ phase[VersionOf[c]] # "new"
                /\ ~cancelled[VersionOf[c]]
                /\ promise[c] = "none"
                /\ promise' = [promise EXCEPT ![c] = "waiting"]
                /\ pending' = [pending EXCEPT ![VersionOf[c]] = @ \cup {c}]
                /\ resolver' = [resolver EXCEPT ![c] = "held"]
                /\ op' = "handler"
                /\ calling' = c
                /\ UNCHANGED <<inboxVars, phase, answer, verdict, at, raise>>

HandlerReturns == /\ op = "handler"
                  /\ op' = "idle"
                  /\ calling' = "none"
                  /\ UNCHANGED <<inboxVars, scopeVars, hostVars, at, raise>>

\* A bug: a failed handler's call is forgotten without rejecting its Promise.
HandlerFailsSilently == /\ op = "handler"
                        /\ calling \in pending[VersionOf[calling]]
                        /\ pending' = [pending EXCEPT ![VersionOf[calling]] = @ \ {calling}]
                        /\ op' = "idle"
                        /\ calling' = "none"
                        /\ UNCHANGED <<inboxVars, phase, promise, hostVars, at, raise>>

\* The handler's error rejects the Promise; its resolver may already have
\* answered from another thread, or may outlive the call.
HandlerFails == /\ op = "handler"
                /\ calling \in pending[VersionOf[calling]]
                /\ pending' = [pending EXCEPT ![VersionOf[calling]] = @ \ {calling}]
                /\ promise' = [promise EXCEPT ![calling] = "rejected"]
                /\ op' = "idle"
                /\ calling' = "none"
                /\ UNCHANGED <<inboxVars, phase, hostVars, at, raise>>

-----------------------------------------------------------------------------
(* The host settles a call, on any thread: HostResolver.                   *)

Send(c, settlement) == /\ resolver' = [resolver EXCEPT ![c] = "sending"]
                       /\ answer' = [answer EXCEPT ![c] = settlement]

\* HostResolver::resolve reads the flag first, and encodes outside the lock.
Resolve(c) == /\ resolver[c] = "held"
              /\ IF cancelled[VersionOf[c]]
                 THEN /\ resolver' = [resolver EXCEPT ![c] = "gone"]
                      /\ verdict' = [verdict EXCEPT ![c] = "cancelled"]
                 ELSE /\ resolver' = [resolver EXCEPT ![c] = "encoding"]
                      /\ UNCHANGED verdict
              /\ UNCHANGED <<inboxVars, scopeVars, answer, engineVars>>

\* The output encodes, fails to (the Promise will reject), or its encoder
\* panics, which drops the resolver unsettled.
Encode(c) == /\ resolver[c] = "encoding"
             /\ \E settlement \in Settlements : Send(c, settlement)
             /\ UNCHANGED <<inboxVars, scopeVars, verdict, engineVars>>

Reject(c) == /\ resolver[c] = "held"
             /\ Send(c, "rejected")
             /\ UNCHANGED <<inboxVars, scopeVars, verdict, engineVars>>

DropResolver(c) == /\ resolver[c] = "held"
                   /\ Send(c, "dropped")
                   /\ UNCHANGED <<inboxVars, scopeVars, verdict, engineVars>>

\* A bug: push queues without looking at the cancelled flag.
PushUnchecked(c) == /\ resolver[c] = "sending"
                    /\ ready' = [ready EXCEPT ![VersionOf[c]] = Append(@, c)]
                    /\ resolver' = [resolver EXCEPT ![c] = "waking"]
                    /\ verdict' = [verdict EXCEPT ![c] = "ok"]
                    /\ UNCHANGED <<cancelled, wake, scopeVars, answer, engineVars>>

\* ReplyInbox::push up to the unlock.
Push(c) == /\ resolver[c] = "sending"
           /\ LET v == VersionOf[c] IN
              IF cancelled[v]
              THEN /\ resolver' = [resolver EXCEPT ![c] = "gone"]
                   /\ verdict' = [verdict EXCEPT ![c] = "cancelled"]
                   /\ UNCHANGED ready
              ELSE /\ ready' = [ready EXCEPT ![v] = Append(@, c)]
                   /\ resolver' = [resolver EXCEPT ![c] = "waking"]
                   /\ verdict' = [verdict EXCEPT ![c] = "ok"]
           /\ UNCHANGED <<cancelled, wake, scopeVars, answer, engineVars>>

\* ReplyInbox::push after the unlock.
RaiseWake(c) == /\ resolver[c] = "waking"
                /\ wake' = TRUE
                /\ resolver' = [resolver EXCEPT ![c] = "gone"]
                /\ UNCHANGED <<cancelled, ready, scopeVars, answer, verdict, engineVars>>

-----------------------------------------------------------------------------
(* The engine delivers answers: Engine::pump and HostPromises::poll.       *)

\* The swap of the flag; a pump that finds it lowered returns at once.
StartPump == /\ BetweenOperations
             /\ wake
             /\ wake' = FALSE
             /\ op' = "visit"
             /\ at' = 1
             /\ raise' = FALSE
             /\ UNCHANGED <<cancelled, ready, scopeVars, hostVars, calling>>

\* The budget ended or the host interrupted: the loop breaks.
Interrupted == /\ "interrupt" \in Faults
               /\ op = "visit"
               /\ at <= NumVersions
               /\ at' = NumVersions + 1
               /\ raise' = TRUE
               /\ UNCHANGED <<inboxVars, scopeVars, hostVars, op, calling>>

\* A version that is not loaded, or has no answer queued, is not entered.
Skip == /\ op = "visit"
        /\ at <= NumVersions
        /\ phase[at] # "loaded" \/ ready[at] = <<>>
        /\ at' = at + 1
        /\ UNCHANGED <<inboxVars, scopeVars, hostVars, op, raise, calling>>

Enter == /\ op = "visit"
         /\ at <= NumVersions
         /\ phase[at] = "loaded"
         /\ ready[at] # <<>>
         /\ op' = "poll"
         /\ UNCHANGED <<inboxVars, scopeVars, hostVars, at, raise, calling>>

\* How a Promise ends on its call's settlement: an output that fails to convert
\* rejects it.
Outcomes(settlement) ==
  IF settlement = "resolved" THEN {"resolved", "rejected"} ELSE {"rejected"}

\* ReplyInbox::pop and the removal of the call's Promise functions.
Pop == /\ op = "poll"
       /\ ready[at] # <<>>
       /\ ready' = [ready EXCEPT ![at] = Tail(@)]
       /\ pending' = [pending EXCEPT ![at] = @ \ {Head(ready[at])}]

\* A bug: poll settles whatever answer it pops.
DeliverUnchecked == /\ Pop
                    /\ \E outcome \in Outcomes(answer[Head(ready[at])]) :
                          promise' = [promise EXCEPT ![Head(ready[at])] = outcome]
                    /\ UNCHANGED <<cancelled, wake, phase, hostVars, engineVars>>

\* A bug: an answer that fails to convert stays queued, and the poll returns the error.
DeliverKeepsFailing ==
  /\ op = "poll"
  /\ ready[at] # <<>>
  /\ \/ /\ Pop
        /\ promise' = [promise EXCEPT ![Head(ready[at])] = "resolved"]
        /\ UNCHANGED <<op, at, raise>>
     \/ /\ op' = "visit" /\ at' = at + 1 /\ raise' = TRUE
        /\ UNCHANGED <<ready, pending, promise>>
  /\ UNCHANGED <<cancelled, wake, phase, hostVars, calling>>

\* The answer of a waiting call settles its Promise; of any other, is skipped.
Deliver == /\ Pop
           /\ LET c == Head(ready[at]) IN
              IF c \in pending[at]
              THEN \E outcome \in Outcomes(answer[c]) :
                      promise' = [promise EXCEPT ![c] = outcome]
              ELSE UNCHANGED promise
           /\ UNCHANGED <<cancelled, wake, phase, hostVars, engineVars>>

\* Calling the Promise's function fails: the poll of this version returns the
\* error, with this answer taken and those after it still queued.
SettleFails == /\ "settle_fails" \in Faults
               /\ Pop
               /\ Head(ready[at]) \in pending[at]
               /\ op' = "visit"
               /\ at' = at + 1
               /\ raise' = TRUE
               /\ UNCHANGED <<cancelled, wake, phase, promise, hostVars, calling>>

\* The conversion of a resolved output panics: nothing on the engine's stack
\* catches it, so the pump unwinds.
EncoderPanics == /\ "encoder_panics" \in Faults
                 /\ Pop
                 /\ Head(ready[at]) \in pending[at]
                 /\ answer[Head(ready[at])] = "resolved"
                 /\ op' = "idle"
                 /\ UNCHANGED <<cancelled, wake, phase, promise, hostVars, at, raise, calling>>

Drained == /\ op = "poll"
           /\ ready[at] = <<>>
           /\ op' = "visit"
           /\ at' = at + 1
           /\ UNCHANGED <<inboxVars, scopeVars, hostVars, raise, calling>>

\* A bug: a pump cut short leaves the flag lowered.
EndPumpLowered == /\ op = "visit"
                  /\ at = NumVersions + 1
                  /\ op' = "idle"
                  /\ UNCHANGED <<inboxVars, scopeVars, hostVars, at, raise, calling>>

\* The flag is raised again when answers may be left; the jobs the operation
\* then settles are JavaScript run with the engine thread free to call.
EndPump == /\ op = "visit"
           /\ at = NumVersions + 1
           /\ wake' = (wake \/ raise)
           /\ op' = "idle"
           /\ UNCHANGED <<cancelled, ready, scopeVars, hostVars, at, raise, calling>>

-----------------------------------------------------------------------------
Lifecycle == \E v \in Versions : Mount(v) \/ Mounted(v) \/ Retire(v) \/ Cancel(v)

Calling == \/ \E c \in Calls : RefuseCall(c) \/ StartCall(c)
           \/ HandlerReturns
           \/ HandlerFails

HostStep(c) == Resolve(c) \/ Encode(c) \/ Reject(c) \/ DropResolver(c) \/ Push(c) \/ RaiseWake(c)

Pumping == \/ StartPump \/ Interrupted \/ Skip \/ Enter
           \/ Deliver \/ SettleFails \/ EncoderPanics \/ Drained \/ EndPump

Next == Lifecycle \/ Calling \/ (\E c \in Calls : HostStep(c)) \/ Pumping

Spec == Init /\ [][Next]_vars

\* The host's frame loop keeps calling pump and a handler returns; a thread that
\* started to settle a call runs on.  Interrupts may hit any pump, but not every
\* one at the same version.  Nothing makes a host settle a call, or load or unload
\* a script.
Fairness == /\ WF_vars(Pumping)
            /\ SF_vars(Skip)
            /\ SF_vars(Enter)
            /\ WF_vars(HandlerReturns)
            /\ \A v \in Versions : WF_vars(Mounted(v) \/ Cancel(v))
            /\ \A c \in Calls : WF_vars(Encode(c) \/ Push(c) \/ RaiseWake(c))

FairSpec == Spec /\ Fairness

-----------------------------------------------------------------------------
(* Properties.                                                             *)

Queued(v) == {ready[v][i] : i \in DOMAIN ready[v]}

\* The pump under way still looks at version v, or looks again next time.
PumpWillSee(v) == op \in {"visit", "poll"} /\ (raise \/ at <= v)

\* An answer queued for a version in use is never forgotten: the wake flag is
\* up, the thread that queued it is about to raise it, or the pump under way
\* gets to it.  Engine::pump lowers one flag for all versions before it looks at
\* any inbox, while other threads keep queueing.
NoLostWake ==
  \A v \in Versions :
     phase[v] \in {"mounting", "loaded"} /\ ready[v] # <<>> =>
        \/ wake
        \/ \E c \in Calls : VersionOf[c] = v /\ resolver[c] = "waking"
        \/ PumpWillSee(v)

\* A Promise a script in use waits on can still settle: its functions are held
\* in Scope::pending, and its resolver is unsettled or its answer is queued.
WaitingCanSettle ==
  \A c \in Calls : LET v == VersionOf[c] IN
     promise[c] = "waiting" /\ ~cancelled[v] =>
        /\ c \in pending[v]
        /\ resolver[c] \in {"held", "encoding", "sending"} \/ c \in Queued(v)

\* A retired version keeps no host value and no JavaScript function alive
\* (HostPromises::cancel), however its last calls and answers interleave.
RetiredHoldsNothing ==
  \A v \in Versions : cancelled[v] => ready[v] = <<>> /\ pending[v] = {}

\* How the life of a version and what the engine thread does relate: the pump
\* runs between loads and unloads, and polls loaded versions.
PhaseInv == /\ \A v \in Versions : cancelled[v] <=> phase[v] = "retired"
            /\ op \in {"visit", "poll"} => \A v \in Versions : phase[v] \notin {"mounting", "retiring"}
            /\ op = "poll" => phase[at] = "loaded"

\* How the thread that settles a call, its answer and the Promise relate.
CallInv == \A c \in Calls :
             /\ promise[c] = "none" => resolver[c] = "none"
             /\ phase[VersionOf[c]] = "new" => promise[c] = "none"
             /\ resolver[c] \in {"none", "held", "encoding"} => answer[c] = "none"
             /\ resolver[c] \in {"none", "held", "encoding", "sending"} <=> verdict[c] = "none"
             /\ resolver[c] = "sending" \/ verdict[c] = "ok" => answer[c] \in Settlements
             /\ resolver[c] = "waking" => verdict[c] = "ok"

\* An inbox holds answers it took from its own version's calls, and Promise
\* functions are held exactly as long as the Promise waits for them.
ScopeInv == \A v \in Versions :
              /\ \A c \in Queued(v) : VersionOf[c] = v /\ verdict[c] = "ok"
              /\ \A c \in pending[v] : VersionOf[c] = v /\ promise[c] = "waiting"

\* What the safety proofs carry from step to step.
SafetyInv == PhaseInv /\ CallInv /\ ScopeInv /\ RetiredHoldsNothing

\* The host's side of a call as OneShotReply sees it: the push decides.
Side(c) == IF verdict[c] = "ok" THEN answer[c]
           ELSE IF verdict[c] = "cancelled" THEN "cancelled"
           ELSE IF resolver[c] = "none" THEN "none" ELSE "held"

HostSide == [c \in Calls |-> Side(c)]

RetiredVersions == {v \in Versions : cancelled[v]}

OneShot == INSTANCE OneShotReply WITH host <- HostSide, retired <- RetiredVersions

\* Inboxes, threads and polling implement a one-shot reply: a Promise settles at
\* most once, as its host answered, and never after its version is retired.
OneShotSpec == OneShot!Spec

\* A result the inbox took reaches the script, if its version stays and nothing fails
\* or panics in the pumps the host keeps calling, whichever of them are interrupted.
AnswerReachesScript ==
  \A c \in Calls : verdict[c] = "ok" ~> promise[c] # "waiting" \/ cancelled[VersionOf[c]]
=============================================================================
