----------------------------- MODULE HostCalls -----------------------------
(* A script's call of a host function across the boundary: the check of the    *)
(* argument against the contract, its decoding, the handler, the encoding of   *)
(* the answer and its check (bindings.rs:89-316), while other threads register *)
(* contracts. The native function is the binding the script was loaded with;   *)
(* the contract is whatever the registry holds under its name at each check.   *)
(* An async call goes the same way: its answer is encoded and checked when the *)
(* engine settles the Promise.                                                 *)
(*                                                                             *)
(* What the codecs make of a value and what a schema accepts are parameters;   *)
(* HostContracts defines them.                                                 *)
EXTENDS ContractRegistry

CONSTANTS Policies,             \* the validation policies: [input, output, strict]
          Arguments(_),         \* type |-> the JavaScript values scripts pass for it
          Answers(_),           \* type |-> the values handlers answer with
          Failed,               \* what a conversion gives that fails
          SnapshotOf(_),        \* a JavaScript value as the validator reads it, or Failed
          FitsSchema(_, _, _),  \* whether the schema of a type accepts a snapshot, unknown
                                \* fields refused or not
          Reads(_, _),          \* what the codec of a type reads a JavaScript value as, or Failed
          Writes(_, _),         \* the JavaScript value it writes for one of the type, or Failed
          SchemaDiffers(_),     \* whether the schema of a type describes other values
          ReadsMore(_, _)       \* whether the codec reads by design what the schema refuses

ASSUME PoliciesAssumption == Policies \subseteq [input : BOOLEAN, output : BOOLEAN, strict : BOOLEAN]

VARIABLES policy,   \* of the registry, fixed when it is made
          call      \* the one call of the script

callsVars == <<registryVars, policy, call>>

NoCall == [phase |-> "none", bound |-> 0, js |-> <<>>, out |-> <<>>, refused |-> ""]

CallsInit == RegistryInit /\ policy \in Policies /\ call = NoCall

\* The contract the script was loaded with keeps its types and its handler.
Called == offers[call.bound]

-----------------------------------------------------------------------------
\* with_descriptor, validate_function_input and validate_function_output: a value no
\* function is described for is let through.
Admits(direction, js) ==
  IF Called.name \notin DOMAIN descriptors THEN TRUE
  ELSE LET i == descriptors[Called.name] IN
       IsFunction(i) => FitsSchema(IF direction = "input" THEN offers[i].ty ELSE offers[i].out,
                                 SnapshotOf(js), policy.strict)

\* A check fails when the value has no snapshot, and passes when it is not asked for.
Passes(direction, js) == ~policy[direction] \/ (SnapshotOf(js) # Failed /\ Admits(direction, js))

To(phase) == call' = [call EXCEPT !.phase = phase]
Refuse(why) == call' = [call EXCEPT !.phase = "threw", !.refused = why]
RegistryStays == UNCHANGED <<registryVars, policy>>

CallNative(n, js) ==
  /\ call.phase = "none"
  /\ script.loads > 0 /\ ~script.resolving
  /\ n \in DOMAIN script.natives
  /\ js \in Arguments(offers[script.natives[n]].ty)
  /\ call' = [NoCall EXCEPT !.phase = "called", !.bound = script.natives[n], !.js = js]
  /\ RegistryStays

\* check_input.
CheckInput ==
  /\ call.phase = "called"
  /\ IF Passes("input", call.js) THEN To("admitted") ELSE Refuse("input")
  /\ RegistryStays

\* JsDecode of the argument; the handler owns what it gives.
DecodeInput ==
  /\ call.phase = "admitted"
  /\ IF Reads(Called.ty, call.js) # Failed
     THEN call' = [call EXCEPT !.phase = "handling", !.js = <<>>]
     ELSE Refuse("decode")
  /\ RegistryStays

\* The handler fails, or answers; a deferred answer comes at any later time.
Handle ==
  /\ call.phase = "handling"
  /\ \/ Refuse("handler")
     \/ \E out \in Answers(Called.out) : call' = [call EXCEPT !.phase = "answered", !.out = out]
  /\ RegistryStays

EncodeOutput ==
  /\ call.phase = "answered"
  /\ LET js == Writes(Called.out, call.out)
     IN IF js = Failed THEN Refuse("encode") ELSE call' = [call EXCEPT !.phase = "encoded", !.js = js]
  /\ RegistryStays

\* check_output, and ValidatedReply of an async call.
CheckOutput ==
  /\ call.phase = "encoded"
  /\ IF Passes("output", call.js) THEN To("returned") ELSE Refuse("output")
  /\ RegistryStays

CallsNext ==
  \/ RegistryNext /\ UNCHANGED <<policy, call>>
  \/ \E n \in DOMAIN script.natives :
       \E js \in Arguments(offers[script.natives[n]].ty) : CallNative(n, js)
  \/ CheckInput
  \/ DecodeInput
  \/ Handle
  \/ EncodeOutput
  \/ CheckOutput

CallsSpec == CallsInit /\ [][CallsNext]_callsVars

-----------------------------------------------------------------------------
\* The contract under the name of the function called is its own: no other took its place.
\* It never comes back, so that a check made earlier was made against it as well.
IsItsOwn == descriptors[Called.name] = call.bound

\* No call goes unchecked for want of a contract: the validator lets through whatever has
\* none (memory.rs:284). Each native has one, the one that is called too, and what a call
\* returned was accepted by the contract of its function while that is still its own.
EveryCallIsChecked ==
  /\ NativesDescribed
  /\ call.phase # "none" => Called.name \in DOMAIN descriptors
  /\ (call.phase = "returned" /\ policy.output /\ IsItsOwn) =>
       SnapshotOf(call.js) # Failed /\ FitsSchema(Called.out, SnapshotOf(call.js), policy.strict)

\* The value an answer crosses as is a value of its contract, unknown fields refused or
\* not: no reply of a handler is refused while the contract is its own.
OwnReplyPasses == (call.refused = "output" /\ IsItsOwn) => SchemaDiffers(Called.out)

\* What the codec reads, a check of the contract refuses only where the codec is the more
\* tolerant by design.
AcceptsWhatDecodes ==
  (/\ call.refused = "input"
   /\ ~policy.strict
   /\ IsItsOwn
   /\ Reads(Called.ty, call.js) # Failed)
  => ReadsMore(Called.ty, call.js)
=============================================================================
