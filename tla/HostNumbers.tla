---------------------------- MODULE HostNumbers ----------------------------
(* The numbers a host function and a script exchange: how an integer crosses   *)
(* (codec/number.rs), what a number is in the JSON of an untyped boundary and  *)
(* in the snapshot of contract validation, and what it is read back as         *)
(* (bridge.rs).                                                                *)
(*                                                                             *)
(* A JavaScript number is <<"num", n>>, integral and of any size, or <<"odd",  *)
(* k>>, k one of OddNumbers. A number of serde_json is <<"int", n>> (an i64 or *)
(* a u64), <<"float", n>> (an f64 outside the safe range) or <<"fraction">>.   *)
(* The tag of QuickJS, int or float, of a number is abstracted: every reader   *)
(* of one accepts both.                                                        *)
EXTENDS Integers

CONSTANTS MaxSafe,       \* the largest exact integer, 2^53 - 1 in the program
          U64Max         \* the largest u64, where the stand-ins live

ASSUME SafeRange == MaxSafe \in Nat /\ U64Max \in Nat /\ MaxSafe < U64Max - 2

Num(n) == <<"num", n>>
NonFinite == {"NaN", "Infinity", "-Infinity"}
OddNumbers == {"fraction", "-0"} \cup NonFinite
JsNumbers == {Num(n) : n \in Int} \cup {<<"odd", k>> : k \in OddNumbers}

Fail == <<"fail">>
Ok(v) == <<"ok", v>>
OkIf(condition, v) == IF condition THEN Ok(v) ELSE Fail

ExactInteger(n) == n \in -MaxSafe .. MaxSafe

-----------------------------------------------------------------------------
(* codec/number.rs. *)

EncodeInteger(n) == IF ExactInteger(n) THEN Num(n) ELSE Fail

\* decode_integer: an exact integer of the type's range; -0 is the integer 0.
DecodeInteger(range, js) ==
  IF js = <<"odd", "-0">> THEN Ok(0)
  ELSE OkIf(js[1] = "num" /\ ExactInteger(js[2]) /\ js[2] \in range, js[2])
DecodeNumber(js) == OkIf(js[1] \in {"num", "odd"}, js)

-----------------------------------------------------------------------------
(* bridge.rs. *)

NanStandIn == U64Max
InfinityStandIn == U64Max - 1
NegInfinityStandIn == U64Max - 2

\* non_finite_stand_in.
StandIn(kind) ==
  CASE kind = "NaN"       -> NanStandIn
    [] kind = "Infinity"  -> InfinityStandIn
    [] kind = "-Infinity" -> NegInfinityStandIn

OddToJson(kind, purpose) ==
  CASE kind = "fraction"    -> <<"fraction">>
    [] kind = "-0"          -> <<"int", 0>>
    [] kind \in NonFinite   -> IF purpose = "json" THEN Fail ELSE <<"int", StandIn(kind)>>

\* float_to_json.
NumberToJson(js, purpose) ==
  CASE js[1] = "odd" -> OddToJson(js[2], purpose)
    [] js[1] = "num" -> <<IF ExactInteger(js[2]) THEN "int" ELSE "float", js[2]>>

\* number_to_js_value: integers follow the integer codecs, so unsafe ones fail.
NumberToJs(json) ==
  CASE json[1] = "int"      -> EncodeInteger(json[2])
    [] json[1] = "float"    -> Num(json[2])
    [] json[1] = "fraction" -> <<"odd", "fraction">>

\* snapshot_number: the number a snapshot's number stands for.
SnapshotNumber(json) ==
  CASE json = <<"int", NanStandIn>>         -> <<"odd", "NaN">>
    [] json = <<"int", InfinityStandIn>>    -> <<"odd", "Infinity">>
    [] json = <<"int", NegInfinityStandIn>> -> <<"odd", "-Infinity">>
    [] json[1] = "fraction"                 -> <<"odd", "fraction">>
    [] OTHER                                -> Num(json[2])

-----------------------------------------------------------------------------
(* validation.rs. *)

ValidNumber(json) == json[1] \in {"int", "float", "fraction"}
\* validate_literal, of a literal number.
ValidLiteralNumber(literal, json) == ValidNumber(json) /\ SnapshotNumber(json) = literal
=============================================================================
