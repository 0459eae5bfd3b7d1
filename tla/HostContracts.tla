--------------------------- MODULE HostContracts ---------------------------
(* Calls of host functions with the codecs, the schemas and the predicates of  *)
(* the SDK that the library and its macros give each Rust type.                *)
EXTENDS HostCalls, GeneratedTypes, HostCodecs, SdkPredicates

AnswerType == Types[Called.out]

TypeAccepts(type, snapshot, strict) == Accepts(Schemas[type], snapshot, strict)
TypeReads(type, js) == Decode(Types[type], js)
TypeWrites(type, out) == Encode(Types[type], out)

-----------------------------------------------------------------------------
(* What sets a type apart from the plain ones the properties are about. *)

Both(x) == x.skipSer = x.skipDe

\* A type the schema describes by the type serde converts it through, into or from, in the
\* direction its own codec does not have (model.rs:145-153).
ConvertsOneWay(T) == \E c \in Containers(T) : WireType(c) # {}

\* An element of a tuple that is skipped in one direction: shape.rs leaves it out there
\* and the schema, one for both directions, keeps it.
SkipsElement(T) == \E s \in AllShapes(T) : s.style = "tuple" /\ \E f \in Items(s.fields) : ~Both(f)

\* Every name that is written is read, and every one is both.
Symmetric(T) == \A x \in AllFields(T) \cup AllVariants(T) : ~x.skipSer /\ ~x.skipDe /\ x.ser \in Items(x.de)

\* ... and no other name is.
NamedOnce(T) == \A x \in AllFields(T) \cup AllVariants(T) : Both(x) /\ x.de = <<x.ser>>

\* Types that say `null`, or nothing at all, for a value of theirs.
SaysNothing(T) == T[1] \in {"Option", "unit", "Json"}

\* A map or a Json beside another flattened field: the native codec hands both the same
\* keys, serde gives each the ones no other has read (shape.rs:207-220).
SharesFlattened(T) ==
  \E s \in AllShapes(T) : Cardinality({i \in DOMAIN s.fields : s.fields[i].flatten}) > 1

\* The newtype variants whose payload an internally tagged enum merges into its tag.
MergedPayloads(T) ==
  {v.fields[1].ty : v \in {v \in UNION {Items(c.variants) : c \in {c \in Containers(T) : c.tagging[1] = "internal"}} :
                             v.style = "newtype"}}

\* What serde itself, or the codec unlike serde, does not read back.
Reversible(T) ==
  /\ Natively(T, "decode")
  /\ Symmetric(T)
  /\ ~SharesFlattened(T)
  /\ \A c \in Containers(T) : c.tagging[1] # "untagged" /\ (c.transparent => Len(c.fields) = 1)
  /\ \A f \in AllFields(T) : f.flatten => ~SaysNothing(f.ty)
  /\ \A payload \in MergedPayloads(T) : ~SaysNothing(payload)

\* A value JSON has: no undefined, no function, no symbol, no bytes and finite numbers.
RECURSIVE IsJson(_)
IsJson(js) ==
  CASE js[1] \in {"arr", "obj"} -> \A k \in DOMAIN js[2] : IsJson(js[2][k])
    [] js[1] = "odd"            -> js[2] \in {"fraction", "-0"}
    [] OTHER                    -> js[1] \in {"null", "bool", "num", "str"}

\* Shapes the SDK does not read as they cross: () is null and not undefined, and a
\* tagged enum without fields is an object and not a string.
MisreadBySdk(T) ==
  \/ <<"unit">> \in Parts(T)
  \/ ConvertsOneWay(T)
  \/ \E c \in Containers(T) : /\ c.tagging[1] \in {"internal", "adjacent"}
                              /\ EnumType(c)[1] = "Enum"
                              /\ \A v \in Items(EnumType(c)[3]) : IsUnit(v)

TypeDiffers(type) == SkipsElement(Types[type]) \/ ConvertsOneWay(Types[type])

\* The codec reads aliases, a missing () or Json as null, a flattened Option whose keys do
\* not fit as None, and {A: null} as the unit variant A.
TypeReadsMore(type, js) ==
  LET T == Types[type]
  IN \/ ~IsJson(js)
     \/ ~NamedOnce(T)
     \/ ConvertsOneWay(T)
     \/ \E f \in AllFields(T) : f.ty[1] \in {"unit", "Json"} \/ (f.flatten /\ IsOption(f.ty))
     \/ \E v \in AllVariants(T) : js = <<"obj", v.ser :> Null>>

-----------------------------------------------------------------------------
\* What an answer crosses as is read back as that answer (type-mapping.md:4): a lossy
\* or shifted field shows in one type of many, for one value.
RoundTrip ==
  (call.phase = "encoded" /\ Reversible(AnswerType)) => Decode(AnswerType, call.js) = Ok(call.out)

\* The reply of a handler passes the predicate the SDK renders for its type.
SdkAcceptsReply ==
  (call.phase = "encoded" /\ ~MisreadBySdk(AnswerType) /\ (AnswerType = <<"f64">> => IsJson(call.js))) =>
     Is(Schemas[Called.out].ty, call.js)
=============================================================================
