---------------------------- MODULE HostSchemas ----------------------------
(* What a host function and a script exchange, and how a contract checks it:   *)
(* JavaScript values, the two structural conversions of bridge.rs (the JSON of *)
(* an untyped boundary and the snapshot of contract validation), the TsType    *)
(* shapes of metadata.rs and the validation of a snapshot against one.         *)
(*                                                                             *)
(* A JavaScript value is a tuple whose first member names its kind:            *)
(* <<"undef">>, <<"null">>, <<"bool", b>>, a number (HostNumbers), <<"str",    *)
(* s>>, <<"arr", items>>, <<"obj", its own enumerable string properties>>,     *)
(* <<"bytes", b>> (a Uint8Array), <<"fun">>, <<"sym">>. A type is a tuple      *)
(* named like the variant of TsType.                                           *)
EXTENDS HostNumbers, Sequences, FiniteSets, TLC

CONSTANTS FiniteKeys     \* the property names that parse as a finite number

Undef == <<"undef">>
Null == <<"null">>
Str(s) == <<"str", s>>

\* The string that no Rust String can hold.
LoneSurrogate == "\\uD800"

-----------------------------------------------------------------------------
(* bridge.rs: a serde_json value is Null, <<"bool", b>>, a number, <<"str",    *)
(* s>>, <<"arr", items>> or <<"obj", map>>.                                    *)

Collect(kind, parts) ==
  IF \E k \in DOMAIN parts : parts[k] = Fail THEN Fail ELSE <<kind, parts>>

\* Own enumerable properties; a Uint8Array lists its indices.
Props(js) ==
  CASE js[1] = "obj"   -> js[2]
    [] js[1] = "bytes" -> [k \in {ToString(i - 1) : i \in DOMAIN js[2]} |->
                             Num(js[2][CHOOSE i \in DOMAIN js[2] : ToString(i - 1) = k])]
    [] OTHER           -> <<>>

RECURSIVE ToJson(_, _)
ToJson(js, purpose) ==
  CASE js[1] \in {"undef", "null"} -> Null
    [] js[1] = "bool"              -> js
    [] js[1] \in {"num", "odd"}    -> NumberToJson(js, purpose)
    [] js[1] = "str"               -> IF js[2] = LoneSurrogate THEN Fail ELSE js
    [] js[1] = "arr"               -> Collect("arr", [i \in DOMAIN js[2] |-> ToJson(js[2][i], purpose)])
    [] js[1] = "bytes" /\ purpose = "validation"
                                   -> <<"arr", [i \in DOMAIN js[2] |-> <<"int", js[2][i]>>]>>
    [] js[1] \in {"obj", "bytes", "fun"}
                                   -> LET own == Props(js)
                                      IN Collect("obj", [k \in DOMAIN own |-> ToJson(own[k], purpose)])
    [] OTHER                       -> Fail

Snapshot(js) == ToJson(js, "validation")

\* json_to_js_value.
RECURSIVE JsonToJs(_)
JsonToJs(json) ==
  CASE json[1] \in {"int", "float", "fraction"} -> NumberToJs(json)
    [] json[1] \in {"arr", "obj"} -> Collect(json[1], [k \in DOMAIN json[2] |-> JsonToJs(json[2][k])])
    [] OTHER                      -> json

-----------------------------------------------------------------------------
(* metadata.rs: <<"Object", fields>>, <<"OpenObject", fields, rest>>,          *)
(* <<"Array", T>>, <<"Tuple", types>>, <<"Enum", tags, variants>>, <<"Record", *)
(* key, T>>, <<"Union", types>>, <<"Optional", T>>, <<"Nullable", T>>,         *)
(* <<"TypeRef", name>>, <<"Literal", a JavaScript value>> and the leaves. An   *)
(* Option of the source is a sequence of at most one item.                     *)

Required(name, ty) == [name |-> name, ty |-> ty, optional |-> FALSE]
Optional(name, ty) == [name |-> name, ty |-> ty, optional |-> TRUE]
Payload(name, fields, rest) == [name |-> name, fields |-> fields, rest |-> rest]
UnitVariant(name) == Payload(name, <<>>, <<>>)
IsUnit(variant) == variant.fields = <<>> /\ variant.rest = <<>>
ObjectType(fields, rest) ==
  IF rest = <<>> THEN <<"Object", fields>> ELSE <<"OpenObject", fields, rest[1]>>

Items(seq) == {seq[i] : i \in DOMAIN seq}
FieldNames(fields) == {f.name : f \in Items(fields)}

-----------------------------------------------------------------------------
(* validation.rs. A schema is [name, ty, deps], deps the schemas it refers to. *)

\* find_schema_dependency, depth first.
RECURSIVE FindDependency(_, _)
FindDependency(deps, name) ==
  IF deps = <<>> THEN <<>>
  ELSE IF deps[1].name = name THEN <<deps[1]>>
  ELSE LET nested == FindDependency(deps[1].deps, name)
       IN IF nested # <<>> THEN nested ELSE FindDependency(Tail(deps), name)

\* validate_type. `check` holds what the code passes along: the option `strict`, the
\* schemas of the dependencies, and in `resolving` the names whose definition is being
\* checked, so that a recursive type is checked once along a path and trusted below.
RECURSIVE Valid(_, _, _)

ValidNull(json) == json = Null
ValidBool(json) == json[1] = "bool"
ValidString(json) == json[1] = "str"

ValidLiteral(literal, json) ==
  IF literal[1] = "num" THEN ValidLiteralNumber(literal, json) ELSE json = literal

ValidTypeRef(name, json, check) ==
  LET found == FindDependency(check.deps, name)
  IN \/ name \in check.resolving
     \/ found = <<>>
     \/ Valid(found[1].ty, json, [check EXCEPT !.resolving = @ \cup {name}])

\* An ObjectShape is [fields, extra, rest]; is_undeclared of all the keys at once.
Undeclared(shape, json) == DOMAIN json[2] \ (FieldNames(shape.fields) \cup shape.extra)

ValidDeclared(fields, json, check) ==
  \A f \in Items(fields) :
    IF f.name \in DOMAIN json[2] THEN Valid(f.ty, json[2][f.name], check) ELSE f.optional
ValidRest(shape, json, check) ==
  \A rest \in Items(shape.rest), key \in Undeclared(shape, json) : Valid(rest, json[2][key], check)
ValidObject(shape, json, check) ==
  /\ json[1] = "obj"
  /\ (shape.rest = <<>> /\ check.strict) => Undeclared(shape, json) = {}
  /\ ValidDeclared(shape.fields, json, check)
  /\ ValidRest(shape, json, check)

ValidArray(item, json, check) == json[1] = "arr" /\ \A i \in DOMAIN json[2] : Valid(item, json[2][i], check)
ValidTuple(types, json, check) ==
  /\ json[1] = "arr"
  /\ Len(json[2]) = Len(types)
  /\ \A i \in DOMAIN types : Valid(types[i], json[2][i], check)

ValidUnitEnum(variants, json) == ValidString(json) /\ \E v \in Items(variants) : v.name = json[2]
ValidTaggedEnum(tag, variants, json, check) ==
  /\ json[1] = "obj"
  /\ tag \in DOMAIN json[2]
  /\ LET named == {i \in DOMAIN variants : Str(variants[i].name) = json[2][tag]}
     IN /\ named # {}
        /\ LET v == variants[CHOOSE i \in named : \A j \in named : i <= j]
           IN ValidObject([fields |-> v.fields, extra |-> {tag}, rest |-> v.rest], json, check)

\* validate_numeric_record_key: the text of a key of numbers parses as a finite one.
ValidRecord(key, item, json, check) ==
  /\ json[1] = "obj"
  /\ \A field \in DOMAIN json[2] :
       (key = "Number" => field \in FiniteKeys) /\ Valid(item, json[2][field], check)

ValidUnion(types, json, check) == \E t \in Items(types) : Valid(t, json, check)
\* validate_optional and validate_nullable.
ValidOrNull(inner, json, check) == json = Null \/ Valid(inner, json, check)

Valid(ty, json, check) ==
  CASE ty[1] \in {"Unknown", "Json"}       -> TRUE
    [] ty[1] = "TypeRef"                   -> ValidTypeRef(ty[2], json, check)
    [] ty[1] \in {"Void", "Null"}          -> ValidNull(json)
    [] ty[1] = "Boolean"                   -> ValidBool(json)
    [] ty[1] = "Number"                    -> ValidNumber(json)
    [] ty[1] = "String"                    -> ValidString(json)
    [] ty[1] = "Uint8Array"                -> ValidArray(<<"Number">>, json, check)
    [] ty[1] = "Literal"                   -> ValidLiteral(ty[2], json)
    [] ty[1] = "Object"                    -> ValidObject([fields |-> ty[2], extra |-> {}, rest |-> <<>>], json, check)
    [] ty[1] = "OpenObject"                -> ValidObject([fields |-> ty[2], extra |-> {}, rest |-> <<ty[3]>>], json, check)
    [] ty[1] = "Array"                     -> ValidArray(ty[2], json, check)
    [] ty[1] = "Tuple"                     -> ValidTuple(ty[2], json, check)
    [] ty[1] = "Enum" /\ ty[2] = <<>>      -> ValidUnitEnum(ty[3], json)
    [] ty[1] = "Enum"                      -> ValidTaggedEnum(ty[2][1], ty[3], json, check)
    [] ty[1] = "Record"                    -> ValidRecord(ty[2], ty[3], json, check)
    [] ty[1] = "Union"                     -> ValidUnion(ty[2], json, check)
    [] ty[1] \in {"Optional", "Nullable"}  -> ValidOrNull(ty[2], json, check)

\* validate_schema_with_options: whether `schema` accepts a snapshot.
Accepts(schema, json, strict) ==
  Valid(schema.ty, json, [strict |-> strict, deps |-> schema.deps, resolving |-> {}])
=============================================================================
