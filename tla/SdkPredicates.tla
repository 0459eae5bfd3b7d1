--------------------------- MODULE SdkPredicates ---------------------------
(* The `is...` functions of the generated TypeScript SDK: what sdk.rs writes   *)
(* for a type, read as the test it makes on a JavaScript value.                *)
EXTENDS HostSchemas

\* __isRecord and __field.
IsRecord(js) == js[1] \in {"obj", "bytes"}
Field(js, key) == IF IsRecord(js) /\ key \in DOMAIN Props(js) THEN Props(js)[key] ELSE Undef

\* Number.isFinite(Number(key)): the empty text is the number 0.
NumericKey(key) == key \in FiniteKeys \cup {""}

RECURSIVE Is(_, _)

\* A bug: an optional member that is absent is tested like one that is there.
IsThere(f, js) == Is(f.ty, Field(js, f.name))
IsField(f, js) == (f.optional /\ Field(js, f.name) = Undef) \/ Is(f.ty, Field(js, f.name))
IsRest(declared, rest, js) ==
  \A T \in Items(rest), key \in DOMAIN Props(js) \ declared : Is(T, Props(js)[key])

IsObjectOf(fields, rest, js) ==
  /\ IsRecord(js)
  /\ \A f \in Items(fields) : IsField(f, js)
  /\ IsRest(FieldNames(fields), rest, js)

\* render_enum_predicate: a list of unit variants is a list of strings, tagged or not.
IsEnum(tags, variants, js) ==
  LET tag == IF tags = <<>> THEN "type" ELSE tags[1]
  IN IF \A v \in Items(variants) : IsUnit(v)
     THEN variants = <<>> \/ \E v \in Items(variants) : js = Str(v.name)
     ELSE IsRecord(js) /\ \E v \in Items(variants) :
            /\ Field(js, tag) = Str(v.name)
            /\ \A f \in Items(v.fields) : IsField(f, js)
            /\ IsRest({tag} \cup FieldNames(v.fields), v.rest, js)

\* __isArrayOf, and the tests of a tuple, a record and a union.
IsArrayOf(item, js) == js[1] = "arr" /\ \A i \in DOMAIN js[2] : Is(item, js[2][i])
IsTuple(items, js) ==
  /\ js[1] = "arr"
  /\ Len(js[2]) = Len(items)
  /\ \A i \in DOMAIN items : Is(items[i], js[2][i])
IsRecordOf(key, value, js) ==
  /\ IsRecord(js)
  /\ \A k \in DOMAIN Props(js) : (key = "Number" => NumericKey(k)) /\ Is(value, Props(js)[k])
IsUnion(types, js) == types = <<>> \/ \E T \in Items(types) : Is(T, js)

\* render_value_predicate. What a TypeRef names is not looked at, nor is any Json.
Is(T, js) ==
  CASE T[1] \in {"Unknown", "Json", "TypeRef"} -> TRUE
    [] T[1] = "Void"       -> js = Undef
    [] T[1] = "Boolean"    -> js[1] = "bool"
    [] T[1] = "Number"     -> js[1] = "num" \/ js \in {<<"odd", "fraction">>, <<"odd", "-0">>}
    [] T[1] = "String"     -> js[1] = "str"
    [] T[1] = "Uint8Array" -> js[1] = "bytes"
    [] T[1] = "Null"       -> js = Null
    [] T[1] = "Literal"    -> js = T[2]
    [] T[1] = "Object"     -> IsObjectOf(T[2], <<>>, js)
    [] T[1] = "OpenObject" -> IsObjectOf(T[2], <<T[3]>>, js)
    [] T[1] = "Array"      -> IsArrayOf(T[2], js)
    [] T[1] = "Tuple"      -> IsTuple(T[2], js)
    [] T[1] = "Enum"       -> IsEnum(T[2], T[3], js)
    [] T[1] = "Record"     -> IsRecordOf(T[2], T[3], js)
    [] T[1] = "Union"      -> IsUnion(T[2], js)
    [] T[1] = "Optional"   -> js = Undef \/ Is(T[2], js)
    [] T[1] = "Nullable"   -> js = Null \/ Is(T[2], js)
=============================================================================
