----------------------------- MODULE HostCodecs -----------------------------
(* The native codecs: what a Rust value becomes in JavaScript and what a       *)
(* JavaScript value is read as, for the types of schema.rs and for the         *)
(* containers of the derive (codec/*.rs and rustts_macros/src/codec).          *)
(*                                                                             *)
(* A Rust value is what its type says: a Boolean, an integer, a String, the    *)
(* JavaScript number of an f64, the JSON of a serde_json::Value, a sequence of *)
(* bytes, items or members, a set, a function from keys to values, <<"unit">>, *)
(* <<"None">>, <<"Some", v>>, the sequence of a struct's fields, or <<index,   *)
(* fields>> for a variant of an enum. Decoding gives <<"ok", value>> or Fail.  *)
(* A type or field with a codec of its own (serde_json's, or one written by    *)
(* hand) has no value here: its codec is not in the code.                      *)
EXTENDS DerivedTypes

AllOk(parts) ==
  IF \E k \in DOMAIN parts : parts[k] = Fail THEN Fail ELSE Ok([k \in DOMAIN parts |-> parts[k][2]])
First(indices) == CHOOSE i \in indices : \A j \in indices : i <= j
Repeat(n, T) == [i \in 1 .. n |-> T]

\* default_value. `default = "path"` and the default of a struct are taken to give the
\* same as Default::default().
RECURSIVE DefaultOf(_)
DefaultOf(T) ==
  CASE T[1] = "bool"            -> FALSE
    [] T[1] = "int"             -> 0
    [] T[1] = "f64"             -> Num(0)
    [] T[1] = "String"          -> ""
    [] T[1] = "unit"            -> <<"unit">>
    [] T[1] = "Json"            -> Null
    [] T[1] = "Option"          -> <<"None">>
    [] T[1] = "Set"             -> {}
    [] T[1] \in {"Vec", "Map", "NativeBytes"} -> <<>>
    [] T[1] = "Array"           -> [i \in 1 .. T[3] |-> DefaultOf(T[2])]
    [] T[1] = "Tuple"           -> [i \in DOMAIN T[2] |-> DefaultOf(T[2][i])]
    [] T[1] = "Box"             -> DefaultOf(T[2])
    [] OTHER -> LET fields == Target(T)[2].fields IN [i \in DOMAIN fields |-> DefaultOf(fields[i].ty)]

\* expect_object: neither an array nor a function.
IsObject(js) == js[1] \in {"obj", "bytes"}
\* is_dropped_by_json and is_absent: what JSON.stringify leaves out.
Dropped(js) == js[1] \in {"undef", "fun", "sym"}
NothingSaid(js) == js \in {Null, Undef}

KeyText(K, key) == IF K = "String" THEN key ELSE ToString(key)
\* MapKey::from_text: an integer key is the decimal text of a value of the type.
KeyOf(K, text) ==
  IF K = "String" THEN Ok(text)
  ELSE LET named == {n \in IntRange[K] : ToString(n) = text}
       IN IF named = {} THEN Fail ELSE Ok(The(named))

\* object_without. A bug: nothing is left out.
RestOfAll(props, own) == props
Without(props, own) == [k \in DOMAIN props \ own |-> props[k]]

\* expand_codecs: whether a type crosses natively in a direction, with nothing in it that
\* has a codec of its own.
Natively(T, direction) ==
  /\ \A c \in Containers(T) : direction \in c.codecs /\ ~c.json
  /\ \A f \in AllFields(T) : ~f.json /\ ~f.with

-----------------------------------------------------------------------------
(* Encoding. *)

RECURSIVE Encode(_, _)

EmptyJs == <<"obj", <<>>>>

\* define_property and its variants: an own property, `__proto__` like any other.
Define(object, key, js) ==
  IF object = Fail \/ js = Fail THEN Fail ELSE <<"obj", (key :> js) @@ object[2]>>

\* merge_object: null and undefined add nothing, an array or a scalar fails.
Merge(object, js) ==
  CASE object = Fail \/ js = Fail -> Fail
    [] NothingSaid(js)            -> object
    [] IsObject(js)               -> <<"obj", Props(js) @@ object[2]>>
    [] OTHER                      -> Fail

\* encode_fields_into. The predicate of `skip_serializing_if` is that the value is its
\* type's default, as Option::is_none and Vec::is_empty are.
EncodeFields(object, fields, values) ==
  LET Left(i) == fields[i].skipSer \/ (fields[i].skipIf /\ values[i] = DefaultOf(fields[i].ty))
      Step(o, i) ==
        CASE Left(i)             -> o
          [] fields[i].flatten   -> Merge(o, Encode(fields[i].ty, values[i]))
          [] OTHER               -> Define(o, fields[i].ser, Encode(fields[i].ty, values[i]))
  IN FoldLeft(Step, object, [i \in DOMAIN fields |-> i])

EncodeTuple(s, values) ==
  LET sent == SelectSeq([i \in DOMAIN s.fields |-> i], LAMBDA i : ~s.fields[i].skipSer)
  IN Collect("arr", [k \in DOMAIN sent |-> Encode(s.fields[sent[k]].ty, values[sent[k]])])

\* encode_payload: null, the inner value, an array or an object by the style.
EncodePayload(s, values) ==
  CASE s.style = "unit"    -> Null
    [] s.style = "newtype" -> Encode(s.fields[1].ty, values[1])
    [] s.style = "tuple"   -> EncodeTuple(s, values)
    [] s.style = "struct"  -> EncodeFields(EmptyJs, s.fields, values)

TaggedObject(c, v) == Define(EmptyJs, c.tagging[2], Str(v.ser))

\* encode_variant, in the container's representation.
EncodeVariant(c, v, values) ==
  LET tagging == c.tagging[1]
  IN CASE tagging = "external" /\ v.style = "unit"     -> Str(v.ser)
       [] tagging = "external"                         -> Define(EmptyJs, v.ser, EncodePayload(v, values))
       [] tagging = "internal" /\ v.style = "newtype"  -> Merge(TaggedObject(c, v), Encode(v.fields[1].ty, values[1]))
       [] tagging = "internal"                         -> EncodeFields(TaggedObject(c, v), v.fields, values)
       [] tagging = "adjacent" /\ v.style = "unit"     -> TaggedObject(c, v)
       [] tagging = "adjacent"                         -> Define(TaggedObject(c, v), c.tagging[3], EncodePayload(v, values))
       [] tagging = "untagged"                         -> EncodePayload(v, values)

\* encode_arm: a skipped variant cannot be encoded.
EncodeEnum(c, value) ==
  LET v == c.variants[value[1]] IN IF v.skipSer THEN Fail ELSE EncodeVariant(c, v, value[2])

\* encode_body of a struct.
EncodeStruct(c, values) ==
  IF TransparentField(c) = {} THEN EncodePayload(c, values)
  ELSE LET i == The(TransparentField(c)) IN Encode(c.fields[i].ty, values[i])

EncodeOption(T, v) == IF v = <<"None">> THEN Null ELSE Encode(T, v[2])
\* encode_items, of sequences, arrays and sets.
EncodeItems(T, items) == Collect("arr", [i \in DOMAIN items |-> Encode(T, items[i])])
EncodeMembers(types, members) == Collect("arr", [i \in DOMAIN types |-> Encode(types[i], members[i])])
EncodeEntries(K, T, map) ==
  Collect("obj", [text \in {KeyText(K, key) : key \in DOMAIN map} |->
                    Encode(T, map[CHOOSE key \in DOMAIN map : KeyText(K, key) = text])])

\* JsEncode.
Encode(T, v) ==
  CASE T[1] = "bool"                 -> <<"bool", v>>
    [] T[1] = "unit"                 -> Null
    [] T[1] = "int"                  -> EncodeInteger(v)
    [] T[1] = "f64"                  -> v
    [] T[1] = "String"               -> Str(v)
    [] T[1] = "Json"                 -> JsonToJs(v)
    [] T[1] = "NativeBytes"          -> <<"bytes", v>>
    [] T[1] = "Option"               -> EncodeOption(T[2], v)
    [] T[1] \in {"Vec", "Array"}     -> EncodeItems(T[2], v)
    [] T[1] = "Set"                  -> EncodeItems(T[2], SetToSeq(v))
    [] T[1] = "Map"                  -> EncodeEntries(T[2], T[3], v)
    [] T[1] = "Tuple"                -> EncodeMembers(T[2], v)
    [] T[1] = "Box"                  -> Encode(T[2], v)
    [] Target(T)[2].kind = "struct"  -> EncodeStruct(Target(T)[2], v)
    [] OTHER                         -> EncodeEnum(Target(T)[2], v)

-----------------------------------------------------------------------------
(* Decoding. *)

RECURSIVE Decode(_, _)

\* field_value: the first of `names` that is there, <<>> if none is.
FieldValue(props, names) ==
  LET there == {i \in DOMAIN names : names[i] \in DOMAIN props /\ ~Dropped(props[names[i]])}
  IN IF there = {} THEN <<>> ELSE <<props[names[First(there)]]>>

\* decode_field: what is missing reads as undefined.
DecodeField(T, props, names) ==
  LET found == FieldValue(props, names) IN Decode(T, IF found = <<>> THEN Undef ELSE found[1])
\* decode_field_or.
DecodeFieldOr(T, props, names) ==
  LET found == FieldValue(props, names) IN IF found = <<>> THEN Ok(DefaultOf(T)) ELSE Decode(T, found[1])

\* reject_unknown_fields.
OnlyKnown(props, known) == DOMAIN props \subseteq known

\* expect_array_len, then each item as the type at its place.
DecodeMembers(types, js) ==
  IF js[1] # "arr" \/ Len(types) # Len(js[2]) THEN Fail
  ELSE AllOk([i \in DOMAIN types |-> Decode(types[i], js[2][i])])
\* decode_collection.
DecodeItems(T, js) ==
  IF js[1] # "arr" THEN Fail ELSE AllOk([i \in DOMAIN js[2] |-> Decode(T, js[2][i])])

\* decode_tuple: skipped members have no place in the array.
DecodeTuple(s, js) ==
  LET read == SelectSeq([i \in DOMAIN s.fields |-> i], LAMBDA i : ~s.fields[i].skipDe)
      members == DecodeMembers([k \in DOMAIN read |-> s.fields[read[k]].ty], js)
  IN IF members = Fail THEN Fail
     ELSE Ok([i \in DOMAIN s.fields |->
               IF s.fields[i].skipDe THEN DefaultOf(s.fields[i].ty)
               ELSE members[2][CHOOSE k \in DOMAIN read : read[k] = i]])

\* own_keys: the keys a shape reads itself, the tag of its enum included.
OwnKeys(s, tag) == tag \cup UNION {Items(f.de) : f \in {f \in Items(s.fields) : ~f.skipDe /\ ~f.flatten}}

\* decode_flattened: a flattened Option is None when the keys that are left do not decode.
DecodeFlattened(T, rest) ==
  LET inner == Decode(OptionInner(T), rest)
  IN CASE ~IsOption(T)    -> inner
       [] inner = Fail    -> Ok(<<"None">>)
       [] OTHER           -> Ok(<<"Some", inner[2]>>)

\* decode_struct_field.
DecodeStructField(f, props, rest, containerDefault) ==
  CASE f.skipDe                     -> Ok(DefaultOf(f.ty))
    [] f.flatten                    -> DecodeFlattened(f.ty, rest)
    [] f.dflt \/ containerDefault   -> DecodeFieldOr(f.ty, props, f.de)
    [] OTHER                        -> DecodeField(f.ty, props, f.de)

\* decode_struct: the flattened fields share the keys the struct does not read itself.
DecodeStruct(c, s, js, containerDefault, tag) ==
  LET props == Props(js)
      own == OwnKeys(s, tag)
      flattens == \E f \in Items(s.fields) : f.flatten
      rest == <<"obj", Without(props, own)>>
  IN IF ~IsObject(js) \/ (c.deny /\ ~flattens /\ ~OnlyKnown(props, own)) THEN Fail
     ELSE AllOk([i \in DOMAIN s.fields |-> DecodeStructField(s.fields[i], props, rest, containerDefault)])

\* decode_payload.
DecodePayload(c, s, js, containerDefault, tag) ==
  CASE s.style = "unit"    -> OkIf(NothingSaid(js), <<>>)
    [] s.style = "newtype" -> AllOk(<<Decode(s.fields[1].ty, js)>>)
    [] s.style = "tuple"   -> DecodeTuple(s, js)
    [] s.style = "struct"  -> DecodeStruct(c, s, js, containerDefault, tag)

\* name_pattern: the variants, by index, whose accepted names hold the one that was read.
NamedVariants(c, js) ==
  {i \in DOMAIN c.variants : ~c.variants[i].skipDe /\ js[1] = "str" /\ js[2] \in Items(c.variants[i].de)}

\* A decoded payload as a value of variant `i`.
AsVariant(i, body) == IF body = Fail THEN Fail ELSE Ok(<<i, body[2]>>)

\* unit_payload: nothing, or what () accepts.
UnitPayload(found) == OkIf(\A js \in Items(found) : NothingSaid(js), <<>>)

\* external_variant: the name and the payload, <<>> when a bare string says the name.
ExternalVariant(js) ==
  IF IsObject(js) /\ Cardinality(DOMAIN Props(js)) = 1
  THEN LET key == The(DOMAIN Props(js)) IN [name |-> Str(key), payload |-> <<Props(js)[key]>>]
  ELSE [name |-> js, payload |-> <<>>]

DecodeExternal(c, js) ==
  LET read == ExternalVariant(js)
      named == NamedVariants(c, read.name)
      v == c.variants[First(named)]
  IN CASE named = {}              -> Fail
       [] v.style = "unit"        -> AsVariant(First(named), UnitPayload(read.payload))
       [] read.payload = <<>>     -> Fail
       [] OTHER                   -> AsVariant(First(named), DecodePayload(c, v, read.payload[1], FALSE, {}))

\* tag_field: the variants the tag of an object names.
TaggedVariants(c, js) ==
  LET tag == FieldValue(Props(js), <<c.tagging[2]>>)
  IN IF IsObject(js) /\ tag # <<>> THEN NamedVariants(c, tag[1]) ELSE {}

InternalBody(c, v, props) ==
  CASE v.style = "unit"    -> Ok(<<>>)
    [] v.style = "newtype" -> AllOk(<<Decode(v.fields[1].ty, <<"obj", Without(props, {c.tagging[2]})>>)>>)
    [] OTHER               -> DecodePayload(c, v, <<"obj", props>>, FALSE, {c.tagging[2]})

DecodeInternal(c, js) ==
  LET named == TaggedVariants(c, js)
  IN IF named = {} THEN Fail
     ELSE AsVariant(First(named), InternalBody(c, c.variants[First(named)], Props(js)))

AdjacentBody(c, v, props) ==
  LET found == FieldValue(props, <<c.tagging[3]>>)
  IN CASE v.style = "unit"    -> UnitPayload(found)
       [] v.style = "newtype" -> AllOk(<<DecodeField(v.fields[1].ty, props, <<c.tagging[3]>>)>>)
       [] found = <<>>        -> Fail
       [] OTHER               -> DecodePayload(c, v, found[1], FALSE, {})

DecodeAdjacent(c, js) ==
  LET named == TaggedVariants(c, js)
  IN IF named = {} \/ (c.deny /\ ~OnlyKnown(Props(js), {c.tagging[2], c.tagging[3]})) THEN Fail
     ELSE AsVariant(First(named), AdjacentBody(c, c.variants[First(named)], Props(js)))

\* decode_untagged: the first variant that decodes wins.
DecodeUntagged(c, js) ==
  LET Body(i) == DecodePayload(c, c.variants[i], js, FALSE, {})
      fits == {i \in DOMAIN c.variants : ~c.variants[i].skipDe /\ Body(i) # Fail}
  IN IF fits = {} THEN Fail ELSE AsVariant(First(fits), Body(First(fits)))

\* decode_body of an enum.
DecodeEnum(c, js) ==
  CASE c.tagging[1] = "external" -> DecodeExternal(c, js)
    [] c.tagging[1] = "internal" -> DecodeInternal(c, js)
    [] c.tagging[1] = "adjacent" -> DecodeAdjacent(c, js)
    [] c.tagging[1] = "untagged" -> DecodeUntagged(c, js)

\* decode_transparent: the other fields take their defaults.
DecodeTransparent(c, js) ==
  AllOk([i \in DOMAIN c.fields |-> IF i \in TransparentField(c) THEN Decode(c.fields[i].ty, js)
                                   ELSE Ok(DefaultOf(c.fields[i].ty))])

\* decode_impl.
DecodeContainer(c, js) ==
  CASE TransparentField(c) # {} -> DecodeTransparent(c, js)
    [] c.kind = "struct"        -> DecodePayload(c, c, js, c.dflt, {})
    [] c.kind = "enum"          -> DecodeEnum(c, js)

DecodeString(js) == OkIf(js[1] = "str" /\ js[2] # LoneSurrogate, js[2])
DecodeJson(js) == LET json == ToJson(js, "json") IN OkIf(json # Fail, json)
DecodeBytes(js) == IF js[1] = "bytes" THEN Ok(js[2]) ELSE DecodeItems(<<"int", "u8">>, js)
DecodeOption(T, js) ==
  LET some == Decode(T, js)
  IN IF NothingSaid(js) THEN Ok(<<"None">>) ELSE IF some = Fail THEN Fail ELSE Ok(<<"Some", some[2]>>)
\* Sets: duplicate items collapse.
DecodeSet(T, js) == LET items == DecodeItems(T, js) IN IF items = Fail THEN Fail ELSE Ok(Items(items[2]))

\* decode_entries: what JSON.stringify drops is skipped.
DecodeEntries(K, T, js) ==
  LET props == Props(js)
      kept == {k \in DOMAIN props : ~Dropped(props[k])}
      values == [k \in kept |-> Decode(T, props[k])]
      keys == {KeyOf(K, k)[2] : k \in kept}
  IN IF ~IsObject(js) \/ (\E k \in kept : values[k] = Fail \/ KeyOf(K, k) = Fail) THEN Fail
     ELSE Ok([key \in keys |-> values[KeyText(K, key)][2]])

\* JsDecode.
Decode(T, js) ==
  CASE T[1] = "bool"        -> OkIf(js[1] = "bool", js[2])
    [] T[1] = "unit"        -> OkIf(NothingSaid(js), <<"unit">>)
    [] T[1] = "int"         -> DecodeInteger(IntRange[T[2]], js)
    [] T[1] = "f64"         -> DecodeNumber(js)
    [] T[1] = "String"      -> DecodeString(js)
    [] T[1] = "Json"        -> DecodeJson(js)
    [] T[1] = "NativeBytes" -> DecodeBytes(js)
    [] T[1] = "Option"      -> DecodeOption(T[2], js)
    [] T[1] = "Vec"         -> DecodeItems(T[2], js)
    [] T[1] = "Set"         -> DecodeSet(T[2], js)
    [] T[1] = "Array"       -> DecodeMembers(Repeat(T[3], T[2]), js)
    [] T[1] = "Tuple"       -> DecodeMembers(T[2], js)
    [] T[1] = "Map"         -> DecodeEntries(T[2], T[3], js)
    [] T[1] = "Box"         -> Decode(T[2], js)
    [] OTHER                -> DecodeContainer(Target(T)[2], js)
=============================================================================
