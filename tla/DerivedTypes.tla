---------------------------- MODULE DerivedTypes ----------------------------
(* The derive macro TsSchema (src/rustts_macros): the attributes of a type     *)
(* resolved into names, styles and tagging, the compile-time checks that       *)
(* refuse what the native codec could not mirror, and the schema the derive    *)
(* and schema.rs give every Rust type.                                         *)
(*                                                                             *)
(* A Rust type is a tuple: <<"bool">>, <<"unit">>, <<"int", name>>, <<"f64">>, *)
(* <<"String">>, <<"Json">>, <<"NativeBytes">>, <<"Option", T>>, <<"Vec", T>>, *)
(* <<"Set", T>>, <<"Array", T, n>>, <<"Map", K, T>> (K "String" or an integer  *)
(* type's name), <<"Tuple", types>>, <<"Box", T>>, <<"Named", container>> or   *)
(* <<"Back", name>>, a reference to a declared container from inside itself.   *)
(* A container is what the macro reads: its name, its kind, "struct" or        *)
(* "enum", its attributes and its fields or variants. An identifier is the     *)
(* sequence of its words in lower case, an attribute a tuple <<key>> or <<key, *)
(* argument>>; a key of #[rustts] that serde has too is written rustts_key, an *)
(* argument for one direction only key_serialize or key_deserialize.           *)
EXTENDS HostSchemas, SequencesExt

CONSTANTS IntRange,   \* integer type |-> the set of its values
          Upper,      \* word |-> its text in capitals
          Capital,    \* word |-> its text with a first capital
          Declared    \* name |-> resolved container, for recursive types

Target(T) == IF T[1] = "Back" THEN <<"Named", Declared[T[2]]>> ELSE T
The(set) == CHOOSE x \in set : TRUE

-----------------------------------------------------------------------------
(* rename.rs: the text of an identifier under a rule, <<>> when there is none. *)

Joined(words, separator) ==
  FoldLeft(LAMBDA text, i : text \o (IF i = 1 THEN "" ELSE separator) \o words[i], "", [i \in DOMAIN words |-> i])
Uppers(words) == [i \in DOMAIN words |-> Upper[words[i]]]
Capitals(words) == [i \in DOMAIN words |-> Capital[words[i]]]
Camel(words) == IF words = <<>> THEN "" ELSE words[1] \o Joined(Capitals(Tail(words)), "")

\* apply_to_field: the identifier of a field is its words joined by underscores.
ApplyToField(rule, words) ==
  CASE rule \in {"", "lowercase", "snake_case"}             -> Joined(words, "_")
    [] rule \in {"UPPERCASE", "SCREAMING_SNAKE_CASE"}       -> Joined(Uppers(words), "_")
    [] rule = "PascalCase"                                  -> Joined(Capitals(words), "")
    [] rule = "camelCase"                                   -> Camel(words)
    [] rule = "kebab-case"                                  -> Joined(words, "-")
    [] rule = "SCREAMING-KEBAB-CASE"                        -> Joined(Uppers(words), "-")

\* apply_to_variant: that of a variant is its words with a capital each.
ApplyToVariant(rule, words) ==
  CASE rule \in {"", "PascalCase"}    -> Joined(Capitals(words), "")
    [] rule = "lowercase"             -> Joined(words, "")
    [] rule = "UPPERCASE"             -> Joined(Uppers(words), "")
    [] rule = "camelCase"             -> Camel(words)
    [] rule = "snake_case"            -> Joined(words, "_")
    [] rule = "SCREAMING_SNAKE_CASE"  -> Joined(Uppers(words), "_")
    [] rule = "kebab-case"            -> Joined(words, "-")
    [] rule = "SCREAMING-KEBAB-CASE"  -> Joined(Uppers(words), "-")

Directions == {"serialize", "deserialize"}

\* RenameRules::or: the rules of `inner` where it sets them, else those of `outer`.
RuleOr(inner, outer) == [d \in Directions |-> IF inner[d] = {} THEN outer[d] ELSE inner[d]]

\* Name::resolve: an explicit rename wins over the rule, the rule over the identifier.
Resolved(item, words, renamed, rules) ==
  [d \in Directions |->
     LET rule == IF rules[d] = {} THEN "" ELSE The(rules[d])
     IN IF renamed[d] # {} THEN The(renamed[d])
        ELSE IF item = "field" THEN ApplyToField(rule, words) ELSE ApplyToVariant(rule, words)]

\* Name::accepted: the deserialize name first, then the aliases.
Accepted(name, aliases) == <<name["deserialize"]>> \o SetToSeq(aliases)

-----------------------------------------------------------------------------
(* attrs.rs: attributes become facts.                                          *)

\* SerdeAttrs::parse and parse_rustts: one set of attributes for an item.
Has(attrs, key) == \E a \in attrs : a[1] = key
Texts(attrs, key) == {a[2] : a \in {b \in attrs : b[1] = key}}

\* parse_renamed and parse_rename_rules: `key = "text"` sets both directions.
ByDirection(attrs, key) == [d \in Directions |-> Texts(attrs, key) \cup Texts(attrs, key \o "_" \o d)]

\* SerdeAttrs::apply: the directions in which only the serde_json codec honours a key;
\* a key that is none of those it knows is one of serde_json's.
Mirrored ==
  {"rename", "rename_serialize", "rename_deserialize", "rename_all", "rename_all_serialize", "rename_all_deserialize",
   "rename_all_fields", "alias", "tag", "content", "untagged", "transparent", "deny_unknown_fields", "default", "skip",
   "skip_serializing", "skip_deserializing", "skip_serializing_if", "flatten", "crate", "expecting"}
OfRustts ==
  {"name", "codec", "schema_only", "encode_only", "decode_only", "rustts_rename", "optional", "rustts_with", "type"}
HonouredByJson(key) ==
  CASE key \in Mirrored \cup OfRustts                                        -> {}
    [] key \in {"serialize_with", "into", "getter"}                          -> {"encode"}
    [] key \in {"deserialize_with", "from", "try_from", "other", "borrow"}   -> {"decode"}
    [] OTHER                                                                 -> {"encode", "decode"}
JsonOnly(attrs) == UNION {HonouredByJson(a[1]) : a \in attrs}

Skips(attrs, direction) == Has(attrs, "skip") \/ Has(attrs, "skip_" \o direction)

FieldAttrs(attrs) ==
  [skipSer  |-> Skips(attrs, "serializing"),
   skipDe   |-> Skips(attrs, "deserializing"),
   skipIf   |-> Has(attrs, "skip_serializing_if"),
   dflt     |-> Has(attrs, "default"),
   flatten  |-> Has(attrs, "flatten"),
   jsonOnly |-> JsonOnly(attrs),
   json     |-> Has(attrs, "codec"),
   with     |-> Has(attrs, "rustts_with"),
   text     |-> Texts(attrs, "type"),
   key      |-> Texts(attrs, "rustts_rename"),
   optional |-> Has(attrs, "optional")]

\* An `untagged` variant is left to serde_json.
VariantAttrs(attrs) ==
  [skipSer  |-> Skips(attrs, "serializing"),
   skipDe   |-> Skips(attrs, "deserializing"),
   jsonOnly |-> JsonOnly(attrs) \cup (IF Has(attrs, "untagged") THEN {"encode", "decode"} ELSE {}),
   key      |-> Texts(attrs, "rustts_rename")]

\* restricted_codecs: both directions unless the type restricts them.
Restrictions == {"schema_only", "encode_only", "decode_only"}
Codecs(attrs) ==
  CASE Has(attrs, "schema_only") -> {}
    [] Has(attrs, "encode_only") -> {"encode"}
    [] Has(attrs, "decode_only") -> {"decode"}
    [] OTHER                     -> {"encode", "decode"}

\* check_tagging.
TaggingAllowed(attrs) ==
  /\ Has(attrs, "untagged") => ~Has(attrs, "tag") /\ ~Has(attrs, "content")
  /\ Has(attrs, "content") => Has(attrs, "tag")

ContainerAttrs(attrs) ==
  [named       |-> Texts(attrs, "name"),
   allowed     |-> TaggingAllowed(attrs) /\ Cardinality({k \in Restrictions : Has(attrs, k)}) <= 1,
   json        |-> Has(attrs, "codec"),
   codecs      |-> Codecs(attrs),
   tagged      |-> Has(attrs, "tag") \/ Has(attrs, "untagged"),
   transparent |-> Has(attrs, "transparent"),
   deny        |-> Has(attrs, "deny_unknown_fields"),
   dflt        |-> Has(attrs, "default"),
   into        |-> Texts(attrs, "into"),
   from        |-> Texts(attrs, "from") \cup Texts(attrs, "try_from"),
   jsonOnly    |-> JsonOnly(attrs)]

-----------------------------------------------------------------------------
(* model.rs *)

\* Container::tagging: <<"untagged">>, <<"adjacent", tag, content>>, <<"internal", tag>>
\* or <<"external">>.
Tagging(attrs) ==
  CASE Has(attrs, "untagged")                       -> <<"untagged">>
    [] Has(attrs, "tag") /\ Has(attrs, "content")   -> <<"adjacent", The(Texts(attrs, "tag")), The(Texts(attrs, "content"))>>
    [] Has(attrs, "tag")                            -> <<"internal", The(Texts(attrs, "tag"))>>
    [] OTHER                                        -> <<"external">>

NameFacts(name, attrs) == [ser |-> name["serialize"], de |-> Accepted(name, Texts(attrs, "alias"))]

\* Field::from_field; the name of a tuple's member is its index, which nothing renames.
ResolveField(f, rules, index) ==
  [ty |-> f.ty] @@ FieldAttrs(f.attrs) @@
  (IF f.ident = <<>> THEN [ser |-> ToString(index - 1), de |-> <<ToString(index - 1)>>]
   ELSE NameFacts(Resolved("field", f.ident, ByDirection(f.attrs, "rename"), rules), f.attrs))

\* Shape::from_fields.
ResolveShape(s, rules) ==
  [style |-> s.style, fields |-> [i \in DOMAIN s.fields |-> ResolveField(s.fields[i], rules, i)]]

\* Variant::from_variant: the variant's own rule wins over rename_all_fields.
ResolveVariant(v, attrs) ==
  ResolveShape(v, RuleOr(ByDirection(v.attrs, "rename_all"), ByDirection(attrs, "rename_all_fields")))
  @@ VariantAttrs(v.attrs)
  @@ NameFacts(Resolved("variant", v.ident, ByDirection(v.attrs, "rename"), ByDirection(attrs, "rename_all")), v.attrs)

\* Container::from_input.
Resolve(c) ==
  ResolveShape(c, ByDirection(c.attrs, "rename_all")) @@ ContainerAttrs(c.attrs) @@
  [name     |-> IF Has(c.attrs, "name") THEN The(Texts(c.attrs, "name")) ELSE c.name,
   kind     |-> c.kind,
   tagging  |-> Tagging(c.attrs),
   variants |-> [i \in DOMAIN c.variants |-> ResolveVariant(c.variants[i], c.attrs)]]

\* option_inner.
IsOption(T) == T[1] = "Option"
OptionInner(T) == IF IsOption(T) THEN T[2] ELSE T

SchemaDirections(c) == IF c.codecs = {} THEN {"encode", "decode"} ELSE c.codecs

\* schema_key: the input key of a decode-only type, else the output key.
SchemaKey(c, n) ==
  CASE n.key # {}                         -> The(n.key)
    [] SchemaDirections(c) = {"decode"}   -> n.de[1]
    [] OTHER                              -> n.ser

\* wire_type: the type serde converts through, at most one.
WireType(c) ==
  CASE c.into # {} /\ "encode" \in SchemaDirections(c) -> c.into
    [] c.from # {}                                     -> c.from
    [] OTHER                                           -> c.into

\* transparent_field: the indices of the field a transparent struct forwards to.
Forwarded(f) == ~f.skipSer /\ ~f.skipDe /\ ~f.dflt
TransparentField(c) ==
  LET candidates == IF Len(c.fields) = 1 THEN {1} ELSE {i \in DOMAIN c.fields : Forwarded(c.fields[i])}
  IN IF c.kind = "struct" /\ c.transparent /\ Cardinality(candidates) = 1 THEN candidates ELSE {}

SkippedIn(v, directions) ==
  /\ "encode" \in directions => v.skipSer
  /\ "decode" \in directions => v.skipDe

-----------------------------------------------------------------------------
(* check.rs: what the derive accepts.                                          *)

Shapes(c) == IF c.kind = "struct" THEN {c} ELSE Items(c.variants)
FieldsOf(c) == UNION {Items(s.fields) : s \in Shapes(c)}

\* is_never_object, and check_mergeable of a type that serde merges into an object.
NeverObject(T) == T[1] \in {"bool", "int", "f64", "String", "Vec", "Set", "Array", "Tuple"}
Mergeable(T) == ~NeverObject(T) /\ ~(T[1] = "Map" /\ T[2] # "String")

CheckTransparent(c) == c.transparent => c.kind = "struct" /\ TransparentField(c) # {}

\* check_flatten_placement and check_flatten_types.
CheckFlatten(s) == \A f \in Items(s.fields) : f.flatten => s.style = "struct" /\ Mergeable(OptionInner(f.ty))

\* A field chooses one codec.
CheckFieldCodecs(s) == \A f \in Items(s.fields) : ~(f.json /\ f.with)

CheckInternal(c) ==
  (c.kind = "enum" /\ c.tagging[1] = "internal") =>
    \A v \in Items(c.variants) : v.style # "tuple" /\ (v.style = "newtype" => Mergeable(v.fields[1].ty))

\* check_schema_only_attrs: nothing makes the schema disagree with a codec.
CheckSchemaOnly(c) ==
  /\ \A f \in FieldsOf(c) : f.key = {} /\ ~f.optional
  /\ \A v \in Items(c.variants) : v.key = {}

\* check_json_only_attrs: a field with a codec of its own is left to it.
CheckJsonOnly(c) ==
  \A x \in {c} \cup Items(c.variants) \cup {f \in FieldsOf(c) : ~f.json /\ ~f.with} : x.jsonOnly \cap c.codecs = {}

\* newtype_field_limits: a newtype is its inner value, with nothing to skip or default.
NewtypeLimits(f) ==
  (IF f.skipSer \/ f.skipIf THEN {"encode"} ELSE {}) \cup (IF f.skipDe \/ f.dflt THEN {"decode"} ELSE {})
\* tuple_field_limits: what would shift the positions of an array.
TupleLimits(f) ==
  (IF f.skipIf THEN {"encode"} ELSE {}) \cup (IF f.dflt /\ ~f.skipDe THEN {"decode"} ELSE {})
\* check_shape_limits.
FieldLimits(style, f, deny) ==
  CASE style = "newtype"                        -> NewtypeLimits(f)
    [] style = "tuple"                          -> TupleLimits(f)
    [] style = "struct" /\ deny /\ f.flatten    -> {"decode"}
    [] OTHER                                    -> {}
CheckLimits(c) ==
  /\ c.kind = "struct" => ~c.tagged
  /\ \A s \in Shapes(c) : \A f \in Items(s.fields) : FieldLimits(s.style, f, c.deny) \cap c.codecs = {}

\* check: whether the derive compiles; `allowed` is what attrs.rs has refused before.
Compiles(c) ==
  /\ c.allowed
  /\ CheckTransparent(c)
  /\ \A s \in Shapes(c) : CheckFlatten(s) /\ CheckFieldCodecs(s)
  /\ CheckInternal(c)
  /\ c.codecs # {} => CheckSchemaOnly(c) /\ (c.json \/ (CheckJsonOnly(c) /\ CheckLimits(c)))

-----------------------------------------------------------------------------
(* schema/fields.rs *)

IsOptionalField(f) == f.optional \/ IsOption(f.ty)

Output(f) == IF f.skipSer THEN "never" ELSE IF ~f.skipIf /\ ~IsOptionalField(f) THEN "always" ELSE "maybe"
Input(f, dflt) == IF f.skipDe THEN "never" ELSE IF ~f.dflt /\ ~dflt /\ ~IsOptionalField(f) THEN "always" ELSE "maybe"

\* A bug: a field one direction leaves out is still required.
EagerPresence(c, f, dflt) ==
  IF f.skipSer /\ f.skipDe THEN "omitted" ELSE IF IsOptionalField(f) THEN "optional" ELSE "required"
\* presence: one schema describes both directions.
Presence(c, f, dflt) ==
  LET described == {Output(f) : d \in SchemaDirections(c) \cap {"encode"}}
                   \cup {Input(f, dflt) : d \in SchemaDirections(c) \cap {"decode"}}
  IN IF described \subseteq {"never"} THEN "omitted"
     ELSE IF described = {"always"} THEN "required" ELSE "optional"

Present(c, fields, dflt) == SelectSeq(fields, LAMBDA f : Presence(c, f, dflt) # "omitted")

(* schema/object.rs: an object assembled field by field. `ok` turns false where *)
(* the code panics, since what is merged cannot be described.                   *)

EmptyObject == [fields |-> <<>>, rest |-> <<>>, ok |-> TRUE]
AddField(o, field) == [o EXCEPT !.fields = Append(@, field)]
\* A bug: what a flattened Option may leave out is still required.
MergeRequired(o, fields, allOptional) ==
  [o EXCEPT !.ok = @ /\ FieldNames(o.fields) \cap FieldNames(fields) = {},
            !.fields = @ \o fields]
MergeFields(o, fields, allOptional) ==
  [o EXCEPT !.ok = @ /\ FieldNames(o.fields) \cap FieldNames(fields) = {},
            !.fields = @ \o [i \in DOMAIN fields |-> [fields[i] EXCEPT !.optional = @ \/ allOptional]]]
MergeRest(o, ty) == IF o.rest = <<>> THEN [o EXCEPT !.rest = <<ty>>]
                                     ELSE [o EXCEPT !.ok = @ /\ o.rest[1] = ty]
Flatten(o, ty, allOptional) ==
  CASE ty[1] = "Object"                        -> MergeFields(o, ty[2], allOptional)
    [] ty[1] = "OpenObject"                    -> MergeRest(MergeFields(o, ty[2], allOptional), ty[3])
    [] ty[1] = "Record" /\ ty[2] = "String"    -> MergeRest(o, ty[3])
    [] ty[1] = "Json"                          -> MergeRest(o, ty)
    [] ty[1] \in {"Null", "Void"}              -> o
    [] OTHER                                   -> [o EXCEPT !.ok = FALSE]
IntoType(o) == IF o.ok THEN ObjectType(o.fields, o.rest) ELSE <<"Panic">>
IntoVariant(o, name) == Payload(name, o.fields, o.rest)

(* schema.rs: the type of a Rust type, and the reference others use for it.     *)

RECURSIVE NameOf(_)
NameOf(T) ==
  CASE T[1] = "Named"       -> T[2].name
    [] T[1] = "Back"        -> T[2]
    [] T[1] = "NativeBytes" -> "NativeBytes"
    [] T[1] = "Box"         -> NameOf(T[2])
    [] OTHER                -> "unknown"
HasName(T) == NameOf(T) \notin {"", "unknown"}

RECURSIVE TsType(_)
\* schema_type_ref.
TypeRefOf(T) == IF HasName(T) THEN <<"TypeRef", NameOf(T)>> ELSE TsType(T)

\* type_ref of a field: the text its attribute gives, else its type's.
FieldType(f) == IF f.text # {} THEN <<"TypeRef", The(f.text)>> ELSE TypeRefOf(f.ty)

\* field_step.
AddStep(c, object, f, dflt) ==
  IF f.flatten THEN Flatten(object, TsType(OptionInner(f.ty)), IsOption(f.ty))
  ELSE AddField(object, [name |-> SchemaKey(c, f), ty |-> FieldType(f), optional |-> Presence(c, f, dflt) # "required"])

ObjectOf(c, fields, dflt) ==
  FoldLeft(LAMBDA object, f : AddStep(c, object, f, dflt), EmptyObject, Present(c, fields, dflt))

ShapeType(c, s, dflt) ==
  CASE s.style = "unit"    -> <<"Null">>
    [] s.style = "newtype" -> FieldType(s.fields[1])
    [] s.style = "tuple"   -> LET shown == Present(c, s.fields, FALSE)
                              IN <<"Tuple", [i \in DOMAIN shown |-> FieldType(shown[i])]>>
    [] OTHER               -> IntoType(ObjectOf(c, s.fields, dflt))

(* schema/enums.rs *)

TagLiteral(name) == <<"Literal", Str(name)>>
ExternalType(c, v) ==
  IF v.style = "unit" THEN TagLiteral(SchemaKey(c, v))
  ELSE <<"Object", <<Required(SchemaKey(c, v), ShapeType(c, v, FALSE))>>>>
InternalVariant(c, v) ==
  CASE v.style = "unit"    -> UnitVariant(SchemaKey(c, v))
    [] v.style = "newtype" -> IntoVariant(Flatten(EmptyObject, TsType(v.fields[1].ty), FALSE), SchemaKey(c, v))
    [] OTHER               -> IntoVariant(ObjectOf(c, v.fields, FALSE), SchemaKey(c, v))
AdjacentVariant(c, v, content) ==
  IF v.style = "unit" THEN UnitVariant(SchemaKey(c, v))
  ELSE IF v.style = "newtype" /\ IsOption(v.fields[1].ty)
  THEN Payload(SchemaKey(c, v), <<Optional(content, FieldType(v.fields[1]))>>, <<>>)
  ELSE Payload(SchemaKey(c, v), <<Required(content, ShapeType(c, v, FALSE))>>, <<>>)

EnumType(c) ==
  LET shown == SelectSeq(c.variants, LAMBDA v : ~SkippedIn(v, SchemaDirections(c)))
      Each(Op(_)) == [i \in DOMAIN shown |-> Op(shown[i])]
      allUnit == \A v \in Items(shown) : v.style = "unit"
      tagging == c.tagging[1]
  IN CASE tagging = "external" /\ allUnit -> <<"Enum", <<>>, Each(LAMBDA v : UnitVariant(SchemaKey(c, v)))>>
       [] tagging = "external" -> <<"Union", Each(LAMBDA v : ExternalType(c, v))>>
       [] tagging = "untagged" -> <<"Union", Each(LAMBDA v : ShapeType(c, v, FALSE))>>
       [] allUnit -> <<"Union", Each(LAMBDA v :
                       <<"Object", <<Required(c.tagging[2], TagLiteral(SchemaKey(c, v)))>>>>)>>
       [] tagging = "internal" -> <<"Enum", <<c.tagging[2]>>, Each(LAMBDA v : InternalVariant(c, v))>>
       [] OTHER -> <<"Enum", <<c.tagging[2]>>, Each(LAMBDA v : AdjacentVariant(c, v, c.tagging[3]))>>

\* ts_type of a derived container.
ContainerType(c) ==
  CASE WireType(c) # {}           -> TypeRefOf(The(WireType(c)))
    [] TransparentField(c) # {}   -> FieldType(c.fields[The(TransparentField(c))])
    [] c.kind = "struct"          -> ShapeType(c, c, c.dflt)
    [] OTHER                      -> EnumType(c)

(* schema.rs: the TsSchema of the types that are not derived.                   *)

LeafType(T) ==
  CASE T[1] \in {"int", "f64"} -> <<"Number">>
    [] T[1] = "unit"           -> <<"Void">>
    [] T[1] = "bool"           -> <<"Boolean">>
    [] T[1] = "String"         -> <<"String">>
    [] T[1] = "Json"           -> <<"Json">>
    [] T[1] = "NativeBytes"    -> <<"Uint8Array">>

CollectionType(T) ==
  CASE T[1] = "Option"         -> <<"Nullable", TypeRefOf(T[2])>>
    [] T[1] \in {"Vec", "Set"} -> <<"Array", TypeRefOf(T[2])>>
    [] T[1] = "Array"          -> <<"Tuple", [i \in 1 .. T[3] |-> TypeRefOf(T[2])]>>
    [] T[1] = "Map"            -> <<"Record", IF T[2] = "String" THEN "String" ELSE "Number", TypeRefOf(T[3])>>
    [] T[1] = "Tuple"          -> <<"Tuple", [i \in DOMAIN T[2] |-> TypeRefOf(T[2][i])]>>
    [] T[1] = "Box"            -> TsType(T[2])

Leaves == {"unit", "bool", "int", "f64", "String", "Json", "NativeBytes"}
TsType(T) ==
  CASE T[1] \in Leaves              -> LeafType(T)
    [] T[1] \in {"Named", "Back"}   -> ContainerType(Target(T)[2])
    [] OTHER                        -> CollectionType(T)

\* Whether building the schema of a container does not panic.
Describable(c) ==
  \A s \in Shapes(c) :
     CASE s.style = "struct" -> ObjectOf(c, s.fields, c.kind = "struct" /\ c.dflt).ok
       [] s.style = "newtype" /\ c.tagging[1] = "internal" ->
            Flatten(EmptyObject, TsType(s.fields[1].ty), FALSE).ok
       [] OTHER -> TRUE

-----------------------------------------------------------------------------
(* schema/mod.rs and schema.rs: the named types a type refers to.               *)

\* described_shapes, each with whether the default of the struct itself applies.
DescribedShapes(c) ==
  IF c.kind = "struct" THEN <<[fields |-> c.fields, dflt |-> c.dflt]>>
  ELSE LET shown == SelectSeq(c.variants, LAMBDA v : ~SkippedIn(v, SchemaDirections(c)))
       IN [i \in DOMAIN shown |-> [fields |-> shown[i].fields, dflt |-> FALSE]]

\* dependency: a field whose type is written by hand refers to nothing.
Depended(fields) ==
  LET typed == SelectSeq(fields, LAMBDA f : f.text = {}) IN [i \in DOMAIN typed |-> typed[i].ty]
\* shape_dependencies of every shape, or the one type a container stands for.
DependedTypes(c) ==
  CASE WireType(c) # {}           -> <<The(WireType(c))>>
    [] TransparentField(c) # {}   -> Depended(<<c.fields[The(TransparentField(c))]>>)
    [] OTHER                      -> LET shapes == DescribedShapes(c)
                                     IN FlattenSeq([i \in DOMAIN shapes |->
                                          Depended(Present(c, shapes[i].fields, shapes[i].dflt))])

\* element_dependencies: the types a type of schema.rs is made of.
ElementTypes(T) ==
  CASE T[1] \in {"Option", "Vec", "Set", "Array"} -> <<T[2]>>
    [] T[1] = "Map"                               -> <<T[3]>>
    [] T[1] = "Tuple"                             -> T[2]
    [] OTHER                                      -> <<>>

RECURSIVE Dependencies(_, _)
\* push_schema_dependency: a named type after its own dependencies; one that is being
\* described already, further up, is not entered again (SchemaDependencyGuard).
Push(T, stack) ==
  IF ~HasName(T) THEN Dependencies(T, stack)
  ELSE IF NameOf(T) \in stack THEN <<>>
  ELSE LET deps == Dependencies(T, stack \cup {NameOf(T)})
       IN Append(deps, [name |-> NameOf(T), ty |-> TsType(T), deps |-> deps])

\* schema_dependencies; a Box has those of what it holds.
Dependencies(T, stack) ==
  LET PushAll(types) == FlattenSeq([i \in DOMAIN types |-> Push(types[i], stack)])
  IN CASE T[1] = "Box"                -> Dependencies(T[2], stack)
       [] T[1] \in {"Named", "Back"}  -> PushAll(DependedTypes(Target(T)[2]))
       [] OTHER                       -> PushAll(ElementTypes(T))

\* TsSchema::schema.
Schema(T) == [name |-> NameOf(T), ty |-> TsType(T), deps |-> Dependencies(T, {})]
-----------------------------------------------------------------------------
(* What a type is made of.                                                      *)

\* The Rust types a type is made of, each once; the containers, shapes, fields and
\* variants among them.
RECURSIVE Parts(_)
Parts(T) ==
  {T} \cup
  CASE T[1] \in {"Option", "Vec", "Set", "Array", "Box"} -> Parts(T[2])
    [] T[1] = "Map"   -> Parts(T[3])
    [] T[1] = "Tuple" -> UNION {Parts(t) : t \in Items(T[2])}
    [] T[1] = "Named" -> UNION {Parts(f.ty) : f \in FieldsOf(T[2])}
    [] OTHER          -> {}
Containers(T) == {part[2] : part \in {part \in Parts(T) : part[1] = "Named"}}

AllShapes(T) == UNION {Shapes(c) : c \in Containers(T)}
AllFields(T) == UNION {Items(s.fields) : s \in AllShapes(T)}
AllVariants(T) == UNION {Items(c.variants) : c \in Containers(T)}
=============================================================================
