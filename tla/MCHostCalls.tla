---------------------------- MODULE MCHostCalls ----------------------------
(* HostContracts on a catalogue of types: every combination of a few shapes    *)
(* and attributes that the derive accepts. Each is registered once, called with *)
(* every value near one it encodes; three contracts are registered by racing   *)
(* threads while a script is loaded and calls one of them.                     *)
EXTENDS HostContracts

\* An identifier of one word, or <<>> for the index of a tuple's member.
FieldOf(words, ty, attrs) == [ident |-> words, ty |-> ty, attrs |-> attrs]
Member(ty, attrs) == FieldOf(<<>>, ty, attrs)
VariantOf(word, style, fields, attrs) == [ident |-> <<word>>, style |-> style, fields |-> fields, attrs |-> attrs]
StructOf(style, fields, attrs) ==
  [name |-> "Struct", kind |-> "struct", attrs |-> attrs, style |-> style, fields |-> fields, variants |-> <<>>]
EnumOf(variants, attrs) ==
  [name |-> "Enum", kind |-> "enum", attrs |-> attrs, style |-> "enum", fields |-> <<>>, variants |-> variants]

U8 == <<"int", "u8">>
I64 == <<"int", "i64">>
Text == <<"String">>
Counts == <<"Map", "String", U8>>

\* Resolved structs without attributes.
Plainly(name, ty) ==
  [ty |-> ty, skipSer |-> FALSE, skipDe |-> FALSE, skipIf |-> FALSE, dflt |-> FALSE, flatten |-> FALSE, jsonOnly |-> {},
   json |-> FALSE, with |-> FALSE, text |-> {}, key |-> {}, optional |-> FALSE, ser |-> name, de |-> <<name>>]
PlainStruct(name, fields) ==
  [name |-> name, kind |-> "struct", style |-> "struct", fields |-> fields, variants |-> <<>>, tagging |-> <<"external">>,
   named |-> {}, allowed |-> TRUE, json |-> FALSE, codecs |-> {"encode", "decode"}, tagged |-> FALSE,
   transparent |-> FALSE, deny |-> FALSE, dflt |-> FALSE, into |-> {}, from |-> {}, jsonOnly |-> {}]
Inner == <<"Named", PlainStruct("Inner", <<Plainly("x", U8), Plainly("y", <<"Option", Text>>)>>)>>

\* struct Tree { kids: Vec<Tree>, next: Option<Box<Tree>> }
Tree == PlainStruct("Tree", <<Plainly("kids", <<"Vec", <<"Back", "Tree">>>>),
                              Plainly("next", <<"Option", <<"Box", <<"Back", "Tree">>>>>>)>>)

FieldTypes == {U8, <<"Option", U8>>, Counts, Inner, <<"Json">>}
AttrsOfField ==
  {{}, {<<"skip">>}, {<<"skip_serializing">>}, {<<"skip_deserializing">>}, {<<"default">>},
   {<<"skip_serializing_if">>, <<"default">>}, {<<"rename", "k">>}, {<<"rename_serialize", "k">>},
   {<<"alias", "k">>}, {<<"flatten">>}, {<<"type", "Custom">>}, {<<"serialize_with">>},
   {<<"serialize_with">>, <<"codec">>}, {<<"codec">>, <<"rustts_with">>}}
AttrsOfType ==
  {{}, {<<"deny_unknown_fields">>}, {<<"default">>}, {<<"transparent">>}, {<<"rename_all", "UPPERCASE">>},
   {<<"rename_all_serialize", "UPPERCASE">>, <<"schema_only">>}, {<<"encode_only">>}, {<<"decode_only">>},
   {<<"into", Inner>>, <<"decode_only">>}, {<<"from", Inner>>, <<"encode_only">>}, {<<"from", Inner>>, <<"schema_only">>}, {<<"from", Inner>>, <<"codec">>}}
Rules == {"lowercase", "UPPERCASE", "PascalCase", "camelCase", "snake_case", "SCREAMING_SNAKE_CASE", "kebab-case",
          "SCREAMING-KEBAB-CASE"}
A(ty, attrs) == FieldOf(<<"a">>, ty, attrs)
B(attrs) == FieldOf(<<"b">>, Text, attrs)

Structs ==
  {StructOf("struct", <<A(ty, attrs), B({})>>, {}) : ty \in FieldTypes, attrs \in AttrsOfField}
  \cup {StructOf("struct", <<A(ty, {}), B({})>>, outer) : ty \in {U8, Inner}, outer \in AttrsOfType}
  \cup {StructOf("struct", <<A(U8, {}), B(attrs)>>, outer) :
          attrs \in {{<<"default">>}, {<<"alias", "k">>}, {<<"skip">>}}, outer \in AttrsOfType}
  \cup {StructOf("struct", <<A(U8, attrs), B({})>>, outer) :
          attrs \in {{<<"skip_serializing">>}, {<<"deserialize_with">>}, {<<"rustts_rename", "k">>}},
          outer \in {{<<"schema_only">>}, {<<"encode_only">>}, {<<"decode_only">>}}}
  \cup {StructOf("struct", <<FieldOf(<<"max", "hp">>, U8, {})>>, {<<"rename_all", rule>>}) : rule \in Rules}
  \cup {StructOf("tuple", <<Member(U8, attrs), Member(Text, {})>>, {}) : attrs \in AttrsOfField}
  \cup {StructOf("newtype", <<Member(ty, attrs)>>, {}) : ty \in {U8, Inner}, attrs \in {{}, {<<"default">>}}}
  \cup {StructOf("unit", <<>>, {})}
  \cup {StructOf("struct", <<A(ty, {<<"flatten">>}), FieldOf(<<"c">>, Counts, {<<"flatten">>})>>, {}) : ty \in {Inner}}
  \cup {StructOf("struct", <<A(<<"Option", Inner>>, {<<"flatten">>}), B({})>>, {})}

Representations ==
  {{}, {<<"tag", "t">>}, {<<"tag", "t">>, <<"content", "c">>}, {<<"untagged">>}}
Payloads ==
  {VariantOf("b", "unit", <<>>, {}),
   VariantOf("b", "newtype", <<Member(U8, {})>>, {}),
   VariantOf("b", "newtype", <<Member(Inner, {})>>, {}),
   VariantOf("b", "newtype", <<Member(Counts, {})>>, {}),
   VariantOf("b", "newtype", <<Member(<<"Option", Inner>>, {})>>, {}),
   VariantOf("b", "newtype", <<Member(<<"unit">>, {})>>, {}),
   VariantOf("b", "tuple", <<Member(U8, {}), Member(Text, {})>>, {}),
   VariantOf("b", "struct", <<FieldOf(<<"x">>, U8, {}), FieldOf(<<"y">>, Text, {<<"alias", "k">>})>>, {}),
   VariantOf("b", "struct", <<FieldOf(<<"x">>, U8, {<<"rename", "k">>}), FieldOf(<<"m">>, Counts, {<<"flatten">>})>>, {}),
   VariantOf("b", "struct", <<>>, {})}
UnitA == VariantOf("a", "unit", <<>>, {})
StructB(attrs) == VariantOf("b", "struct", <<FieldOf(<<"x">>, U8, {})>>, attrs)
Enums ==
  {EnumOf(<<UnitA, v>>, repr \cup outer) :
     v \in Payloads, repr \in Representations, outer \in {{}, {<<"deny_unknown_fields">>}}}
  \cup {EnumOf(<<UnitA, StructB(attrs)>>, repr) :
     repr \in Representations,
     attrs \in {{<<"skip_serializing">>}, {<<"skip_deserializing">>}, {<<"alias", "k">>}, {<<"rename", "k">>},
                {<<"rename_all", "UPPERCASE">>}, {<<"untagged">>}}}
  \cup {EnumOf(<<VariantOf("max", "unit", <<>>, {}), StructB({})>>,
               {<<"rename_all", rule>>, <<"rename_all_fields", "UPPERCASE">>}) : rule \in Rules}

\* The first four are those of Races.
Plain ==
  <<U8, Text, <<"unit">>, <<"Named", Tree>>,
    I64, <<"bool">>, <<"f64">>, <<"Json">>, <<"NativeBytes">>, <<"Vec", U8>>, <<"Set", U8>>, <<"Array", U8, 2>>,
    <<"Map", "u8", Text>>, <<"Tuple", <<U8, Text>>>>, <<"Option", U8>>, <<"Vec", Inner>>>>
Byte == 1
Word == 2
Unit == 3
Family == 4

Derived == {c \in {Resolve(item) : item \in Structs \cup Enums} : Compiles(c) /\ Describable(c)}
RECURSIVE Listing(_)
Listing(S) == IF S = {} THEN <<>> ELSE LET x == CHOOSE x \in S : TRUE IN <<x>> \o Listing(S \ {x})
\* The plain types and the derived ones, in groups.
Table(derived) ==
  FoldLeft(LAMBDA list, key : list \o Listing({<<"Named", c>> : c \in {c \in derived : <<c.kind, c.deny \/ c.tagged>> = key}}),
           Plain, <<<<"struct", FALSE>>, <<"struct", TRUE>>, <<"enum", FALSE>>, <<"enum", TRUE>>>>)
TypeTable == Table(Derived)
MCTypes == TypeTable

-----------------------------------------------------------------------------
MCIntRange == [u8 |-> 0 .. 2, i64 |-> -(MaxSafe + 1) .. MaxSafe + 1]
Cap == [w \in {"a", "b", "c", "x", "y", "m", "max", "hp", "kids", "next"} |->
  CASE w = "a" -> "A" [] w = "b" -> "B" [] w = "c" -> "C" [] w = "x" -> "X" [] w = "y" -> "Y" [] w = "m" -> "M"
    [] w = "max" -> "Max" [] w = "hp" -> "Hp" [] w = "kids" -> "Kids" [] OTHER -> "Next"]
MCCapital == Cap
MCUpper == [Cap EXCEPT !["max"] = "MAX", !["hp"] = "HP", !["kids"] = "KIDS", !["next"] = "NEXT"]
MCDeclared == [Tree |-> Tree]
MCFiniteKeys == {"0", "1", "2"}

\* A few values of each type; a reference back to a type is followed `depth` times.
RECURSIVE ValuesOf(_, _)
RECURSIVE Members(_, _)
Members(types, depth) ==
  IF types = <<>> THEN {<<>>}
  ELSE {<<v>> \o rest : v \in ValuesOf(types[1], depth), rest \in Members(Tail(types), depth)}
FieldTypesOf(s) == [i \in DOMAIN s.fields |-> s.fields[i].ty]

ValuesOf(T, depth) ==
  CASE T[1] = "bool"        -> BOOLEAN
    [] T[1] = "unit"        -> {<<"unit">>}
    [] T[1] = "int"         -> IF T[2] = "u8" THEN {0, 2} ELSE {-1, MaxSafe, MaxSafe + 1}
    [] T[1] = "f64"         -> {Num(0), <<"odd", "-0">>, <<"odd", "fraction">>, <<"odd", "NaN">>, <<"odd", "Infinity">>}
    [] T[1] = "String"      -> {"", "s"}
    [] T[1] = "Json"        -> {Null, <<"int", 1>>, <<"int", MaxSafe + 1>>, <<"obj", "p" :> <<"fraction">>>>}
    [] T[1] = "NativeBytes" -> {<<>>, <<1, 2>>}
    [] T[1] = "Option"      -> {<<"None">>} \cup {<<"Some", v>> : v \in ValuesOf(T[2], depth)}
    [] T[1] = "Vec"         -> {<<>>} \cup {<<v>> : v \in ValuesOf(T[2], depth)}
    [] T[1] = "Set"         -> SUBSET ValuesOf(T[2], depth)
    [] T[1] = "Array"       -> Members(Repeat(T[3], T[2]), depth)
    [] T[1] = "Map"         -> {<<>>} \cup (IF T[2] = "String" THEN {"p" :> v : v \in ValuesOf(T[3], depth)}
                                                              ELSE {2 :> v : v \in ValuesOf(T[3], depth)})
    [] T[1] = "Tuple"       -> Members(T[2], depth)
    [] T[1] = "Box"         -> ValuesOf(T[2], depth)
    [] T[1] = "Back"        -> IF depth = 0 THEN {} ELSE ValuesOf(Target(T), depth - 1)
    [] T[2].kind = "struct" -> Members(FieldTypesOf(T[2]), depth)
    [] OTHER                -> UNION {{<<i, values>> : values \in Members(FieldTypesOf(T[2].variants[i]), depth)} :
                                        i \in DOMAIN T[2].variants}

\* What scripts pass: what the type encodes to, that with one edit, and a pool of others.
Odd == {Undef, Null, <<"fun">>, <<"bool", TRUE>>, Num(1), <<"odd", "NaN">>, Str("s")}
Pool == Odd \cup {<<"sym">>, <<"odd", "-0">>, Num(MaxSafe + 1), Str("A"), Str("B"), Str(LoneSurrogate),
                  <<"arr", <<>>>>, <<"arr", <<Num(1)>>>>, <<"arr", <<Undef, Num(1)>>>>, <<"obj", <<>>>>,
                  <<"bytes", <<1>>>>, <<"obj", "1" :> Str("s")>>, <<"obj", "A" :> Null>>, <<"obj", "A" :> Undef>>}
Edits(js) ==
  IF js[1] # "obj" THEN {}
  ELSE LET own == js[2]
       IN {<<"obj", Without(own, {k})>> : k \in DOMAIN own}
          \cup {<<"obj", (k :> odd) @@ own>> : k \in DOMAIN own, odd \in Odd}
          \cup {<<"obj", ("k" :> own[k]) @@ Without(own, {k})>> : k \in DOMAIN own}
          \cup {<<"obj", (k :> odd) @@ own>> : k \in {"z"}, odd \in {Num(1), Str("s"), Undef}}

Encoded(T) == {js \in {Encode(T, v) : v \in ValuesOf(T, 1)} : js # Fail}
WithEdits(sent) == Pool \cup sent \cup UNION {Edits(js) : js \in sent}
ArgumentsOf(types) ==
  [t \in DOMAIN types |-> IF Natively(types[t], "decode") THEN WithEdits(Encoded(types[t])) ELSE {}]
AnswersOf(types) ==
  [t \in DOMAIN types |-> IF Natively(types[t], "encode") THEN ValuesOf(types[t], 1) ELSE {}]
ArgumentTable == ArgumentsOf(MCTypes)
AnswerTable == AnswersOf(MCTypes)
MCArguments(t) == ArgumentTable[t]
MCAnswers(t) == AnswerTable[t]

-----------------------------------------------------------------------------
Offer(name, kind, path, ty, out) ==
  [name |-> name, kind |-> kind, module |-> "game", path |-> path, ty |-> ty, out |-> out]

\* One contract for each type: a function that takes and gives it where it crosses
\* natively, a context otherwise.
OfferOf(t, decodes, encodes) ==
  IF decodes \/ encodes
  THEN Offer(<<"f">>, "function", <<"f">>, IF decodes THEN t ELSE Unit, IF encodes THEN t ELSE Unit)
  ELSE Offer(<<"f">>, "context", <<"f">>, t, Unit)
OffersOf(types) ==
  {<<OfferOf(t, Natively(types[t], "decode"), Natively(types[t], "encode"))>> : t \in DOMAIN types}
Sweep == OffersOf(MCTypes)

Hit == Offer(<<"player", "hit">>, "callback", <<"onHit">>, Byte, Unit)
Races ==
  {<<Offer(<<"f">>, "function", <<"f">>, Byte, Unit), Offer(<<"f">>, "async", <<"g">>, Word, Unit)>>,
   <<Offer(<<"f">>, "function", <<"f">>, Byte, Word), Offer(<<"f">>, "request", <<"f">>, Word, Family)>>,
   <<Offer(<<"player", "onHit">>, "function", <<"onHit">>, Byte, Byte), Hit>>,
   <<Offer(<<"player">>, "async", <<"player">>, Family, Unit), Offer(<<"player", "hit">>, "function", <<"player", "hit">>, Byte, Byte),
     Offer(<<"player", "state">>, "context", <<"state">>, Family, Unit)>>}

MCOffers == Sweep \cup Races
MCNameOrder == <<<<"f">>, <<"player">>, <<"player", "hit">>, <<"player", "onHit">>, <<"player", "state">>>>
MCPascal == [hit |-> "Hit", onHit |-> "OnHit", state |-> "State"]
MCPolicies == {[input |-> TRUE, output |-> TRUE, strict |-> TRUE], [input |-> TRUE, output |-> TRUE, strict |-> FALSE],
               [input |-> FALSE, output |-> FALSE, strict |-> FALSE]}
=============================================================================
