--------------------------- MODULE GeneratedTypes ---------------------------
(* The types the registry generates for the authors of scripts: those the      *)
(* TypeScript declarations (declarations.rs) and the SDK (sdk.rs) declare and  *)
(* mention.                                                                    *)
EXTENDS SdkTrees, DerivedTypes

CONSTANT Types    \* the Rust types offers refer to

SchemasOf(types) == [t \in DOMAIN types |-> Schema(types[t])]
Schemas == SchemasOf(Types)

\* The schemas of a descriptor's abi, in the order they are pushed.
AbiSchemas(i) ==
  <<Schemas[offers[i].ty]>>
  \o (IF offers[i].kind \in {"function", "async", "request"} THEN <<Schemas[offers[i].out]>> ELSE <<>>)

\* push_schema of both generators: the dependencies first, each name once.
IsUnknown(schema) == schema.name \in {"", "unknown"}
\* A bug: a schema is declared without those it depends on.
PushAlone(section, schema) ==
  IF IsUnknown(schema) \/ schema.name \in section.emitted THEN section
  ELSE [section EXCEPT !.emitted = @ \cup {schema.name}, !.types = Append(@, schema)]
RECURSIVE PushSchema(_, _)
PushSchema(section, schema) ==
  IF IsUnknown(schema) \/ schema.name \in section.emitted THEN section
  ELSE LET inner == FoldLeft(PushSchema, [section EXCEPT !.emitted = @ \cup {schema.name}], schema.deps)
       IN [inner EXCEPT !.types = Append(@, schema)]

SchemaSection ==
  FoldLeft(PushSchema, [emitted |-> {}, types |-> <<>>],
           FlattenSeq([k \in DOMAIN Listed |-> AbiSchemas(descriptors[Listed[k]])]))

\* The names render_ts_type writes for a type.
RECURSIVE Mentions(_)
Mentions(ty) ==
  LET OfFields(fields) == UNION {Mentions(f.ty) : f \in Items(fields)}
      OfAll(types) == UNION {Mentions(t) : t \in Items(types)}
  IN CASE ty[1] = "TypeRef"                                -> {ty[2]}
       [] ty[1] = "Object"                                 -> OfFields(ty[2])
       [] ty[1] = "OpenObject"                             -> OfFields(ty[2]) \cup Mentions(ty[3])
       [] ty[1] \in {"Array", "Optional", "Nullable"}      -> Mentions(ty[2])
       [] ty[1] \in {"Tuple", "Union"}                     -> OfAll(ty[2])
       [] ty[1] = "Record"                                 -> Mentions(ty[3])
       [] ty[1] = "Enum" -> UNION {OfFields(v.fields) \cup OfAll(v.rest) : v \in Items(ty[3])}
       [] OTHER                                            -> {}

\* schema_type_name: what a signature writes for a schema, a type without a name in full.
TypeName(schema) == IF IsUnknown(schema) THEN Mentions(schema.ty) ELSE {schema.name}
\* What the signatures of the functions, events and contexts mention.
SignatureSchemas == UNION {Items(AbiSchemas(descriptors[n])) : n \in DOMAIN descriptors}
Signatures == UNION {TypeName(schema) : schema \in SignatureSchemas}

-----------------------------------------------------------------------------
\* The types fields name by hand, in #[rustts(type = "...")].
HandWritten == UNION {UNION {f.text : f \in AllFields(Types[t])} :
                        t \in UNION {{o.ty, o.out} : o \in Items(offers)}}

\* A schema without a name is written in full where it is used, and what it depends on
\* is not declared for it: push_schema returns first (declarations.rs:56, sdk.rs:206).
WrittenInFull == UNION {Mentions(schema.ty) : schema \in {s \in SignatureSchemas : IsUnknown(s)}}

\* What `declared` and the signatures mention is among `names`, and no name is there twice.
ClosedWith(declared, names) ==
  /\ UNION {Mentions(s.ty) : s \in Items(declared)} \subseteq names \cup HandWritten
  /\ Signatures \subseteq names \cup WrittenInFull
  /\ Cardinality(names) = Len(declared)

\* Every type a generated declaration or signature mentions is declared, and none twice:
\* what is declared compiles. It rests on the dependencies the derive lists for a type
\* (schema/mod.rs:59-82), those of a recursive type included.
DeclarationsClosed ==
  \A declared \in {SchemaSection.types} : ClosedWith(declared, {s.name : s \in Items(declared)})
=============================================================================
