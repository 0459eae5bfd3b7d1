------------------------------ MODULE SdkTrees ------------------------------
(* The objects the SDK exports (sdk.rs, sdk/tree.rs), down to the contracts    *)
(* they lead to. An ObjectTree is a function from paths to contracts.          *)
EXTENDS ContractRegistry

CONSTANT Pascal    \* a segment of a contract name |-> what event_alias_path makes of it

\* event_alias_path: `player.hit` is also player.onHit(); a name of one segment has none.
AliasPath(n) == <<n[1], FoldLeft(LAMBDA text, s : text \o Pascal[s], "on", Tail(n))>>

\* The contracts of some kinds, by their place in the order of the names, at their paths.
OwnPaths(kinds) ==
  [k \in {k \in DOMAIN NameOrder : /\ NameOrder[k] \in DOMAIN descriptors
                                   /\ offers[OfferNamed(k)].kind \in kinds} |-> NameOrder[k]]

\* Those of a path, of which the last one inserted stays.
InsertedAt(paths, path) == {k \in DOMAIN paths : paths[k] = path}
Inserting(tree, paths, kind) ==
  [path \in DOMAIN tree \cup {paths[k] : k \in DOMAIN paths} |->
     IF InsertedAt(paths, path) = {} THEN tree[path]
     ELSE [kind |-> kind, name |-> NameOrder[Latest(InsertedAt(paths, path))]]]

\* push_function, push_callback and push_context.
FunctionTree == Inserting(<<>>, OwnPaths({"function", "async"}), "function")
EventTree == Inserting(<<>>, OwnPaths({"callback", "request"}), "event")
ContextTree == Inserting(<<>>, OwnPaths({"context"}), "context")

\* push_event_alias_domain_bindings: an event below a root, at the path of its alias.
AliasPaths ==
  LET events == OwnPaths({"callback", "request"})
  IN [k \in {k \in DOMAIN events : Len(NameOrder[k]) > 1} |-> AliasPath(NameOrder[k])]

\* A bug: the functions are inserted over the aliases.
FunctionsOver == Inserting(Inserting(<<>>, AliasPaths, "event"), OwnPaths({"function", "async"}), "function")

\* render_domain_exports: the functions, then the aliases of the events over them.
DomainTree == Inserting(FunctionTree, AliasPaths, "event")

\* render_exported_tree: where the object of a tree holds what is bound at a path. A
\* root is an object whatever it holds, and so is a node with others below it: what is
\* bound there is its `default`.
Place(tree, path) ==
  IF Len(path) = 1 \/ \E other \in DOMAIN tree : path # other /\ IsPrefix(path, other)
  THEN Append(path, "default") ELSE path
Objects(tree) == [place \in {Place(tree, path) : path \in DOMAIN tree} |->
                    tree[CHOOSE path \in DOMAIN tree : Place(tree, path) = place]]

Roots(tree) == {path[1] : path \in DOMAIN tree}

\* render_context_exports: a root that is a context itself is a constant of its name.
ContextExports == {root \in Roots(ContextTree) : <<root>> \in DOMAIN ContextTree}

\* render_sdk_aggregate: the constants rusttsSdk refers to for the functions, the events
\* and the contexts, and those the SDK exports (render_events_export among them).
AggregateRefs ==
  Roots(FunctionTree) \cup Roots(ContextTree) \cup (IF EventTree = <<>> THEN {} ELSE {"events"})
SdkExports ==
  Roots(DomainTree) \cup ContextExports \cup (IF EventTree = <<>> THEN {} ELSE {"events"})

-----------------------------------------------------------------------------
\* The events with their alias at a path.
AliasesTo(path) ==
  {n \in DOMAIN descriptors : /\ offers[descriptors[n]].kind \in {"callback", "request"}
                              /\ Len(n) > 1
                              /\ AliasPath(n) = path}

\* What the SDK offers at a place is what its path says: the function of that name, or,
\* where an event's alias is the same path, the subscription to such an event
\* (sdk.rs:266-310). No function is left out, none is what an alias leads to, nothing is
\* hidden behind a `default`, and rusttsSdk refers to nothing the SDK does not export, but
\* for a context below a root.
SdkBindsItsOwn ==
  /\ \A n \in DOMAIN descriptors : IsFunction(descriptors[n]) => n \in DOMAIN DomainTree
  /\ \A path \in DOMAIN DomainTree :
       LET bound == Objects(DomainTree)[Place(DomainTree, path)]
       IN IF AliasesTo(path) # {} THEN bound.kind = "event" /\ bound.name \in AliasesTo(path)
          ELSE bound = [kind |-> "function", name |-> path]
  /\ AggregateRefs \ SdkExports \subseteq Roots(ContextTree) \ ContextExports
=============================================================================
