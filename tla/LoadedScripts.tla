---------------------------- MODULE LoadedScripts ----------------------------
(***************************************************************************)
(* What Engine's load_script, load_project and unload_script promise a     *)
(* host: which version of each script is loaded, in which order, what each *)
(* was handed over, and which versions were disposed of.  A load or unload *)
(* that fails before its swap changes nothing.                             *)
(***************************************************************************)
EXTENDS Naturals, Sequences

CONSTANTS Ids,      \* script ids
          Versions  \* numbers of the versions

None == 0

VARIABLES scripts,   \* the loaded versions, in load order
          owed,      \* the version whose ctx.hot.dispose comes next, or None
          disposed   \* those it was called for, in order

vars == <<scripts, owed, disposed>>

Init == scripts = <<>> /\ owed = None /\ disposed = <<>>

At(id) == {i \in DOMAIN scripts : scripts[i].id = id}

Used == {scripts[i].graph : i \in DOMAIN scripts} \cup {disposed[i] : i \in DOMAIN disposed}

FirstLoad(id, version) ==
  /\ At(id) = {}
  /\ scripts' = Append(scripts, [id |-> id, graph |-> version, data |-> None])
  /\ owed' = None

\* The new version takes the place of the previous one, and what that one saved.
Reload(id, version) ==
  \E i \in At(id) : \E data \in {None, scripts[i].graph} :
    /\ scripts' = [scripts EXCEPT ![i] = [id |-> id, graph |-> version, data |-> data]]
    /\ owed' = scripts[i].graph

Load(id) == /\ owed = None
            /\ \E version \in Versions \ Used : FirstLoad(id, version) \/ Reload(id, version)
            /\ UNCHANGED disposed

Unload(id) == /\ owed = None
              /\ \E i \in At(id) : /\ owed' = scripts[i].graph
                                   /\ scripts' = SubSeq(scripts, 1, i - 1)
                                                 \o SubSeq(scripts, i + 1, Len(scripts))
              /\ UNCHANGED disposed

Dispose == /\ owed # None
           /\ disposed' = Append(disposed, owed)
           /\ owed' = None
           /\ UNCHANGED scripts

Next == (\E id \in Ids : Load(id) \/ Unload(id)) \/ Dispose

Spec == Init /\ [][Next]_vars
=============================================================================
