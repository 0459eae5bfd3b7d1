------------------------------ MODULE HotReload ------------------------------
(***************************************************************************)
(* Loads and reloads of one project from its files: compiler/stamp.rs,     *)
(* compiler/project.rs, the project states of runner/transpile.rs and      *)
(* Engine::reload_changed.  Somebody edits the files at any time, also     *)
(* between two looks of a load at the disk.                                *)
(*                                                                         *)
(* The entry may import one request, which the configuration maps to a     *)
(* list of candidate files.  The file system and oxc_resolver are external:*)
(* every edit changes the stamp of the file, creating or removing a file   *)
(* that of its directory, and a resolver remembers which files it saw.     *)
(***************************************************************************)
EXTENDS Integers, Sequences

CONSTANTS Modules,   \* module files
          Entry,     \* the entry file of the project
          Dirs,      \* directories
          DirsOf,    \* those from each module up to the project root, its own first
          Configs,   \* contents of tsconfig.json
          Targets,   \* for each, the files the request may name, in order of precedence
          Edits,     \* what an edit may leave in a file: of Kinds
          MaxEdits   \* bound on the edits

Config == "tsconfig.json"
Paths == Modules \cup Dirs \cup {Config}
Kinds == {"plain",    \* no import
          "imports",  \* imports the request
          "bad",      \* does not parse
          "throws"}   \* fails to mount, or to transpile once parsed

ASSUME EntryAssumption == Entry \in Modules
\* A path is a file or a directory.
ASSUME PathsAssumption == Modules \cap Dirs = {} /\ Config \notin Modules \cup Dirs
ASSUME DirsAssumption == DirsOf \in [Modules -> Seq(Dirs) \ {<<>>}]
ASSUME TargetsAssumption == Targets \in [Configs -> Seq(Modules \ {Entry})]
ASSUME EditsAssumption == Edits \subseteq Kinds /\ MaxEdits \in Nat

Missing == -1    \* FileStamp::of gives None
Unwatched == -2  \* the path is not in the map
None == "none"

ASSUME NoneAssumption == None \notin Modules \cup Configs

VARIABLES
  \* The disk.
  kind,       \* what each file contains
  config,     \* the content of tsconfig.json
  stamp,      \* FileStamp of every path: the edit that last touched it
  edits,      \* how many edits there were
  \* The loaded version.
  loaded,     \* there is one
  version,    \* the edit of each file it runs, and the file its request names
  watched,    \* ProjectFiles::watched
  \* Transpiler::projects.
  memo,       \* ProjectState of the entry
  \* The attempt in progress, or the last one.
  pc,         \* idle, visit, read, resolve, failed, restamp
  byReload,   \* it is reload_changed's, not an explicit load_project
  reuse,      \* structure_unchanged
  known,      \* modules of the previous discovery
  resolver,   \* which files it saw, and the tsconfig.json it read
  structure,  \* Discovery::structure
  modules,    \* Discovery::modules
  path,       \* the module to visit: each imports at most one
  current,    \* its stamp
  source,     \* and what was read from it
  \* History.
  outcome,    \* of the last attempt
  edited,     \* an edit came since it began
  raced       \* one came before it ended

diskVars == <<kind, config, stamp, edits>>
versionVars == <<loaded, version, watched>>
discoveryVars == <<byReload, reuse, known, resolver, structure, modules, path, current, source>>
historyVars == <<outcome, edited, raced>>
vars == <<diskVars, versionVars, memo, pc, discoveryVars, historyVars>>

\* The directories from a module up, and the one it is in.
DirsAbove(m) == {DirsOf[m][i] : i \in DOMAIN DirsOf[m]}
Home(m) == DirsOf[m][1]

NothingWatched == [p \in Paths |-> Unwatched]
NotVisited == [stamp |-> Unwatched, read |-> Missing, kind |-> "plain", target |-> None]
NoModules == [m \in Modules |-> NotVisited]
NewResolver == [saw |-> [m \in Modules |-> "unknown"], config |-> None]
NoMemo == [held |-> FALSE, structure |-> NothingWatched, known |-> NoModules,
           resolver |-> NewResolver]

Init == /\ kind = [m \in Modules |-> "plain"]
        /\ config \in Configs
        /\ stamp = [p \in Paths |-> IF p \in Modules \ {Entry} THEN Missing ELSE 0]
        /\ edits = 0
        /\ loaded = FALSE
        /\ version = [read |-> [m \in Modules |-> Missing], target |-> None]
        /\ watched = NothingWatched
        /\ memo = NoMemo
        /\ pc = "idle"
        /\ byReload = FALSE
        /\ reuse = FALSE
        /\ known = NoModules
        /\ resolver = NewResolver
        /\ structure = NothingWatched
        /\ modules = NoModules
        /\ path = None
        /\ current = Missing
        /\ source = [read |-> Missing, kind |-> "plain"]
        /\ outcome = "none"
        /\ edited = FALSE
        /\ raced = FALSE

-----------------------------------------------------------------------------
(* Edits.                                                                  *)

Edited(touched, gone) ==
  /\ edits < MaxEdits
  /\ edits' = edits + 1
  /\ stamp' = [p \in Paths |-> IF p \in gone THEN Missing
                               ELSE IF p \in touched THEN edits + 1 ELSE stamp[p]]
  /\ edited' = TRUE
  /\ raced' = (raced \/ pc # "idle")
  /\ UNCHANGED <<versionVars, memo, pc, discoveryVars, outcome>>

Write(m, k) == /\ Edited({m} \cup IF stamp[m] = Missing THEN {Home(m)} ELSE {}, {})
               /\ kind' = [kind EXCEPT ![m] = k]
               /\ UNCHANGED config

RemoveFile(m) == /\ stamp[m] # Missing
                 /\ Edited({Home(m)}, {m})
                 /\ UNCHANGED <<kind, config>>

Configure(c) == /\ Edited({Config}, {})
                /\ config' = c
                /\ UNCHANGED kind

-----------------------------------------------------------------------------
(* WatchedFiles.                                                           *)

\* watch, for several paths: those already watched keep their stamp.
Watch(files, paths) ==
  [p \in Paths |-> IF p \in paths /\ files[p] = Unwatched THEN stamp[p] ELSE files[p]]

Changed(files) == \E p \in Paths : files[p] \notin {Unwatched, stamp[p]}

Merge(files, other) == [p \in Paths |-> IF other[p] = Unwatched THEN files[p] ELSE other[p]]

\* A bug: nothing is stamped again.
RestampedNone == watched

Restamped == [p \in Paths |-> IF watched[p] = Unwatched THEN Unwatched ELSE stamp[p]]

-----------------------------------------------------------------------------
(* discover_project.                                                       *)

\* Nothing the resolutions of the last discovery depend on has changed.
Reusable == memo.held /\ ~Changed(memo.structure)

\* Engine::load_project or reload_changed: the previous state is taken out, to be put
\* back by a discovery that succeeds.
Begin(reload) ==
  /\ byReload' = reload
  /\ memo' = NoMemo
  /\ known' = memo.known
  /\ reuse' = Reusable
  /\ resolver' = IF Reusable THEN memo.resolver ELSE NewResolver
  /\ modules' = NoModules
  /\ IF stamp[Entry] = Missing
     THEN pc' = "failed" /\ path' = None /\ structure' = NothingWatched
     ELSE /\ pc' = "visit"
          /\ path' = Entry
          /\ structure' = Watch(IF Reusable THEN memo.structure ELSE NothingWatched, {Config})
  /\ edited' = FALSE
  /\ raced' = FALSE
  /\ UNCHANGED <<diskVars, versionVars, current, source, outcome>>

Load == pc = "idle" /\ Begin(FALSE)

ReloadChanged == pc = "idle" /\ loaded /\ Changed(watched) /\ Begin(TRUE)

\* The directories are watched and the file is stamped, before anything is read.
Visit == /\ pc = "visit"
         /\ path # None
         /\ structure' = Watch(structure, DirsAbove(path))
         /\ current' = stamp[path]
         /\ pc' = "read"
         /\ UNCHANGED <<diskVars, versionVars, memo, byReload, reuse, known, resolver, modules,
                        path, source, historyVars>>

\* The file that failed is watched as it was stamped.
VisitFails == /\ pc' = "failed"
              /\ structure' = [structure EXCEPT ![path] = current]
              /\ UNCHANGED <<modules, path, source>>

\* The module it imports comes next, unless it is visited.
VisitNext(target) ==
  /\ path' = IF target # None /\ modules'[target].stamp = Unwatched THEN target ELSE None
  /\ pc' = "visit"
  /\ UNCHANGED <<structure, source>>

\* A bug: the module is stamped once it was read.
VisitedStampedLate(module) ==
  /\ modules' = [modules EXCEPT ![path] = [module EXCEPT !.stamp = stamp[path]]]
  /\ VisitNext(module.target)

Visited(module) == modules' = [modules EXCEPT ![path] = module] /\ VisitNext(module.target)

SourceRead(content) == /\ source' = content
                       /\ pc' = "resolve"
                       /\ UNCHANGED <<structure, modules, path>>

\* A module whose stamp is unchanged is not read again; nor is it resolved again while
\* the structure is unchanged.
Read == /\ pc = "read"
        /\ LET same == current # Missing /\ known[path].stamp = current
           IN  IF same /\ reuse THEN Visited(known[path])
               ELSE IF same THEN SourceRead([read |-> known[path].read, kind |-> known[path].kind])
               ELSE IF stamp[path] = Missing \/ kind[path] = "bad" THEN VisitFails
               ELSE SourceRead([read |-> stamp[path], kind |-> kind[path]])
        /\ UNCHANGED <<diskVars, versionVars, memo, byReload, reuse, known, resolver, current,
                       historyVars>>

\* What the resolver takes the configuration and the files to be.
ReadConfig == IF resolver.config = None THEN config ELSE resolver.config

Sees(m) == IF resolver.saw[m] = "unknown" THEN stamp[m] # Missing ELSE resolver.saw[m] = "there"

\* It looks at the candidates up to the first it sees.
LookedAt(candidates) ==
  {candidates[i] : i \in {i \in DOMAIN candidates : \A j \in 1 .. i - 1 : ~Sees(candidates[j])}}

\* The first of the candidates that is among `files`.
First(candidates, files) ==
  LET there == {i \in DOMAIN candidates : candidates[i] \in files}
  IN  IF there = {} THEN None ELSE candidates[CHOOSE i \in there : \A j \in there : i <= j]

Looked(candidates) ==
  [saw |-> [m \in Modules |-> IF m \notin LookedAt(candidates) THEN resolver.saw[m]
                              ELSE IF Sees(m) THEN "there" ELSE "absent"],
   config |-> ReadConfig]

Resolve == /\ pc = "resolve"
           /\ LET candidates == Targets[ReadConfig]
                  target == First(candidates, {m \in Modules : Sees(m)})
                  module(t) == [stamp |-> current, read |-> source.read, kind |-> source.kind,
                                target |-> t]
              IN  IF source.kind # "imports" THEN Visited(module(None)) /\ UNCHANGED resolver
                  ELSE /\ resolver' = Looked(candidates)
                       /\ IF target = None THEN VisitFails
                          ELSE IF stamp[target] = Missing THEN VisitFails
                          ELSE Visited(module(target))
           /\ UNCHANGED <<diskVars, versionVars, memo, byReload, reuse, known, current, historyVars>>

AttemptWatched ==
  Merge(structure, [p \in Paths |-> IF p \in Modules THEN modules[p].stamp ELSE Unwatched])

\* The discovery is over and its state is kept, whatever comes of the mount.
Mount == /\ pc = "visit"
         /\ path = None
         /\ memo' = [held |-> TRUE, structure |-> structure, known |-> modules, resolver |-> resolver]
         /\ IF \E m \in Modules : modules[m].kind = "throws"
            THEN pc' = "failed" /\ UNCHANGED <<versionVars, outcome>>
            ELSE /\ pc' = "idle"
                 /\ outcome' = "ok"
                 /\ loaded' = TRUE
                 /\ version' = [read |-> [m \in Modules |-> modules[m].read],
                                target |-> modules[Entry].target]
                 /\ watched' = AttemptWatched
         /\ UNCHANGED <<diskVars, discoveryVars, edited, raced>>

\* A bug: what a failed attempt looked at is not watched.
WatchNoFailedAttempt == watched

\* watch_failed_attempt.
WatchFailedAttempt == IF loaded THEN Merge(watched, AttemptWatched) ELSE watched

FailLoad == /\ pc = "failed"
            /\ watched' = WatchFailedAttempt
            /\ outcome' = "failed"
            /\ pc' = IF byReload THEN "restamp" ELSE "idle"
            /\ UNCHANGED <<diskVars, loaded, version, memo, discoveryVars, edited, raced>>

Restamp == /\ pc = "restamp"
           /\ watched' = Restamped
           /\ pc' = "idle"
           /\ UNCHANGED <<diskVars, loaded, version, memo, discoveryVars, historyVars>>

-----------------------------------------------------------------------------
Edit == \/ \E m \in Modules : (\E k \in Edits : Write(m, k)) \/ RemoveFile(m)
        \/ \E c \in Configs : Configure(c)

Next == \/ Edit
        \/ Load \/ ReloadChanged
        \/ Visit \/ Read \/ Resolve
        \/ Mount \/ FailLoad \/ Restamp

Spec == Init /\ [][Next]_vars

-----------------------------------------------------------------------------
(* Properties.                                                             *)

Stamps == {Unwatched, Missing} \cup 0 .. MaxEdits
Known == [stamp : Stamps, read : Stamps, kind : Kinds, target : Modules \cup {None}]

TypeOK == /\ kind \in [Modules -> Kinds]
          /\ config \in Configs
          /\ stamp \in [Paths -> Stamps \ {Unwatched}]
          /\ watched \in [Paths -> Stamps]
          /\ structure \in [Paths -> Stamps]
          /\ known \in [Modules -> Known]
          /\ modules \in [Modules -> Known]
          /\ version.read \in [Modules -> Stamps \ {Unwatched}]
          /\ version.target \in Modules \cup {None}
          /\ pc \in {"idle", "visit", "read", "resolve", "failed", "restamp"}
          /\ path \in Modules \cup {None} /\ (pc \in {"read", "resolve"} => path # None)
          /\ outcome \in {"none", "ok", "failed"}

\* What a load that reads everything would make of the disk.
Present == {m \in Modules : stamp[m] # Missing}

FreshTarget == IF kind[Entry] = "imports" THEN First(Targets[config], Present) ELSE None

Fresh == [read |-> [m \in Modules |-> IF m \in {Entry, FreshTarget} THEN stamp[m] ELSE Missing],
          target |-> FreshTarget]

\* While reload_changed sees no change after a successful load, the version runs what
\* is on the disk, and its import names the file a new resolution would find: whatever
\* was edited during the load, and whatever the load took over from the one before.
UnchangedIsFresh ==
  pc = "idle" /\ outcome = "ok" /\ ~Changed(watched) => version = Fresh

\* After a failed attempt, no file it looked at changes unseen: the fix is noticed.
FixIsSeen ==
  pc = "idle" /\ loaded /\ outcome = "failed" /\ ~raced /\ ~Changed(watched) =>
     \A m \in Modules : AttemptWatched[m] \in {Unwatched, stamp[m]}

\* A reload is reported once, whether it succeeds or fails: without another edit, the
\* next call of reload_changed finds nothing to do.
ReportedOnce == pc = "idle" /\ byReload /\ ~edited => ~Changed(watched)
=============================================================================
