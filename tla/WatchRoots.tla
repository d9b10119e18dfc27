------------------------------ MODULE WatchRoots ------------------------------
(***************************************************************************)
(* How the watcher chooses its roots and the target of an event: nested    *)
(* library roots are watched once, the watch budget is counted over them,  *)
(* and an event is handed to the deepest library that contains it.  A path *)
(* is the sequence of its names, <<>> the filesystem's root; two libraries *)
(* may have the same cleaned path.                                         *)
(***************************************************************************)
EXTENDS Integers, SequencesExt, FiniteSetsExt

CONSTANTS
    Path,      \* the paths libraries and events are about
    Tree,      \* those that are directories when the watcher starts
    MaxLibs,   \* libraries configured
    MaxDirs    \* the watch budget

ASSUME WatchRootsAssumption ==
    /\ IsFiniteSet(Path) /\ Path \subseteq Seq(STRING) /\ Tree \subseteq Path
    /\ MaxLibs \in Nat \ {0} /\ MaxDirs \in Nat \ {0}

VARIABLES
    libs,     \* the configured libraries' paths, in the order List returns
    run,      \* "start", "watching" or "failed"
    watched,  \* the roots registered with notify, as indices into libs
    event,    \* the path of the last event
    target    \* what it was translated to: the library and the directory

rootsVars == <<libs, run, watched, event, target>>

WithinRoot(root, p) == IsPrefix(root, p)

\* Faulty: two entries for one path both survive.
dedupeNestedOnly(s) ==
    {i \in DOMAIN s : \A j \in DOMAIN s \ {i} : s[j] = s[i] \/ ~WithinRoot(s[j], s[i])}

\* Of identical paths the first is kept; a path under another one is not.
dedupeRoots(s) ==
    {i \in DOMAIN s :
       \A j \in DOMAIN s \ {i} :
         IF s[j] = s[i] THEN i < j ELSE ~WithinRoot(s[j], s[i])}

\* Each root is walked on its own: a directory under two roots counts twice.
countDirs(s, roots) ==
    MapThenSumSet(LAMBDA i : Cardinality({p \in Tree : WithinRoot(s[i], p)}), roots)

Parent(p) == IF p = <<>> THEN p ELSE Front(p)

\* Faulty: the parent of a deleted root is scanned.
eventTargetUnclamped(s, p, isDir) ==
    LET owners == {i \in DOMAIN s : WithinRoot(s[i], p)}
        best   == {i \in owners : \A j \in owners : Len(s[j]) <= Len(s[i])}
    IN  {[lib |-> i, dir |-> IF isDir THEN p ELSE Parent(p)] : i \in best}

\* Every outcome eventTarget can have for p, which is a directory or not at
\* that moment.  Of two spellings of one path the longer one wins, which the
\* cleaned paths do not tell: either may.
eventTarget(s, p, isDir) ==
    LET owners == {i \in DOMAIN s : WithinRoot(s[i], p)}
        best   == {i \in owners : \A j \in owners : Len(s[j]) <= Len(s[i])}
        dir    == IF isDir THEN p ELSE Parent(p)
    IN  {[lib |-> i, dir |-> IF WithinRoot(s[i], dir) THEN dir ELSE s[i]] : i \in best}

\* An event that no library contains, and none yet.
Dropped == [lib |-> -1, dir |-> <<>>]

NoEvent == [lib |-> 0, dir |-> <<>>]

RootsInit ==
    /\ libs \in UNION {[1 .. n -> Path] : n \in 1 .. MaxLibs}
    /\ run = "start" /\ watched = {}
    /\ event = <<>> /\ target = NoEvent

\* Run fails when a root cannot be walked or the budget is exceeded.
Run ==
    /\ run = "start"
    /\ LET roots == dedupeRoots(libs)
       IN  IF (\E i \in roots : libs[i] \notin Tree) \/ countDirs(libs, roots) > MaxDirs
           THEN run' = "failed" /\ UNCHANGED watched
           ELSE run' = "watching" /\ watched' = roots
    /\ UNCHANGED <<libs, event, target>>

\* notify reports only paths under a registered root.
TranslateEvent(p) ==
    /\ run = "watching"
    /\ \E i \in watched : WithinRoot(libs[i], p)
    /\ event' = p
    /\ \E isDir \in BOOLEAN :
         target' \in IF eventTarget(libs, p, isDir) = {} THEN {Dropped}
                     ELSE eventTarget(libs, p, isDir)
    /\ UNCHANGED <<libs, run, watched>>

RootsNext == Run \/ \E p \in Path : TranslateEvent(p)

RootsSpec == RootsInit /\ [][RootsNext]_rootsVars

-----------------------------------------------------------------------------
\* The watches cover every library exactly once: each library's root lies in
\* exactly one registered tree, and no directory is watched twice, so the
\* budget counts every directory under some library once.
WatchedOnce == run = "watching" =>
    /\ \A i \in DOMAIN libs :
         Cardinality({j \in watched : WithinRoot(libs[j], libs[i])}) = 1
    /\ countDirs(libs, watched) =
         Cardinality({p \in Tree : \E i \in DOMAIN libs : WithinRoot(libs[i], p)})

\* A delivered event is never dropped by translate, goes to the library that
\* owns the path most closely, and its scan stays inside that library, also
\* for the deleted root of a library.
TargetInside == target # NoEvent =>
    /\ target # Dropped
    /\ WithinRoot(libs[target.lib], event) /\ WithinRoot(libs[target.lib], target.dir)
    /\ \A i \in DOMAIN libs : WithinRoot(libs[i], event) => WithinRoot(libs[i], libs[target.lib])
    /\ target.dir = event \/ target.dir = Parent(event)

=============================================================================
