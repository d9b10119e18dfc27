-------------------------- MODULE Sidecars_proofs --------------------------
(***************************************************************************)
(* Proofs about Sidecars, for every set of files and tracks and every bound*)
(* on the versions: a row that is done because it was written has its      *)
(* sidecars, a cleared verdict has no marker left, the walk gives up only  *)
(* on what it failed to read and changes no sidecar that exists, whatever  *)
(* the worker, the walk, the commands and the people do in between.        *)
(***************************************************************************)
EXTENDS Sidecars, TLAPS

-----------------------------------------------------------------------------
(* What an assignment to some fields of a record leaves *)

\* One side of a file is written: its types, and what stays.
LEMMA PutMoves ==
    ASSUME disk \in [Stem -> Sidecar], NEW s \in Stem, NEW side \in {"lrc", "txt"}, NEW v,
           side = "lrc" => v \in Lrc, side = "txt" => v \in Txt, Put(s, side, v)
    PROVE  /\ disk' \in [Stem -> Sidecar]
           /\ \A t \in Stem : t # s => disk'[t] = disk[t]
           /\ side = "lrc" => disk'[s].lrc = v /\ disk'[s].txt = disk[s].txt
           /\ side = "txt" => disk'[s].txt = v /\ disk'[s].lrc = disk[s].lrc
<1> DEFINE q == [disk[s] EXCEPT ![side] = v]
<1>1. disk[s] \in Sidecar
  OBVIOUS
<1>2. /\ q \in Sidecar
      /\ side = "lrc" => q.lrc = v /\ q.txt = disk[s].txt
      /\ side = "txt" => q.txt = v /\ q.lrc = disk[s].lrc
  <2>1. CASE side = "lrc"
    BY <1>1, <2>1 DEF Sidecar
  <2>2. CASE side = "txt"
    BY <1>1, <2>2 DEF Sidecar
  <2> QED  BY <2>1, <2>2
<1> HIDE DEF q
<1>3. disk' = [disk EXCEPT ![s] = q]
  BY DEF q, Put
<1> QED  BY <1>2, <1>3

\* Everybody starts idle.
LEMMA IdleTypes ==
    /\ IdleWriter \in Writer /\ IdleWriter.pc = "idle" /\ IdleWriter.stem = NoStem
    /\ IdleScan \in Walk /\ IdleScan.pc = "idle"
    /\ IdleReconcile \in Reconcile /\ IdleReconcile.pc = "idle"
    /\ IdleBackfill \in Backfill /\ IdleBackfill.pc = "idle"
BY DEF IdleWriter, IdleScan, IdleReconcile, IdleBackfill, Writer, Walk, Reconcile, Backfill, Kind

-----------------------------------------------------------------------------
(* The inductive invariant *)

\* Whoever is in the middle of a file or a row has one at hand.
AtHand ==
    /\ wk.pc # "idle" => wk.track \in Track
    /\ wk.pc \in {"rename", "stale"} => wk.stem \in Stem
    /\ wk.pc \notin {"rename", "stale"} => wk.stem = NoStem
    /\ sc.pc \in {"read", "record", "extract"} => sc.stem \in Stem
    /\ rc.pc \in {"check", "remove", "reset"} => rc.track \in Track
    /\ bf.pc = "rename" => bf.stem \in Stem

Typed == SidecarTypeOK /\ AtHand

\* No two rows share a destination.
PathsOK == \A t \in Track : row[t].paths \subseteq FilesOf(t)

\* The worker owns its row, and the destinations behind it have their sidecar,
\* the one it has just renamed on the side it wrote.
WriterOK ==
    wk.pc # "idle" =>
      LET paths == row[wk.track].paths
      IN  /\ row[wk.track].status = "processing"
          /\ wk.todo \subseteq paths
          /\ wk.pc \in {"rename", "stale"} => wk.stem \in paths
          /\ wk.pc \in {"stamp", "finish"} => wk.todo = {}
          /\ wk.pc # "song" =>
               \A s \in paths \ (wk.todo \cup {wk.stem}) : s \in removed \/ HasSidecar(s)
          /\ wk.pc = "stale" =>
               wk.stem \in removed \/ disk[wk.stem][Target(wk.kind)] # "absent"

\* A row reconcile has listed and that did not go through the queue since is as
\* it was, and no marker of it is left that the removal has not still to do.
ReconcileOK ==
    /\ \A t \in Track : row[t].seen = "listed" => Instrumental(row[t])
    /\ rc.pc \in {"remove", "reset"} /\ row[rc.track].seen = "listed" =>
         \A s \in row[rc.track].paths : disk[s].txt = "marker" => s \in rc.marked
    /\ rc.pc = "reset" => rc.marked = {}

Safe == PathsOK /\ WriterOK /\ ReconcileOK /\ DoneHasSidecar /\ VerdictFollowsMarker

SidecarInv == Typed /\ Safe

-----------------------------------------------------------------------------
(* Steps by what they may do to files and rows *)

\* A step that takes no sidecar away, or counts it as removed, and puts no
\* marker anywhere.
Gentle ==
    /\ disk' \in [Stem -> Sidecar] /\ removed \subseteq removed' /\ removed' \subseteq Stem
    /\ \A s \in Stem : /\ \/ s \in removed'
                          \/ /\ disk[s].lrc # "absent" => disk'[s].lrc # "absent"
                             /\ disk[s].txt # "absent" => disk'[s].txt # "absent"
                       /\ disk'[s].txt = "marker" => disk[s].txt = "marker"

\* A step that changes only rows nobody works on, none of them to done.
Aside ==
    /\ row' \in [Track -> Row]
    /\ \A t \in Track :
         \/ row'[t] = row[t]
         \/ /\ row[t].status # "processing" /\ row'[t].status # "done"
            /\ row'[t].seen # "listed" /\ row'[t].paths \subseteq FilesOf(t)

\* A step that changes such rows, or of a row only who has seen it.
Marked ==
    /\ row' \in [Track -> Row]
    /\ \A t \in Track :
         \/ /\ row'[t].status = row[t].status /\ row'[t].paths = row[t].paths
            /\ row'[t].end = row[t].end
         \/ /\ row[t].status # "processing" /\ row'[t].status # "done"
            /\ row'[t].paths \subseteq FilesOf(t)

\* The facts of the type invariant the safety argument uses.
LEMMA Facts ==
    ASSUME Typed
    PROVE  /\ disk \in [Stem -> Sidecar] /\ row \in [Track -> Row]
           /\ wk \in Writer /\ rc \in Reconcile /\ wk.todo \subseteq Stem /\ wk.kind \in Kind
           /\ \A t \in Track : row[t] \in Row /\ row[t].paths \subseteq Stem
           /\ removed \subseteq Stem /\ cleared \subseteq Stem
           /\ AtHand
BY DEF Typed, SidecarTypeOK, Row, Writer

\* Whoever is not the worker keeps, with such steps, all but what is reconcile's.
LEMMA Others ==
    ASSUME SidecarInv, Gentle, Marked, UNCHANGED wk
    PROVE  /\ PathsOK' /\ WriterOK' /\ DoneHasSidecar'
           /\ UNCHANGED cleared => VerdictFollowsMarker'
<1>1. /\ row \in [Track -> Row] /\ cleared \subseteq Stem /\ AtHand
      /\ \A t \in Track : row[t].paths \subseteq Stem
  BY Facts DEF SidecarInv
<1>2. PathsOK /\ WriterOK /\ DoneHasSidecar /\ VerdictFollowsMarker
  BY DEF SidecarInv, Safe
<1>3. PathsOK'
  BY <1>2 DEF PathsOK, Marked, FilesOf
<1>4. WriterOK'
  <2>1. SUFFICES ASSUME wk.pc # "idle" PROVE WriterOK'
    BY DEF WriterOK
  <2>2. wk.track \in Track /\ row[wk.track].status = "processing"
    BY <1>1, <1>2, <2>1 DEF WriterOK, AtHand
  <2>3. /\ row'[wk.track].status = row[wk.track].status
        /\ row'[wk.track].paths = row[wk.track].paths
    BY <2>2 DEF Marked
  <2>4. wk.pc # "song" => \A s \in row[wk.track].paths \ (wk.todo \cup {wk.stem}) :
                             s \in removed' \/ HasSidecar(s)'
    BY <1>1, <1>2, <2>1, <2>2 DEF WriterOK, Gentle, HasSidecar
  <2>5. wk.pc = "stale" => wk.stem \in removed' \/ disk'[wk.stem][Target(wk.kind)] # "absent"
    BY <1>1, <1>2, <2>1 DEF WriterOK, Gentle, AtHand, Target
  <2> QED  BY <1>2, <2>1, <2>2, <2>3, <2>4, <2>5 DEF WriterOK
<1>5. DoneHasSidecar'
  <2>1. \A t \in Track : row'[t].status = "done" =>
          row[t].status = "done" /\ row'[t].paths = row[t].paths /\ row'[t].end = row[t].end
    BY DEF Marked
  <2> QED  BY <1>1, <1>2, <2>1 DEF DoneHasSidecar, Gentle, HasSidecar
<1>6. UNCHANGED cleared => VerdictFollowsMarker'
  BY <1>1, <1>2 DEF VerdictFollowsMarker, Gentle
<1> QED  BY <1>3, <1>4, <1>5, <1>6

\* Whoever is not reconcile either keeps the whole invariant.
LEMMA Bystander ==
    ASSUME SidecarInv, Gentle, Aside, UNCHANGED <<wk, rc, cleared>>
    PROVE  Safe'
<1>1. ReconcileOK /\ AtHand /\ \A t \in Track : row[t].paths \subseteq Stem
  BY Facts DEF SidecarInv, Safe
<1>2. Marked
  BY DEF Aside, Marked
<1>3. ReconcileOK'
  <2>1. \A t \in Track : row'[t].seen = "listed" => row'[t] = row[t]
    BY DEF Aside
  <2>2. \A t \in Track : row'[t].seen = "listed" => Instrumental(row'[t])
    BY <1>1, <2>1 DEF ReconcileOK
  <2>3. rc.pc \in {"remove", "reset"} => rc.track \in Track
    BY <1>1 DEF AtHand
  <2> QED  BY <1>1, <2>1, <2>2, <2>3 DEF ReconcileOK, Gentle, Instrumental
<1> QED  BY <1>2, <1>3, Others DEF Safe

\* The other half of their steps: the types.
LEMMA BystanderTypes ==
    ASSUME Typed, disk' \in [Stem -> Sidecar], audio' \in [Stem -> Version],
           unread' \in [Stem -> 0 .. MaxVersion \cup {Never}], row' \in [Track -> Row],
           results' \subseteq Stem, removed' \subseteq Stem, overruled' \subseteq Track,
           UNCHANGED <<cached, wk, rc, cleared>>,
           sc' \in Walk, sc'.pc \in {"read", "record", "extract"} => sc'.stem \in Stem,
           bf' \in Backfill, bf'.pc = "rename" => bf'.stem \in Stem
    PROVE  Typed'
BY DEF Typed, SidecarTypeOK, AtHand

\* link(2): what the walk leaves of every file.
LEMMA Linked ==
    ASSUME Typed, LinkSidecar
    PROVE  /\ disk' \in [Stem -> Sidecar]
           /\ \A t \in Stem : /\ disk[t].lrc # "absent" => disk'[t].lrc = disk[t].lrc
                              /\ disk[t].txt # "absent" => disk'[t].txt = disk[t].txt
                              /\ disk[t].txt = disk'[t].txt \/ disk'[t].txt = "lyrics"
<1>1. /\ sc.stem \in Stem /\ disk \in [Stem -> Sidecar]
      /\ Side(sc.stem) \in {"lrc", "txt"}
      /\ Side(sc.stem) = "lrc" => Extract(sc.stem) \in Lrc
      /\ Side(sc.stem) = "txt" => Extract(sc.stem) \in Txt
      /\ Side(sc.stem) = "txt" => Extract(sc.stem) = "lyrics"
  BY DEF LinkSidecar, Typed, SidecarTypeOK, AtHand, Side, Extract, Lrc, Txt
<1>2. \/ /\ disk[sc.stem][Side(sc.stem)] = "absent"
         /\ Put(sc.stem, Side(sc.stem), Extract(sc.stem))
      \/ disk' = disk
  BY DEF LinkSidecar
<1>3. CASE /\ disk[sc.stem][Side(sc.stem)] = "absent"
           /\ Put(sc.stem, Side(sc.stem), Extract(sc.stem))
  <2>1. /\ disk' \in [Stem -> Sidecar]
        /\ \A t \in Stem : t # sc.stem => disk'[t] = disk[t]
        /\ Side(sc.stem) = "lrc" => /\ disk'[sc.stem].lrc = Extract(sc.stem)
                                    /\ disk'[sc.stem].txt = disk[sc.stem].txt
        /\ Side(sc.stem) = "txt" => /\ disk'[sc.stem].txt = Extract(sc.stem)
                                    /\ disk'[sc.stem].lrc = disk[sc.stem].lrc
    BY <1>1, <1>3, PutMoves
  <2> QED  BY <1>1, <1>3, <2>1
<1> QED  BY <1>1, <1>2, <1>3

\* One row gets a new value.
LEMMA OneRow ==
    ASSUME Typed, NEW t \in Track, NEW q \in Row, row' = [row EXCEPT ![t] = q],
           \/ q = row[t]
           \/ /\ row[t].status # "processing" /\ q.status # "done" /\ q.seen # "listed"
              /\ q.paths \subseteq FilesOf(t)
    PROVE  Aside
<1>1. row \in [Track -> Row]
  BY Facts
<1>2. row' \in [Track -> Row] /\ row'[t] = q /\ \A u \in Track : u # t => row'[u] = row[u]
  BY <1>1
<1> QED  BY <1>2 DEF Aside

\* The ON CONFLICT upsert leaves a row that is worked on or done.
LEMMA Upserts ==
    ASSUME Typed, PathsOK, NEW t \in Track, NEW ps \in SUBSET FilesOf(t), NEW st \in BOOLEAN,
           ReconcileOK, row' = [row EXCEPT ![t] = Upserted(@, ps, st)]
    PROVE  Aside
<1>1. row \in [Track -> Row] /\ row[t] \in Row /\ ps \subseteq Stem
  BY Facts DEF FilesOf
<1>2. row[t].seen = "listed" => row[t].status = "done"
  BY DEF ReconcileOK, Instrumental
<1> DEFINE q == Upserted(row[t], ps, st)
<1>3. /\ q \in Row
      /\ \/ q = row[t]
         \/ /\ row[t].status # "processing" /\ q.status # "done" /\ q.seen # "listed"
            /\ q.paths \subseteq FilesOf(t)
  <2>1. CASE row[t].status = "absent"
    <3>1. q = [NoRow EXCEPT !.status = "pending", !.paths = ps, !.stamped = st]
      BY <2>1 DEF Upserted
    <3>2. q \in Row /\ q.status = "pending" /\ q.paths = ps /\ q.seen = "no"
      BY <1>1, <3>1 DEF NoRow, Row
    <3> QED  BY <2>1, <3>2
  <2>2. CASE row[t].status = "pending"
    <3>1. q = [row[t] EXCEPT !.paths = ps]
      BY <2>2 DEF Upserted
    <3>2. q \in Row /\ q.status = "pending" /\ q.paths = ps /\ q.seen = row[t].seen
      BY <1>1, <2>2, <3>1 DEF Row
    <3> QED  BY <1>2, <2>2, <3>2
  <2>3. CASE row[t].status \notin {"absent", "pending"}
    BY <1>1, <2>3 DEF Upserted
  <2> QED  BY <2>1, <2>2, <2>3
<1> HIDE DEF q
<1>4. row' = [row EXCEPT ![t] = q]
  BY DEF q
<1> QED  BY <1>3, <1>4, OneRow

\* Nothing changes: a special case of the two.
LEMMA Untouched ==
    ASSUME Typed
    PROVE  /\ UNCHANGED <<disk, removed>> => Gentle
           /\ UNCHANGED row => Aside
BY Facts DEF Gentle, Aside

\* The next file of the walk.
LEMMA NextFileMoves ==
    ASSUME Typed, NEW found \in SUBSET Stem, NextFile(found)
    PROVE  sc' \in Walk /\ sc'.pc = "look"
BY DEF NextFile, Walk, Typed, SidecarTypeOK

\* The steps of the walk keep the invariant.
LEMMA ScanKeeps == ASSUME SidecarInv, ScanStep PROVE SidecarInv'
<1>1. /\ Typed /\ Safe /\ AtHand /\ PathsOK /\ ReconcileOK
      /\ disk \in [Stem -> Sidecar] /\ audio \in [Stem -> Version]
      /\ unread \in [Stem -> 0 .. MaxVersion \cup {Never}] /\ row \in [Track -> Row]
      /\ results \subseteq Stem /\ removed \subseteq Stem /\ overruled \subseteq Track
      /\ sc \in Walk /\ bf \in Backfill /\ (bf.pc = "rename" => bf.stem \in Stem)
      /\ sc.todo \subseteq Stem /\ sc.found \subseteq Stem /\ sc.id \in 0 .. MaxVersion \cup {Never}
  BY DEF SidecarInv, Safe, Typed, SidecarTypeOK, AtHand, Walk
<1>2. SUFFICES /\ Gentle /\ Aside /\ audio' \in [Stem -> Version]
               /\ unread' \in [Stem -> 0 .. MaxVersion \cup {Never}]
               /\ results' \subseteq Stem /\ sc' \in Walk
               /\ (sc'.pc \in {"read", "record", "extract"} => sc'.stem \in Stem)
  <2>1. UNCHANGED <<cached, wk, rc, bf, cleared, overruled>>
    BY DEF ScanStep, StartScan, CannotOpen, TagsUnreadable, RecordFailure, TagsRead, LinkSidecar,
           ExtractFails, ScanReturns, ScanAborts, PassOver, OpenFile, EnqueueResult,
           files, rows, history
  <2>2. Typed'
    BY <1>1, <1>2, <2>1, BystanderTypes DEF Gentle, Aside
  <2> QED  BY <1>2, <2>1, <2>2, Bystander DEF SidecarInv
<1>3. CASE StartScan
  <2>1. PICK mode \in {"new", "upgrade", "update"} :
          sc' = [IdleScan EXCEPT !.pc = "look", !.todo = Library, !.mode = mode]
    BY <1>3 DEF StartScan
  <2>2. sc' \in Walk /\ sc'.pc = "look"
    BY <2>1, IdleTypes, SidecarAssumption DEF Walk
  <2> QED  BY <1>1, <1>3, <2>2, Untouched DEF StartScan, files, rows, history
<1>4. CASE CannotOpen \/ ExtractFails
  <2>1. sc.pc \in {"read", "extract"} /\ sc.stem \in Stem
    BY <1>1, <1>4 DEF CannotOpen, ExtractFails, AtHand
  <2>2. \E found \in SUBSET Stem : NextFile(found)
    BY <1>1, <1>4, <2>1 DEF CannotOpen, ExtractFails
  <2> QED  BY <1>1, <1>4, <2>2, Untouched, NextFileMoves
           DEF CannotOpen, ExtractFails, files, rows, history
<1>5. CASE TagsUnreadable
  <2>1. sc.stem \in Stem
    BY <1>1, <1>5 DEF TagsUnreadable, AtHand
  <2>2. [audio[sc.stem] EXCEPT !.failed = TRUE] \in Version
    BY <1>1, <2>1 DEF Version
  <2>3. audio' \in [Stem -> Version]
    BY <1>1, <1>5, <2>1, <2>2 DEF TagsUnreadable
  <2>4. sc' \in Walk /\ sc'.stem = sc.stem
    BY <1>1, <1>5 DEF TagsUnreadable, Walk
  <2> QED  BY <1>1, <1>5, <2>1, <2>3, <2>4, Untouched DEF TagsUnreadable, rows, history
<1>6. CASE RecordFailure
  <2>1. unread' \in [Stem -> 0 .. MaxVersion \cup {Never}]
    BY <1>1, <1>6 DEF RecordFailure
  <2>2. NextFile(sc.found)
    BY <1>6 DEF RecordFailure
  <2> QED  BY <1>1, <1>6, <2>1, <2>2, Untouched, NextFileMoves DEF RecordFailure, rows, history
<1>7. CASE TagsRead
  <2>1. sc.stem \in Stem
    BY <1>1, <1>7 DEF TagsRead, AtHand
  <2>2. (\E found \in SUBSET Stem : NextFile(found)) \/ sc' = [sc EXCEPT !.pc = "extract"]
    BY <1>1, <1>7, <2>1 DEF TagsRead
  <2>3. CASE sc' = [sc EXCEPT !.pc = "extract"]
    <3>1. sc' \in Walk /\ sc'.stem = sc.stem
      BY <1>1, <2>3 DEF Walk
    <3> QED  BY <1>1, <1>7, <2>1, <3>1, Untouched DEF TagsRead, files, rows, history
  <2>4. CASE \E found \in SUBSET Stem : NextFile(found)
    BY <1>1, <1>7, <2>4, Untouched, NextFileMoves DEF TagsRead, files, rows, history
  <2> QED  BY <2>2, <2>3, <2>4
<1>8. CASE LinkSidecar
  <2>1. NextFile(sc.found) /\ UNCHANGED <<audio, unread, row, results, removed>>
    BY <1>8 DEF LinkSidecar, rows, history
  <2>2. Gentle
    BY <1>1, <1>8, <2>1, Linked DEF Gentle
  <2> QED  BY <1>1, <2>1, <2>2, Untouched, NextFileMoves
<1>9. CASE ScanReturns \/ ScanAborts
  <2>1. results' \subseteq Stem
    BY <1>1, <1>9 DEF ScanReturns, ScanAborts, rows
  <2>2. sc' \in Walk /\ sc'.pc = "idle"
    BY <1>9, IdleTypes DEF ScanReturns, ScanAborts
  <2> QED  BY <1>1, <1>9, <2>1, <2>2, Untouched DEF ScanReturns, ScanAborts, files, rows, history
<1>10. CASE \E s \in Stem : PassOver(s)
  <2>1. PICK s \in Stem : PassOver(s)
    BY <1>10
  <2>2. sc' \in Walk /\ sc'.pc = "look"
    BY <1>1, <2>1 DEF PassOver, Walk
  <2> QED  BY <1>1, <2>1, <2>2, Untouched DEF PassOver, files, rows, history
<1>11. CASE \E s \in Stem : OpenFile(s)
  <2>1. PICK s \in Stem : OpenFile(s)
    BY <1>11
  <2>2. PICK id \in {audio[s].id, Never} :
          sc' = [sc EXCEPT !.todo = sc.todo \ {s}, !.pc = "read", !.stem = s, !.id = id]
    BY <2>1 DEF OpenFile
  <2>3. id \in 0 .. MaxVersion \cup {Never}
    BY <1>1 DEF Version
  <2>4. sc' \in Walk /\ sc'.stem = s
    BY <1>1, <2>2, <2>3 DEF Walk
  <2> QED  BY <1>1, <2>1, <2>4, Untouched DEF OpenFile, files, rows, history
<1>12. CASE \E s \in Stem : EnqueueResult(s)
  <2>1. PICK s \in Stem : EnqueueResult(s)
    BY <1>12
  <2>2. TrackOf[s] \in Track /\ {s} \in SUBSET FilesOf(TrackOf[s])
    BY SidecarAssumption DEF FilesOf
  <2>3. row' = row \/ row' = [row EXCEPT ![TrackOf[s]] = Upserted(@, {s}, FALSE)]
    BY <2>1 DEF EnqueueResult
  <2>4. Aside
    BY <1>1, <2>2, <2>3, Upserts, Untouched
  <2>5. UNCHANGED <<disk, audio, unread, sc, removed>> /\ results' \subseteq Stem
    BY <1>1, <2>1 DEF EnqueueResult, files, history
  <2> QED  BY <1>1, <2>4, <2>5, Untouched DEF AtHand
<1> QED  BY <1>3, <1>4, <1>5, <1>6, <1>7, <1>8, <1>9, <1>10, <1>11, <1>12 DEF ScanStep

\* The steps of the backfill keep the invariant.
LEMMA BackfillKeeps == ASSUME SidecarInv, BackfillStep PROVE SidecarInv'
<1>1. /\ Typed /\ AtHand
      /\ disk \in [Stem -> Sidecar] /\ audio \in [Stem -> Version]
      /\ unread \in [Stem -> 0 .. MaxVersion \cup {Never}] /\ row \in [Track -> Row]
      /\ results \subseteq Stem /\ removed \subseteq Stem /\ overruled \subseteq Track
      /\ sc \in Walk /\ bf \in Backfill /\ bf.todo \subseteq Stem
      /\ (sc.pc \in {"read", "record", "extract"} => sc.stem \in Stem)
  BY DEF SidecarInv, Typed, SidecarTypeOK, AtHand, Backfill
<1>2. SUFFICES Gentle /\ bf' \in Backfill /\ (bf'.pc = "rename" => bf'.stem \in Stem)
  <2>1. UNCHANGED <<audio, unread, rows, wk, sc, rc, history>>
    BY DEF BackfillStep, BackfillPlans, ReadHeader, RenameTagged, BackfillEnds, files, history
  <2>2. Typed' /\ Aside
    BY <1>1, <1>2, <2>1, BystanderTypes, Untouched DEF Gentle, rows, history
  <2> QED  BY <1>2, <2>1, <2>2, Bystander DEF SidecarInv, history
<1>3. CASE BackfillPlans
  <2>1. PICK plans \in SUBSET Stem : bf' = [IdleBackfill EXCEPT !.pc = "inject", !.todo = plans]
    BY <1>3 DEF BackfillPlans
  <2>2. bf' \in Backfill /\ bf'.pc = "inject"
    BY <2>1, IdleTypes DEF Backfill
  <2> QED  BY <1>1, <1>3, <2>2, Untouched DEF BackfillPlans, files, history
<1>4. CASE RenameTagged
  <2>1. bf.stem \in Stem /\ "tagged" \in Lrc
    BY <1>1, <1>4 DEF RenameTagged, AtHand, Lrc
  <2>2. removed' = removed
    BY <1>4 DEF RenameTagged, history
  <2>3. ASSUME Put(bf.stem, "lrc", "tagged") PROVE Gentle
    <3>1. /\ disk' \in [Stem -> Sidecar]
          /\ \A t \in Stem : t # bf.stem => disk'[t] = disk[t]
          /\ disk'[bf.stem].lrc = "tagged" /\ disk'[bf.stem].txt = disk[bf.stem].txt
      BY <1>1, <2>1, <2>3, PutMoves
    <3> QED  BY <1>1, <2>2, <3>1 DEF Gentle
  <2>4. ASSUME UNCHANGED disk PROVE Gentle
    <3>1. UNCHANGED <<disk, removed>>
      BY <2>2, <2>4
    <3> QED  BY <1>1, <3>1, Untouched
  <2>5. bf' \in Backfill /\ bf'.pc = "inject"
    BY <1>1, <1>4 DEF RenameTagged, Backfill
  <2>6. Gentle
    BY <1>4, <2>3, <2>4 DEF RenameTagged
  <2> QED  BY <2>5, <2>6
<1>5. CASE BackfillEnds
  BY <1>1, <1>5, IdleTypes, Untouched DEF BackfillEnds, files, history
<1>6. CASE \E s \in Stem : ReadHeader(s)
  <2>1. PICK s \in Stem : ReadHeader(s)
    BY <1>6
  <2>2. /\ bf.pc = "inject"
        /\ \/ bf' = [bf EXCEPT !.pc = "rename", !.todo = bf.todo \ {s}, !.stem = s]
           \/ bf' = [bf EXCEPT !.todo = bf.todo \ {s}]
    BY <2>1 DEF ReadHeader
  <2>3. bf' \in Backfill /\ (bf'.pc = "rename" => bf'.stem \in Stem)
    BY <1>1, <2>2 DEF Backfill
  <2> QED  BY <1>1, <2>1, <2>3, Untouched DEF ReadHeader, files, history
<1> QED  BY <1>3, <1>4, <1>5, <1>6 DEF BackfillStep

\* So do the webhook and the commands on the queue.
LEMMA QueueKeeps == ASSUME SidecarInv, QueueStep PROVE SidecarInv'
<1>1. /\ Typed /\ AtHand /\ PathsOK /\ ReconcileOK
      /\ disk \in [Stem -> Sidecar] /\ audio \in [Stem -> Version]
      /\ unread \in [Stem -> 0 .. MaxVersion \cup {Never}] /\ row \in [Track -> Row]
      /\ results \subseteq Stem /\ removed \subseteq Stem /\ overruled \subseteq Track
      /\ sc \in Walk /\ bf \in Backfill
  BY DEF SidecarInv, Safe, Typed, SidecarTypeOK
<1>2. SUFFICES Aside
  <2>1. UNCHANGED <<files, cached, results, wk, sc, rc, bf, removed, cleared>>
    BY DEF QueueStep, Notify, CancelRow, TrimRow, ClearDone, RecheckRetired, Delete, history
  <2>2. overruled' \subseteq Track
    BY <1>1 DEF QueueStep, Notify, CancelRow, TrimRow, ClearDone, RecheckRetired, Delete, history
  <2>3. Typed'
    BY <1>1, <1>2, <2>1, <2>2, BystanderTypes DEF Aside, AtHand, files
  <2>4. Gentle
    BY <1>1, <2>1, Untouched DEF files
  <2> QED  BY <1>2, <2>1, <2>3, <2>4, Bystander DEF SidecarInv
<1>3. ASSUME NEW gone \in SUBSET Track, Delete(gone),
             \A t \in gone : row[t].status # "processing"
      PROVE  Aside
  <2>1. \A t \in Track : row'[t] = IF t \in gone THEN NoRow ELSE row[t]
    BY <1>3 DEF Delete
  <2>2. NoRow \in Row /\ NoRow.status = "absent" /\ NoRow.paths = {} /\ NoRow.seen = "no"
    BY DEF NoRow, Row
  <2>3. row' \in [Track -> Row]
    BY <1>1, <1>3, <2>2 DEF Delete
  <2> QED  BY <1>3, <2>1, <2>2, <2>3 DEF Aside
<1>4. CASE ClearDone
  BY <1>3, <1>4 DEF ClearDone
<1>5. CASE \E t \in Track : CancelRow(t)
  BY <1>3, <1>5 DEF CancelRow
<1>6. CASE \E t \in Track : Notify(t)
  <2>1. PICK t \in Track : Notify(t)
    BY <1>6
  <2>2. PICK ps \in SUBSET FilesOf(t) : row' = [row EXCEPT ![t] = Upserted(@, ps, TRUE)]
    BY <2>1 DEF Notify
  <2> QED  BY <1>1, <2>2, Upserts
<1>7. CASE \E t \in Track : TrimRow(t)
  <2>1. PICK t \in Track : TrimRow(t)
    BY <1>7
  <2>2. PICK keep \in SUBSET row[t].paths : row' = [row EXCEPT ![t] = [row[t] EXCEPT !.paths = keep]]
    BY <2>1 DEF TrimRow
  <2> DEFINE q == [row[t] EXCEPT !.paths = keep]
  <2>3. /\ row[t] \in Row /\ row[t].status = "pending" /\ keep \subseteq FilesOf(t)
        /\ keep \subseteq Stem /\ row[t].seen # "listed"
    BY <1>1, <2>1 DEF TrimRow, PathsOK, FilesOf, ReconcileOK, Instrumental
  <2>4. q \in Row /\ q.status = "pending" /\ q.seen # "listed" /\ q.paths = keep
    BY <2>3 DEF Row
  <2> HIDE DEF q
  <2>5. row' = [row EXCEPT ![t] = q]
    BY <2>2 DEF q
  <2> QED  BY <1>1, <2>3, <2>4, <2>5, OneRow
<1>8. CASE RecheckRetired
  <2> DEFINE Again(r) == [Requeue(r) EXCEPT !.end = "none",
                                           !.seen = IF @ = "no" THEN "no" ELSE "again"]
  <2>1. PICK hit \in SUBSET {t \in Track : row[t].status = "done" /\ row[t].end = "limit"} :
          row' = [t \in Track |-> IF t \in hit THEN Again(row[t]) ELSE row[t]]
    BY <1>8 DEF RecheckRetired
  <2>2. \A r \in Row : /\ Again(r) \in Row /\ Again(r).status = "pending"
                       /\ Again(r).seen # "listed" /\ Again(r).paths = r.paths
    BY DEF Row, Requeue
  <2> HIDE DEF Again
  <2>3. row' \in [Track -> Row]
    BY <1>1, <2>1, <2>2
  <2>4. \A t \in Track : row[t] \in Row /\ row[t].paths \subseteq FilesOf(t)
    BY <1>1 DEF PathsOK
  <2> QED  BY <2>1, <2>2, <2>3, <2>4 DEF Aside
<1> QED  BY <1>4, <1>5, <1>6, <1>7, <1>8 DEF QueueStep

\* And the people.
LEMMA PeopleKeep == ASSUME SidecarInv, People PROVE SidecarInv'
<1>1. /\ Typed /\ AtHand
      /\ disk \in [Stem -> Sidecar] /\ audio \in [Stem -> Version]
      /\ unread \in [Stem -> 0 .. MaxVersion \cup {Never}] /\ row \in [Track -> Row]
      /\ results \subseteq Stem /\ removed \subseteq Stem /\ overruled \subseteq Track
      /\ sc \in Walk /\ bf \in Backfill
  BY DEF SidecarInv, Typed, SidecarTypeOK
<1>2. SUFFICES Gentle /\ audio' \in [Stem -> Version]
  <2>1. UNCHANGED <<unread, rows, wk, sc, rc, bf, cleared, overruled>>
    BY DEF People, ReplaceAudio, EditText, DeleteSidecars, history
  <2>2. Typed' /\ Aside
    BY <1>1, <1>2, <2>1, BystanderTypes, Untouched DEF Gentle, rows, AtHand
  <2> QED  BY <1>2, <2>1, <2>2, Bystander DEF SidecarInv
<1>3. PICK s \in Stem : ReplaceAudio(s) \/ EditText(s) \/ DeleteSidecars(s)
  BY DEF People
<1>4. CASE ReplaceAudio(s)
  <2>1. audio[s].id \in 0 .. MaxVersion /\ audio[s].id < MaxVersion /\ MaxVersion \in Nat
    BY <1>1, <1>4, SidecarAssumption DEF ReplaceAudio, Version
  <2>2. [id |-> audio[s].id + 1, failed |-> FALSE] \in Version
    BY <2>1 DEF Version
  <2>3. audio' \in [Stem -> Version]
    BY <1>1, <1>4, <2>2 DEF ReplaceAudio
  <2> QED  BY <1>1, <1>4, <2>3, Untouched DEF ReplaceAudio, history
<1>5. CASE EditText(s)
  <2>1. Put(s, "txt", "lyrics") /\ "lyrics" \in Txt /\ removed' = removed /\ audio' = audio
    BY <1>5 DEF EditText, Txt, history
  <2>2. /\ disk' \in [Stem -> Sidecar]
        /\ \A t \in Stem : t # s => disk'[t] = disk[t]
        /\ disk'[s].txt = "lyrics" /\ disk'[s].lrc = disk[s].lrc
    BY <1>1, <2>1, PutMoves
  <2> QED  BY <1>1, <2>1, <2>2 DEF Gentle
<1>6. CASE DeleteSidecars(s)
  <2>1. NoSidecar \in Sidecar /\ NoSidecar.txt = "absent"
    BY DEF NoSidecar, Sidecar, Lrc, Txt
  <2>2. disk' = [disk EXCEPT ![s] = NoSidecar] /\ removed' = removed \cup {s} /\ audio' = audio
    BY <1>6 DEF DeleteSidecars
  <2> QED  BY <1>1, <2>1, <2>2 DEF Gentle
<1> QED  BY <1>3, <1>4, <1>5, <1>6

-----------------------------------------------------------------------------
(* The worker *)

\* A step of the worker changes its own row, which is not done, and the files of
\* that row: what reconcile has listed and what is done belongs to others.
LEMMA OwnRow ==
    ASSUME SidecarInv, UNCHANGED rc, NEW t \in Track, row[t].status \in {"pending", "processing"},
           row' \in [Track -> Row], \A u \in Track : u # t => row'[u] = row[u],
           row'[t].paths = row[t].paths, row'[t].seen = row[t].seen,
           \A s \in Stem \ row[t].paths : disk'[s] = disk[s] /\ (s \in removed => s \in removed'),
           \A s \in Stem \ row[t].paths : s \in removed' => s \in removed,
           cleared' \subseteq cleared,
           \A s \in cleared' : disk'[s].txt = "marker" => disk[s].txt = "marker",
           row'[t].status = "done" /\ row'[t].end = "written" =>
             \A s \in row[t].paths : s \in removed' \/ HasSidecar(s)'
    PROVE  PathsOK' /\ ReconcileOK' /\ DoneHasSidecar' /\ VerdictFollowsMarker'
<1>1. /\ PathsOK /\ ReconcileOK /\ DoneHasSidecar /\ VerdictFollowsMarker /\ AtHand
      /\ \A u \in Track : row[u].paths \subseteq Stem
  BY Facts DEF SidecarInv, Safe
<1>2. row[t].seen # "listed"
  BY <1>1 DEF ReconcileOK, Instrumental
<1>3. ASSUME NEW u \in Track, u # t
      PROVE  \A s \in row[u].paths : disk'[s] = disk[s] /\ (s \in removed' <=> s \in removed)
  BY <1>1, <1>3 DEF PathsOK, FilesOf
<1>4. PathsOK'
  BY <1>1 DEF PathsOK, FilesOf
<1>5. ReconcileOK'
  <2>1. \A u \in Track : row'[u].seen = "listed" => u # t /\ row'[u] = row[u]
    BY <1>2
  <2>2. \A u \in Track : row'[u].seen = "listed" => Instrumental(row'[u])
    BY <1>1, <2>1 DEF ReconcileOK
  <2>3. rc.pc \in {"remove", "reset"} => rc.track \in Track
    BY <1>1 DEF AtHand
  <2>4. rc.pc \in {"remove", "reset"} /\ row'[rc.track].seen = "listed" =>
          \A s \in row'[rc.track].paths : disk'[s].txt = "marker" => s \in rc.marked
    BY <1>1, <1>3, <2>1, <2>3 DEF ReconcileOK
  <2> QED  BY <1>1, <2>2, <2>4 DEF ReconcileOK, Instrumental
<1>6. DoneHasSidecar'
  <2>1. SUFFICES ASSUME NEW u \in Track, row'[u].status = "done", row'[u].end = "written",
                        NEW s \in row'[u].paths \ removed'
                 PROVE  HasSidecar(s)'
    BY DEF DoneHasSidecar
  <2>2. CASE u = t
    BY <2>1, <2>2
  <2>3. CASE u # t
    BY <1>1, <1>3, <2>1, <2>3 DEF DoneHasSidecar, HasSidecar
  <2> QED  BY <2>2, <2>3
<1>7. VerdictFollowsMarker'
  BY <1>1 DEF VerdictFollowsMarker
<1> QED  BY <1>4, <1>5, <1>6, <1>7

\* The types after a step of the worker.
LEMMA WorkerTypes ==
    ASSUME Typed, disk' \in [Stem -> Sidecar], row' \in [Track -> Row],
           cached' \in [Track -> Kind \cup {"none"}], removed' \subseteq Stem,
           cleared' \subseteq Stem, overruled' \subseteq Track,
           UNCHANGED <<audio, unread, results, sc, rc, bf>>,
           wk' \in Writer, wk'.pc # "idle" => wk'.track \in Track,
           wk'.pc \in {"rename", "stale"} => wk'.stem \in Stem,
           wk'.pc \notin {"rename", "stale"} => wk'.stem = NoStem
    PROVE  Typed'
BY DEF Typed, SidecarTypeOK, AtHand

\* RunOnce returns: the row may look written only after all its writes.
LEMMA Settles ==
    ASSUME SidecarInv, wk.pc # "idle", NEW r \in Row, Settle(r), overruled' \subseteq overruled,
           r.paths = row[wk.track].paths, r.seen = row[wk.track].seen,
           r.status = "done" /\ r.end = "written" => wk.pc = "finish"
    PROVE  SidecarInv'
<1>1. /\ Typed /\ Safe /\ WriterOK /\ row \in [Track -> Row] /\ wk.track \in Track
      /\ row[wk.track].status = "processing" /\ wk.stem \in Stem \cup {NoStem}
      /\ overruled \subseteq Track /\ AtHand /\ row[wk.track].paths \subseteq Stem
      /\ cached \in [Track -> Kind \cup {"none"}]
      /\ disk \in [Stem -> Sidecar] /\ removed \subseteq Stem /\ cleared \subseteq Stem
  BY Facts DEF SidecarInv, Safe, WriterOK, AtHand, Typed, SidecarTypeOK, Writer
<1>2. /\ row' = [row EXCEPT ![wk.track] = r] /\ wk' = IdleWriter
      /\ UNCHANGED <<disk, audio, unread, cached, results, sc, rc, bf, removed, cleared>>
  BY DEF Settle, files
<1>3. /\ row' \in [Track -> Row] /\ row'[wk.track] = r
      /\ \A u \in Track : u # wk.track => row'[u] = row[u]
  BY <1>1, <1>2
<1>4. Typed'
  BY <1>1, <1>2, <1>3, IdleTypes, WorkerTypes
<1>5. WriterOK'
  BY <1>2, IdleTypes DEF WriterOK
<1>6. r.status = "done" /\ r.end = "written" =>
        \A s \in row[wk.track].paths : s \in removed' \/ HasSidecar(s)'
  <2>1. SUFFICES ASSUME wk.pc = "finish", NEW s \in row[wk.track].paths
                 PROVE  s \in removed' \/ HasSidecar(s)'
    OBVIOUS
  <2>2. wk.todo = {} /\ wk.stem = NoStem /\ s # NoStem
    BY <1>1, <2>1, SidecarAssumption DEF WriterOK, AtHand
  <2> QED  BY <1>1, <1>2, <2>1, <2>2 DEF WriterOK, HasSidecar
<1>7. PathsOK' /\ ReconcileOK' /\ DoneHasSidecar' /\ VerdictFollowsMarker'
  BY <1>1, <1>2, <1>3, <1>6, OwnRow
<1> QED  BY <1>4, <1>5, <1>7 DEF SidecarInv, Safe

\* A step that leaves rows and files alone and moves the worker on.
LEMMA Moves ==
    ASSUME SidecarInv, wk.pc # "idle", UNCHANGED <<disk, audio, unread, row, results, sc, rc, bf>>,
           UNCHANGED <<removed, cleared>>, cached' \in [Track -> Kind \cup {"none"}],
           overruled' \subseteq overruled, wk' \in Writer, wk'.track = wk.track, wk'.stem = NoStem,
           wk'.pc \notin {"rename", "stale"}, WriterOK'
    PROVE  SidecarInv'
<1>1. /\ Typed /\ Safe /\ WriterOK /\ row \in [Track -> Row] /\ wk.track \in Track
      /\ row[wk.track].status = "processing" /\ overruled \subseteq Track
      /\ disk \in [Stem -> Sidecar] /\ removed \subseteq Stem /\ cleared \subseteq Stem
  BY DEF SidecarInv, Safe, WriterOK, AtHand, Typed, SidecarTypeOK
<1>2. Typed'
  BY <1>1, WorkerTypes
<1>3. PathsOK' /\ ReconcileOK' /\ DoneHasSidecar' /\ VerdictFollowsMarker'
  BY <1>1, OwnRow
<1> QED  BY <1>2, <1>3 DEF SidecarInv, Safe

\* The destination at hand is written: the step leaves all others alone.
LEMMA Writes ==
    ASSUME SidecarInv, wk.pc # "idle", NEW s \in row[wk.track].paths, NEW side \in {"lrc", "txt"},
           NEW v, side = "lrc" => v \in Lrc, side = "txt" => v \in Txt,
           Put(s, side, v) \/ UNCHANGED disk, v = "marker" => s \notin cleared',
           removed' \cup {s} = removed \cup {s}, removed' \subseteq removed,
           cleared' \subseteq cleared,
           UNCHANGED <<audio, unread, rows, sc, rc, bf, overruled>>,
           wk' \in Writer, wk'.track = wk.track, wk'.stem = s \/ wk'.stem = NoStem,
           wk'.stem = s <=> wk'.pc \in {"rename", "stale"}, WriterOK'
    PROVE  SidecarInv'
<1>1. /\ Typed /\ Safe /\ WriterOK /\ row \in [Track -> Row] /\ wk.track \in Track
      /\ row[wk.track].status = "processing" /\ overruled \subseteq Track
      /\ disk \in [Stem -> Sidecar] /\ removed \subseteq Stem /\ cleared \subseteq Stem
      /\ row[wk.track].paths \subseteq Stem
      /\ cached \in [Track -> Kind \cup {"none"}]
  BY Facts DEF SidecarInv, Safe, WriterOK, AtHand, Typed, SidecarTypeOK
<1>2. s \in Stem /\ s # NoStem
  BY <1>1, SidecarAssumption
<1>3. /\ disk' \in [Stem -> Sidecar] /\ \A u \in Stem : u # s => disk'[u] = disk[u]
      /\ disk'[s].txt = "marker" => disk[s].txt = "marker" \/ v = "marker"
  <2>1. CASE UNCHANGED disk
    BY <1>1, <2>1
  <2>2. CASE Put(s, side, v)
    <3>1. /\ disk' \in [Stem -> Sidecar]
          /\ \A t \in Stem : t # s => disk'[t] = disk[t]
          /\ side = "lrc" => disk'[s].lrc = v /\ disk'[s].txt = disk[s].txt
          /\ side = "txt" => disk'[s].txt = v /\ disk'[s].lrc = disk[s].lrc
      BY <1>1, <1>2, <2>2, PutMoves
    <3> QED  BY <3>1
  <2> QED  BY <2>1, <2>2
<1>4. Typed'
  BY <1>1, <1>2, <1>3, WorkerTypes DEF rows
<1>5. PathsOK' /\ ReconcileOK' /\ DoneHasSidecar' /\ VerdictFollowsMarker'
  <2>1. UNCHANGED <<row, rc>>
    BY DEF rows
  <2>2. \A u \in Stem \ row[wk.track].paths :
          disk'[u] = disk[u] /\ (u \in removed => u \in removed')
    BY <1>3
  <2>3. \A u \in cleared' : disk'[u].txt = "marker" => disk[u].txt = "marker"
    BY <1>1, <1>3
  <2> QED  BY <1>1, <2>1, <2>2, <2>3, OwnRow
<1> QED  BY <1>4, <1>5 DEF SidecarInv, Safe

\* The steps of the worker, also the ones that fail, keep the invariant.
LEMMA WorkerKeeps == ASSUME SidecarInv, WorkerStep PROVE SidecarInv'
<1>1. /\ Typed /\ Safe /\ WriterOK /\ AtHand /\ wk \in Writer /\ row \in [Track -> Row]
      /\ wk.pc # "idle" => /\ wk.track \in Track /\ row[wk.track] \in Row
                           /\ row[wk.track].paths \subseteq Stem
                           /\ row[wk.track].status = "processing"
      /\ disk \in [Stem -> Sidecar] /\ removed \subseteq Stem /\ cleared \subseteq Stem
      /\ cached \in [Track -> Kind \cup {"none"}] /\ overruled \subseteq Track
      /\ wk.kind \in Kind /\ wk.todo \subseteq Stem
  BY Facts DEF SidecarInv, Safe, WriterOK, AtHand, Typed, SidecarTypeOK
<1>2. CASE \E t \in Track : ClaimRow(t)
  <2>1. PICK t \in Track : ClaimRow(t)
    BY <1>2
  <2> DEFINE q == [row[t] EXCEPT !.status = "processing"]
  <2>2. q \in Row /\ q.status = "processing" /\ q.paths = row[t].paths /\ q.seen = row[t].seen
    BY <1>1 DEF Row
  <2> HIDE DEF q
  <2>3. row' = [row EXCEPT ![t] = q] /\ row[t].status = "pending"
    BY <2>1 DEF ClaimRow, q
  <2>4. /\ row' \in [Track -> Row] /\ row'[t] = q
        /\ \A u \in Track : u # t => row'[u] = row[u]
    BY <1>1, <2>2, <2>3
  <2>5. wk' \in Writer /\ wk'.pc = "song" /\ wk'.track = t /\ wk'.stem = NoStem /\ wk'.todo = {}
    BY <2>1 DEF ClaimRow, IdleWriter, Writer, Kind
  <2>6. UNCHANGED <<disk, audio, unread, cached, results, sc, rc, bf, removed, cleared, overruled>>
    BY <2>1 DEF ClaimRow, files, history
  <2>7. Typed'
    BY <1>1, <2>4, <2>5, <2>6, WorkerTypes
  <2>8. PathsOK' /\ ReconcileOK' /\ DoneHasSidecar' /\ VerdictFollowsMarker'
    BY <2>2, <2>3, <2>4, <2>6, OwnRow
  <2>9. WriterOK'
    BY <2>2, <2>4, <2>5 DEF WriterOK
  <2> QED  BY <2>7, <2>8, <2>9 DEF SidecarInv, Safe
<1>3. CASE SongCached \/ SongFetched \/ SongDetected
  <2>1. PICK kind \in Kind, d \in BOOLEAN : WriteSong(kind, d)
    BY <1>1, <1>3 DEF SongCached, SongFetched, SongDetected, Answered, Kind
  <2>2. wk.pc = "song" /\ wk.stem = NoStem
    BY <1>1, <1>3 DEF SongCached, SongFetched, SongDetected, AtHand
  <2>3. /\ wk' \in Writer /\ wk'.pc = "write" /\ wk'.track = wk.track /\ wk'.stem = NoStem
        /\ wk'.todo = row[wk.track].paths
    BY <1>1, <2>1, <2>2 DEF WriteSong, Writer
  <2>4. /\ UNCHANGED <<disk, audio, unread, row, results, sc, rc, bf, removed, cleared>>
        /\ cached' \in [Track -> Kind \cup {"none"}] /\ overruled' \subseteq overruled
    BY <1>1, <1>3, <2>2
    DEF SongCached, SongFetched, SongDetected, Kind, files, rows, history
  <2>5. WriterOK'
    BY <1>1, <2>2, <2>3, <2>4 DEF WriterOK
  <2> QED  BY <2>2, <2>3, <2>4, <2>5, Moves
<1>4. CASE GuardRejects \/ SongMissed \/ GiveUp \/ WriteFails \/ CompleteRow
  <2>1. wk.pc # "idle" /\ overruled' \subseteq overruled
    BY <1>4 DEF GuardRejects, SongMissed, GiveUp, WriteFails, CompleteRow
  <2>2. \A r \in Row : /\ Requeue(r) \in Row /\ Requeue(r).status = "pending"
                       /\ Requeue(r).paths = r.paths /\ Requeue(r).seen = r.seen
                       /\ \A how \in {"written", "guard", "limit"} :
                            /\ Finish(r, how) \in Row /\ Finish(r, how).end = how
                            /\ Finish(r, how).paths = r.paths /\ Finish(r, how).seen = r.seen
    BY DEF Row, Requeue, Finish
  <2>3. PICK r \in Row : /\ Settle(r)
                         /\ r.paths = row[wk.track].paths /\ r.seen = row[wk.track].seen
                         /\ r.status = "done" /\ r.end = "written" => wk.pc = "finish"
    <3>1. CASE GuardRejects
      BY <1>1, <2>1, <2>2, <3>1 DEF GuardRejects
    <3>2. CASE SongMissed
      <4>1. PICK instr \in {row[wk.track].instr, FALSE} :
              \E r \in requeueDeferred([row[wk.track] EXCEPT !.instr = instr]) : Settle(r)
        BY <3>2 DEF SongMissed
      <4> DEFINE q == [row[wk.track] EXCEPT !.instr = instr]
      <4>2. q \in Row /\ q.paths = row[wk.track].paths /\ q.seen = row[wk.track].seen
        BY <1>1, <2>1 DEF Row
      <4> HIDE DEF q
      <4>3. Settle(Requeue(q)) \/ Settle(Finish(q, "limit"))
        BY <4>1 DEF requeueDeferred, q
      <4> QED  BY <2>2, <4>2, <4>3
    <3>3. CASE GiveUp
      BY <1>1, <2>1, <2>2, <3>3 DEF GiveUp
    <3>4. CASE WriteFails
      <4>1. Settle(Requeue(row[wk.track])) \/ Settle(Finish(row[wk.track], "limit"))
        BY <3>4 DEF WriteFails, requeueDeferred
      <4> QED  BY <1>1, <2>1, <2>2, <4>1
    <3>5. CASE CompleteRow
      <4>1. /\ wk.pc = "finish"
            /\ Settle(Requeue(row[wk.track])) \/ Settle(Finish(row[wk.track], "written"))
        BY <3>5 DEF CompleteRow
      <4> QED  BY <1>1, <2>1, <2>2, <4>1
    <3> QED  BY <1>4, <3>1, <3>2, <3>3, <3>4, <3>5
  <2> QED  BY <2>1, <2>3, Settles
<1>5. CASE RemoveExisting
  <2>1. PICK s \in wk.todo :
          /\ Put(s, Target(wk.kind), "absent")
          /\ wk' = [wk EXCEPT !.pc = "rename", !.todo = wk.todo \ {s}, !.stem = s]
    BY <1>5 DEF RemoveExisting
  <2>2. /\ wk.pc = "write" /\ wk.stem = NoStem /\ s \in row[wk.track].paths
        /\ wk.todo \subseteq row[wk.track].paths /\ s \in Stem
        /\ UNCHANGED <<audio, unread, rows, sc, rc, bf, removed, cleared, overruled>>
    BY <1>1, <1>5 DEF RemoveExisting, WriterOK, AtHand, history
  <2>3. /\ wk' \in Writer /\ wk'.pc = "rename" /\ wk'.track = wk.track /\ wk'.stem = s
        /\ wk'.todo = wk.todo \ {s}
    BY <1>1, <2>1, <2>2 DEF Writer
  <2>4. Target(wk.kind) \in {"lrc", "txt"} /\ "absent" \in Lrc /\ "absent" \in Txt
    BY DEF Target, Lrc, Txt
  <2>5. \A u \in Stem : u # s => disk'[u] = disk[u]
    BY <1>1, <2>1, <2>2, <2>4, PutMoves
  <2>6. WriterOK'
    <3>1. \A u \in row[wk.track].paths \ ((wk.todo \ {s}) \cup {s}) :
            u \in removed' \/ HasSidecar(u)'
      BY <1>1, <2>2, <2>5, SidecarAssumption DEF WriterOK, HasSidecar
    <3> QED  BY <1>1, <2>2, <2>3, <3>1 DEF WriterOK, rows
  <2> QED  BY <2>1, <2>2, <2>3, <2>4, <2>6, Writes
<1>6. CASE RenameTemp
  <2> DEFINE side == Target(wk.kind)
             text == Content(wk.kind)
  <2>1. /\ wk.pc = "rename" /\ wk.stem \in row[wk.track].paths /\ wk.stem \in Stem
        /\ Put(wk.stem, side, text)
        /\ removed' = removed \ {wk.stem} /\ cleared' = cleared \ {wk.stem}
        /\ UNCHANGED <<audio, unread, rows, sc, rc, bf, overruled>>
    BY <1>1, <1>6 DEF RenameTemp, WriterOK, AtHand
  <2>2. /\ wk' \in Writer /\ wk'.pc = "stale" /\ wk'.track = wk.track /\ wk'.stem = wk.stem
        /\ wk'.todo = wk.todo /\ wk'.kind = wk.kind
    BY <1>1, <1>6 DEF RenameTemp, Writer
  <2>3. /\ side \in {"lrc", "txt"} /\ text # "absent"
        /\ side = "lrc" => text \in Lrc
        /\ side = "txt" => text \in Txt
    BY <1>1 DEF Target, Content, Kind, Lrc, Txt
  <2>4. /\ \A u \in Stem : u # wk.stem => disk'[u] = disk[u]
        /\ disk'[wk.stem][Target(wk.kind)] # "absent"
    <3> HIDE DEF side, text
    <3>1. /\ \A u \in Stem : u # wk.stem => disk'[u] = disk[u]
          /\ side = "lrc" => disk'[wk.stem].lrc = text
          /\ side = "txt" => disk'[wk.stem].txt = text
      BY <1>1, <2>1, <2>3, PutMoves
    <3> QED  BY <2>3, <3>1 DEF side
  <2>5. WriterOK'
    <3>1. \A u \in row[wk.track].paths \ (wk.todo \cup {wk.stem}) : u \in removed' \/ HasSidecar(u)'
      BY <1>1, <2>1, <2>4 DEF WriterOK, HasSidecar
    <3> QED  BY <1>1, <2>1, <2>2, <2>4, <3>1 DEF WriterOK, rows
  <2> HIDE DEF side, text
  <2> QED  BY <2>1, <2>2, <2>3, <2>5, Writes
<1>7. CASE RemoveStale
  <2>1. /\ wk.pc = "stale" /\ wk.stem \in row[wk.track].paths /\ wk.stem \in Stem
        /\ wk.todo \subseteq row[wk.track].paths
        /\ Put(wk.stem, Opposite(wk.kind), "absent") \/ UNCHANGED disk
        /\ UNCHANGED <<audio, unread, rows, sc, rc, bf, removed, cleared, overruled>>
    BY <1>1, <1>7 DEF RemoveStale, WriterOK, AtHand, history
  <2>2. /\ wk' \in Writer /\ wk'.pc = AfterWrite /\ wk'.track = wk.track /\ wk'.stem = NoStem
        /\ wk'.todo = wk.todo
    BY <1>1, <1>7 DEF RemoveStale, AfterWrite, Writer
  <2>3. Opposite(wk.kind) \in {"lrc", "txt"} /\ "absent" \in Lrc /\ "absent" \in Txt
    BY DEF Opposite, Lrc, Txt
  <2>4. /\ \A u \in Stem : u # wk.stem => disk'[u] = disk[u]
        /\ disk'[wk.stem][Target(wk.kind)] = disk[wk.stem][Target(wk.kind)]
    <3>1. CASE UNCHANGED disk
      BY <3>1
    <3>2. CASE Put(wk.stem, Opposite(wk.kind), "absent")
      <4>1. /\ \A u \in Stem : u # wk.stem => disk'[u] = disk[u]
            /\ Opposite(wk.kind) = "lrc" => disk'[wk.stem].txt = disk[wk.stem].txt
            /\ Opposite(wk.kind) = "txt" => disk'[wk.stem].lrc = disk[wk.stem].lrc
        BY <1>1, <2>1, <2>3, <3>2, PutMoves
      <4> QED  BY <4>1 DEF Opposite, Target
    <3> QED  BY <2>1, <3>1, <3>2
  <2>5. /\ wk.stem \in removed \/ disk[wk.stem][Target(wk.kind)] # "absent"
        /\ \A u \in row[wk.track].paths \ (wk.todo \cup {wk.stem}) :
             u \in removed \/ disk[u].lrc # "absent" \/ disk[u].txt # "absent"
    BY <1>1, <2>1 DEF WriterOK, HasSidecar
  <2>6. \/ wk.stem \in removed'
        \/ disk'[wk.stem].lrc # "absent" \/ disk'[wk.stem].txt # "absent"
    <3>1. wk.stem \in removed \/ disk'[wk.stem][Target(wk.kind)] # "absent"
      BY <2>4, <2>5
    <3> QED  BY <2>1, <3>1 DEF Target
  <2>7. WriterOK'
    <3>1. \A u \in row[wk.track].paths \ (wk.todo \cup {NoStem}) : u \in removed' \/ HasSidecar(u)'
      BY <1>1, <2>1, <2>4, <2>6, <2>5 DEF HasSidecar
    <3> QED  BY <1>1, <2>1, <2>2, <3>1 DEF WriterOK, AfterWrite, rows
  <2>8. wk'.pc \notin {"rename", "stale"} /\ wk.stem # NoStem
    BY <2>1, <2>2, SidecarAssumption DEF AfterWrite
  <2> QED  BY <2>1, <2>2, <2>3, <2>7, <2>8, Writes
<1>8. CASE StampVerdict
  <2> DEFINE q == [row[wk.track] EXCEPT !.instr = TRUE]
  <2>1. wk.pc = "stamp" /\ wk.stem = NoStem /\ wk.track \in Track
    BY <1>1, <1>8 DEF StampVerdict, AtHand
  <2>2. /\ q \in Row /\ q.status = "processing" /\ q.paths = row[wk.track].paths
        /\ q.seen = row[wk.track].seen
    BY <1>1, <2>1 DEF Row
  <2> HIDE DEF q
  <2>3. row' = [row EXCEPT ![wk.track] = q] \/ row' = row
    BY <1>8 DEF StampVerdict, q
  <2>4. /\ row' \in [Track -> Row] /\ \A u \in Track : u # wk.track => row'[u] = row[u]
        /\ row'[wk.track].paths = row[wk.track].paths /\ row'[wk.track].seen = row[wk.track].seen
        /\ row'[wk.track].status = "processing"
    BY <1>1, <2>1, <2>2, <2>3
  <2>5. /\ wk' \in Writer /\ wk'.pc = "finish" /\ wk'.track = wk.track /\ wk'.stem = NoStem
        /\ wk'.todo = wk.todo
    BY <1>1, <1>8, <2>1 DEF StampVerdict, Writer
  <2>6. UNCHANGED <<disk, audio, unread, cached, results, sc, rc, bf, removed, cleared, overruled>>
    BY <1>8 DEF StampVerdict, files, history
  <2>7. Typed'
    BY <1>1, <2>1, <2>4, <2>5, <2>6, WorkerTypes
  <2>8. PathsOK' /\ ReconcileOK' /\ DoneHasSidecar' /\ VerdictFollowsMarker'
    BY <1>1, <2>1, <2>4, <2>6, OwnRow
  <2>9. WriterOK'
    BY <1>1, <2>1, <2>4, <2>5, <2>6 DEF WriterOK, HasSidecar
  <2> QED  BY <2>7, <2>8, <2>9 DEF SidecarInv, Safe
<1>9. CASE WorkerDies
  <2>1. /\ wk.pc # "idle" /\ wk' = IdleWriter
        /\ UNCHANGED <<disk, audio, unread, row, cached, results, sc, rc, bf, removed, cleared>>
        /\ overruled' = overruled
    BY <1>9 DEF WorkerDies, files, rows, history
  <2>2. Typed' /\ WriterOK'
    BY <1>1, <2>1, IdleTypes, WorkerTypes DEF WriterOK
  <2>3. PathsOK' /\ ReconcileOK' /\ DoneHasSidecar' /\ VerdictFollowsMarker'
    BY <1>1, <2>1, OwnRow
  <2> QED  BY <2>2, <2>3 DEF SidecarInv, Safe
<1> QED  BY <1>2, <1>3, <1>4, <1>5, <1>6, <1>7, <1>8, <1>9 DEF WorkerStep

-----------------------------------------------------------------------------
(* The reconcile command *)

\* The types after a step of reconcile.
LEMMA ReconcileTypes ==
    ASSUME Typed, disk' \in [Stem -> Sidecar], row' \in [Track -> Row],
           results' \subseteq Stem, removed' \subseteq Stem, cleared' \subseteq Stem,
           overruled' \subseteq Track, UNCHANGED <<audio, unread, cached, wk, sc, bf>>,
           rc' \in Reconcile, rc'.pc \in {"check", "remove", "reset"} => rc'.track \in Track
    PROVE  Typed'
BY DEF Typed, SidecarTypeOK, AtHand

\* The steps of reconcile keep the invariant.
LEMMA ReconcileKeeps == ASSUME SidecarInv, ReconcileStep PROVE SidecarInv'
<1>1. /\ Typed /\ PathsOK /\ ReconcileOK /\ VerdictFollowsMarker /\ AtHand
      /\ rc \in Reconcile /\ rc.todo \subseteq Track /\ rc.marked \subseteq Stem
      /\ row \in [Track -> Row] /\ disk \in [Stem -> Sidecar]
      /\ \A t \in Track : row[t] \in Row /\ row[t].paths \subseteq Stem
      /\ results \subseteq Stem /\ removed \subseteq Stem /\ cleared \subseteq Stem
      /\ overruled \subseteq Track
  BY Facts DEF SidecarInv, Safe, Typed, SidecarTypeOK, Reconcile
<1>2. SUFFICES /\ Gentle /\ Marked /\ ReconcileOK' /\ VerdictFollowsMarker'
               /\ results' \subseteq Stem /\ cleared' \subseteq Stem /\ overruled' \subseteq Track
               /\ rc' \in Reconcile
               /\ (rc'.pc \in {"check", "remove", "reset"} => rc'.track \in Track)
  <2>1. UNCHANGED <<audio, unread, cached, wk, sc, bf>>
    BY DEF ReconcileStep, ReconcileLists, LeaveRow, FindMarkers, RemoveMarker, ResetRow,
           ReconcileEnds, Disagrees, files, rows
  <2>2. Typed'
    BY <1>1, <1>2, <2>1, ReconcileTypes DEF Gentle, Marked
  <2> QED  BY <1>2, <2>1, <2>2, Others DEF SidecarInv, Safe
<1>3. ASSUME UNCHANGED <<disk, removed, cleared, results, overruled>>
      PROVE  /\ Gentle /\ VerdictFollowsMarker' /\ results' \subseteq Stem
             /\ cleared' \subseteq Stem /\ overruled' \subseteq Track
  BY <1>1, <1>3, Untouched DEF VerdictFollowsMarker
<1>4. ASSUME UNCHANGED row
      PROVE  Marked /\ \A t \in Track : row'[t].seen = "listed" => Instrumental(row'[t])
  BY <1>1, <1>4 DEF Marked, ReconcileOK
<1>5. ASSUME NEW m \in {"no", "listed", "again"}, NEW r \in Row
      PROVE  /\ [r EXCEPT !.seen = m] \in Row /\ [r EXCEPT !.seen = m].status = r.status
             /\ [r EXCEPT !.seen = m].paths = r.paths /\ [r EXCEPT !.seen = m].end = r.end
             /\ [r EXCEPT !.seen = m].instr = r.instr /\ [r EXCEPT !.seen = m].seen = m
  BY DEF Row
<1>6. CASE ReconcileLists
  <2>1. PICK some \in SUBSET {t \in Track : Instrumental(row[t])} :
          /\ rc' = [IdleReconcile EXCEPT !.pc = "detect", !.todo = some]
          /\ row' = [t \in Track |-> IF t \in some THEN [row[t] EXCEPT !.seen = "listed"]
                                     ELSE row[t]]
    BY <1>6 DEF ReconcileLists
  <2>2. rc' \in Reconcile /\ rc'.pc = "detect"
    BY <2>1, IdleTypes DEF Reconcile
  <2>3. Marked
    BY <1>1, <1>5, <2>1 DEF Marked
  <2>4. \A t \in Track : row'[t].seen = "listed" => Instrumental(row'[t])
    BY <1>1, <1>5, <2>1 DEF ReconcileOK, Instrumental
  <2>5. ReconcileOK'
    BY <2>2, <2>4 DEF ReconcileOK, Instrumental
  <2> QED  BY <1>3, <1>6, <2>2, <2>3, <2>5 DEF ReconcileLists, files, history
<1>7. CASE LeaveRow
  <2>1. rc' \in Reconcile /\ rc'.pc = "detect"
    BY <1>1, <1>7 DEF LeaveRow, NextCandidate, Reconcile
  <2>2. UNCHANGED <<disk, row, removed, cleared, results, overruled>>
    BY <1>7 DEF LeaveRow, files, rows, history
  <2>3. ReconcileOK'
    BY <1>4, <2>1, <2>2 DEF ReconcileOK, Instrumental
  <2> QED  BY <1>3, <1>4, <2>1, <2>2, <2>3
<1>8. CASE \E t \in Track : Disagrees(t)
  <2>1. PICK t \in Track : Disagrees(t)
    BY <1>8
  <2>2. rc' \in Reconcile /\ rc'.pc = "check" /\ rc'.track = t
    BY <1>1, <2>1 DEF Disagrees, Reconcile
  <2>3. UNCHANGED <<disk, row, removed, cleared, results, overruled>>
    BY <2>1 DEF Disagrees, files, rows, history
  <2>4. ReconcileOK'
    BY <1>4, <2>2, <2>3 DEF ReconcileOK, Instrumental
  <2> QED  BY <1>3, <1>4, <2>2, <2>3, <2>4
<1>9. CASE FindMarkers
  <2>1. PICK paths \in Listed(rc.track) :
          rc' = [rc EXCEPT !.pc = "remove", !.marked = {s \in paths : disk[s].txt = "marker"}]
    BY <1>9 DEF FindMarkers
  <2>2. rc.pc = "check" /\ rc.track \in Track
    BY <1>1, <1>9 DEF FindMarkers, AtHand
  <2>3. paths \subseteq Stem /\ (row[rc.track].seen = "listed" => paths = row[rc.track].paths)
    BY <1>1, <2>2 DEF Listed, FilesOf
  <2>4. /\ rc' \in Reconcile /\ rc'.pc = "remove" /\ rc'.track = rc.track
        /\ rc'.marked = {s \in paths : disk[s].txt = "marker"}
    BY <1>1, <2>1, <2>2, <2>3 DEF Reconcile
  <2>5. UNCHANGED <<disk, row, removed, cleared, results, overruled>>
    BY <1>9 DEF FindMarkers, files, rows, history
  <2>6. ReconcileOK'
    BY <1>4, <2>3, <2>4, <2>5 DEF ReconcileOK, Instrumental
  <2> QED  BY <1>3, <1>4, <2>2, <2>4, <2>5, <2>6
<1>10. CASE RemoveMarker
  <2>1. PICK s \in rc.marked : /\ Put(s, "txt", "absent") /\ AfterRemoval(s)
                               /\ removed' = removed \cup {s}
    BY <1>10 DEF RemoveMarker
  <2>2. rc.pc = "remove" /\ rc.track \in Track /\ s \in Stem /\ "absent" \in Txt
    BY <1>1, <1>10 DEF RemoveMarker, AtHand, Txt
  <2>3. /\ disk' \in [Stem -> Sidecar]
        /\ \A u \in Stem : u # s => disk'[u] = disk[u]
        /\ disk'[s].txt = "absent" /\ disk'[s].lrc = disk[s].lrc
    BY <1>1, <2>1, <2>2, PutMoves
  <2>4. /\ rc' \in Reconcile /\ rc'.pc = (IF rc.marked = {s} THEN "reset" ELSE "remove")
        /\ rc'.track = rc.track /\ rc'.marked = rc.marked \ {s}
    BY <1>1, <2>1 DEF AfterRemoval, Reconcile
  <2>5. UNCHANGED <<row, cleared, results, overruled>>
    BY <1>10 DEF RemoveMarker, rows
  <2>6. Gentle
    BY <1>1, <2>1, <2>2, <2>3 DEF Gentle
  <2>7. ReconcileOK'
    <3>1. row[rc.track].seen = "listed" =>
            \A u \in row[rc.track].paths : disk'[u].txt = "marker" => u \in rc.marked \ {s}
      BY <1>1, <2>2, <2>3 DEF ReconcileOK
    <3> QED  BY <1>4, <2>4, <2>5, <3>1 DEF ReconcileOK, Instrumental
  <2>8. VerdictFollowsMarker'
    BY <1>1, <2>3, <2>5 DEF VerdictFollowsMarker
  <2> QED  BY <1>1, <1>4, <2>2, <2>4, <2>5, <2>6, <2>7, <2>8
<1>11. CASE ResetRow
  <2> DEFINE r == row[rc.track]
             q == [Requeue(r) EXCEPT !.instr = FALSE, !.end = "none", !.seen = "no"]
  <2>1. rc.pc = "reset" /\ rc.track \in Track /\ rc.marked = {}
    BY <1>1, <1>11 DEF ResetRow, AtHand, ReconcileOK
  <2>2. rc' \in Reconcile /\ rc'.pc = "detect"
    BY <1>1, <1>11 DEF ResetRow, NextCandidate, Reconcile
  <2>3. UNCHANGED <<disk, removed>>
    BY <1>11 DEF ResetRow, files
  <2>4. CASE UNCHANGED <<row, results, cleared, overruled>>
    <3>1. ReconcileOK'
      BY <1>4, <2>2, <2>4 DEF ReconcileOK, Instrumental
    <3> QED  BY <1>3, <1>4, <2>2, <2>3, <2>4, <3>1
  <2>5. CASE r.seen # "no" /\ Instrumental(r)
    <3>1. /\ row' = [row EXCEPT ![rc.track] = q] /\ overruled' = overruled \cup {rc.track}
          /\ cleared' = IF r.seen = "listed" THEN cleared \cup r.paths ELSE cleared
          /\ \E linked \in SUBSET r.paths : results' = results \cup linked
      BY <1>11, <2>5 DEF ResetRow
    <3>2. /\ q \in Row /\ q.status = "pending" /\ q.seen = "no" /\ q.paths = r.paths
          /\ r.status = "done"
      <4>1. r \in Row
        BY <1>1, <2>1
      <4>2. r.status = "done"
        BY <2>5 DEF Instrumental
      <4> HIDE DEF r
      <4> QED  BY <4>1, <4>2 DEF Row, Requeue
    <3> HIDE DEF q
    <3>3. /\ row' \in [Track -> Row] /\ row'[rc.track] = q
          /\ \A u \in Track : u # rc.track => row'[u] = row[u]
      BY <1>1, <2>1, <3>1, <3>2
    <3>4. Marked
      BY <1>1, <3>2, <3>3 DEF Marked, PathsOK
    <3>5. \A t \in Track : row'[t].seen = "listed" => Instrumental(row'[t])
      BY <1>1, <3>2, <3>3 DEF ReconcileOK
    <3>6. ReconcileOK'
      BY <2>2, <3>5 DEF ReconcileOK, Instrumental
    <3>7. VerdictFollowsMarker'
      <4>1. r.seen = "listed" => \A s \in r.paths : disk[s].txt # "marker"
        BY <1>1, <2>1 DEF ReconcileOK
      <4> QED  BY <1>1, <2>3, <3>1, <4>1 DEF VerdictFollowsMarker
    <3>8. results' \subseteq Stem /\ cleared' \subseteq Stem /\ overruled' \subseteq Track
      BY <1>1, <2>1, <3>1
    <3> QED  BY <1>1, <2>2, <2>3, <3>4, <3>6, <3>7, <3>8, Untouched
  <2> QED  BY <1>11, <2>4, <2>5 DEF ResetRow
<1>12. CASE ReconcileEnds
  <2>1. row' = [t \in Track |-> [row[t] EXCEPT !.seen = "no"]] /\ rc' = IdleReconcile
    BY <1>12 DEF ReconcileEnds
  <2>2. Marked /\ \A t \in Track : row'[t].seen = "no"
    BY <1>1, <1>5, <2>1 DEF Marked
  <2>3. ReconcileOK'
    BY <2>1, <2>2, IdleTypes DEF ReconcileOK, Instrumental
  <2> QED  BY <1>3, <1>12, <2>1, <2>2, <2>3, IdleTypes DEF ReconcileEnds, files, history
<1> QED  BY <1>6, <1>7, <1>8, <1>9, <1>10, <1>11, <1>12 DEF ReconcileStep

-----------------------------------------------------------------------------
(* The theorems *)

\* The invariant holds at the start.
LEMMA SidecarStarts == SidecarInit => SidecarInv
<1> SUFFICES ASSUME SidecarInit PROVE SidecarInv
  OBVIOUS
<1>1. /\ NoSidecar \in Sidecar /\ [NoSidecar EXCEPT !.lrc = "plainheader"] \in Sidecar
      /\ [NoSidecar EXCEPT !.txt = "noted"] \in Sidecar
  BY DEF NoSidecar, Sidecar, Lrc, Txt
<1>2. disk \in [Stem -> Sidecar]
  BY <1>1 DEF SidecarInit
<1>3. 0 \in 0 .. MaxVersion
  BY SidecarAssumption
<1>4. audio \in [Stem -> Version] /\ unread \in [Stem -> 0 .. MaxVersion \cup {Never}]
  BY <1>3 DEF SidecarInit, Version
<1>5. NoRow \in Row /\ NoRow.status = "absent" /\ NoRow.paths = {} /\ NoRow.seen = "no"
  BY DEF NoRow, Row
<1>6. row \in [Track -> Row] /\ cached \in [Track -> Kind \cup {"none"}]
  BY <1>5 DEF SidecarInit
<1>7. Typed
  BY <1>2, <1>4, <1>6, IdleTypes DEF SidecarInit, Typed, SidecarTypeOK, AtHand
<1>8. Safe
  BY <1>5, IdleTypes
  DEF SidecarInit, Safe, PathsOK, WriterOK, ReconcileOK, DoneHasSidecar, VerdictFollowsMarker
<1> QED  BY <1>7, <1>8 DEF SidecarInv

\* The invariant is inductive.
LEMMA SidecarStep == ASSUME SidecarInv, [SidecarNext]_sidecarVars PROVE SidecarInv'
<1>1. CASE UNCHANGED sidecarVars
  BY <1>1 DEF sidecarVars, files, rows, history, SidecarInv, Typed, SidecarTypeOK, AtHand, Safe,
              PathsOK, WriterOK, ReconcileOK, DoneHasSidecar, VerdictFollowsMarker, HasSidecar,
              Instrumental
<1> QED  BY <1>1, WorkerKeeps, ScanKeeps, ReconcileKeeps, BackfillKeeps, QueueKeeps, PeopleKeep
         DEF SidecarNext

\* The rows, the sidecars and the progress of the worker, the walk and the two
\* commands keep their types.
THEOREM SidecarTypeTheorem == SidecarSpec => []SidecarTypeOK
<1>1. SidecarInv => SidecarTypeOK
  BY DEF SidecarInv, Typed
<1> QED  BY <1>1, SidecarStarts, SidecarStep, PTL DEF SidecarSpec

\* A row that Complete finished after its writes has a sidecar at each of its
\* destinations as long as no person and no reconcile takes it away: neither a
\* write that fails or dies between removing the old file and renaming the new
\* one, at any of the destinations, nor a retired or rejected row, nor a
\* Complete that fails, nor the walk or the backfill in between looks written
\* without.
THEOREM DoneTheorem == SidecarSpec => []DoneHasSidecar
<1>1. SidecarInv => DoneHasSidecar
  BY DEF SidecarInv, Safe
<1> QED  BY <1>1, SidecarStarts, SidecarStep, PTL DEF SidecarSpec

\* `scan reconcile` clears the verdict of a row only with the exact markers of
\* all its destinations gone, and only a worker's new write puts one back.
THEOREM VerdictTheorem == SidecarSpec => []VerdictFollowsMarker
<1>1. SidecarInv => VerdictFollowsMarker
  BY DEF SidecarInv, Safe
<1> QED  BY <1>1, SidecarStarts, SidecarStep, PTL DEF SidecarSpec

\* The walk's embedded-lyrics extraction creates sidecars and changes none,
\* whatever appeared at the path after it looked.
THEOREM ScanKeepsTheorem == SidecarSpec => ScanKeepsSidecars
<1> DEFINE Kept == \A s \in Stem, side \in {"lrc", "txt"} :
                     sc' # sc /\ disk[s][side] # "absent" => disk'[s][side] = disk[s][side]
<1>1. SidecarInv /\ [SidecarNext]_sidecarVars => [Kept]_sidecarVars
  <2> SUFFICES ASSUME SidecarInv, SidecarNext, sc' # sc PROVE Kept
    OBVIOUS
  <2>1. CASE LinkSidecar
    BY <2>1, Linked DEF SidecarInv
  <2>2. CASE ~LinkSidecar
    <3>1. CASE ScanStep
      BY <2>2, <3>1
      DEF ScanStep, StartScan, CannotOpen, TagsUnreadable, RecordFailure, TagsRead, ExtractFails,
          ScanReturns, ScanAborts, PassOver, OpenFile, EnqueueResult, files
    <3>2. CASE ~ScanStep
      BY <3>2
      DEF SidecarNext, WorkerStep, ClaimRow, SongCached, SongFetched, GuardRejects, SongDetected,
          SongMissed, GiveUp, RemoveExisting, RenameTemp, RemoveStale, WriteFails, StampVerdict,
          CompleteRow, WorkerDies, Settle, ReconcileStep, ReconcileLists, LeaveRow, Disagrees,
          FindMarkers, RemoveMarker, ResetRow, ReconcileEnds, BackfillStep, BackfillPlans,
          RenameTagged, BackfillEnds, ReadHeader, QueueStep, Notify, CancelRow, TrimRow, ClearDone,
          RecheckRetired, Delete, People, ReplaceAudio, EditText, DeleteSidecars
    <3> QED  BY <3>1, <3>2
  <2> QED  BY <2>1, <2>2
<1> QED  BY <1>1, SidecarStarts, SidecarStep, PTL DEF SidecarSpec, ScanKeepsSidecars

-----------------------------------------------------------------------------
(* The list of unreadable files *)

\* No record is ahead of its file, nor the identity in the walk's hands, and the
\* walk is about to record a version that is still there only if it failed.
SkipInv ==
    /\ SkipsOnlyFailed
    /\ \A s \in Stem : unread[s] # Never => unread[s] <= audio[s].id
    /\ sc.pc \in {"read", "record"} /\ sc.id # Never => sc.id <= audio[sc.stem].id
    /\ sc.pc = "record" /\ sc.id = audio[sc.stem].id => audio[sc.stem].failed

\* Every step keeps it.
LEMMA SkipStep == ASSUME SidecarInv, SkipInv, [SidecarNext]_sidecarVars PROVE SkipInv'
<1>1. /\ audio \in [Stem -> Version] /\ unread \in [Stem -> 0 .. MaxVersion \cup {Never}]
      /\ sc \in Walk /\ AtHand
      /\ \A s \in Stem : audio[s].id \in 0 .. MaxVersion /\ audio[s] \in Version
      /\ MaxVersion \in Nat /\ Never \notin Nat
  BY SidecarAssumption DEF SidecarInv, Typed, SidecarTypeOK, Version
<1>2. CASE UNCHANGED <<audio, unread>> /\ (UNCHANGED sc \/ sc'.pc \notin {"read", "record"})
  BY <1>2 DEF SkipInv, SkipsOnlyFailed
<1>3. CASE \E s \in Stem : OpenFile(s)
  <2>1. PICK s \in Stem : OpenFile(s)
    BY <1>3
  <2>2. PICK id \in {audio[s].id, Never} :
          sc' = [sc EXCEPT !.todo = sc.todo \ {s}, !.pc = "read", !.stem = s, !.id = id]
    BY <2>1 DEF OpenFile
  <2>3. sc'.pc = "read" /\ sc'.stem = s /\ sc'.id = id
    BY <1>1, <2>2 DEF Walk
  <2> QED  BY <1>1, <2>1, <2>3 DEF OpenFile, SkipInv, SkipsOnlyFailed, files
<1>4. CASE TagsUnreadable
  <2>1. sc.pc = "read" /\ sc.stem \in Stem /\ unread' = unread
    BY <1>1, <1>4 DEF TagsUnreadable, AtHand
  <2>2. sc'.pc = "record" /\ sc'.stem = sc.stem /\ sc'.id = sc.id
    BY <1>1, <1>4 DEF TagsUnreadable, Walk
  <2>3. /\ \A s \in Stem : s # sc.stem => audio'[s] = audio[s]
        /\ audio'[sc.stem].id = audio[sc.stem].id /\ audio'[sc.stem].failed
    BY <1>1, <1>4, <2>1 DEF TagsUnreadable, Version
  <2> QED  BY <1>1, <2>1, <2>2, <2>3 DEF SkipInv, SkipsOnlyFailed
<1>5. CASE RecordFailure
  <2>1. sc.pc = "record" /\ sc.stem \in Stem /\ audio' = audio
    BY <1>1, <1>5 DEF RecordFailure, AtHand
  <2>2. sc'.pc = "look"
    BY <1>1, <1>5 DEF RecordFailure, NextFile, Walk
  <2>3. \/ sc.id # Never /\ unread' = [unread EXCEPT ![sc.stem] = sc.id]
        \/ unread' = unread
    BY <1>5 DEF RecordFailure
  <2> QED  BY <1>1, <2>1, <2>2, <2>3 DEF SkipInv, SkipsOnlyFailed
<1>6. CASE \E s \in Stem : ReplaceAudio(s)
  <2>1. PICK s \in Stem : ReplaceAudio(s)
    BY <1>6
  <2>2. /\ UNCHANGED <<unread, sc>> /\ \A u \in Stem : u # s => audio'[u] = audio[u]
        /\ audio'[s].id = audio[s].id + 1
    BY <1>1, <2>1 DEF ReplaceAudio
  <2>3. /\ sc.pc \in {"read", "record"} => sc.stem \in Stem
        /\ sc.id \in 0 .. MaxVersion \cup {Never}
    BY <1>1 DEF AtHand, Walk
  <2>4. \A u \in Stem : unread[u] \in 0 .. MaxVersion \cup {Never}
    BY <1>1
  <2>5. /\ unread[s] # audio'[s].id /\ (unread[s] # Never => unread[s] <= audio'[s].id)
        /\ sc.pc \in {"read", "record"} /\ sc.stem = s =>
             /\ sc.id # audio'[s].id
             /\ sc.id # Never => sc.id <= audio'[s].id
    BY <1>1, <2>2, <2>3, <2>4 DEF SkipInv
  <2> QED  BY <1>1, <2>2, <2>3, <2>5 DEF SkipInv, SkipsOnlyFailed
<1>7. CASE /\ ScanStep
           /\ ~((\E s \in Stem : OpenFile(s)) \/ TagsUnreadable \/ RecordFailure)
  <2>1. \A found : NextFile(found) => sc'.pc = "look"
    BY <1>1 DEF NextFile, Walk
  <2>2. UNCHANGED <<audio, unread>> /\ (UNCHANGED sc \/ sc'.pc \notin {"read", "record"})
    <3>1. CASE StartScan
      BY <3>1 DEF StartScan, IdleScan, files
    <3>2. CASE CannotOpen \/ ExtractFails \/ LinkSidecar
      BY <2>1, <3>2 DEF CannotOpen, ExtractFails, LinkSidecar, files
    <3>3. CASE TagsRead
      BY <1>1, <2>1, <3>3 DEF TagsRead, files, Walk
    <3>4. CASE ScanReturns \/ ScanAborts
      BY <3>4, IdleTypes DEF ScanReturns, ScanAborts, files
    <3>5. CASE \E s \in Stem : PassOver(s) \/ EnqueueResult(s)
      BY <1>1, <3>5 DEF PassOver, EnqueueResult, files, Walk
    <3> QED  BY <1>7, <3>1, <3>2, <3>3, <3>4, <3>5 DEF ScanStep
  <2> QED  BY <1>2, <2>2
<1>8. CASE /\ ~ScanStep /\ ~\E s \in Stem : ReplaceAudio(s)
  <2>1. UNCHANGED <<audio, unread, sc>>
    BY <1>8
    DEF SidecarNext, sidecarVars, files, WorkerStep, ClaimRow, SongCached, SongFetched,
        GuardRejects, SongDetected, SongMissed, GiveUp, RemoveExisting, RenameTemp, RemoveStale,
        WriteFails, StampVerdict, CompleteRow, WorkerDies, Settle, ReconcileStep, ReconcileLists,
        LeaveRow, Disagrees, FindMarkers, RemoveMarker, ResetRow, ReconcileEnds, BackfillStep,
        BackfillPlans, RenameTagged, BackfillEnds, ReadHeader, QueueStep, Notify, CancelRow,
        TrimRow, ClearDone, RecheckRetired, Delete, People, EditText, DeleteSidecars
  <2> QED  BY <1>2, <2>1
<1> QED  BY <1>3, <1>4, <1>5, <1>6, <1>7, <1>8

\* The walk passes a file over as unreadable only if a read of the version that
\* is there failed: the identity is taken before the read, so a file that is
\* replaced in between or before the failure is on record is read again.
THEOREM SkipTheorem == SidecarSpec => []SkipsOnlyFailed
<1>1. SidecarInit => SkipInv
  BY IdleTypes, SidecarAssumption DEF SidecarInit, SkipInv, SkipsOnlyFailed
<1>2. SkipInv => SkipsOnlyFailed
  BY DEF SkipInv
<1> QED  BY <1>1, <1>2, SidecarStarts, SidecarStep, SkipStep, PTL DEF SidecarSpec
=============================================================================
