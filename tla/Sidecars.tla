------------------------------ MODULE Sidecars ------------------------------
(***************************************************************************)
(* The sidecar files next to the audio files, and everybody who touches    *)
(* them: LRCWriter.WriteLRC as the worker calls it (internal/lyrics), the  *)
(* library walk with its embedded-lyrics extraction and its list of        *)
(* unreadable files (internal/scanner, internal/scanfail), the commands    *)
(* `scan reconcile` and `provenance backfill` (internal/commands), and the *)
(* people who edit the folder meanwhile.                                   *)
(*                                                                         *)
(* A stem is one audio file of a directory with its .lrc and its .txt; the *)
(* files of one (artist, title) share a row of the queue. The queue and    *)
(* the worker are modelled in full by WorkQueue and Pipeline: here a row   *)
(* keeps what the files depend on, one status stands for all that a worker *)
(* may claim, and what depends on counts and clocks (a retry, the miss that*)
(* is one too many) is left open.                                          *)
(***************************************************************************)
EXTENDS Naturals

CONSTANTS
    Stem, Track,
    Library,    \* the files of the library that is walked
    TrackOf,    \* stem -> its track
    Embedded,   \* stem -> lyrics in the tags, "none", "synced" or "plain"
    NoStem, NoTrack,  \* nothing at hand
    Never,      \* no failure on record, no identity known
    MaxVersion  \* bound: versions of an audio file

ASSUME SidecarAssumption ==
    /\ Library \subseteq Stem /\ TrackOf \in [Stem -> Track]
    /\ Embedded \in [Stem -> {"none", "synced", "plain"}]
    /\ NoStem \notin Stem /\ NoTrack \notin Track
    /\ MaxVersion \in Nat /\ Never \notin Nat

VARIABLES
    disk,      \* disk[s]: what the .lrc and the .txt hold
    audio,     \* audio[s]: the version (mtime, size) of the file, and whether a
               \* read of this version has failed
    unread,    \* scanner_metadata_failures: the version that failed, per file
    row,       \* row[t]: its work_queue row
    cached,    \* cached[t]: the lyrics_cache entry of the track
    results,   \* the files whose scan result is pending
    wk,        \* the worker and the write it is in
    sc,        \* the walk of the library
    rc,        \* `scan reconcile --yes`
    bf,        \* `provenance backfill --yes`
    removed,   \* files whose sidecar a person or reconcile took away since the
               \* worker wrote it
    cleared,   \* destinations of the verdicts that reconcile cleared, not
               \* written since
    overruled  \* tracks whose verdict reconcile cleared and no fetch has followed

files == <<disk, audio, unread>>
rows == <<row, cached, results>>
history == <<removed, cleared, overruled>>
sidecarVars == <<files, rows, wk, sc, rc, bf, history>>

\* "tagged": a .lrc whose header names its source; "noted": a .txt in which
\* the instrumental marker stands among other text.
Lrc == {"absent", "plainheader", "tagged"}
Txt == {"absent", "marker", "noted", "lyrics"}
Kind == {"synced", "plain", "marker"}

Sidecar == [lrc : Lrc, txt : Txt]
Version == [id : 0 .. MaxVersion, failed : BOOLEAN]

\* A row: its destinations, the verdict instrumental_result = 1, whether it is
\* stamped with the current provider set, how it was finished (limit is in
\* last_error, guard is not recorded), and whether a running reconcile has
\* listed it, as it is or before it went through the queue again.
Row == [status : {"absent", "pending", "processing", "done"}, paths : SUBSET Stem,
        instr : BOOLEAN, stamped : BOOLEAN,
        end : {"none", "written", "guard", "limit"}, seen : {"no", "listed", "again"}]
Writer == [pc : {"idle", "song", "write", "rename", "stale", "stamp", "finish"},
           track : Track \cup {NoTrack}, stem : Stem \cup {NoStem},
           todo : SUBSET Stem, kind : Kind, detected : BOOLEAN]
Walk == [pc : {"idle", "look", "read", "record", "extract"}, todo : SUBSET Stem,
         found : SUBSET Stem, stem : Stem \cup {NoStem},
         id : 0 .. MaxVersion \cup {Never}, mode : {"new", "upgrade", "update"}]
Reconcile == [pc : {"idle", "detect", "check", "remove", "reset"},
              todo : SUBSET Track, track : Track \cup {NoTrack}, marked : SUBSET Stem]
Backfill == [pc : {"idle", "inject", "rename"},
             todo : SUBSET Stem, stem : Stem \cup {NoStem}]

\* Type invariant of the files, the rows and everybody's progress.
SidecarTypeOK ==
    /\ disk \in [Stem -> Sidecar]
    /\ audio \in [Stem -> Version]
    /\ unread \in [Stem -> 0 .. MaxVersion \cup {Never}]
    /\ row \in [Track -> Row]
    /\ cached \in [Track -> Kind \cup {"none"}]
    /\ wk \in Writer /\ sc \in Walk /\ rc \in Reconcile /\ bf \in Backfill
    /\ results \subseteq Stem /\ removed \subseteq Stem /\ cleared \subseteq Stem
    /\ overruled \subseteq Track

IdleWriter == [pc |-> "idle", track |-> NoTrack, stem |-> NoStem, todo |-> {},
               kind |-> "plain", detected |-> FALSE]
IdleScan == [pc |-> "idle", todo |-> {}, found |-> {}, stem |-> NoStem, id |-> Never,
             mode |-> "new"]
IdleReconcile == [pc |-> "idle", todo |-> {}, track |-> NoTrack, marked |-> {}]
IdleBackfill == [pc |-> "idle", todo |-> {}, stem |-> NoStem]

NoSidecar == [lrc |-> "absent", txt |-> "absent"]
NoRow == [status |-> "absent", paths |-> {}, instr |-> FALSE, stamped |-> FALSE,
          end |-> "none", seen |-> "no"]

SidecarInit ==
    /\ disk \in [Stem -> {NoSidecar, [NoSidecar EXCEPT !.lrc = "plainheader"],
                          [NoSidecar EXCEPT !.txt = "noted"]}]
    /\ audio = [s \in Stem |-> [id |-> 0, failed |-> FALSE]]
    /\ unread = [s \in Stem |-> Never]
    /\ row = [t \in Track |-> NoRow] /\ cached = [t \in Track |-> "none"]
    /\ wk = IdleWriter /\ sc = IdleScan /\ rc = IdleReconcile /\ bf = IdleBackfill
    /\ results = {} /\ removed = {} /\ cleared = {} /\ overruled = {}

HasSidecar(s) == disk[s].lrc # "absent" \/ disk[s].txt # "absent"
FilesOf(t) == {s \in Stem : TrackOf[s] = t}

\* Put text into one side of a file's sidecars.
Put(s, side, text) == disk' = [disk EXCEPT ![s] = [@ EXCEPT ![side] = text]]

-----------------------------------------------------------------------------
(* The worker's write: Worker.RunOnce around LRCWriter.WriteLRC            *)

Requeue(r) == [r EXCEPT !.status = "pending"]
Finish(r, how) == [r EXCEPT !.status = "done", !.end = how]

\* A miss puts the row back or, at the limit, retires it.
requeueDeferred(r) == {Requeue(r), Finish(r, "limit")}

\* RunOnce returns and leaves the row as r.
Settle(r) ==
    /\ row' = [row EXCEPT ![wk.track] = r]
    /\ wk' = IdleWriter
    /\ UNCHANGED <<files, cached, results, sc, rc, bf, removed, cleared>>

ClaimRow(t) ==
    /\ wk.pc = "idle" /\ row[t].status = "pending"
    /\ row' = [row EXCEPT ![t] = [@ EXCEPT !.status = "processing"]]
    /\ wk' = [IdleWriter EXCEPT !.pc = "song", !.track = t]
    /\ UNCHANGED <<files, cached, results, sc, rc, bf, history>>

\* A row stamped with the current provider set is answered from the cache.
Answered == row[wk.track].stamped /\ cached[wk.track] # "none"

\* A song is at hand: write it to every destination of the row.
WriteSong(kind, detected) ==
    wk' = [wk EXCEPT !.pc = "write", !.todo = row[wk.track].paths, !.kind = kind,
                     !.detected = detected]

SongCached ==
    /\ wk.pc = "song" /\ Answered
    /\ WriteSong(cached[wk.track], FALSE)
    /\ UNCHANGED <<files, rows, sc, rc, bf, history>>

\* A provider answered, with lyrics or with its own instrumental flag; the song
\* is verified, passes the guard and is stored.
SongFetched ==
    /\ wk.pc = "song" /\ ~Answered
    /\ \E kind \in Kind : WriteSong(kind, FALSE) /\ cached' = [cached EXCEPT ![wk.track] = kind]
    /\ overruled' = overruled \ {wk.track}
    /\ UNCHANGED <<files, row, results, sc, rc, bf, removed, cleared>>

\* The guard refuses the lyrics: the row is finished, nothing is written.
GuardRejects ==
    /\ wk.pc = "song" /\ ~Answered
    /\ Settle(Finish(row[wk.track], "guard"))
    /\ overruled' = overruled \ {wk.track}

\* No provider has the track and the detector hears no voice; a failing store
\* of the marker is only logged.
SongDetected ==
    /\ wk.pc = "song" /\ ~Answered
    /\ WriteSong("marker", TRUE)
    /\ \/ cached' = [cached EXCEPT ![wk.track] = "marker"]
       \/ UNCHANGED cached
    /\ overruled' = overruled \ {wk.track}
    /\ UNCHANGED <<files, row, results, sc, rc, bf, removed, cleared>>

\* No provider has it, and the detector is off, fails or hears a voice: the last
\* is stamped, unless the stamp fails.
SongMissed ==
    /\ wk.pc = "song" /\ ~Answered
    /\ \E instr \in {row[wk.track].instr, FALSE} :
         \E r \in requeueDeferred([row[wk.track] EXCEPT !.instr = instr]) : Settle(r)
    /\ overruled' = overruled \ {wk.track}

\* A throttle, a failing lookup, provider, verification, store or Complete.
GiveUp ==
    /\ wk.pc = "song"
    /\ Settle(Requeue(row[wk.track])) /\ UNCHANGED overruled

\* Faulty: the instrumental marker goes into the .lrc.
TargetMarkerLrc(kind) == IF kind = "plain" THEN "txt" ELSE "lrc"

\* The side WriteLRC writes, and the opposite one.
Target(kind) == IF kind = "synced" THEN "lrc" ELSE "txt"
Opposite(kind) == IF kind = "synced" THEN "txt" ELSE "lrc"

\* The next destination: the temporary file is complete, the old file makes
\* room for it.
RemoveExisting ==
    /\ wk.pc = "write"
    /\ \E s \in wk.todo :
         /\ Put(s, Target(wk.kind), "absent")
         /\ wk' = [wk EXCEPT !.pc = "rename", !.todo = wk.todo \ {s}, !.stem = s]
    /\ UNCHANGED <<audio, unread, rows, sc, rc, bf, history>>

\* Faulty: a marker that cannot be written counts as written.
WriteFailsIgnored ==
    /\ wk.pc \in {"write", "rename"}
    /\ \E r \in {Requeue(row[wk.track]), Finish(row[wk.track], "written")} : Settle(r)
    /\ UNCHANGED overruled

\* The song, the name, the confinement, the temporary file, its permissions or
\* the removal of the old file fails (pc "write"), or the rename does after the
\* old file is gone (pc "rename"): the destinations before this one keep the new
\* file. A marker of the detector that cannot be written counts as a miss.
WriteFails ==
    /\ wk.pc \in {"write", "rename"}
    /\ \E r \in IF wk.detected THEN requeueDeferred(row[wk.track])
                ELSE {Requeue(row[wk.track])} : Settle(r)
    /\ UNCHANGED overruled

\* What the new file holds: synced lyrics carry the [source:] tag.
Content(kind) == CASE kind = "synced" -> "tagged"
                   [] kind = "plain"  -> "lyrics"
                   [] kind = "marker" -> "marker"

RenameTemp ==
    /\ wk.pc = "rename"
    /\ Put(wk.stem, Target(wk.kind), Content(wk.kind))
    /\ wk' = [wk EXCEPT !.pc = "stale"]
    /\ removed' = removed \ {wk.stem} /\ cleared' = cleared \ {wk.stem}
    /\ UNCHANGED <<audio, unread, rows, sc, rc, bf, overruled>>

\* Where the write loop goes once a destination is written.
AfterWrite == IF wk.todo # {} THEN "write" ELSE IF wk.detected THEN "stamp" ELSE "finish"

\* The sidecar of the other kind goes; a failure is only logged.
RemoveStale ==
    /\ wk.pc = "stale"
    /\ Put(wk.stem, Opposite(wk.kind), "absent") \/ UNCHANGED disk
    /\ wk' = [wk EXCEPT !.pc = AfterWrite, !.stem = NoStem]
    /\ UNCHANGED <<audio, unread, rows, sc, rc, bf, history>>

\* The verdict is stamped; a failing stamp is only logged.
StampVerdict ==
    /\ wk.pc = "stamp"
    /\ row' = [row EXCEPT ![wk.track] = [@ EXCEPT !.instr = TRUE]] \/ UNCHANGED row
    /\ wk' = [wk EXCEPT !.pc = "finish"]
    /\ UNCHANGED <<files, cached, results, sc, rc, bf, history>>

\* Complete, or Fail when Complete fails: then the row is retried with its
\* files on disk.
CompleteRow ==
    /\ wk.pc = "finish"
    /\ \E r \in {Finish(row[wk.track], "written"), Requeue(row[wk.track])} : Settle(r)
    /\ UNCHANGED overruled

\* The process ends anywhere in RunOnce, or the call that settles the row
\* fails: the row stays 'processing'.
WorkerDies ==
    /\ wk.pc # "idle"
    /\ wk' = IdleWriter
    /\ UNCHANGED <<files, rows, sc, rc, bf, history>>

WorkerStep ==
    \/ \E t \in Track : ClaimRow(t)
    \/ SongCached \/ SongFetched \/ GuardRejects \/ SongDetected \/ SongMissed \/ GiveUp
    \/ RemoveExisting \/ RenameTemp \/ RemoveStale \/ WriteFails
    \/ StampVerdict \/ CompleteRow \/ WorkerDies

-----------------------------------------------------------------------------
(* The walk: Scanner.scanDir, once per file of the directory               *)

StartScan ==
    /\ sc.pc = "idle"
    /\ \E mode \in {"new", "upgrade", "update"} :
         sc' = [IdleScan EXCEPT !.pc = "look", !.todo = Library, !.mode = mode]
    /\ UNCHANGED <<files, rows, wk, rc, bf, history>>

\* Go on with the next file, this one among the results or not.
NextFile(found) ==
    sc' = [sc EXCEPT !.pc = "look", !.stem = NoStem, !.id = Never, !.found = found]

\* The sidecars that make the walk pass a file over.
Skips(s) ==
    /\ sc.mode # "update"
    /\ \/ disk[s].lrc # "absent"
       \/ disk[s].txt \in {"marker", "noted"}
       \/ disk[s].txt # "absent" /\ sc.mode = "new"

\* Look at the sidecars, then at the identity and the record of failures.
PassOver(s) ==
    /\ sc.pc = "look" /\ s \in sc.todo
    /\ Skips(s) \/ unread[s] = audio[s].id
    /\ sc' = [sc EXCEPT !.todo = sc.todo \ {s}]
    /\ UNCHANGED <<files, rows, wk, rc, bf, history>>

\* A file whose identity cannot be had, or whose record cannot be looked up, is
\* read all the same.
OpenFile(s) ==
    /\ sc.pc = "look" /\ s \in sc.todo /\ ~Skips(s)
    /\ \E id \in {audio[s].id, Never} :
         sc' = [sc EXCEPT !.todo = sc.todo \ {s}, !.pc = "read", !.stem = s, !.id = id]
    /\ UNCHANGED <<files, rows, wk, rc, bf, history>>

\* os.Open fails: on with the next file, nothing is recorded.
CannotOpen ==
    /\ sc.pc = "read"
    /\ NextFile(sc.found)
    /\ UNCHANGED <<files, rows, wk, rc, bf, history>>

\* tag.ReadFrom fails, for good or this time only.
TagsUnreadable ==
    /\ sc.pc = "read"
    /\ audio' = [audio EXCEPT ![sc.stem] = [@ EXCEPT !.failed = TRUE]]
    /\ sc' = [sc EXCEPT !.pc = "record"]
    /\ UNCHANGED <<disk, unread, rows, wk, rc, bf, history>>

\* Faulty: the identity is taken when the failure is recorded.
RecordFailureNow ==
    /\ sc.pc = "record"
    /\ unread' = [unread EXCEPT ![sc.stem] = audio[sc.stem].id]
    /\ NextFile(sc.found)
    /\ UNCHANGED <<disk, audio, rows, wk, rc, bf, history>>

\* The identity seen before the read is remembered; without one, or when the
\* store fails, nothing is.
RecordFailure ==
    /\ sc.pc = "record"
    /\ \/ sc.id # Never /\ unread' = [unread EXCEPT ![sc.stem] = sc.id]
       \/ UNCHANGED unread
    /\ NextFile(sc.found)
    /\ UNCHANGED <<disk, audio, rows, wk, rc, bf, history>>

\* The tags are read. Embedded lyrics are extracted, respected or ignored: the
\* library's setting is left open.
TagsRead ==
    /\ sc.pc = "read"
    /\ \/ NextFile(sc.found \cup {sc.stem})
       \/ Embedded[sc.stem] # "none" /\ NextFile(sc.found)
       \/ Embedded[sc.stem] # "none" /\ sc' = [sc EXCEPT !.pc = "extract"]
    /\ UNCHANGED <<files, rows, wk, rc, bf, history>>

\* Where embedded lyrics go, and what the new file holds.
Side(s) == IF Embedded[s] = "synced" THEN "lrc" ELSE "txt"
Extract(s) == IF Embedded[s] = "synced" THEN "plainheader" ELSE "lyrics"

\* Faulty: the temporary file is renamed instead of linked.
LinkSidecarOver ==
    /\ sc.pc = "extract"
    /\ Put(sc.stem, Side(sc.stem), Extract(sc.stem))
    /\ NextFile(sc.found)
    /\ UNCHANGED <<audio, unread, rows, wk, rc, bf, history>>

\* linkSidecar: link(2) creates the sidecar or finds one there.
LinkSidecar ==
    /\ sc.pc = "extract"
    /\ \/ /\ disk[sc.stem][Side(sc.stem)] = "absent"
          /\ Put(sc.stem, Side(sc.stem), Extract(sc.stem))
       \/ disk[sc.stem][Side(sc.stem)] # "absent" /\ UNCHANGED disk
    /\ NextFile(sc.found)
    /\ UNCHANGED <<audio, unread, rows, wk, rc, bf, history>>

\* The sidecar cannot be written: fall through to a normal fetch.
ExtractFails ==
    /\ sc.pc = "extract"
    /\ NextFile(sc.found \cup {sc.stem})
    /\ UNCHANGED <<files, rows, wk, rc, bf, history>>

\* The walk is over and its results are stored: one that is new, or forced, is
\* pending, another keeps its status; a failing batch is lost.
ScanReturns ==
    /\ sc.pc = "look" /\ sc.todo = {}
    /\ \E new \in SUBSET sc.found : results' = results \cup new
    /\ sc' = IdleScan
    /\ UNCHANGED <<files, row, cached, wk, rc, bf, history>>

\* The context is canceled or the directory cannot be listed: no results.
ScanAborts ==
    /\ sc.pc = "look"
    /\ sc' = IdleScan
    /\ UNCHANGED <<files, rows, wk, rc, bf, history>>

\* The ON CONFLICT upsert of a row (WorkQueue, Enqueue).
Upserted(r, paths, stamped) ==
    CASE r.status = "absent"  -> [NoRow EXCEPT !.status = "pending", !.paths = paths,
                                               !.stamped = stamped]
      [] r.status = "pending" -> [r EXCEPT !.paths = paths]
      [] OTHER                -> r

\* EnqueuePending: the result of a cached track is done, another is enqueued, or
\* stays reserved when the enqueueing and its undoing fail.
EnqueueResult(s) ==
    /\ s \in results
    /\ \/ /\ cached[TrackOf[s]] = "none"
          /\ row' = [row EXCEPT ![TrackOf[s]] = Upserted(@, {s}, FALSE)]
       \/ UNCHANGED row
    /\ results' = results \ {s}
    /\ UNCHANGED <<files, cached, wk, sc, rc, bf, history>>

ScanStep ==
    \/ StartScan \/ CannotOpen \/ TagsUnreadable \/ RecordFailure \/ TagsRead
    \/ LinkSidecar \/ ExtractFails \/ ScanReturns \/ ScanAborts
    \/ \E s \in Stem : PassOver(s) \/ OpenFile(s) \/ EnqueueResult(s)

-----------------------------------------------------------------------------
(* runScanReconcile, candidate by candidate                                *)

Instrumental(r) == r.status = "done" /\ r.instr

\* Some of the tagged rows: of one library, up to a limit, or narrowed.
ReconcileLists ==
    /\ rc.pc = "idle"
    /\ \E some \in SUBSET {t \in Track : Instrumental(row[t])} :
         /\ some # {}
         /\ rc' = [IdleReconcile EXCEPT !.pc = "detect", !.todo = some]
         /\ row' = [t \in Track |-> IF t \in some THEN [row[t] EXCEPT !.seen = "listed"]
                                    ELSE row[t]]
    /\ UNCHANGED <<files, cached, results, wk, sc, bf, history>>

\* On to the next candidate.
NextCandidate == rc' = [rc EXCEPT !.pc = "detect", !.track = NoTrack, !.marked = {}]

\* No source, a failing detector, a confirmed verdict (pc "detect"), no exact
\* marker or a failing backup (pc "check"), a marker that cannot be removed or a
\* reset that fails: the row stays as it is.
LeaveRow ==
    /\ \/ rc.pc = "detect" /\ \E t \in rc.todo : rc' = [rc EXCEPT !.todo = rc.todo \ {t}]
       \/ rc.pc \in {"check", "remove", "reset"} /\ NextCandidate
    /\ UNCHANGED <<files, rows, wk, sc, bf, history>>

\* The detector now hears a voice.
Disagrees(t) ==
    /\ rc.pc = "detect" /\ t \in rc.todo
    /\ rc' = [rc EXCEPT !.pc = "check", !.todo = rc.todo \ {t}, !.track = t]
    /\ UNCHANGED <<files, rows, wk, sc, bf, history>>

\* The destinations of the candidate when it was listed, which a row that is
\* not the same any more does not tell.
Listed(t) == IF row[t].seen = "listed" THEN {row[t].paths} ELSE SUBSET FilesOf(t)

\* exactInstrumentalSidecars finds markers; the row is backed up.
FindMarkers ==
    /\ rc.pc = "check"
    /\ \E paths \in Listed(rc.track) :
         LET marked == {s \in paths : disk[s].txt = "marker"}
         IN  marked # {} /\ rc' = [rc EXCEPT !.pc = "remove", !.marked = marked]
    /\ UNCHANGED <<files, rows, wk, sc, bf, history>>

\* Where the removal goes after the marker of s.
AfterRemoval(s) ==
    rc' = [rc EXCEPT !.pc = IF rc.marked = {s} THEN "reset" ELSE "remove",
                     !.marked = rc.marked \ {s}]

\* Faulty: a marker that cannot be removed does not stop the reset.
RemoveMarkerLenient ==
    /\ rc.pc = "remove"
    /\ \E s \in rc.marked : /\ Put(s, "txt", "absent") \/ UNCHANGED disk
                            /\ AfterRemoval(s) /\ removed' = removed \cup {s}
    /\ UNCHANGED <<audio, unread, rows, wk, sc, bf, cleared, overruled>>

\* os.Remove takes whatever is at the path now; a missing file is fine.
RemoveMarker ==
    /\ rc.pc = "remove"
    /\ \E s \in rc.marked : /\ Put(s, "txt", "absent") /\ AfterRemoval(s)
                            /\ removed' = removed \cup {s}
    /\ UNCHANGED <<audio, unread, rows, wk, sc, bf, cleared, overruled>>

\* ResetInstrumental, guarded by id, status and verdict; linked scan results
\* are pending again.
ResetRow ==
    /\ rc.pc = "reset"
    /\ LET r == row[rc.track]
       IN  IF r.seen # "no" /\ Instrumental(r)
           THEN /\ row' = [row EXCEPT ![rc.track] =
                             [Requeue(@) EXCEPT !.instr = FALSE, !.end = "none", !.seen = "no"]]
                /\ cleared' = IF r.seen = "listed" THEN cleared \cup r.paths ELSE cleared
                /\ overruled' = overruled \cup {rc.track}
                /\ \E linked \in SUBSET r.paths : results' = results \cup linked
           ELSE UNCHANGED <<row, results, cleared, overruled>>
    /\ NextCandidate
    /\ UNCHANGED <<files, cached, wk, sc, bf, removed>>

\* All candidates are done, or the command dies half way.
ReconcileEnds ==
    /\ rc.pc # "idle"
    /\ rc' = IdleReconcile
    /\ row' = [t \in Track |-> [row[t] EXCEPT !.seen = "no"]]
    /\ UNCHANGED <<files, cached, results, wk, sc, bf, history>>

ReconcileStep ==
    \/ ReconcileLists \/ LeaveRow \/ FindMarkers \/ RemoveMarker \/ ResetRow
    \/ ReconcileEnds
    \/ \E t \in Track : Disagrees(t)

-----------------------------------------------------------------------------
(* runProvenanceBackfill over InjectProvenance                             *)

\* The done rows' destinations whose .lrc is on disk.
BackfillPlans ==
    /\ bf.pc = "idle"
    /\ LET plans == {s \in Stem : /\ disk[s].lrc # "absent"
                                  /\ \E t \in Track : row[t].status = "done" /\ s \in row[t].paths}
       IN  plans # {} /\ bf' = [IdleBackfill EXCEPT !.pc = "inject", !.todo = plans]
    /\ UNCHANGED <<files, rows, wk, sc, rc, history>>

\* Read the file; one that is gone or carries the tags is passed over.
ReadHeader(s) ==
    /\ bf.pc = "inject" /\ s \in bf.todo
    /\ IF disk[s].lrc = "plainheader"
       THEN bf' = [bf EXCEPT !.pc = "rename", !.todo = bf.todo \ {s}, !.stem = s]
       ELSE bf' = [bf EXCEPT !.todo = bf.todo \ {s}]
    /\ UNCHANGED <<files, rows, wk, sc, rc, history>>

\* The rewritten copy replaces whatever the path holds by now; a failing rewrite
\* is counted, and the command goes on.
RenameTagged ==
    /\ bf.pc = "rename"
    /\ Put(bf.stem, "lrc", "tagged") \/ UNCHANGED disk
    /\ bf' = [bf EXCEPT !.pc = "inject", !.stem = NoStem]
    /\ UNCHANGED <<audio, unread, rows, wk, sc, rc, history>>

\* All plans are applied, or the command dies.
BackfillEnds ==
    /\ bf.pc # "idle"
    /\ bf' = IdleBackfill
    /\ UNCHANGED <<files, rows, wk, sc, rc, history>>

BackfillStep ==
    \/ BackfillPlans \/ RenameTagged \/ BackfillEnds
    \/ \E s \in Stem : ReadHeader(s)

-----------------------------------------------------------------------------
(* The webhook and the operator's commands on the queue                    *)

\* A webhook enqueues the track, stamped with the current provider set. The
\* queue takes several destinations, although its callers name one.
Notify(t) ==
    /\ \E paths \in SUBSET FilesOf(t) :
         paths # {} /\ row' = [row EXCEPT ![t] = Upserted(@, paths, TRUE)]
    /\ UNCHANGED <<files, cached, results, wk, sc, rc, bf, history>>

\* Forget the rows of a set of tracks.
Delete(gone) ==
    /\ row' = [t \in Track |-> IF t \in gone THEN NoRow ELSE row[t]]
    /\ overruled' = overruled \ gone
    /\ UNCHANGED <<files, cached, results, wk, sc, rc, bf, removed, cleared>>

\* A webhook about a deleted track (Cleanup), or the last library of a waiting
\* row's destinations is cleared.
CancelRow(t) == row[t].status = "pending" /\ Delete({t})

\* scan clear: the destinations other libraries still claim stay.
TrimRow(t) ==
    /\ row[t].status = "pending"
    /\ \E keep \in SUBSET row[t].paths :
         keep # {} /\ row' = [row EXCEPT ![t] = [@ EXCEPT !.paths = keep]]
    /\ UNCHANGED <<files, cached, results, wk, sc, rc, bf, history>>

\* queue clear --done
ClearDone == Delete({t \in Track : row[t].status = "done"})

\* scan recheck --retired: rows at the miss limit are waiting again.
RecheckRetired ==
    /\ \E hit \in SUBSET {t \in Track : row[t].status = "done" /\ row[t].end = "limit"} :
         row' = [t \in Track |->
                   IF t \in hit
                   THEN [Requeue(row[t]) EXCEPT !.end = "none",
                                                !.seen = IF @ = "no" THEN "no" ELSE "again"]
                   ELSE row[t]]
    /\ UNCHANGED <<files, cached, results, wk, sc, rc, bf, history>>

QueueStep ==
    \/ ClearDone \/ RecheckRetired
    \/ \E t \in Track : Notify(t) \/ CancelRow(t) \/ TrimRow(t)

-----------------------------------------------------------------------------
(* People                                                                  *)

\* The audio file is replaced.
ReplaceAudio(s) ==
    /\ audio[s].id < MaxVersion
    /\ audio' = [audio EXCEPT ![s] = [id |-> audio[s].id + 1, failed |-> FALSE]]
    /\ UNCHANGED <<disk, unread, rows, wk, sc, rc, bf, history>>

\* Somebody writes lyrics of their own into the .txt.
EditText(s) ==
    /\ Put(s, "txt", "lyrics")
    /\ UNCHANGED <<audio, unread, rows, wk, sc, rc, bf, history>>

DeleteSidecars(s) ==
    /\ disk' = [disk EXCEPT ![s] = NoSidecar]
    /\ removed' = removed \cup {s}
    /\ UNCHANGED <<audio, unread, rows, wk, sc, rc, bf, cleared, overruled>>

People == \E s \in Stem : ReplaceAudio(s) \/ EditText(s) \/ DeleteSidecars(s)

SidecarNext ==
    WorkerStep \/ ScanStep \/ ReconcileStep \/ BackfillStep \/ QueueStep \/ People

SidecarSpec == SidecarInit /\ [][SidecarNext]_sidecarVars

-----------------------------------------------------------------------------
(* Properties                                                              *)

\* A row that Complete finished after its writes keeps a sidecar at each of its
\* destinations, unless a person or reconcile took it away since. WriteLRC
\* removes the old file before it renames the new one: a row whose write failed
\* or died there, also half way through its destinations, never looks written.
DoneHasSidecar ==
    \A t \in Track : row[t].status = "done" /\ row[t].end = "written"
                      => \A s \in row[t].paths \ removed : HasSidecar(s)

\* Reconcile never clears a verdict above its marker: no destination of a row
\* that it cleared holds an exact marker, which the walk would pass over as a
\* known instrumental, until a worker writes there again; provided the row did
\* not go through the queue between the listing and the reset.
VerdictFollowsMarker == \A s \in cleared : disk[s].txt # "marker"

\* The walk never changes a sidecar that exists, also when the worker or a
\* person puts one there between its look and its link.
ScanKeepsSidecars ==
    [][\A s \in Stem, side \in {"lrc", "txt"} :
         sc' # sc /\ disk[s][side] # "absent" => disk'[s][side] = disk[s][side]]_sidecarVars

\* The walk gives up on a version of a file only after a read of that very
\* version failed: a file that is replaced while its predecessor is read, or
\* before that failure is on record, is not passed over.
SkipsOnlyFailed == \A s \in Stem : unread[s] = audio[s].id => audio[s].failed

\* What the documentation of `scan reconcile` promises: a row it cleared is
\* fetched again before it is done again.
ReconcileRefetches == \A t \in overruled : row[t].status # "done"

=============================================================================
