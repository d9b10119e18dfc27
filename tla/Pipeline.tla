------------------------------ MODULE Pipeline ------------------------------
(***************************************************************************)
(* The pipeline around the queue: workers (internal/worker) that claim a   *)
(* row, resolve its lyrics through the cache or the providers and write    *)
(* the sidecar files; enqueuers (internal/scan: the scheduler, the watcher *)
(* and a `scan` command share this code) that persist a scan and feed its  *)
(* pending results into the queue; the Lidarr webhook (internal/server);   *)
(* and the queue and library commands an operator runs meanwhile.          *)
(*                                                                         *)
(* Every step below is one call that touches the database, the cache or    *)
(* the file system; whatever a worker or an enqueuer read earlier it keeps *)
(* in its own record while the others move.                                *)
(***************************************************************************)
EXTENDS WorkQueue

CONSTANTS
    Worker,      \* worker loops
    Enqueuer,    \* scheduler, watcher, scan commands
    NoKey,       \* "no row held"
    CacheKey,    \* normalized (artist, title) keys of lyrics_cache
    FetchKey,    \* key -> cache key under which the worker reads and writes
    LookupKey,   \* key -> cache key under which the enqueuer looks
    HookPath,    \* destination of a webhook that matches no scan result
    Env          \* which of the optional environment steps may happen

ASSUME PipelineAssumption ==
    /\ NoKey \notin Key
    /\ FetchKey \in [Key -> CacheKey]
    /\ LookupKey \in [Key -> CacheKey]
    /\ HookPath \in Path

VARIABLES
    wk,     \* worker -> what it is doing
    eq,     \* enqueuer -> what it is doing
    files,  \* sidecar on disk: path -> "none", "lyrics" or "marker"
    cache,  \* lyrics_cache: cache key -> "none", "lyrics" or "marker"
    gen     \* provider generation of the running process, 0: unconfigured

vars == <<wq, sr, wk, eq, files, cache, gen>>

Song == {"lyrics", "marker"}

WorkerPC == {"idle", "lookup", "fetch", "found", "missed", "requeue",
             "write", "stamp", "outcome", "finish"}

\* A dequeued item is a snapshot: key, paths and miss are the columns as they
\* were when the row was claimed.
WorkerRec == [pc : WorkerPC, key : Key \cup {NoKey}, paths : SUBSET Path,
              miss : 0 .. MissBound, bypass : BOOLEAN,
              song : Song \cup {"none"}, detected : BOOLEAN,
              todo : SUBSET Path]

IdleWorker == [pc |-> "idle", key |-> NoKey, paths |-> {}, miss |-> 0,
               bypass |-> FALSE, song |-> "none", detected |-> FALSE,
               todo |-> {}]

EnqueuerPC == {"idle", "persist", "list", "loop", "hit", "miss", "reserved", "restore"}

\* todo holds the files the scan found, then the scan results the enqueuer
\* listed, and cur the one it is at; gone holds those of them deleted since
\* (ids are never reused, so a file scanned again later is another row).
EnqueuerRec == [pc : EnqueuerPC, lib : SUBSET Library, force : BOOLEAN,
                todo : SUBSET ScanResult, cur : SUBSET ScanResult,
                gone : SUBSET ScanResult]

IdleEnqueuer == [pc |-> "idle", lib |-> {}, force |-> FALSE, todo |-> {},
                 cur |-> {}, gone |-> {}]

Init ==
    /\ QueueInit
    /\ wk = [w \in Worker |-> IdleWorker]
    /\ eq = [e \in Enqueuer |-> IdleEnqueuer]
    /\ files = [p \in Path |-> "none"]
    /\ cache = [c \in CacheKey |-> "none"]
    /\ gen \in Gen

-----------------------------------------------------------------------------
(* The worker: Worker.RunOnce                                              *)

\* Worker w does nothing but move on to pc.
Goto(w, pc) == wk' = [wk EXCEPT ![w] = [@ EXCEPT !.pc = pc]]

\* RunOnce returns.
Return(w) == wk' = [wk EXCEPT ![w] = IdleWorker]

\* The guarded UPDATEs match no row once the row left 'processing'; the worker
\* then gives up on the item (a lost race) and changes nothing.
Settle(w, op) ==
    /\ IF wq[wk[w].key].status = "processing" THEN op ELSE UNCHANGED queueVars
    /\ Return(w)
    /\ UNCHANGED <<eq, files, cache, gen>>

Claim(w) ==
    /\ wk[w].pc = "idle"
    /\ \E k \in Key :
         /\ Dequeue(k)
         /\ wk' = [wk EXCEPT ![w] =
                     [IdleWorker EXCEPT
                        !.pc = "lookup", !.key = k, !.paths = wq[k].paths,
                        !.miss = wq[k].miss,
                        !.bypass = gen # 0 /\ wq[k].pv # gen]]
    /\ UNCHANGED <<eq, files, cache, gen>>

\* Faulty: a hit counts as delivered.
LookupCacheTrusting(w) ==
    /\ wk[w].pc = "lookup"
    /\ IF wk[w].bypass \/ cache[FetchKey[wk[w].key]] = "none"
       THEN Goto(w, "fetch") ELSE Goto(w, "finish")
    /\ UNCHANGED <<queueVars, eq, files, cache, gen>>

\* song(): a hit skips verification, guard and store.
LookupCache(w) ==
    /\ wk[w].pc = "lookup"
    /\ LET cached == cache[FetchKey[wk[w].key]]
       IN  IF wk[w].bypass \/ cached = "none"
           THEN Goto(w, "fetch")
           ELSE wk' = [wk EXCEPT ![w] = [@ EXCEPT !.pc = "write", !.song = cached,
                                                  !.todo = wk[w].paths]]
    /\ UNCHANGED <<queueVars, eq, files, cache, gen>>

\* A provider returned lyrics, or flagged the track instrumental.
FetchFinds(w) ==
    /\ wk[w].pc = "fetch"
    /\ \E song \in Song :
         wk' = [wk EXCEPT ![w] = [@ EXCEPT !.pc = "found", !.song = song]]
    /\ UNCHANGED <<queueVars, eq, files, cache, gen>>

FetchMisses(w) ==
    /\ wk[w].pc = "fetch"
    /\ Goto(w, "missed")
    /\ UNCHANGED <<queueVars, eq, files, cache, gen>>

\* Faulty: RunOnce returns and forgets the release.
FetchThrottledForgets(w) ==
    /\ wk[w].pc = "fetch"
    /\ Return(w)
    /\ UNCHANGED <<queueVars, eq, files, cache, gen>>

\* Every lane unavailable, throttled or refused: the row is released.
FetchThrottled(w) ==
    /\ wk[w].pc = "fetch"
    /\ Settle(w, Release(wk[w].key))

\* Worker.fail: transport error or rejected verification while fetching, a
\* cache or file error (Env "fault") elsewhere.
FailItem(w) ==
    /\ \/ wk[w].pc \in {"fetch", "found"}
       \/ /\ "fault" \in Env
          /\ \/ wk[w].pc \in {"lookup", "finish"}
             \/ wk[w].pc = "write" /\ wk[w].todo # {} /\ ~wk[w].detected
    /\ Settle(w, Fail(wk[w].key))

\* The language guard rejects the lyrics: finished, nothing cached or written.
GuardRejects(w) ==
    /\ wk[w].pc = "found"
    /\ Settle(w, Complete(wk[w].key))

StoreSong(w) ==
    /\ wk[w].pc = "found"
    /\ cache' = [cache EXCEPT ![FetchKey[wk[w].key]] = wk[w].song]
    /\ wk' = [wk EXCEPT ![w] = [@ EXCEPT !.pc = "write", !.todo = wk[w].paths]]
    /\ UNCHANGED <<queueVars, eq, files, gen>>

\* detectInstrumental confirms: the marker is cached (a failing store is only
\* logged) and written.
DetectInstrumental(w) ==
    /\ wk[w].pc = "missed"
    /\ \/ cache' = [cache EXCEPT ![FetchKey[wk[w].key]] = "marker"]
       \/ "fault" \in Env /\ UNCHANGED cache
    /\ wk' = [wk EXCEPT ![w] = [@ EXCEPT !.pc = "write", !.todo = wk[w].paths,
                                          !.song = "marker", !.detected = TRUE]]
    /\ UNCHANGED <<queueVars, eq, files, gen>>

\* The detector ran and heard vocals.
DetectVocals(w) ==
    /\ wk[w].pc = "missed"
    /\ SetInstrumentalResult(wk[w].key, "no")
    /\ Goto(w, "requeue")
    /\ UNCHANGED <<eq, files, cache, gen>>

\* Detection is off, has no source file, or failed.
DetectSkipped(w) ==
    /\ wk[w].pc = "missed"
    /\ Goto(w, "requeue")
    /\ UNCHANGED <<queueVars, eq, files, cache, gen>>

\* Where the write loop goes once the sidecar at p is written.
AfterWrite(w, p) ==
    IF wk[w].todo # {p} THEN "write"
    ELSE IF wk[w].detected THEN "stamp" ELSE "outcome"

\* WriteLRC for the next destination.
WriteLRC(w) ==
    /\ wk[w].pc = "write"
    /\ \E p \in wk[w].todo :
         /\ files' = [files EXCEPT ![p] = wk[w].song]
         /\ wk' = [wk EXCEPT ![w] = [@ EXCEPT !.todo = wk[w].todo \ {p},
                                               !.pc = AfterWrite(w, p)]]
    /\ UNCHANGED <<queueVars, eq, cache, gen>>

\* A marker that cannot be written counts as an ordinary miss.
MarkerUnwritable(w) ==
    /\ "fault" \in Env
    /\ wk[w].pc = "write" /\ wk[w].todo # {} /\ wk[w].detected
    /\ Goto(w, "requeue")
    /\ UNCHANGED <<queueVars, eq, files, cache, gen>>

\* A failing stamp is logged and skipped.
StampInstrumental(w) ==
    /\ wk[w].pc = "stamp"
    /\ \/ SetInstrumentalResult(wk[w].key, "yes")
       \/ "fault" \in Env /\ UNCHANGED queueVars
    /\ Goto(w, "outcome")
    /\ UNCHANGED <<eq, files, cache, gen>>

StampOutcome(w) ==
    /\ wk[w].pc = "outcome"
    /\ \/ SetOutcomeType(wk[w].key, IF wk[w].song = "marker"
                                    THEN "instrumental" ELSE "lyrics")
       \/ "fault" \in Env /\ UNCHANGED queueVars
    /\ Goto(w, "finish")
    /\ UNCHANGED <<eq, files, cache, gen>>

FinishItem(w) ==
    /\ wk[w].pc = "finish"
    /\ Settle(w, Complete(wk[w].key))

\* Faulty: the miss at hand is not counted.
RequeueDeferredLate(w) ==
    /\ wk[w].pc = "requeue"
    /\ Settle(w, IF MaxMissAttempts > 0 /\ wk[w].miss >= MaxMissAttempts
                 THEN RetireMiss(wk[w].key) ELSE Defer(wk[w].key))

\* requeueDeferred, on the miss count the item was claimed with.
RequeueDeferred(w) ==
    /\ wk[w].pc = "requeue"
    /\ Settle(w, IF MaxMissAttempts > 0 /\ wk[w].miss + 1 >= MaxMissAttempts
                 THEN RetireMiss(wk[w].key) ELSE Defer(wk[w].key))

\* The closing queue call itself fails: RunOnce returns the error and the row
\* stays 'processing' with nobody working on it.
Orphan(w) ==
    /\ "fault" \in Env
    /\ wk[w].pc \in {"lookup", "fetch", "found", "write", "finish", "requeue"}
    /\ Return(w)
    /\ UNCHANGED <<queueVars, eq, files, cache, gen>>

WorkerStep(w) ==
    \/ Claim(w) \/ LookupCache(w) \/ FetchFinds(w) \/ FetchMisses(w)
    \/ FetchThrottled(w) \/ FailItem(w) \/ GuardRejects(w) \/ StoreSong(w)
    \/ DetectInstrumental(w) \/ DetectVocals(w) \/ DetectSkipped(w)
    \/ WriteLRC(w) \/ MarkerUnwritable(w) \/ StampInstrumental(w)
    \/ StampOutcome(w) \/ FinishItem(w) \/ RequeueDeferred(w) \/ Orphan(w)

-----------------------------------------------------------------------------
(* The enqueuer: Scheduler.scanAndPersist, then Enqueuer.EnqueuePending    *)

\* EnqueuePending returns, done or with an error.
Leave(e) == eq' = [eq EXCEPT ![e] = IdleEnqueuer]

\* ScanLibrary reports files that have no sidecar yet, or any file when the
\* scan is forced (--update / --upgrade), as it finds them on its walk.
Scan(e) ==
    /\ eq[e].pc = "idle"
    /\ \E lib \in Library, force \in BOOLEAN :
         /\ force => "force" \in Env
         /\ \E found \in SUBSET {s \in OfLibrary(lib) :
                                  force \/ files[PathOf[s]] = "none"} :
              eq' = [eq EXCEPT ![e] =
                       [@ EXCEPT !.pc = "persist", !.lib = {lib},
                                 !.force = force, !.todo = found]]
    /\ UNCHANGED <<queueVars, wk, files, cache, gen>>

Persist(e) ==
    /\ eq[e].pc = "persist" /\ eq[e].gone = {}
    /\ Upsert(eq[e].todo, eq[e].force)
    /\ eq' = [eq EXCEPT ![e] = [@ EXCEPT !.pc = "list", !.force = FALSE,
                                          !.todo = {}]]
    /\ UNCHANGED <<wk, files, cache, gen>>

\* Some batches fail for good: the others are kept and the pass ends.
PersistFails(e) ==
    /\ eq[e].pc = "persist" /\ eq[e].gone = {} /\ "fault" \in Env
    /\ \E kept \in SUBSET eq[e].todo : Upsert(kept, eq[e].force)
    /\ Leave(e)
    /\ UNCHANGED <<wk, files, cache, gen>>

ListPending(e) ==
    /\ eq[e].pc = "list"
    /\ eq' = [eq EXCEPT ![e] =
                 [@ EXCEPT !.pc = "loop",
                           !.todo = {s \in ScanResult : /\ sr[s] = "pending"
                                                        /\ LibOf[s] \in eq[e].lib}]]
    /\ UNCHANGED <<queueVars, wk, files, cache, gen>>

\* The next result of the list: is its track cached?
PickPending(e) ==
    /\ eq[e].pc = "loop"
    /\ \E s \in eq[e].todo :
         eq' = [eq EXCEPT ![e] =
                  [@ EXCEPT !.todo = eq[e].todo \ {s}, !.cur = {s},
                            !.pc = IF cache[LookupKey[KeyOf[s]]] # "none"
                                   THEN "hit" ELSE "miss"]]
    /\ UNCHANGED <<queueVars, wk, files, cache, gen>>

LoopEnds(e) ==
    /\ eq[e].pc = "loop" /\ eq[e].todo = {}
    /\ Leave(e)
    /\ UNCHANGED <<queueVars, wk, files, cache, gen>>

\* The current result still has the row it was listed with.
Exists(e, s) == sr[s] # "absent" /\ s \notin eq[e].gone

MarkHit(e) ==
    /\ eq[e].pc = "hit"
    /\ \E s \in eq[e].cur :
         /\ Exists(e, s)
         /\ SetStatus(s, "done")
    /\ eq' = [eq EXCEPT ![e] = [@ EXCEPT !.pc = "loop", !.cur = {}]]
    /\ UNCHANGED <<wk, files, cache, gen>>

\* Faulty: a scan status outside the schema.
ReserveUnknownStatus(e) ==
    /\ eq[e].pc = "miss"
    /\ \E s \in eq[e].cur : Exists(e, s) /\ SetStatus(s, "reserved")
    /\ eq' = [eq EXCEPT ![e] = [@ EXCEPT !.pc = "reserved"]]
    /\ UNCHANGED <<wk, files, cache, gen>>

Reserve(e) ==
    /\ eq[e].pc = "miss"
    /\ \E s \in eq[e].cur :
         /\ Exists(e, s)
         /\ SetStatus(s, "processing")
    /\ eq' = [eq EXCEPT ![e] = [@ EXCEPT !.pc = "reserved"]]
    /\ UNCHANGED <<wk, files, cache, gen>>

\* The scheduler's DBQueue is never given a provider generation, so the rows
\* it inserts are stamped 0.
EnqueueScan(e) ==
    /\ eq[e].pc = "reserved"
    /\ \E s \in eq[e].cur :
         /\ Exists(e, s)
         /\ Enqueue(KeyOf[s], {PathOf[s]}, PriorityScan, {s}, 0)
    /\ eq' = [eq EXCEPT ![e] = [@ EXCEPT !.pc = "loop", !.cur = {}]]
    /\ UNCHANGED <<wk, files, cache, gen>>

\* Enqueue fails: its transaction rolled back, the reservation is undone next.
EnqueueFails(e) ==
    /\ eq[e].pc = "reserved" /\ "fault" \in Env
    /\ eq' = [eq EXCEPT ![e] = [@ EXCEPT !.pc = "restore"]]
    /\ UNCHANGED <<queueVars, wk, files, cache, gen>>

Restore(e) ==
    /\ eq[e].pc = "restore"
    /\ \/ \E s \in eq[e].cur : Exists(e, s) /\ SetStatus(s, "pending")
       \/ "fault" \in Env /\ UNCHANGED queueVars
    /\ Leave(e)
    /\ UNCHANGED <<wk, files, cache, gen>>

\* Faulty: the call is repeated for the result that is gone.
ResultGoneRetried(e) ==
    /\ eq[e].pc \in {"hit", "miss", "reserved", "restore"}
    /\ \A s \in eq[e].cur : ~Exists(e, s)
    /\ UNCHANGED vars

\* SetStatus or the junction's foreign key finds the scan result deleted.
ResultGone(e) ==
    /\ eq[e].pc \in {"hit", "miss", "reserved", "restore"}
    /\ \A s \in eq[e].cur : ~Exists(e, s)
    /\ Leave(e)
    /\ UNCHANGED <<queueVars, wk, files, cache, gen>>

\* The files found belong to a library that was removed during the scan: the
\* foreign key rejects every batch.
LibraryGone(e) ==
    /\ eq[e].pc = "persist" /\ eq[e].gone # {}
    /\ Leave(e)
    /\ UNCHANGED <<queueVars, wk, files, cache, gen>>

\* The listing, a cache lookup or a SetStatus fails: the pass ends where it is.
Abort(e) ==
    /\ eq[e].pc \in {"list", "loop", "hit", "miss"} /\ "fault" \in Env
    /\ Leave(e)
    /\ UNCHANGED <<queueVars, wk, files, cache, gen>>

EnqueuerStep(e) ==
    \/ Scan(e) \/ Persist(e) \/ PersistFails(e) \/ ListPending(e)
    \/ PickPending(e) \/ LoopEnds(e) \/ MarkHit(e) \/ Reserve(e)
    \/ EnqueueScan(e) \/ EnqueueFails(e) \/ Restore(e) \/ ResultGone(e)
    \/ LibraryGone(e) \/ Abort(e)

-----------------------------------------------------------------------------
(* The webhook, the operator's commands, time and crashes                  *)

\* The scan results resolveTrack may pick: pickByAlbum takes one whose file
\* path names the album, else the first unfinished one, else the first.
Candidates(k) == {s \in Present : KeyOf[s] = k}

\* Download / TrackRetag: an inventory match, else a path of its own.
WebhookEnqueue ==
    /\ "webhook" \in Env
    /\ \E k \in Key :
         \/ \E s \in Candidates(k) :
               Enqueue(k, {PathOf[s]}, PriorityWebhook, {s}, gen)
         \/ /\ Candidates(k) = {} \/ "fault" \in Env
            /\ Enqueue(k, {HookPath}, PriorityWebhook, {}, gen)
    /\ UNCHANGED <<wk, eq, files, cache, gen>>

WebhookDelete ==
    /\ "delete" \in Env
    /\ \E k \in Key : Cleanup(k)
    /\ UNCHANGED <<wk, eq, files, cache, gen>>

\* queue retry / clear, scan recheck
OperatorStep ==
    /\ "operator" \in Env
    /\ \/ \E k \in Key : Retry(k)
       \/ ClearDone
       \/ \E scope \in Library \cup {"all"} :
            RecheckDeferred(scope) \/ RecheckRetired(scope)
    /\ UNCHANGED <<wk, eq, files, cache, gen>>

\* The ids of a library are deleted under the enqueuers es.
Forget(lib, es) ==
    eq' = [e \in Enqueuer |->
             IF e \in es
             THEN [eq[e] EXCEPT !.gone =
                     @ \cup ((eq[e].todo \cup eq[e].cur) \cap OfLibrary(lib))]
             ELSE eq[e]]

\* scan clear (found files that are not persisted yet have no id to delete),
\* library remove
LibraryStep ==
    /\ "library" \in Env
    /\ \E lib \in Library :
         \/ ScanClear(lib) /\ Forget(lib, {e \in Enqueuer : eq[e].pc # "persist"})
         \/ LibraryRemove(lib) /\ Forget(lib, Enqueuer)
    /\ UNCHANGED <<wk, files, cache, gen>>

TimePasses ==
    /\ \E k \in Key : Elapse(k)
    /\ UNCHANGED <<wk, eq, files, cache, gen>>

\* The process dies anywhere and starts again, perhaps with other providers;
\* nothing looks for rows left in 'processing'.
Crash ==
    /\ "crash" \in Env
    /\ wk' = [w \in Worker |-> IdleWorker]
    /\ eq' = [e \in Enqueuer |-> IdleEnqueuer]
    /\ gen' \in Gen
    /\ UNCHANGED <<queueVars, files, cache>>

Next ==
    \/ \E w \in Worker : WorkerStep(w)
    \/ \E e \in Enqueuer : EnqueuerStep(e)
    \/ WebhookEnqueue \/ WebhookDelete \/ OperatorStep \/ LibraryStep
    \/ TimePasses \/ Crash

Spec == Init /\ [][Next]_vars

\* The worker's poll loop and the scheduler's callback always come back to
\* their next statement.
Liveness ==
    /\ \A w \in Worker : WF_vars(WorkerStep(w))
    /\ \A e \in Enqueuer : WF_vars(EnqueuerStep(e))

FairSpec == Spec /\ Liveness

-----------------------------------------------------------------------------
\* Type invariant of the pipeline.
TypeOK ==
    /\ QueueTypeOK
    /\ wk \in [Worker -> WorkerRec]
    /\ eq \in [Enqueuer -> EnqueuerRec]
    /\ files \in [Path -> Song \cup {"none"}]
    /\ cache \in [CacheKey -> Song \cup {"none"}]
    /\ gen \in Gen

Busy(w) == wk[w].pc # "idle"

\* A claim is exclusive and its snapshot stays true: while a worker holds a
\* key, no scan, webhook, command or other worker takes the row out of
\* 'processing' or changes the destinations and the miss count the worker
\* goes on to use.  So the guarded UPDATEs never lose their race.
ClaimOwned ==
    \A w \in Worker : Busy(w) =>
        /\ wk[w].key \in Key
        /\ wq[wk[w].key].status = "processing"
        /\ wq[wk[w].key].paths = wk[w].paths
        /\ wq[wk[w].key].miss = wk[w].miss
        /\ \A v \in Worker \ {w} : Busy(v) => wk[v].key # wk[w].key

\* Lyrics before done: a row that becomes done with no error on record has a
\* sidecar at every destination of the row, unless the language guard
\* rejected the lyrics just found.
WrittenBeforeDone ==
    [][\A k \in Key :
         (wq[k].status # "done" /\ wq'[k].status = "done" /\ wq'[k].err = "none")
         => \/ \A p \in wq[k].paths : files[p] # "none"
            \/ \E w \in Worker : wk[w].key = k /\ wk[w].pc = "found"]_vars

\* The miss budget: a row is given up only after max_miss_attempts misses,
\* and never lives on with its budget spent.
MissBudget ==
    \A k \in Key :
        /\ wq[k].err = "limit" => /\ MaxMissAttempts > 0
                                  /\ wq[k].miss + 1 >= MaxMissAttempts
        /\ MaxMissAttempts > 0 => wq[k].miss < MaxMissAttempts

\* The promise of TrackJob, kept by the pipeline: the stage of a job is read
\* off the row's status, its holders off the workers' records.
StageOf(status) ==
    CASE status \in Retryable  -> "open"
      [] status = "processing" -> "claimed"
      [] status = "done"       -> "closed"
      [] status = "absent"     -> "absent"

Jobs == INSTANCE TrackJob WITH
            job <- [k \in Key |-> StageOf(wq[k].status)],
            holds <- {<<w, wk[w].key>> : w \in {v \in Worker : Busy(v)}}

\* The queue, the worker and every command together implement TrackJob: only
\* the worker that claimed a row moves it on.
KeepsJobs == Jobs!JobSpec

\* "a successful Complete guarantees the work_queue row and all originating
\* scan_results agree": a scan result linked to a done row is not left in
\* 'processing'.
LinkedAgree ==
    \A k \in Key : wq[k].status = "done" =>
        \A s \in wq[k].links : sr[s] # "processing"

\* "re-attempts from an escalating miss cadence are always processed after
\* new or normal-priority items": a row that missed before waits behind the
\* scan tier unless a webhook lifted it.
RetriesBehindFresh ==
    \A k \in Key : (wq[k].status \in Retryable /\ wq[k].miss > 0)
                      => wq[k].priority # PriorityScan

\* Every claimed row is given back or finished by the worker that holds it.
ClaimEnds ==
    \A k \in Key : wq[k].status = "processing" ~> wq[k].status # "processing"

\* A scan that started always comes to its end, whatever is deleted under it.
ScanEnds ==
    \A e \in Enqueuer : eq[e].pc # "idle" ~> eq[e].pc = "idle"

=============================================================================
