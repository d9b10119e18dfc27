-------------------------- MODULE Pipeline_proofs --------------------------
(***************************************************************************)
(* Theorems about the whole pipeline, for any number of workers,           *)
(* enqueuers, tracks and libraries, and whichever environment steps are    *)
(* enabled: claims are exclusive and their snapshots stay true, the miss   *)
(* budget is kept, lyrics are written before a row is done, the whole of   *)
(* it implements the job board of TrackJob, and items and passes only move *)
(* on.                                                                     *)
(***************************************************************************)
EXTENDS Pipeline, WorkQueue_proofs

\* What a row tells about its miss budget.
MissOK(row) ==
    /\ row.err = "limit" => MaxMissAttempts > 0 /\ row.miss + 1 >= MaxMissAttempts
    /\ MaxMissAttempts > 0 => row.miss < MaxMissAttempts

\* How far a worker got with its files.
ProgressOf(r, fs) ==
    /\ r.pc \in {"found", "write", "stamp", "outcome", "finish"} => r.song \in Song
    /\ r.pc = "write" => \A p \in r.paths \ r.todo : fs[p] # "none"
    /\ r.pc \in {"stamp", "outcome", "finish"} => \A p \in r.paths : fs[p] # "none"

Progress == \A w \in Worker : ProgressOf(wk[w], files)

LocalTypes ==
    /\ wk \in [Worker -> WorkerRec]
    /\ eq \in [Enqueuer -> EnqueuerRec]
    /\ files \in [Path -> Song \cup {"none"}]
    /\ cache \in [CacheKey -> Song \cup {"none"}]
    /\ gen \in Gen

PipelineInv ==
    /\ QueueInv
    /\ LocalTypes
    /\ ClaimOwned
    /\ MissBudget
    /\ Progress

-----------------------------------------------------------------------------
(* What a step may do to the rows of others.                               *)

\* Row k, if claimed, keeps what its holder relies on.
Kept(k) ==
    wq[k].status = "processing" =>
        /\ wq'[k].status = "processing"
        /\ wq'[k].paths = wq[k].paths
        /\ wq'[k].miss = wq[k].miss

\* Row k is not finished by this step, and its miss budget stays kept.
Unfinished(k) ==
    /\ wq[k].status # "done" => wq'[k].status # "done"
    /\ MissOK(wq[k]) => MissOK(wq'[k])

Bystander(k) == Kept(k) /\ Unfinished(k)

\* A missing row has an untouched miss budget.
LEMMA NoRowMissOK == MissOK(NoRow)
  BY QueueAssumption DEF MissOK, NoRow

\* Enqueue never disturbs a claimed row.
LEMMA EnqueueBystander ==
  ASSUME QueueInv, NEW k \in Key, NEW dests, NEW prio, NEW link, NEW stamp,
         Enqueue(k, dests, prio, link, stamp), NEW j \in Key
  PROVE  Bystander(j)
<1>1. wq \in [Key -> Row]
  BY DEF QueueInv
<1>2. wq[j] \in Row
  BY <1>1
<1>3. CASE j # k
  BY <1>1, <1>3 DEF Enqueue, Bystander, Kept, Unfinished
<1>4. CASE j = k /\ wq[k].status = "absent"
  <2>1. wq'[j] = Inserted(dests, prio, link, stamp)
    BY <1>1, <1>4 DEF Enqueue
  <2>2. wq'[j].status = "pending" /\ wq'[j].miss = 0 /\ wq'[j].err = "none"
    BY <2>1 DEF Inserted, NoRow
  <2> QED BY <1>4, <2>2, QueueAssumption DEF Bystander, Kept, Unfinished, MissOK
<1>5. CASE j = k /\ wq[k].status # "absent"
  <2>1. wq'[j] = Upserted(wq[j], dests, prio, link)
    BY <1>1, <1>5 DEF Enqueue
  <2>2. /\ wq'[j].status = wq[j].status /\ wq'[j].miss = wq[j].miss
        /\ wq'[j].err \in {"none", wq[j].err}
    BY <1>2, <2>1 DEF Upserted, Row
  <2>3. wq[j].status = "processing" => wq'[j].paths = wq[j].paths
    BY <1>2, <2>1 DEF Upserted, Row
  <2> QED BY <2>2, <2>3 DEF Bystander, Kept, Unfinished, MissOK
<1> QED BY <1>3, <1>4, <1>5

\* Neither do time, the webhook's cleanup and the operator's commands.
LEMMA OperatorBystander ==
  ASSUME QueueInv, NEW j \in Key,
         \/ \E k \in Key : Elapse(k) \/ Cleanup(k) \/ Retry(k)
         \/ ClearDone
         \/ \E scope \in Library \cup {"all"} :
              RecheckDeferred(scope) \/ RecheckRetired(scope)
  PROVE  Bystander(j)
<1>1. wq \in [Key -> Row] /\ wq[j] \in Row
  BY DEF QueueInv
<1>2. ASSUME NEW k \in Key, Elapse(k)
      PROVE  Bystander(j)
  <2>1. wq'[j] = IF j = k THEN [wq[j] EXCEPT !.due = TRUE] ELSE wq[j]
    BY <1>1, <1>2 DEF Elapse
  <2>2. /\ wq'[j].status = wq[j].status /\ wq'[j].miss = wq[j].miss
        /\ wq'[j].err = wq[j].err /\ wq'[j].paths = wq[j].paths
    BY <1>1, <2>1 DEF Row
  <2> QED BY <2>2 DEF Bystander, Kept, Unfinished, MissOK
<1>3. ASSUME NEW k \in Key, Cleanup(k)
      PROVE  Bystander(j)
  <2>1. wq'[j] = IF j = k THEN NoRow ELSE wq[j]
    BY <1>1, <1>3 DEF Cleanup
  <2>2. j = k => wq[j].status # "processing"
    BY <1>3 DEF Cleanup, Retryable
  <2>3. NoRow.status # "done"
    BY DEF NoRow
  <2> QED BY <2>1, <2>2, <2>3, NoRowMissOK DEF Bystander, Kept, Unfinished
<1>4. ASSUME NEW k \in Key, Retry(k)
      PROVE  Bystander(j)
  <2>1. CASE j = k
    <3>1. wq'[j] = [wq[j] EXCEPT !.status = "pending", !.attempts = 0,
                                 !.due = TRUE, !.err = "none"]
      BY <1>1, <1>4, <2>1 DEF Retry
    <3>2. wq'[j].status = "pending" /\ wq'[j].err = "none"
          /\ wq'[j].miss = wq[j].miss
      BY <1>1, <3>1 DEF Row
    <3>3. wq[j].status # "processing"
      BY <1>4, <2>1 DEF Retry
    <3> QED BY <3>2, <3>3 DEF Bystander, Kept, Unfinished, MissOK
  <2>2. CASE j # k
    BY <1>1, <1>4, <2>2 DEF Retry, Bystander, Kept, Unfinished
  <2> QED BY <2>1, <2>2
<1>5. CASE ClearDone
  <2>1. wq'[j] = IF wq[j].status = "done" THEN NoRow ELSE wq[j]
    BY <1>5 DEF ClearDone
  <2>2. NoRow.status # "done"
    BY DEF NoRow
  <2> QED BY <2>1, <2>2, NoRowMissOK DEF Bystander, Kept, Unfinished
<1>6. ASSUME NEW scope \in Library \cup {"all"}, RecheckDeferred(scope)
      PROVE  Bystander(j)
  <2>1. wq'[j] \in {wq[j], [wq[j] EXCEPT !.due = TRUE]}
    BY <1>6 DEF RecheckDeferred
  <2>2. /\ wq'[j].status = wq[j].status /\ wq'[j].miss = wq[j].miss
        /\ wq'[j].err = wq[j].err /\ wq'[j].paths = wq[j].paths
    BY <1>1, <2>1 DEF Row
  <2> QED BY <2>2 DEF Bystander, Kept, Unfinished, MissOK
<1>7. ASSUME NEW scope \in Library \cup {"all"}, RecheckRetired(scope)
      PROVE  Bystander(j)
  <2>1. \/ wq'[j] = wq[j]
        \/ wq[j].status = "done" /\ wq'[j] = Requeued(wq[j])
    BY <1>7 DEF RecheckRetired
  <2>2. /\ Requeued(wq[j]).status = "deferred" /\ Requeued(wq[j]).err = "none"
        /\ Requeued(wq[j]).miss = wq[j].miss
    BY <1>1 DEF Requeued, Row
  <2> QED BY <2>1, <2>2 DEF Bystander, Kept, Unfinished, MissOK
<1> QED BY <1>2, <1>3, <1>4, <1>5, <1>6, <1>7

\* Nor does clearing or removing a library.
LEMMA LibraryBystander ==
  ASSUME QueueInv, NEW lib \in Library, ScanClear(lib) \/ LibraryRemove(lib),
         NEW j \in Key
  PROVE  Bystander(j)
<1>1. wq[j] \in Row
  BY DEF QueueInv
<1>2. ASSUME NEW row \in Row, row \in {wq[j], NoRow} \/ row.status # "processing",
             wq'[j] = DropLinks(row, OfLibrary(lib)),
             \/ row = NoRow /\ wq[j].status # "processing"
             \/ row.status = wq[j].status /\ row.miss = wq[j].miss
                /\ row.err = wq[j].err
                /\ (row.status = "processing" => row.paths = wq[j].paths)
      PROVE  Bystander(j)
  <2>1. /\ wq'[j].status = row.status /\ wq'[j].miss = row.miss
        /\ wq'[j].err = row.err /\ wq'[j].paths = row.paths
    BY <1>2 DEF DropLinks, Row
  <2>2. NoRow.status = "absent"
    BY DEF NoRow
  <2> QED BY <1>2, <2>1, <2>2, NoRowMissOK DEF Bystander, Kept, Unfinished, MissOK
<1>3. CASE LibraryRemove(lib)
  <2>1. wq'[j] = DropLinks(wq[j], OfLibrary(lib))
    BY <1>3 DEF LibraryRemove
  <2> QED BY <1>1, <1>2, <2>1
<1>4. CASE ScanClear(lib)
  <2> DEFINE keep == {PathOf[s] : s \in wq[j].links \ OfLibrary(lib)}
             cut == [wq[j] EXCEPT !.paths = wq[j].paths \cap keep]
             row == Cancelled(wq[j], lib)
  <2>1. wq'[j] = DropLinks(row, OfLibrary(lib))
    BY <1>4 DEF ScanClear
  <2>2. \/ row = wq[j]
        \/ wq[j].status \in Retryable /\ row \in {NoRow, cut}
    BY DEF Cancelled
  <2>3. cut \in Row
    <3>1. wq[j].paths \cap keep \in SUBSET Path
      BY <1>1 DEF Row
    <3> HIDE DEF keep
    <3> QED BY <1>1, <3>1 DEF Row
  <2>4. cut.status = wq[j].status /\ cut.miss = wq[j].miss /\ cut.err = wq[j].err
    BY <1>1 DEF Row
  <2>5. NoRow \in Row
    BY NoRowGood DEF GoodRow
  <2>6. wq[j].status \in Retryable => wq[j].status # "processing"
    BY DEF Retryable
  <2> HIDE DEF row, cut
  <2> QED BY <1>1, <1>2, <2>1, <2>2, <2>3, <2>4, <2>5, <2>6
<1> QED BY <1>3, <1>4

-----------------------------------------------------------------------------
(* Every step of the pipeline is a step of the queue on its own.           *)

\* A settled item is a queue step of the row its worker holds, or none.
LEMMA SettleIsQueueStep ==
  ASSUME ClaimOwned, NEW w \in Worker, Busy(w),
         \/ FetchThrottled(w) \/ FailItem(w) \/ GuardRejects(w)
         \/ FinishItem(w) \/ RequeueDeferred(w)
  PROVE  [QueueNext]_queueVars
<1>1. wk[w].key \in Key
  BY DEF ClaimOwned
<1>2. \/ UNCHANGED queueVars
      \/ Release(wk[w].key) \/ Fail(wk[w].key) \/ Complete(wk[w].key)
      \/ Defer(wk[w].key) \/ RetireMiss(wk[w].key)
  BY DEF FetchThrottled, FailItem, GuardRejects, FinishItem, RequeueDeferred,
         Settle
<1> QED BY <1>1, <1>2 DEF QueueNext, RowStep

\* What a worker does to the tables is a queue operation.
LEMMA WorkerIsQueueStep ==
  ASSUME ClaimOwned, NEW w \in Worker, WorkerStep(w)
  PROVE  [QueueNext]_queueVars
<1>1. CASE Claim(w)
  BY <1>1 DEF Claim, QueueNext, RowStep
<1>2. CASE \/ FetchThrottled(w) \/ FailItem(w) \/ GuardRejects(w)
           \/ FinishItem(w) \/ RequeueDeferred(w)
  <2>1. Busy(w)
    BY <1>2 DEF Busy, FetchThrottled, FailItem, GuardRejects, FinishItem,
       RequeueDeferred
  <2> QED BY <1>2, <2>1, SettleIsQueueStep
<1>3. CASE DetectVocals(w) \/ StampInstrumental(w) \/ StampOutcome(w)
  <2>1. wk[w].key \in Key
    BY <1>3 DEF ClaimOwned, Busy, DetectVocals, StampInstrumental, StampOutcome
  <2>2. \/ UNCHANGED queueVars
        \/ \E v \in {"yes", "no"} : SetInstrumentalResult(wk[w].key, v)
        \/ \E o \in {"lyrics", "instrumental"} : SetOutcomeType(wk[w].key, o)
    BY <1>3 DEF DetectVocals, StampInstrumental, StampOutcome
  <2> QED BY <2>1, <2>2 DEF QueueNext, RowStep
<1>4. CASE \/ LookupCache(w) \/ FetchFinds(w) \/ FetchMisses(w) \/ StoreSong(w)
           \/ DetectInstrumental(w) \/ DetectSkipped(w) \/ WriteLRC(w)
           \/ MarkerUnwritable(w) \/ Orphan(w)
  BY <1>4 DEF LookupCache, FetchFinds, FetchMisses, StoreSong,
     DetectInstrumental, DetectSkipped, WriteLRC, MarkerUnwritable, Orphan
<1> QED BY <1>1, <1>2, <1>3, <1>4 DEF WorkerStep

\* So is what an enqueuer does.
LEMMA EnqueuerIsQueueStep ==
  ASSUME LocalTypes, NEW e \in Enqueuer, EnqueuerStep(e)
  PROVE  [QueueNext]_queueVars
<1>1. eq[e].cur \subseteq ScanResult
  BY DEF LocalTypes, EnqueuerRec
<1>2. CASE Persist(e) \/ PersistFails(e)
  <2>1. eq[e].todo \subseteq ScanResult /\ eq[e].force \in BOOLEAN
    BY DEF LocalTypes, EnqueuerRec
  <2>2. \E found \in SUBSET ScanResult, force \in BOOLEAN : Upsert(found, force)
    BY <1>2, <2>1 DEF Persist, PersistFails
  <2> QED BY <2>2 DEF QueueNext, ScanStep
<1>3. CASE MarkHit(e) \/ Reserve(e) \/ Restore(e)
  <2>1. \/ UNCHANGED queueVars
        \/ \E s \in ScanResult, st \in {"pending", "processing", "done"} :
              SetStatus(s, st)
    BY <1>1, <1>3 DEF MarkHit, Reserve, Restore
  <2> QED BY <2>1 DEF QueueNext, ScanStep
<1>4. CASE EnqueueScan(e)
  <2>1. PICK s \in ScanResult :
              Enqueue(KeyOf[s], {PathOf[s]}, PriorityScan, {s}, 0)
    BY <1>1, <1>4 DEF EnqueueScan
  <2>2. KeyOf[s] \in Key /\ PathOf[s] \in Path
    BY QueueAssumption
  <2>3. RowStep(KeyOf[s])
    BY <2>1, <2>2 DEF RowStep
  <2> QED BY <2>2, <2>3 DEF QueueNext
<1>5. CASE \/ Scan(e) \/ ListPending(e) \/ PickPending(e) \/ LoopEnds(e)
           \/ EnqueueFails(e) \/ ResultGone(e) \/ LibraryGone(e) \/ Abort(e)
  BY <1>5 DEF Scan, ListPending, PickPending, LoopEnds, EnqueueFails,
     ResultGone, LibraryGone, Abort
<1> QED BY <1>2, <1>3, <1>4, <1>5 DEF EnqueuerStep

\* And so is every step of the pipeline.
LEMMA NextIsQueueStep ==
  ASSUME LocalTypes, ClaimOwned, [Next]_vars
  PROVE  [QueueNext]_queueVars
<1>1. CASE UNCHANGED vars
  BY <1>1 DEF vars, queueVars
<1>2. CASE WebhookEnqueue
  <2>1. PICK k \in Key : \/ \E s \in Candidates(k) :
                            Enqueue(k, {PathOf[s]}, PriorityWebhook, {s}, gen)
                        \/ Enqueue(k, {HookPath}, PriorityWebhook, {}, gen)
    BY <1>2 DEF WebhookEnqueue
  <2>2. gen \in Gen /\ HookPath \in Path
    BY PipelineAssumption DEF LocalTypes
  <2>3. \A s \in Candidates(k) : s \in ScanResult /\ PathOf[s] \in Path
    BY QueueAssumption DEF Candidates, Present
  <2>4. RowStep(k)
    BY <2>1, <2>2, <2>3 DEF RowStep
  <2> QED BY <2>4 DEF QueueNext
<1>3. CASE WebhookDelete \/ TimePasses
  BY <1>3 DEF WebhookDelete, TimePasses, QueueNext, RowStep
<1>4. CASE OperatorStep
  BY <1>4 DEF OperatorStep, QueueNext, RowStep, BulkStep
<1>5. CASE LibraryStep
  BY <1>5 DEF LibraryStep, QueueNext, BulkStep
<1>6. CASE Crash
  BY <1>6 DEF Crash
<1> QED BY <1>1, <1>2, <1>3, <1>4, <1>5, <1>6, WorkerIsQueueStep,
           EnqueuerIsQueueStep DEF Next

-----------------------------------------------------------------------------
(* The steps of a worker.                                                  *)

\* Worker w goes on as r: with the item it holds, or with none.
Moves(w, r) ==
    /\ r \in WorkerRec
    /\ wk' = [wk EXCEPT ![w] = r]
    /\ r.pc # "idle" => /\ r.key = wk[w].key
                        /\ r.paths = wk[w].paths
                        /\ r.miss = wk[w].miss
    /\ ProgressOf(r, files')

\* Sidecars are written, never removed; the cache stays typed.
Growing ==
    /\ files' \in [Path -> Song \cup {"none"}]
    /\ \A p \in Path : files[p] # "none" => files'[p] # "none"
    /\ cache' \in [CacheKey -> Song \cup {"none"}]

\* A worker that keeps its hands off the rows of others, and off its own as
\* long as it holds it, keeps the claims of all.
LEMMA WorkerMove ==
  ASSUME PipelineInv, NEW w \in Worker, Busy(w), NEW r, Moves(w, r),
         \A j \in Key : (j # wk[w].key \/ r.pc # "idle") => Kept(j),
         Growing, UNCHANGED <<eq, gen>>
  PROVE  LocalTypes' /\ ClaimOwned' /\ Progress'
<1>1. wk \in [Worker -> WorkerRec] /\ LocalTypes /\ ClaimOwned /\ Progress
  BY DEF PipelineInv, LocalTypes
<1>2. /\ wk'[w] = r
      /\ \A v \in Worker \ {w} : wk'[v] = wk[v]
  BY <1>1 DEF Moves
<1>3. LocalTypes'
  BY <1>1 DEF LocalTypes, Moves, Growing
<1>4. ASSUME NEW v \in Worker, v # w, wk[v].pc # "idle"
      PROVE  /\ wk[v].key \in Key /\ wk[v].key # wk[w].key
             /\ wq'[wk[v].key].status = "processing"
             /\ wq'[wk[v].key].paths = wk[v].paths
             /\ wq'[wk[v].key].miss = wk[v].miss
  <2>1. /\ wk[v].key \in Key /\ wk[v].key # wk[w].key
        /\ wq[wk[v].key].status = "processing"
        /\ wq[wk[v].key].paths = wk[v].paths
        /\ wq[wk[v].key].miss = wk[v].miss
    BY <1>1, <1>4 DEF ClaimOwned, Busy
  <2>2. Kept(wk[v].key)
    BY <2>1
  <2> QED BY <2>1, <2>2 DEF Kept
<1>5. ASSUME r.pc # "idle"
      PROVE  /\ r.key \in Key /\ r.key = wk[w].key
             /\ wq'[r.key].status = "processing"
             /\ wq'[r.key].paths = r.paths
             /\ wq'[r.key].miss = r.miss
  <2>1. /\ wk[w].key \in Key
        /\ wq[wk[w].key].status = "processing"
        /\ wq[wk[w].key].paths = wk[w].paths
        /\ wq[wk[w].key].miss = wk[w].miss
    BY <1>1 DEF ClaimOwned
  <2>2. Kept(wk[w].key)
    BY <1>5, <2>1
  <2> QED BY <1>5, <2>1, <2>2 DEF Kept, Moves
<1>6. ClaimOwned'
  <2> SUFFICES ASSUME NEW u \in Worker, wk'[u].pc # "idle"
               PROVE  /\ wk'[u].key \in Key
                      /\ wq'[wk'[u].key].status = "processing"
                      /\ wq'[wk'[u].key].paths = wk'[u].paths
                      /\ wq'[wk'[u].key].miss = wk'[u].miss
                      /\ \A v \in Worker \ {u} :
                           wk'[v].pc # "idle" => wk'[v].key # wk'[u].key
    BY DEF ClaimOwned, Busy
  <2>1. CASE u = w
    BY <1>2, <1>4, <1>5, <2>1
  <2>2. CASE u # w
    <3>1. wk'[u] = wk[u]
      BY <1>2, <2>2
    <3>2. \A v \in Worker \ {u, w} : wk[v].pc # "idle" => wk[v].key # wk[u].key
      BY <1>1, <3>1 DEF ClaimOwned, Busy
    <3>3. r.pc # "idle" => r.key # wk[u].key
      BY <1>4, <1>5, <2>2, <3>1
    <3> QED BY <1>2, <1>4, <2>2, <3>1, <3>2, <3>3
  <2> QED BY <2>1, <2>2
<1>7. Progress'
  <2> SUFFICES ASSUME NEW v \in Worker PROVE ProgressOf(wk'[v], files')
    BY DEF Progress
  <2>1. CASE v = w
    BY <1>2, <2>1 DEF Moves
  <2>2. CASE v # w
    <3>1. ProgressOf(wk[v], files) /\ wk'[v] = wk[v] /\ wk[v].paths \subseteq Path
      BY <1>1, <1>2, <2>2 DEF Progress, WorkerRec
    <3> QED BY <3>1 DEF ProgressOf, Growing
  <2> QED BY <2>1, <2>2
<1> QED BY <1>3, <1>6, <1>7

\* Returning is a move.
LEMMA ReturnMoves ==
  ASSUME NEW w, Return(w)
  PROVE  Moves(w, IdleWorker) /\ IdleWorker.pc = "idle"
<1>1. 0 \in 0 .. MissBound
  BY QueueAssumption
<1>2. IdleWorker \in WorkerRec
  BY <1>1 DEF IdleWorker, WorkerRec, WorkerPC, Song
<1>3. IdleWorker.pc = "idle"
  BY DEF IdleWorker
<1> QED BY <1>2, <1>3 DEF Moves, Return, ProgressOf

\* What WrittenBeforeDone says of row k.
Written(k) ==
    (wq[k].status # "done" /\ wq'[k].status = "done" /\ wq'[k].err = "none")
    => \/ \A p \in wq[k].paths : files[p] # "none"
       \/ \E w \in Worker : wk[w].key = k /\ wk[w].pc = "found"

\* What has to be shown of a step, apart from the queue's own invariant.
Sound ==
    /\ LocalTypes' /\ ClaimOwned' /\ MissBudget' /\ Progress'
    /\ \A k \in Key : Written(k)

\* A step to which every row is a bystander keeps budgets and finishes none.
LEMMA AllBystanders ==
  ASSUME MissBudget, \A j \in Key : Bystander(j)
  PROVE  /\ MissBudget'
         /\ \A j \in Key : Written(j) /\ Kept(j)
  BY DEF MissBudget, Bystander, Unfinished, MissOK, Written

\* So does a step that leaves the tables alone.
LEMMA UntouchedBystanders ==
  ASSUME UNCHANGED queueVars
  PROVE  \A j \in Key : Bystander(j)
  BY DEF queueVars, Bystander, Kept, Unfinished

\* The stamps on a row are nobody's concern.
LEMMA StampBystanders ==
  ASSUME QueueInv, NEW k \in Key,
         \/ \E v \in {"yes", "no"} : SetInstrumentalResult(k, v)
         \/ \E o \in {"lyrics", "instrumental"} : SetOutcomeType(k, o)
  PROVE  \A j \in Key : Bystander(j)
<1> SUFFICES ASSUME NEW j \in Key PROVE Bystander(j)
  OBVIOUS
<1>1. wq \in [Key -> Row] /\ wq[j] \in Row
  BY DEF QueueInv
<1>2. \/ wq'[j] = wq[j]
      \/ \E v : wq'[j] = [wq[j] EXCEPT !.instr = v]
      \/ \E o : wq'[j] = [wq[j] EXCEPT !.outcome = o]
  BY <1>1 DEF SetInstrumentalResult, SetOutcomeType
<1>3. /\ wq'[j].status = wq[j].status /\ wq'[j].miss = wq[j].miss
      /\ wq'[j].err = wq[j].err /\ wq'[j].paths = wq[j].paths
  BY <1>1, <1>2 DEF Row
<1> QED BY <1>3 DEF Bystander, Kept, Unfinished, MissOK

\* Worker steps that change no column another party relies on.
LEMMA QuietStep ==
  ASSUME PipelineInv, NEW w \in Worker, Busy(w), NEW r, Moves(w, r), Growing,
         UNCHANGED <<eq, gen>>, \A j \in Key : Bystander(j)
  PROVE  Sound
<1>1. MissBudget
  BY DEF PipelineInv
<1>2. MissBudget' /\ \A j \in Key : Written(j) /\ Kept(j)
  BY <1>1, AllBystanders
<1>3. LocalTypes' /\ ClaimOwned' /\ Progress'
  BY <1>2, WorkerMove
<1> QED BY <1>2, <1>3 DEF Sound

\* Nothing on disk and in the cache changes.
LEMMA StillGrowing ==
  ASSUME LocalTypes, UNCHANGED <<files, cache>>
  PROVE  Growing
  BY DEF LocalTypes, Growing

\* Looking up, fetching and detecting.
LEMMA ResolveStep ==
  ASSUME PipelineInv, NEW w \in Worker,
         \/ LookupCache(w) \/ FetchFinds(w) \/ FetchMisses(w)
         \/ DetectVocals(w) \/ DetectSkipped(w) \/ MarkerUnwritable(w)
  PROVE  Sound
<1>1. /\ QueueInv /\ LocalTypes /\ ClaimOwned /\ wk[w] \in WorkerRec
      /\ wk \in [Worker -> WorkerRec]
  BY DEF PipelineInv, LocalTypes
<1>2. Busy(w)
  BY DEF Busy, LookupCache, FetchFinds, FetchMisses, DetectVocals,
     DetectSkipped, MarkerUnwritable
<1>3. wk[w].key \in Key
  BY <1>1, <1>2 DEF ClaimOwned
<1>4. UNCHANGED <<eq, files, cache, gen>>
  BY DEF LookupCache, FetchFinds, FetchMisses, DetectVocals, DetectSkipped,
     MarkerUnwritable
<1>5. \A j \in Key : Bystander(j)
  <2>1. UNCHANGED queueVars \/ SetInstrumentalResult(wk[w].key, "no")
    BY DEF LookupCache, FetchFinds, FetchMisses, DetectVocals, DetectSkipped,
       MarkerUnwritable
  <2> QED BY <1>1, <1>3, <2>1, UntouchedBystanders, StampBystanders
<1>6. ASSUME NEW pc \in {"fetch", "missed", "requeue"}, Goto(w, pc)
      PROVE  \E r : Moves(w, r)
  <2> DEFINE r == [wk[w] EXCEPT !.pc = pc]
  <2>1. wk' = [wk EXCEPT ![w] = r]
    BY <1>6 DEF Goto
  <2>2. r \in WorkerRec
    BY <1>1 DEF WorkerRec, WorkerPC
  <2>3. r.pc = pc /\ r.key = wk[w].key /\ r.paths = wk[w].paths
        /\ r.miss = wk[w].miss
    BY <1>1 DEF WorkerRec
  <2> HIDE DEF r
  <2> QED BY <2>1, <2>2, <2>3 DEF Moves, ProgressOf
<1>7. ASSUME NEW song \in Song,
             wk' = [wk EXCEPT ![w] = [@ EXCEPT !.pc = "found", !.song = song]]
      PROVE  \E r : Moves(w, r)
  <2> DEFINE r == [wk[w] EXCEPT !.pc = "found", !.song = song]
  <2>1. wk' = [wk EXCEPT ![w] = r]
    BY <1>7
  <2>2. r \in WorkerRec
    BY <1>1 DEF WorkerRec, WorkerPC
  <2>3. r.pc = "found" /\ r.key = wk[w].key /\ r.paths = wk[w].paths
        /\ r.miss = wk[w].miss /\ r.song = song
    BY <1>1 DEF WorkerRec
  <2> HIDE DEF r
  <2> QED BY <2>1, <2>2, <2>3 DEF Moves, ProgressOf
<1>8. ASSUME NEW song \in Song,
             wk' = [wk EXCEPT ![w] = [@ EXCEPT !.pc = "write", !.song = song,
                                               !.todo = wk[w].paths]]
      PROVE  \E r : Moves(w, r)
  <2> DEFINE r == [wk[w] EXCEPT !.pc = "write", !.song = song,
                                !.todo = wk[w].paths]
  <2>1. wk' = [wk EXCEPT ![w] = r]
    BY <1>8
  <2>2. r \in WorkerRec
    BY <1>1 DEF WorkerRec, WorkerPC
  <2>3. r.pc = "write" /\ r.key = wk[w].key /\ r.paths = wk[w].paths
        /\ r.miss = wk[w].miss /\ r.song = song /\ r.todo = wk[w].paths
    BY <1>1 DEF WorkerRec
  <2> HIDE DEF r
  <2> QED BY <2>1, <2>2, <2>3 DEF Moves, ProgressOf
<1>9. \E r : Moves(w, r)
  <2>1. CASE LookupCache(w)
    <3> DEFINE cached == cache[FetchKey[wk[w].key]]
    <3>1. cached \in Song \cup {"none"}
      BY <1>1, <1>3, PipelineAssumption DEF LocalTypes
    <3>2. \/ Goto(w, "fetch")
          \/ /\ cached # "none"
             /\ wk' = [wk EXCEPT ![w] = [@ EXCEPT !.pc = "write", !.song = cached,
                                                   !.todo = wk[w].paths]]
      BY <2>1 DEF LookupCache
    <3> HIDE DEF cached
    <3> QED BY <1>6, <1>8, <3>1, <3>2
  <2>2. CASE FetchFinds(w)
    BY <1>7, <2>2 DEF FetchFinds
  <2>3. CASE \/ FetchMisses(w) \/ DetectVocals(w) \/ DetectSkipped(w)
             \/ MarkerUnwritable(w)
    BY <1>6, <2>3 DEF FetchMisses, DetectVocals, DetectSkipped, MarkerUnwritable
  <2> QED BY <2>1, <2>2, <2>3
<1>10. Growing
  BY <1>1, <1>4, StillGrowing
<1> QED BY <1>2, <1>4, <1>5, <1>9, <1>10, QuietStep

\* Caching a song, from a provider or from the detector.
LEMMA StoreStep ==
  ASSUME PipelineInv, NEW w \in Worker, StoreSong(w) \/ DetectInstrumental(w)
  PROVE  Sound
<1>1. /\ LocalTypes /\ ClaimOwned /\ wk[w] \in WorkerRec
      /\ wk \in [Worker -> WorkerRec] /\ ProgressOf(wk[w], files)
  BY DEF PipelineInv, LocalTypes, Progress
<1>2. Busy(w)
  BY DEF Busy, StoreSong, DetectInstrumental
<1>3. wk[w].key \in Key
  BY <1>1, <1>2 DEF ClaimOwned
<1>4. UNCHANGED <<eq, files, gen>> /\ UNCHANGED queueVars
  BY DEF StoreSong, DetectInstrumental
<1>5. \A j \in Key : Bystander(j)
  BY <1>4, UntouchedBystanders
<1>6. Growing
  <2>1. \/ cache' = cache
        \/ \E song \in Song : cache' = [cache EXCEPT ![FetchKey[wk[w].key]] = song]
    BY <1>1 DEF StoreSong, DetectInstrumental, ProgressOf, Song
  <2>2. cache' \in [CacheKey -> Song \cup {"none"}]
    BY <1>1, <1>3, <2>1, PipelineAssumption DEF LocalTypes
  <2> QED BY <1>1, <1>4, <2>2 DEF LocalTypes, Growing
<1>7. \E r : Moves(w, r)
  <2>1. CASE StoreSong(w)
    <3> DEFINE r == [wk[w] EXCEPT !.pc = "write", !.todo = wk[w].paths]
    <3>1. wk' = [wk EXCEPT ![w] = r]
      BY <2>1 DEF StoreSong
    <3>2. r \in WorkerRec
      BY <1>1 DEF WorkerRec, WorkerPC
    <3>3. r.pc = "write" /\ r.key = wk[w].key /\ r.paths = wk[w].paths
          /\ r.miss = wk[w].miss /\ r.song = wk[w].song /\ r.todo = wk[w].paths
      BY <1>1 DEF WorkerRec
    <3>4. wk[w].song \in Song
      BY <1>1, <2>1 DEF StoreSong, ProgressOf
    <3> HIDE DEF r
    <3> QED BY <3>1, <3>2, <3>3, <3>4 DEF Moves, ProgressOf
  <2>2. CASE DetectInstrumental(w)
    <3> DEFINE r == [wk[w] EXCEPT !.pc = "write", !.todo = wk[w].paths,
                                  !.song = "marker", !.detected = TRUE]
    <3>1. wk' = [wk EXCEPT ![w] = r]
      BY <2>2 DEF DetectInstrumental
    <3>2. r \in WorkerRec
      BY <1>1 DEF WorkerRec, WorkerPC, Song
    <3>3. r.pc = "write" /\ r.key = wk[w].key /\ r.paths = wk[w].paths
          /\ r.miss = wk[w].miss /\ r.song = "marker" /\ r.todo = wk[w].paths
      BY <1>1 DEF WorkerRec
    <3> HIDE DEF r
    <3> QED BY <3>1, <3>2, <3>3 DEF Moves, ProgressOf, Song
  <2> QED BY <2>1, <2>2
<1> QED BY <1>2, <1>4, <1>5, <1>6, <1>7, QuietStep

\* Writing a sidecar: once none is left to write, every destination has one.
LEMMA WriteStep ==
  ASSUME PipelineInv, NEW w \in Worker, WriteLRC(w)
  PROVE  Sound
<1>1. /\ LocalTypes /\ wk[w] \in WorkerRec /\ wk \in [Worker -> WorkerRec]
      /\ ProgressOf(wk[w], files)
  BY DEF PipelineInv, LocalTypes, Progress
<1>2. Busy(w) /\ wk[w].pc = "write" /\ wk[w].song \in Song
  BY <1>1 DEF Busy, WriteLRC, ProgressOf
<1>3. PICK p \in wk[w].todo :
         /\ files' = [files EXCEPT ![p] = wk[w].song]
         /\ wk' = [wk EXCEPT ![w] = [@ EXCEPT !.todo = wk[w].todo \ {p},
                                              !.pc = AfterWrite(w, p)]]
  BY DEF WriteLRC
<1>4. wk[w].todo \subseteq Path /\ p \in Path /\ wk[w].paths \subseteq Path
  BY <1>1 DEF WorkerRec
<1>5. files \in [Path -> Song \cup {"none"}]
  BY <1>1 DEF LocalTypes
<1>6. files'[p] # "none" /\ \A q \in Path : q # p => files'[q] = files[q]
  BY <1>2, <1>3, <1>4, <1>5 DEF Song
<1>7. UNCHANGED <<eq, cache, gen>> /\ UNCHANGED queueVars
  BY DEF WriteLRC
<1>8. Growing
  BY <1>1, <1>2, <1>3, <1>4, <1>5, <1>6, <1>7 DEF LocalTypes, Growing
<1>9. \A j \in Key : Bystander(j)
  BY <1>7, UntouchedBystanders
<1>10. \E r : Moves(w, r)
  <2> DEFINE rest == wk[w].todo \ {p}
             next == AfterWrite(w, p)
             r == [wk[w] EXCEPT !.todo = rest, !.pc = next]
  <2>1. wk' = [wk EXCEPT ![w] = r]
    BY <1>3
  <2>2. rest \in SUBSET Path /\ next \in WorkerPC
    BY <1>4 DEF AfterWrite, WorkerPC
  <2>3. next # "write" => wk[w].todo = {p} /\ next \in {"stamp", "outcome"}
    BY DEF AfterWrite
  <2>4. \A q \in wk[w].paths \ rest : files'[q] # "none"
    BY <1>1, <1>2, <1>4, <1>6 DEF ProgressOf
  <2>5. next # "write" => \A q \in wk[w].paths : files'[q] # "none"
    BY <2>3, <2>4
  <2> HIDE DEF rest, next
  <2>6. r \in WorkerRec
    BY <1>1, <2>2 DEF WorkerRec
  <2>7. r.pc = next /\ r.key = wk[w].key /\ r.paths = wk[w].paths
        /\ r.miss = wk[w].miss /\ r.song = wk[w].song /\ r.todo = rest
    BY <1>1 DEF WorkerRec
  <2> HIDE DEF r
  <2>8. ProgressOf(r, files')
    BY <1>2, <2>4, <2>5, <2>7 DEF ProgressOf
  <2> QED BY <2>1, <2>6, <2>7, <2>8 DEF Moves
<1> QED BY <1>2, <1>7, <1>8, <1>9, <1>10, QuietStep

\* Stamping the outcome on the row.
LEMMA StampRowStep ==
  ASSUME PipelineInv, NEW w \in Worker, StampInstrumental(w) \/ StampOutcome(w)
  PROVE  Sound
<1>1. /\ QueueInv /\ LocalTypes /\ ClaimOwned /\ wk[w] \in WorkerRec
      /\ wk \in [Worker -> WorkerRec] /\ ProgressOf(wk[w], files)
  BY DEF PipelineInv, LocalTypes, Progress
<1>2. Busy(w)
  BY DEF Busy, StampInstrumental, StampOutcome
<1>3. wk[w].key \in Key
  BY <1>1, <1>2 DEF ClaimOwned
<1>4. UNCHANGED <<eq, files, cache, gen>>
  BY DEF StampInstrumental, StampOutcome
<1>5. \A j \in Key : Bystander(j)
  <2>1. \/ UNCHANGED queueVars
        \/ SetInstrumentalResult(wk[w].key, "yes")
        \/ \E o \in {"lyrics", "instrumental"} : SetOutcomeType(wk[w].key, o)
    BY DEF StampInstrumental, StampOutcome
  <2> QED BY <1>1, <1>3, <2>1, UntouchedBystanders, StampBystanders
<1>6. PICK pc \in {"outcome", "finish"} : Goto(w, pc)
  BY DEF StampInstrumental, StampOutcome
<1>7. \E r : Moves(w, r)
  <2> DEFINE r == [wk[w] EXCEPT !.pc = pc]
  <2>1. wk' = [wk EXCEPT ![w] = r]
    BY <1>6 DEF Goto
  <2>2. r \in WorkerRec
    BY <1>1 DEF WorkerRec, WorkerPC
  <2>3. r.pc = pc /\ r.key = wk[w].key /\ r.paths = wk[w].paths
        /\ r.miss = wk[w].miss /\ r.song = wk[w].song
    BY <1>1 DEF WorkerRec
  <2>4. wk[w].pc \in {"stamp", "outcome"}
    BY DEF StampInstrumental, StampOutcome
  <2> HIDE DEF r
  <2>5. ProgressOf(r, files)
    BY <1>1, <2>3, <2>4 DEF ProgressOf
  <2>6. files' = files
    BY <1>4
  <2>7. ProgressOf(r, files')
    BY <2>5, <2>6 DEF ProgressOf
  <2>8. Moves(w, r)
    BY <2>1, <2>2, <2>3, <2>7 DEF Moves
  <2> QED BY <2>8
<1>8. Growing
  BY <1>1, <1>4, StillGrowing
<1> QED BY <1>2, <1>4, <1>5, <1>7, <1>8, QuietStep

\* Dropping the item with its row left behind.
LEMMA OrphanStep ==
  ASSUME PipelineInv, NEW w \in Worker, Orphan(w)
  PROVE  Sound
<1>1. LocalTypes /\ Busy(w) /\ Return(w) /\ UNCHANGED <<eq, files, cache, gen>>
  BY DEF PipelineInv, Busy, Orphan
<1>2. \A j \in Key : Bystander(j)
  BY UntouchedBystanders DEF Orphan
<1> QED BY <1>1, <1>2, ReturnMoves, StillGrowing, QuietStep

\* Handing an item back touches no other row; its own row keeps its budget
\* and is done only if the worker may finish it.
LEMMA SettleStep ==
  ASSUME PipelineInv, NEW w \in Worker, Busy(w), Return(w),
         UNCHANGED <<eq, files, cache, gen>>,
         NEW row, wq' = [wq EXCEPT ![wk[w].key] = row],
         MissOK(row),
         \/ row.status # "done" \/ row.err # "none" \/ wk[w].pc = "found"
         \/ \A p \in wk[w].paths : files[p] # "none"
  PROVE  Sound
<1>1. /\ wq \in [Key -> Row] /\ LocalTypes /\ ClaimOwned
      /\ \A j \in Key : MissOK(wq[j])
  BY DEF PipelineInv, QueueInv, MissBudget, MissOK
<1>2. wk[w].key \in Key /\ wq[wk[w].key].paths = wk[w].paths
  BY <1>1 DEF ClaimOwned
<1>3. wq'[wk[w].key] = row /\ \A j \in Key : j # wk[w].key => wq'[j] = wq[j]
  BY <1>1, <1>2
<1>4. \A j \in Key : j # wk[w].key => Kept(j)
  BY <1>3 DEF Kept
<1>5. \A j \in Key : Written(j)
  BY <1>2, <1>3 DEF Written
<1>6. MissBudget'
  <2>1. \A j \in Key : MissOK(wq'[j])
    BY <1>1, <1>3
  <2> QED BY <2>1 DEF MissBudget, MissOK
<1>7. LocalTypes' /\ ClaimOwned' /\ Progress'
  BY <1>1, <1>4, ReturnMoves, StillGrowing, WorkerMove
<1> QED BY <1>5, <1>6, <1>7 DEF Sound

\* Releasing, failing and completing keep the miss budget.
LEMMA HandBackStep ==
  ASSUME PipelineInv, NEW w \in Worker,
         \/ FetchThrottled(w) \/ FailItem(w) \/ GuardRejects(w) \/ FinishItem(w)
  PROVE  Sound
<1> DEFINE k == wk[w].key
<1>1. /\ QueueInv /\ LocalTypes /\ ClaimOwned /\ wk[w] \in WorkerRec
      /\ ProgressOf(wk[w], files)
  BY DEF PipelineInv, LocalTypes, Progress
<1>2. Busy(w)
  BY DEF Busy, FetchThrottled, FailItem, GuardRejects, FinishItem
<1>3. k \in Key /\ wq[k].status = "processing"
  BY <1>1, <1>2 DEF ClaimOwned
<1>4. wq[k] \in Row /\ MissOK(wq[k])
  BY <1>1, <1>3 DEF QueueInv, PipelineInv, MissBudget, MissOK
<1>5. Return(w) /\ UNCHANGED <<eq, files, cache, gen>>
  BY DEF FetchThrottled, FailItem, GuardRejects, FinishItem, Settle
<1>6. CASE FetchThrottled(w)
  <2> DEFINE row == [wq[k] EXCEPT !.status = "pending", !.err = "none"]
  <2>1. wq' = [wq EXCEPT ![k] = row]
    BY <1>3, <1>6 DEF FetchThrottled, Settle, Release
  <2>2. row.status = "pending" /\ row.err = "none" /\ row.miss = wq[k].miss
    BY <1>4 DEF Row
  <2> HIDE DEF row
  <2>3. MissOK(row)
    BY <1>4, <2>2 DEF MissOK
  <2> QED BY <1>2, <1>5, <2>1, <2>2, <2>3, SettleStep
<1>7. CASE FailItem(w)
  <2> DEFINE n == Bump(wq[k].attempts, AttemptBound)
             row == [wq[k] EXCEPT !.status = "failed", !.attempts = n,
                                  !.due = FALSE, !.err = "cause"]
  <2>1. wq' = [wq EXCEPT ![k] = row]
    BY <1>3, <1>7 DEF FailItem, Settle, Fail
  <2>2. row.status = "failed" /\ row.err = "cause" /\ row.miss = wq[k].miss
    <3> HIDE DEF n
    <3> QED BY <1>4 DEF Row
  <2> HIDE DEF row
  <2>3. MissOK(row)
    BY <1>4, <2>2 DEF MissOK
  <2> QED BY <1>2, <1>5, <2>1, <2>2, <2>3, SettleStep
<1>8. CASE GuardRejects(w) \/ FinishItem(w)
  <2> DEFINE row == [wq[k] EXCEPT !.status = "done", !.err = "none"]
  <2>1. wq' = [wq EXCEPT ![k] = row]
    BY <1>3, <1>8 DEF GuardRejects, FinishItem, Settle, Complete
  <2>2. row.err = "none" /\ row.miss = wq[k].miss
    BY <1>4 DEF Row
  <2>3. wk[w].pc = "found" \/ \A p \in wk[w].paths : files[p] # "none"
    BY <1>1, <1>8 DEF GuardRejects, FinishItem, ProgressOf
  <2> HIDE DEF row
  <2>4. MissOK(row)
    BY <1>4, <2>2 DEF MissOK
  <2> QED BY <1>2, <1>5, <2>1, <2>3, <2>4, SettleStep
<1> QED BY <1>6, <1>7, <1>8

\* A miss is deferred while its budget lasts and retired when it is spent;
\* the count the worker claimed the row with is still the row's own.
LEMMA MissStep ==
  ASSUME PipelineInv, NEW w \in Worker, RequeueDeferred(w)
  PROVE  Sound
<1> DEFINE k == wk[w].key
<1>1. QueueInv /\ LocalTypes /\ ClaimOwned
  BY DEF PipelineInv
<1>2. Busy(w)
  BY DEF Busy, RequeueDeferred
<1>3. k \in Key /\ wq[k].status = "processing" /\ wq[k].miss = wk[w].miss
  BY <1>1, <1>2 DEF ClaimOwned
<1>4. wq[k] \in Row /\ MissOK(wq[k])
  BY <1>1, <1>3 DEF QueueInv, PipelineInv, MissBudget, MissOK
<1>5. wq[k].miss \in 0 .. MissBound
  BY <1>4 DEF Row
<1>6. Return(w) /\ UNCHANGED <<eq, files, cache, gen>>
  BY DEF RequeueDeferred, Settle
<1>7. CASE MaxMissAttempts > 0 /\ wk[w].miss + 1 >= MaxMissAttempts
  <2> DEFINE row == [wq[k] EXCEPT !.status = "done", !.err = "limit"]
  <2>1. wq' = [wq EXCEPT ![k] = row]
    BY <1>3, <1>7 DEF RequeueDeferred, Settle, RetireMiss
  <2>2. row.err = "limit" /\ row.miss = wq[k].miss
    BY <1>4 DEF Row
  <2> HIDE DEF row
  <2>3. MissOK(row)
    BY <1>3, <1>4, <1>7, <2>2 DEF MissOK
  <2> QED BY <1>2, <1>6, <2>1, <2>2, <2>3, SettleStep
<1>8. CASE ~(MaxMissAttempts > 0 /\ wk[w].miss + 1 >= MaxMissAttempts)
  <2> DEFINE n == Bump(wq[k].miss, MissBound)
             row == [wq[k] EXCEPT !.status = "deferred", !.miss = n,
                                  !.priority = PriorityMiss, !.due = FALSE,
                                  !.err = "cause"]
  <2>1. wq' = [wq EXCEPT ![k] = row]
    BY <1>3, <1>8 DEF RequeueDeferred, Settle, Defer
  <2>2. MaxMissAttempts > 0 => n < MaxMissAttempts
    BY <1>3, <1>5, <1>8, QueueAssumption DEF Bump
  <2> HIDE DEF n
  <2>3. row.status = "deferred" /\ row.err = "cause" /\ row.miss = n
    BY <1>4 DEF Row
  <2> HIDE DEF row
  <2>4. MissOK(row)
    BY <2>2, <2>3 DEF MissOK
  <2> QED BY <1>2, <1>6, <2>1, <2>3, <2>4, SettleStep
<1> QED BY <1>7, <1>8

\* Claiming takes a row nobody holds.
LEMMA ClaimStep ==
  ASSUME PipelineInv, NEW w \in Worker, Claim(w)
  PROVE  Sound
<1>1. /\ QueueInv /\ LocalTypes /\ ClaimOwned /\ MissBudget /\ Progress
      /\ wk \in [Worker -> WorkerRec] /\ wq \in [Key -> Row]
  BY DEF PipelineInv, LocalTypes, QueueInv
<1> DEFINE item(k) == [IdleWorker EXCEPT
                         !.pc = "lookup", !.key = k, !.paths = wq[k].paths,
                         !.miss = wq[k].miss,
                         !.bypass = gen # 0 /\ wq[k].pv # gen]
<1>2. PICK k \in Key : Dequeue(k) /\ wk' = [wk EXCEPT ![w] = item(k)]
  BY DEF Claim
<1> DEFINE r == item(k)
           stale == (gen # 0 /\ wq[k].pv # gen)
           row == [wq[k] EXCEPT !.status = "processing"]
<1>3. wq[k] \in Row /\ wq[k].status # "processing" /\ wk' = [wk EXCEPT ![w] = r]
  BY <1>1, <1>2 DEF Dequeue, Ready, Retryable
<1>4. r \in WorkerRec
  <2>1. wq[k].paths \in SUBSET Path /\ wq[k].miss \in 0 .. MissBound
    BY <1>3 DEF Row
  <2>2. stale \in BOOLEAN
    OBVIOUS
  <2>3. r = [IdleWorker EXCEPT !.pc = "lookup", !.key = k,
                               !.paths = wq[k].paths, !.miss = wq[k].miss,
                               !.bypass = stale]
    OBVIOUS
  <2> HIDE DEF stale
  <2> QED BY <2>1, <2>2, <2>3 DEF IdleWorker, WorkerRec, WorkerPC, Song
<1>5. /\ r.pc = "lookup" /\ r.key = k /\ r.paths = wq[k].paths
      /\ r.miss = wq[k].miss
  BY DEF IdleWorker
<1>6. wq' = [wq EXCEPT ![k] = row]
  BY <1>2 DEF Dequeue
<1>7. /\ row.status = "processing" /\ row.paths = wq[k].paths
      /\ row.miss = wq[k].miss /\ row.err = wq[k].err
  BY <1>3 DEF Row
<1> HIDE DEF r, row
<1>8. wq'[k] = row /\ \A j \in Key : j # k => wq'[j] = wq[j]
  BY <1>1, <1>6
<1>9. wk'[w] = r /\ \A v \in Worker : v # w => wk'[v] = wk[v]
  BY <1>1, <1>3
<1>10. UNCHANGED <<eq, files, cache, gen>>
  BY DEF Claim
<1>11. LocalTypes'
  BY <1>1, <1>3, <1>4, <1>10 DEF LocalTypes
<1>12. ASSUME NEW v \in Worker, wk[v].pc # "idle"
       PROVE  wk[v].key \in Key /\ wk[v].key # k
  BY <1>1, <1>3, <1>12 DEF ClaimOwned, Busy
<1>13. ClaimOwned'
  <2> SUFFICES ASSUME NEW u \in Worker, wk'[u].pc # "idle"
               PROVE  /\ wk'[u].key \in Key
                      /\ wq'[wk'[u].key].status = "processing"
                      /\ wq'[wk'[u].key].paths = wk'[u].paths
                      /\ wq'[wk'[u].key].miss = wk'[u].miss
                      /\ \A v \in Worker \ {u} :
                           wk'[v].pc # "idle" => wk'[v].key # wk'[u].key
    BY DEF ClaimOwned, Busy
  <2>1. CASE u = w
    BY <1>5, <1>7, <1>8, <1>9, <1>12, <2>1
  <2>2. CASE u # w
    <3>1. wk'[u] = wk[u] /\ wk[u].pc # "idle"
      BY <1>9, <2>2
    <3>2. /\ wk[u].key \in Key /\ wk[u].key # k
          /\ wq[wk[u].key].status = "processing"
          /\ wq[wk[u].key].paths = wk[u].paths
          /\ wq[wk[u].key].miss = wk[u].miss
          /\ \A v \in Worker \ {u} : wk[v].pc # "idle" => wk[v].key # wk[u].key
      BY <1>1, <1>12, <3>1 DEF ClaimOwned, Busy
    <3> QED BY <1>5, <1>8, <1>9, <3>1, <3>2
  <2> QED BY <2>1, <2>2
<1>14. MissBudget'
  BY <1>1, <1>7, <1>8 DEF MissBudget
<1>15. Progress'
  <2>1. \A v \in Worker : ProgressOf(wk'[v], files)
    BY <1>1, <1>5, <1>9 DEF Progress, ProgressOf
  <2> QED BY <1>10, <2>1 DEF Progress
<1>16. \A j \in Key : Written(j)
  BY <1>7, <1>8 DEF Written
<1> QED BY <1>11, <1>13, <1>14, <1>15, <1>16 DEF Sound

-----------------------------------------------------------------------------
(* The steps of everyone else.                                             *)

\* A step that leaves workers and files alone, and every row a bystander.
LEMMA OthersStep ==
  ASSUME PipelineInv, UNCHANGED <<wk, files>>, LocalTypes',
         \A j \in Key : Bystander(j)
  PROVE  Sound
<1>1. ClaimOwned /\ MissBudget /\ Progress
  BY DEF PipelineInv
<1>2. MissBudget' /\ \A j \in Key : Written(j) /\ Kept(j)
  BY <1>1, AllBystanders
<1>3. ClaimOwned'
  <2> SUFFICES ASSUME NEW w \in Worker, wk[w].pc # "idle"
               PROVE  /\ wk[w].key \in Key
                      /\ wq'[wk[w].key].status = "processing"
                      /\ wq'[wk[w].key].paths = wk[w].paths
                      /\ wq'[wk[w].key].miss = wk[w].miss
                      /\ \A v \in Worker \ {w} :
                           wk[v].pc # "idle" => wk[v].key # wk[w].key
    BY DEF ClaimOwned, Busy
  <2>1. /\ wk[w].key \in Key
        /\ wq[wk[w].key].status = "processing"
        /\ wq[wk[w].key].paths = wk[w].paths
        /\ wq[wk[w].key].miss = wk[w].miss
        /\ \A v \in Worker \ {w} : wk[v].pc # "idle" => wk[v].key # wk[w].key
    BY <1>1 DEF ClaimOwned, Busy
  <2>2. Kept(wk[w].key)
    BY <1>2, <2>1
  <2> QED BY <2>1, <2>2 DEF Kept
<1>4. Progress'
  BY <1>1 DEF Progress
<1> QED BY <1>2, <1>3, <1>4 DEF Sound

\* An enqueuer stays typed and finds every row a bystander.
LEMMA EnqueuerSound ==
  ASSUME PipelineInv, NEW e \in Enqueuer, EnqueuerStep(e)
  PROVE  Sound
<1>1. /\ QueueInv /\ LocalTypes /\ eq \in [Enqueuer -> EnqueuerRec]
      /\ eq[e] \in EnqueuerRec
  BY DEF PipelineInv, LocalTypes
<1>2. UNCHANGED <<wk, files, cache, gen>>
  BY DEF EnqueuerStep, Scan, Persist, PersistFails, ListPending, PickPending,
     LoopEnds, MarkHit, Reserve, EnqueueScan, EnqueueFails, Restore, ResultGone,
     LibraryGone, Abort
<1>3. \A j \in Key : Bystander(j)
  <2>1. CASE EnqueueScan(e)
    <3>1. eq[e].cur \subseteq ScanResult
      BY <1>1 DEF EnqueuerRec
    <3>2. PICK s \in ScanResult :
                Enqueue(KeyOf[s], {PathOf[s]}, PriorityScan, {s}, 0)
      BY <2>1, <3>1 DEF EnqueueScan
    <3>3. KeyOf[s] \in Key
      BY QueueAssumption
    <3> QED BY <1>1, <3>2, <3>3, EnqueueBystander
  <2>2. CASE ~EnqueueScan(e)
    <3>1. wq' = wq
      BY <2>2 DEF EnqueuerStep, Scan, Persist, PersistFails, ListPending,
         PickPending, LoopEnds, MarkHit, Reserve, EnqueueFails, Restore,
         ResultGone, LibraryGone, Abort, Upsert, SetStatus, queueVars
    <3> QED BY <3>1 DEF Bystander, Kept, Unfinished
  <2> QED BY <2>1, <2>2
<1>4. \E r \in EnqueuerRec : eq' = [eq EXCEPT ![e] = r]
  <2>1. CASE Scan(e)
    <3>7. PICK lib \in Library, force \in BOOLEAN :
            \E found \in SUBSET {s \in OfLibrary(lib) :
                                    force \/ files[PathOf[s]] = "none"} :
              eq' = [eq EXCEPT ![e] =
                       [@ EXCEPT !.pc = "persist", !.lib = {lib},
                                 !.force = force, !.todo = found]]
      BY <2>1 DEF Scan
    <3>1. PICK found \in SUBSET {s \in OfLibrary(lib) :
                                    force \/ files[PathOf[s]] = "none"} :
              eq' = [eq EXCEPT ![e] =
                       [@ EXCEPT !.pc = "persist", !.lib = {lib},
                                 !.force = force, !.todo = found]]
      BY <3>7
    <3>6. found \in SUBSET ScanResult
      BY <3>1 DEF OfLibrary
    <3> DEFINE libs == {lib}
               q == [eq[e] EXCEPT !.pc = "persist", !.lib = libs]
               r == [q EXCEPT !.force = force, !.todo = found]
    <3>2. libs \in SUBSET Library /\ "persist" \in EnqueuerPC
      BY <3>7 DEF EnqueuerPC
    <3>3. eq' = [eq EXCEPT ![e] = r]
      BY <1>1, <3>1
    <3> HIDE DEF libs
    <3>4. q \in EnqueuerRec
      BY <1>1, <3>2 DEF EnqueuerRec
    <3> HIDE DEF q
    <3>5. r \in EnqueuerRec
      BY <3>6, <3>7, <3>4 DEF EnqueuerRec
    <3> QED BY <3>3, <3>5
  <2>7. CASE Persist(e)
    <3>1. eq' = [eq EXCEPT ![e] = [@ EXCEPT !.pc = "list", !.force = FALSE,
                                             !.todo = {}]]
      BY <2>7 DEF Persist
    <3>2. [eq[e] EXCEPT !.pc = "list", !.force = FALSE, !.todo = {}]
            \in EnqueuerRec
      BY <1>1 DEF EnqueuerRec, EnqueuerPC
    <3> QED BY <3>1, <3>2
  <2>2. CASE ListPending(e)
    <3> DEFINE todo == {s \in ScanResult : sr[s] = "pending" /\ LibOf[s] \in eq[e].lib}
    <3>1. eq' = [eq EXCEPT ![e] = [@ EXCEPT !.pc = "loop", !.todo = todo]]
      BY <2>2 DEF ListPending
    <3>2. todo \in SUBSET ScanResult
      OBVIOUS
    <3> HIDE DEF todo
    <3>3. [eq[e] EXCEPT !.pc = "loop", !.todo = todo] \in EnqueuerRec
      BY <1>1, <3>2 DEF EnqueuerRec, EnqueuerPC
    <3> QED BY <3>1, <3>3
  <2>3. CASE PickPending(e)
    <3>1. PICK s \in eq[e].todo :
             eq' = [eq EXCEPT ![e] =
                      [@ EXCEPT !.todo = eq[e].todo \ {s}, !.cur = {s},
                                !.pc = IF cache[LookupKey[KeyOf[s]]] # "none"
                                       THEN "hit" ELSE "miss"]]
      BY <2>3 DEF PickPending
    <3> DEFINE pc == IF cache[LookupKey[KeyOf[s]]] # "none" THEN "hit" ELSE "miss"
               rest == eq[e].todo \ {s}
               cur == {s}
    <3>2. pc \in EnqueuerPC /\ rest \in SUBSET ScanResult /\ cur \in SUBSET ScanResult
      BY <1>1 DEF EnqueuerRec, EnqueuerPC
    <3>3. eq' = [eq EXCEPT ![e] = [@ EXCEPT !.todo = rest, !.cur = cur, !.pc = pc]]
      BY <3>1
    <3> HIDE DEF pc, rest, cur
    <3>4. [eq[e] EXCEPT !.todo = rest, !.cur = cur, !.pc = pc] \in EnqueuerRec
      BY <1>1, <3>2 DEF EnqueuerRec
    <3> QED BY <3>3, <3>4
  <2>4. CASE MarkHit(e) \/ EnqueueScan(e)
    <3>1. eq' = [eq EXCEPT ![e] = [@ EXCEPT !.pc = "loop", !.cur = {}]]
      BY <2>4 DEF MarkHit, EnqueueScan
    <3>2. [eq[e] EXCEPT !.pc = "loop", !.cur = {}] \in EnqueuerRec
      BY <1>1 DEF EnqueuerRec, EnqueuerPC
    <3> QED BY <3>1, <3>2
  <2>5. CASE Reserve(e) \/ EnqueueFails(e)
    <3>1. PICK pc \in {"reserved", "restore"} :
                  eq' = [eq EXCEPT ![e] = [@ EXCEPT !.pc = pc]]
      BY <2>5 DEF Reserve, EnqueueFails
    <3>2. [eq[e] EXCEPT !.pc = pc] \in EnqueuerRec
      BY <1>1 DEF EnqueuerRec, EnqueuerPC
    <3> QED BY <3>1, <3>2
  <2>6. CASE \/ PersistFails(e) \/ LoopEnds(e) \/ Restore(e) \/ ResultGone(e)
             \/ LibraryGone(e) \/ Abort(e)
    <3>1. eq' = [eq EXCEPT ![e] = IdleEnqueuer]
      BY <2>6 DEF PersistFails, LoopEnds, Restore, ResultGone, LibraryGone,
         Abort, Leave
    <3>2. IdleEnqueuer \in EnqueuerRec
      BY DEF IdleEnqueuer, EnqueuerRec, EnqueuerPC
    <3> QED BY <3>1, <3>2
  <2> QED BY <2>1, <2>2, <2>3, <2>4, <2>5, <2>6, <2>7 DEF EnqueuerStep
<1>5. LocalTypes'
  BY <1>1, <1>2, <1>4 DEF LocalTypes
<1> QED BY <1>2, <1>3, <1>5, OthersStep

\* The webhook, the operator, time and library commands.
LEMMA EnvironmentSound ==
  ASSUME PipelineInv,
         \/ WebhookEnqueue \/ WebhookDelete \/ OperatorStep \/ LibraryStep
         \/ TimePasses
  PROVE  Sound
<1>1. QueueInv /\ LocalTypes /\ eq \in [Enqueuer -> EnqueuerRec]
  BY DEF PipelineInv, LocalTypes
<1>2. UNCHANGED <<wk, files, cache, gen>>
  BY DEF WebhookEnqueue, WebhookDelete, OperatorStep, LibraryStep, TimePasses
<1>3. \A j \in Key : Bystander(j)
  <2>1. CASE WebhookEnqueue
    BY <1>1, <2>1, EnqueueBystander DEF WebhookEnqueue
  <2>2. CASE WebhookDelete \/ OperatorStep \/ TimePasses
    <3>1. \/ \E k \in Key : Elapse(k) \/ Cleanup(k) \/ Retry(k)
          \/ ClearDone
          \/ \E scope \in Library \cup {"all"} :
               RecheckDeferred(scope) \/ RecheckRetired(scope)
      BY <2>2 DEF WebhookDelete, OperatorStep, TimePasses
    <3> QED BY <1>1, <3>1, OperatorBystander
  <2>3. CASE LibraryStep
    BY <1>1, <2>3, LibraryBystander DEF LibraryStep
  <2> QED BY <2>1, <2>2, <2>3
<1>4. eq' \in [Enqueuer -> EnqueuerRec]
  <2>1. CASE LibraryStep
    <3>1. PICK lib \in Library, es \in SUBSET Enqueuer : Forget(lib, es)
      BY <2>1 DEF LibraryStep
    <3> DEFINE g(e) == eq[e].gone
                         \cup ((eq[e].todo \cup eq[e].cur) \cap OfLibrary(lib))
    <3>2. \A e \in Enqueuer : g(e) \in SUBSET ScanResult
      BY <1>1 DEF EnqueuerRec
    <3>3. eq' = [e \in Enqueuer |-> IF e \in es THEN [eq[e] EXCEPT !.gone = g(e)]
                                   ELSE eq[e]]
      BY <3>1 DEF Forget
    <3> HIDE DEF g
    <3>4. \A e \in Enqueuer : [eq[e] EXCEPT !.gone = g(e)] \in EnqueuerRec
      BY <1>1, <3>2 DEF EnqueuerRec
    <3> QED BY <1>1, <3>3, <3>4
  <2>2. CASE eq' = eq
    BY <1>1, <2>2
  <2> QED BY <2>1, <2>2 DEF WebhookEnqueue, WebhookDelete, OperatorStep, TimePasses
<1>5. LocalTypes'
  BY <1>1, <1>2, <1>4 DEF LocalTypes
<1> QED BY <1>2, <1>3, <1>5, OthersStep

\* After a crash nobody holds anything.
LEMMA CrashSound ==
  ASSUME PipelineInv, Crash
  PROVE  Sound
<1>1. LocalTypes /\ MissBudget
  BY DEF PipelineInv
<1>2. \A w \in Worker : wk'[w] = IdleWorker
  BY DEF Crash
<1>3. 0 \in 0 .. MissBound
  BY QueueAssumption
<1>4. IdleWorker \in WorkerRec /\ IdleWorker.pc = "idle"
  BY <1>3 DEF IdleWorker, WorkerRec, WorkerPC, Song
<1>5. IdleEnqueuer \in EnqueuerRec
  BY DEF IdleEnqueuer, EnqueuerRec, EnqueuerPC
<1>6. LocalTypes'
  BY <1>1, <1>4, <1>5 DEF Crash, LocalTypes
<1>7. ClaimOwned' /\ Progress'
  BY <1>2, <1>4 DEF ClaimOwned, Busy, Progress, ProgressOf
<1>8. MissBudget' /\ \A k \in Key : Written(k)
  BY <1>1, AllBystanders, UntouchedBystanders DEF Crash
<1> QED BY <1>6, <1>7, <1>8 DEF Sound

\* Every step keeps the invariant of the pipeline.
LEMMA PipelineInductive ==
  ASSUME PipelineInv, [Next]_vars
  PROVE  PipelineInv' /\ \A k \in Key : Written(k)
<1>1. QueueInv'
  BY NextIsQueueStep, QueueInductive DEF PipelineInv
<1>2. Sound
  <2>1. CASE UNCHANGED vars
    <3>1. LocalTypes' /\ ClaimOwned' /\ MissBudget' /\ Progress'
      BY <2>1 DEF vars, PipelineInv, LocalTypes, ClaimOwned, Busy, MissBudget,
         Progress
    <3>2. \A k \in Key : Written(k)
      BY <2>1 DEF vars, Written
    <3> QED BY <3>1, <3>2 DEF Sound
  <2>2. ASSUME NEW w \in Worker, WorkerStep(w)
        PROVE  Sound
    BY <2>2, ClaimStep, ResolveStep, StoreStep, WriteStep, StampRowStep,
       HandBackStep, MissStep, OrphanStep DEF WorkerStep
  <2> QED BY <2>1, <2>2, EnqueuerSound, EnvironmentSound, CrashSound DEF Next
<1> QED BY <1>1, <1>2 DEF Sound, PipelineInv

\* The inductive invariant of the pipeline.
THEOREM PipelineInvariant == Spec => []PipelineInv
<1>1. Init => PipelineInv
  <2> SUFFICES ASSUME Init PROVE PipelineInv
    OBVIOUS
  <2>1. QueueInv
    BY NoRowGood DEF Init, QueueInit, QueueInv, GoodRow, ScanStatus
  <2>2. 0 \in 0 .. MissBound
    BY QueueAssumption
  <2>3. IdleWorker \in WorkerRec /\ IdleWorker.pc = "idle"
    BY <2>2 DEF IdleWorker, WorkerRec, WorkerPC, Song
  <2>4. IdleEnqueuer \in EnqueuerRec
    BY DEF IdleEnqueuer, EnqueuerRec, EnqueuerPC
  <2>5. LocalTypes
    BY <2>3, <2>4 DEF Init, LocalTypes
  <2>6. ClaimOwned /\ Progress
    BY <2>3 DEF Init, ClaimOwned, Busy, Progress, ProgressOf
  <2>7. MissBudget
    <3>1. \A k \in Key : MissOK(wq[k])
      BY NoRowMissOK DEF Init, QueueInit
    <3> QED BY <3>1 DEF MissBudget, MissOK
  <2> QED BY <2>1, <2>5, <2>6, <2>7 DEF PipelineInv
<1>2. PipelineInv /\ [Next]_vars => PipelineInv'
  BY PipelineInductive
<1> QED BY <1>1, <1>2, PTL DEF Spec

\* The records of workers and enqueuers, the sidecars, the cache and the
\* tables stay typed.
THEOREM PipelineTyped == Spec => []TypeOK
<1>1. PipelineInv => TypeOK
  BY DEF PipelineInv, QueueInv, LocalTypes, QueueTypeOK, TypeOK
<1> QED BY <1>1, PipelineInvariant, PTL

\* Claims are exclusive and what a worker read when it claimed its row stays
\* true, whatever scans, webhooks, commands, failures and crashes happen.
THEOREM ClaimsOwned == Spec => []ClaimOwned
<1>1. PipelineInv => ClaimOwned
  BY DEF PipelineInv
<1> QED BY <1>1, PipelineInvariant, PTL

\* No row is given up before its misses are spent, and none outlives them.
THEOREM MissBudgetKept == Spec => []MissBudget
<1>1. PipelineInv => MissBudget
  BY DEF PipelineInv
<1> QED BY <1>1, PipelineInvariant, PTL

\* A row that becomes done without an error has a sidecar at every one of its
\* destinations, unless the language guard rejected its lyrics.
THEOREM LyricsBeforeDone == Spec => WrittenBeforeDone
<1> DEFINE A == \A k \in Key :
         (wq[k].status # "done" /\ wq'[k].status = "done" /\ wq'[k].err = "none")
         => \/ \A p \in wq[k].paths : files[p] # "none"
            \/ \E w \in Worker : wk[w].key = k /\ wk[w].pc = "found"
<1>1. PipelineInv /\ [Next]_vars => [A]_vars
  BY PipelineInductive DEF Written
<1>2. WrittenBeforeDone <=> [][A]_vars
  BY DEF WrittenBeforeDone
<1> QED BY <1>1, <1>2, PipelineInvariant, PTL DEF Spec

\* The pipeline uses the queue only through the queue's operations, so what
\* holds of the queue on its own holds of it in the pipeline.
THEOREM PipelineUsesQueue == Spec => QueueSpec
<1>1. Init => QueueInit
  BY DEF Init
<1>2. PipelineInv /\ [Next]_vars => [QueueNext]_queueVars
  BY NextIsQueueStep DEF PipelineInv
<1> QED BY <1>1, <1>2, PipelineInvariant, PTL DEF Spec, QueueSpec

-----------------------------------------------------------------------------
(* Every item and every pass gets nearer to its end with every step of its *)
(* own: the safety half of ClaimEnds and ScanEnds.                         *)

\* A worker in its write loop has a destination left, so the loop ends by
\* itself and never waits.
WriteAhead == \A w \in Worker : wk[w].pc = "write" => wk[w].todo # {}

\* The place of each statement of RunOnce on the way to its return.
ItemRank(pc) ==
    CASE pc = "lookup" -> 8 [] pc = "fetch" -> 7 [] pc \in {"found", "missed"} -> 6
      [] pc = "write" -> 5 [] pc = "stamp" -> 4 [] pc = "outcome" -> 3
      [] pc = "finish" -> 2 [] pc = "requeue" -> 1 [] pc = "idle" -> 0

Fewer(t, u) == t \subseteq u /\ t # u

\* An item's record r goes on as s: RunOnce returns, or goes on with the same
\* item at a later statement, or writes one destination more.
Advances(r, s) ==
    \/ s = IdleWorker
    \/ /\ s.key = r.key
       /\ \/ ItemRank(s.pc) < ItemRank(r.pc)
          \/ r.pc = "write" /\ s.pc = "write" /\ Fewer(s.todo, r.todo)

RunOnceShrinks ==
    [][\A w \in Worker : Busy(w) /\ wk'[w] # wk[w] => Advances(wk[w], wk'[w])]_vars

\* What a step of worker w does to the workers' records.
Steps(w) ==
    /\ wk' = [wk EXCEPT ![w] = wk'[w]]
    /\ Busy(w) => Advances(wk[w], wk'[w])
    /\ wk'[w].pc = "write" => wk'[w].todo # {}

LEMMA ItemRanks ==
  /\ ItemRank("fetch") < ItemRank("lookup") /\ ItemRank("write") < ItemRank("lookup")
  /\ ItemRank("found") < ItemRank("fetch") /\ ItemRank("missed") < ItemRank("fetch")
  /\ ItemRank("write") < ItemRank("found") /\ ItemRank("write") < ItemRank("missed")
  /\ ItemRank("requeue") < ItemRank("missed") /\ ItemRank("requeue") < ItemRank("write")
  /\ ItemRank("stamp") < ItemRank("write") /\ ItemRank("outcome") < ItemRank("write")
  /\ ItemRank("outcome") < ItemRank("stamp") /\ ItemRank("finish") < ItemRank("outcome")
  BY DEF ItemRank

\* A worker that only moves on to a later statement.
LEMMA GotoSteps ==
  ASSUME wk \in [Worker -> WorkerRec], NEW w \in Worker, NEW pc, Goto(w, pc),
         pc # "write", ItemRank(pc) < ItemRank(wk[w].pc)
  PROVE  Steps(w)
<1>1. wk' = [wk EXCEPT ![w] = [wk[w] EXCEPT !.pc = pc]]
  BY DEF Goto
<1>2. wk'[w] = [wk[w] EXCEPT !.pc = pc]
  BY <1>1
<1>3. wk'[w].pc = pc /\ wk'[w].key = wk[w].key
  BY <1>2 DEF WorkerRec
<1> QED BY <1>1, <1>2, <1>3 DEF Steps, Advances

\* A worker whose RunOnce returns.
LEMMA ReturnSteps ==
  ASSUME wk \in [Worker -> WorkerRec], NEW w \in Worker, Return(w)
  PROVE  Steps(w)
<1>1. wk' = [wk EXCEPT ![w] = IdleWorker] /\ wk'[w] = IdleWorker
  BY DEF Return
<1> QED BY <1>1 DEF Steps, Advances, IdleWorker

\* A worker that enters the write loop has a destination to write: the ones
\* it read when it claimed its row, which has some.
LEMMA WritesSomething ==
  ASSUME PipelineInv, Destined, NEW w \in Worker, Busy(w)
  PROVE  wk[w].paths # {}
<1>1. /\ wk[w].key \in Key /\ wq[wk[w].key].status = "processing"
      /\ wq[wk[w].key].paths = wk[w].paths
  BY DEF PipelineInv, ClaimOwned
<1>2. HasPaths(wq[wk[w].key])
  BY <1>1 DEF Destined
<1> QED BY <1>1, <1>2 DEF HasPaths

\* Every step of a worker brings its item nearer to the end of RunOnce.
LEMMA WorkerSteps ==
  ASSUME PipelineInv, Destined, WriteAhead, NEW w \in Worker, WorkerStep(w)
  PROVE  Steps(w)
<1>1. wk \in [Worker -> WorkerRec] /\ wk[w] \in WorkerRec
  BY DEF PipelineInv, LocalTypes
<1>2. CASE Claim(w)
  <2>1. PICK k \in Key :
          wk' = [wk EXCEPT ![w] = [IdleWorker EXCEPT
                   !.pc = "lookup", !.key = k, !.paths = wq[k].paths,
                   !.miss = wq[k].miss, !.bypass = gen # 0 /\ wq[k].pv # gen]]
    BY <1>2 DEF Claim
  <2>2. wk'[w].pc = "lookup" /\ wk' = [wk EXCEPT ![w] = wk'[w]]
    BY <1>1, <2>1 DEF IdleWorker
  <2> QED BY <1>2, <2>2 DEF Claim, Busy, Steps
<1>3. CASE LookupCache(w)
  <2>1. wk[w].pc = "lookup" /\ Busy(w)
    BY <1>3 DEF LookupCache, Busy
  <2>2. CASE Goto(w, "fetch")
    BY <1>1, <2>1, <2>2, GotoSteps, ItemRanks
  <2>3. CASE ~Goto(w, "fetch")
    <3> DEFINE song == cache[FetchKey[wk[w].key]]
               r == [wk[w] EXCEPT !.pc = "write", !.song = song, !.todo = wk[w].paths]
    <3>1. wk' = [wk EXCEPT ![w] = r]
      BY <1>3, <2>3 DEF LookupCache
    <3> HIDE DEF song
    <3>2. r.pc = "write" /\ r.todo = wk[w].paths /\ r.key = wk[w].key
      BY <1>1 DEF WorkerRec
    <3> HIDE DEF r
    <3>3. wk'[w] = r
      BY <1>1, <3>1
    <3> QED BY <2>1, <3>1, <3>2, <3>3, WritesSomething, ItemRanks DEF Steps, Advances
  <2> QED BY <2>2, <2>3
<1>4. CASE FetchFinds(w)
  <2>1. PICK song \in Song :
           wk' = [wk EXCEPT ![w] = [wk[w] EXCEPT !.pc = "found", !.song = song]]
    BY <1>4 DEF FetchFinds
  <2> DEFINE r == [wk[w] EXCEPT !.pc = "found", !.song = song]
  <2>2. r.pc = "found" /\ r.key = wk[w].key /\ wk[w].pc = "fetch"
    BY <1>1, <1>4 DEF WorkerRec, FetchFinds
  <2>3. wk' = [wk EXCEPT ![w] = r] /\ wk'[w] = r
    BY <1>1, <2>1
  <2> HIDE DEF r
  <2> QED BY <2>2, <2>3, ItemRanks DEF Steps, Advances
<1>5. CASE StoreSong(w) \/ DetectInstrumental(w)
  <2>1. wk[w].pc \in {"found", "missed"} /\ Busy(w)
    BY <1>5 DEF StoreSong, DetectInstrumental, Busy
  <2>2. PICK r : /\ wk' = [wk EXCEPT ![w] = r] /\ r.pc = "write"
                 /\ r.todo = wk[w].paths /\ r.key = wk[w].key
    <3>1. CASE StoreSong(w)
      <4> DEFINE r == [wk[w] EXCEPT !.pc = "write", !.todo = wk[w].paths]
      <4>1. r.pc = "write" /\ r.todo = wk[w].paths /\ r.key = wk[w].key
        BY <1>1 DEF WorkerRec
      <4>2. wk' = [wk EXCEPT ![w] = r]
        BY <3>1 DEF StoreSong
      <4> HIDE DEF r
      <4> QED BY <4>1, <4>2
    <3>2. CASE DetectInstrumental(w)
      <4> DEFINE r == [wk[w] EXCEPT !.pc = "write", !.todo = wk[w].paths,
                                    !.song = "marker", !.detected = TRUE]
      <4>1. r.pc = "write" /\ r.todo = wk[w].paths /\ r.key = wk[w].key
        BY <1>1 DEF WorkerRec
      <4>2. wk' = [wk EXCEPT ![w] = r]
        BY <3>2 DEF DetectInstrumental
      <4> HIDE DEF r
      <4> QED BY <4>1, <4>2
    <3> QED BY <1>5, <3>1, <3>2
  <2>3. wk'[w] = r
    BY <1>1, <2>2
  <2> QED BY <2>1, <2>2, <2>3, WritesSomething, ItemRanks DEF Steps, Advances
<1>6. CASE WriteLRC(w)
  <2>1. PICK p \in wk[w].todo :
           wk' = [wk EXCEPT ![w] = [@ EXCEPT !.todo = wk[w].todo \ {p},
                                             !.pc = AfterWrite(w, p)]]
    BY <1>6 DEF WriteLRC
  <2> DEFINE rest == wk[w].todo \ {p}
             next == AfterWrite(w, p)
             r == [wk[w] EXCEPT !.todo = rest, !.pc = next]
  <2>2. wk' = [wk EXCEPT ![w] = r] /\ wk'[w] = r
    BY <1>1, <2>1
  <2>3. Fewer(rest, wk[w].todo) /\ wk[w].pc = "write"
    BY <1>6, <2>1 DEF Fewer, WriteLRC
  <2>4. \/ next = "write" /\ rest # {}
        \/ next \in {"stamp", "outcome"}
    BY <2>1 DEF AfterWrite
  <2> HIDE DEF rest, next
  <2>5. r.pc = next /\ r.todo = rest /\ r.key = wk[w].key
    BY <1>1 DEF WorkerRec
  <2> HIDE DEF r
  <2> QED BY <2>2, <2>3, <2>4, <2>5, ItemRanks DEF Steps, Advances
<1>7. CASE \/ FetchMisses(w) \/ DetectVocals(w) \/ DetectSkipped(w)
           \/ MarkerUnwritable(w) \/ StampInstrumental(w) \/ StampOutcome(w)
  <2>1. CASE FetchMisses(w)
    BY <1>1, <2>1, GotoSteps, ItemRanks DEF FetchMisses
  <2>2. CASE DetectVocals(w) \/ DetectSkipped(w) \/ MarkerUnwritable(w)
    BY <1>1, <2>2, GotoSteps, ItemRanks DEF DetectVocals, DetectSkipped, MarkerUnwritable
  <2>3. CASE StampInstrumental(w)
    BY <1>1, <2>3, GotoSteps, ItemRanks DEF StampInstrumental
  <2>4. CASE StampOutcome(w)
    BY <1>1, <2>4, GotoSteps, ItemRanks DEF StampOutcome
  <2> QED BY <1>7, <2>1, <2>2, <2>3, <2>4
<1>8. CASE \/ FetchThrottled(w) \/ FailItem(w) \/ GuardRejects(w)
           \/ FinishItem(w) \/ RequeueDeferred(w) \/ Orphan(w)
  <2>1. Return(w)
    BY <1>8 DEF FetchThrottled, FailItem, GuardRejects, FinishItem,
       RequeueDeferred, Orphan, Settle
  <2> QED BY <1>1, <2>1, ReturnSteps
<1> QED BY <1>2, <1>3, <1>4, <1>5, <1>6, <1>7, <1>8 DEF WorkerStep

\* No step of another worker, an enqueuer, the webhook or the operator sets a
\* worker back.
LEMMA ItemsAdvance ==
  ASSUME PipelineInv, Destined, WriteAhead, [Next]_vars, NEW v \in Worker
  PROVE  /\ Busy(v) /\ wk'[v] # wk[v] => Advances(wk[v], wk'[v])
         /\ wk'[v].pc = "write" => wk'[v].todo # {}
<1>1. wk \in [Worker -> WorkerRec]
  BY DEF PipelineInv, LocalTypes
<1>2. CASE UNCHANGED wk
  BY <1>2 DEF WriteAhead
<1>3. ASSUME NEW w \in Worker, WorkerStep(w)
      PROVE  /\ Busy(v) /\ wk'[v] # wk[v] => Advances(wk[v], wk'[v])
             /\ wk'[v].pc = "write" => wk'[v].todo # {}
  <2>1. Steps(w)
    BY <1>3, WorkerSteps
  <2>2. CASE v = w
    BY <2>1, <2>2 DEF Steps
  <2>3. CASE v # w
    <3>1. wk'[v] = wk[v]
      BY <1>1, <2>1, <2>3 DEF Steps
    <3> QED BY <3>1 DEF WriteAhead
  <2> QED BY <2>2, <2>3
<1>4. CASE Crash
  <2>1. wk'[v] = IdleWorker
    BY <1>4 DEF Crash
  <2> QED BY <2>1 DEF Advances, IdleWorker
<1>5. CASE UNCHANGED vars
  BY <1>2, <1>5 DEF vars
<1>6. ASSUME NEW e \in Enqueuer, EnqueuerStep(e)
      PROVE  UNCHANGED wk
  BY <1>6 DEF EnqueuerStep, Scan, Persist, PersistFails, ListPending, PickPending,
     LoopEnds, MarkHit, Reserve, EnqueueScan, EnqueueFails, Restore, ResultGone,
     LibraryGone, Abort
<1>7. CASE WebhookEnqueue \/ WebhookDelete \/ OperatorStep \/ LibraryStep \/ TimePasses
  BY <1>2, <1>7 DEF WebhookEnqueue, WebhookDelete, OperatorStep, LibraryStep, TimePasses
<1> QED BY <1>2, <1>3, <1>4, <1>5, <1>6, <1>7 DEF Next

\* The safety half of ClaimEnds. Whatever interleaves, each step of RunOnce
\* (worker.go) takes its item to a later statement or writes one destination
\* more, with at least one left while it writes: nothing sends it back, so a
\* worker that keeps running gives its row back or finishes it.
THEOREM RunOnceProgress == Spec => []WriteAhead /\ RunOnceShrinks
<1> DEFINE A == \A w \in Worker : Busy(w) /\ wk'[w] # wk[w] => Advances(wk[w], wk'[w])
           Inv == Destined /\ WriteAhead
<1>1. Init => Inv
  <2>1. Init => Destined
    BY DEF Init, QueueInit, Destined, HasPaths, NoRow
  <2>2. Init => WriteAhead
    BY DEF Init, WriteAhead, IdleWorker
  <2> QED BY <2>1, <2>2
<1>2. PipelineInv /\ Inv /\ [Next]_vars => Inv'
  <2>1. PipelineInv /\ Inv /\ [Next]_vars => Destined'
    BY NextIsQueueStep, DestinedStep DEF PipelineInv
  <2>2. PipelineInv /\ Inv /\ [Next]_vars => WriteAhead'
    BY ItemsAdvance DEF WriteAhead
  <2> QED BY <2>1, <2>2
<1>3. PipelineInv /\ Inv /\ [Next]_vars => [A]_vars
  BY ItemsAdvance
<1>4. Inv => WriteAhead
  OBVIOUS
<1>5. RunOnceShrinks <=> [][A]_vars
  BY DEF RunOnceShrinks
<1> HIDE DEF A, Inv
<1> QED BY <1>1, <1>2, <1>3, <1>4, <1>5, PipelineInvariant, PTL DEF Spec

\* The place of each call of a pass, inside the loop over the listed results
\* and outside it.
PassRank(pc) ==
    CASE pc = "persist" -> 6 [] pc = "list" -> 5
      [] pc = "miss" -> 4 [] pc = "reserved" -> 3 [] pc \in {"restore", "hit"} -> 2
      [] pc = "loop" -> 1 [] pc = "idle" -> 0

InLoop == {"loop", "hit", "miss", "reserved", "restore"}

\* A pass r goes on as s: it returns, or goes on to a later call without
\* touching the list once it is looping, or takes one result off the list.
PassAdvances(r, s) ==
    \/ s = IdleEnqueuer
    \/ PassRank(s.pc) < PassRank(r.pc) /\ (r.pc \in InLoop => s.todo = r.todo)
    \/ r.pc = "loop" /\ s.pc \in InLoop /\ Fewer(s.todo, r.todo)

PassShrinks ==
    [][\A e \in Enqueuer : eq[e].pc # "idle" =>
         \/ eq'[e].pc = eq[e].pc /\ eq'[e].todo = eq[e].todo
         \/ PassAdvances(eq[e], eq'[e])]_vars

LEMMA PassRanks ==
  /\ PassRank("list") < PassRank("persist") /\ PassRank("loop") < PassRank("list")
  /\ PassRank("reserved") < PassRank("miss") /\ PassRank("restore") < PassRank("reserved")
  /\ PassRank("loop") < PassRank("hit") /\ PassRank("loop") < PassRank("reserved")
  BY DEF PassRank

\* Every step of an enqueuer brings its pass nearer to its end.
LEMMA PassSteps ==
  ASSUME PipelineInv, NEW e \in Enqueuer, EnqueuerStep(e)
  PROVE  /\ eq' = [eq EXCEPT ![e] = eq'[e]]
         /\ eq[e].pc # "idle" => PassAdvances(eq[e], eq'[e])
<1>1. eq \in [Enqueuer -> EnqueuerRec] /\ eq[e] \in EnqueuerRec
  BY DEF PipelineInv, LocalTypes
<1>2. CASE Scan(e)
  <2>1. eq[e].pc = "idle"
    BY <1>2 DEF Scan
  <2>2. \E r : eq' = [eq EXCEPT ![e] = r]
    BY <1>2 DEF Scan
  <2>3. eq' = [eq EXCEPT ![e] = eq'[e]]
    BY <1>1, <2>2
  <2> QED BY <2>1, <2>3
<1>3. CASE Persist(e)
  <2> DEFINE r == [eq[e] EXCEPT !.pc = "list", !.force = FALSE, !.todo = {}]
  <2>1. eq' = [eq EXCEPT ![e] = r] /\ eq[e].pc = "persist"
    BY <1>3 DEF Persist
  <2>2. r.pc = "list"
    BY <1>1 DEF EnqueuerRec
  <2> HIDE DEF r
  <2>3. eq'[e] = r
    BY <1>1, <2>1
  <2> QED BY <2>1, <2>2, <2>3, PassRanks DEF PassAdvances, InLoop
<1>4. CASE ListPending(e)
  <2> DEFINE todo == {s \in ScanResult : sr[s] = "pending" /\ LibOf[s] \in eq[e].lib}
             r == [eq[e] EXCEPT !.pc = "loop", !.todo = todo]
  <2>1. eq' = [eq EXCEPT ![e] = r] /\ eq[e].pc = "list"
    BY <1>4 DEF ListPending
  <2> HIDE DEF todo
  <2>2. r.pc = "loop"
    BY <1>1 DEF EnqueuerRec
  <2> HIDE DEF r
  <2>3. eq'[e] = r
    BY <1>1, <2>1
  <2> QED BY <2>1, <2>2, <2>3, PassRanks DEF PassAdvances, InLoop
<1>5. CASE PickPending(e)
  <2>1. PICK s \in eq[e].todo :
           eq' = [eq EXCEPT ![e] =
                    [@ EXCEPT !.todo = eq[e].todo \ {s}, !.cur = {s},
                              !.pc = IF cache[LookupKey[KeyOf[s]]] # "none"
                                     THEN "hit" ELSE "miss"]]
    BY <1>5 DEF PickPending
  <2> DEFINE pc == IF cache[LookupKey[KeyOf[s]]] # "none" THEN "hit" ELSE "miss"
             rest == eq[e].todo \ {s}
             cur == {s}
             r == [eq[e] EXCEPT !.todo = rest, !.cur = cur, !.pc = pc]
  <2>2. eq' = [eq EXCEPT ![e] = r]
    BY <2>1
  <2>3. pc \in InLoop /\ Fewer(rest, eq[e].todo)
    BY <2>1 DEF InLoop, Fewer
  <2> HIDE DEF pc, rest, cur
  <2>4. r.pc = pc /\ r.todo = rest
    BY <1>1 DEF EnqueuerRec
  <2> HIDE DEF r
  <2>5. eq'[e] = r /\ eq[e].pc = "loop"
    BY <1>1, <1>5, <2>2 DEF PickPending
  <2> QED BY <2>2, <2>3, <2>4, <2>5 DEF PassAdvances
<1>6. CASE MarkHit(e) \/ EnqueueScan(e)
  <2> DEFINE r == [eq[e] EXCEPT !.pc = "loop", !.cur = {}]
  <2>1. eq' = [eq EXCEPT ![e] = r] /\ eq[e].pc \in {"hit", "reserved"}
    BY <1>6 DEF MarkHit, EnqueueScan
  <2>2. r.pc = "loop" /\ r.todo = eq[e].todo
    BY <1>1 DEF EnqueuerRec
  <2> HIDE DEF r
  <2>3. eq'[e] = r
    BY <1>1, <2>1
  <2> QED BY <2>1, <2>2, <2>3, PassRanks DEF PassAdvances
<1>7. ASSUME NEW pc, eq' = [eq EXCEPT ![e] = [@ EXCEPT !.pc = pc]],
             PassRank(pc) < PassRank(eq[e].pc)
      PROVE  /\ eq' = [eq EXCEPT ![e] = eq'[e]]
             /\ PassAdvances(eq[e], eq'[e])
  <2>1. eq'[e] = [eq[e] EXCEPT !.pc = pc] /\ eq' = [eq EXCEPT ![e] = eq'[e]]
    BY <1>1, <1>7
  <2>2. eq'[e].pc = pc /\ eq'[e].todo = eq[e].todo
    BY <1>1, <2>1 DEF EnqueuerRec
  <2> QED BY <1>7, <2>1, <2>2 DEF PassAdvances
<1>8. CASE Reserve(e)
  BY <1>7, <1>8, PassRanks DEF Reserve
<1>9. CASE EnqueueFails(e)
  BY <1>7, <1>9, PassRanks DEF EnqueueFails
<1>10. CASE \/ PersistFails(e) \/ LoopEnds(e) \/ Restore(e) \/ ResultGone(e)
            \/ LibraryGone(e) \/ Abort(e)
  <2>1. eq' = [eq EXCEPT ![e] = IdleEnqueuer]
    BY <1>10 DEF PersistFails, LoopEnds, Restore, ResultGone, LibraryGone,
       Abort, Leave
  <2>2. eq'[e] = IdleEnqueuer
    BY <1>1, <2>1
  <2> QED BY <2>1, <2>2 DEF PassAdvances
<1> QED BY <1>2, <1>3, <1>4, <1>5, <1>6, <1>8, <1>9, <1>10 DEF EnqueuerStep

\* The safety half of ScanEnds. Whatever is scanned, removed or cleared
\* meanwhile, each step of a pass (scanAndPersist, then EnqueuePending) ends
\* it, goes on to a later call, or takes one result off the list it made at
\* its start; nothing is ever added to the list.
THEOREM PassProgress == Spec => PassShrinks
<1> DEFINE Rest(e) == \/ eq'[e].pc = eq[e].pc /\ eq'[e].todo = eq[e].todo
                      \/ PassAdvances(eq[e], eq'[e])
           A == \A e \in Enqueuer : eq[e].pc # "idle" => Rest(e)
<1>1. ASSUME PipelineInv, [Next]_vars, NEW e \in Enqueuer, eq[e].pc # "idle"
      PROVE  Rest(e)
  <2>1. eq \in [Enqueuer -> EnqueuerRec] /\ eq[e] \in EnqueuerRec
    BY <1>1 DEF PipelineInv, LocalTypes
  <2>2. CASE UNCHANGED eq
    BY <2>2
  <2>3. ASSUME NEW f \in Enqueuer, EnqueuerStep(f)
        PROVE  Rest(e)
    <3>1. /\ eq' = [eq EXCEPT ![f] = eq'[f]]
          /\ eq[f].pc # "idle" => PassAdvances(eq[f], eq'[f])
      BY <1>1, <2>3, PassSteps
    <3>2. CASE e = f
      BY <1>1, <3>1, <3>2
    <3>3. CASE e # f
      BY <2>1, <3>1, <3>3
    <3> QED BY <3>2, <3>3
  <2>4. CASE LibraryStep
    <3>1. \E gone : eq'[e] \in {eq[e], [eq[e] EXCEPT !.gone = gone]}
      BY <2>4 DEF LibraryStep, Forget
    <3>2. PICK gone : eq'[e] \in {eq[e], [eq[e] EXCEPT !.gone = gone]}
      BY <3>1
    <3>3. /\ [eq[e] EXCEPT !.gone = gone].pc = eq[e].pc
          /\ [eq[e] EXCEPT !.gone = gone].todo = eq[e].todo
      BY <2>1 DEF EnqueuerRec
    <3> QED BY <3>2, <3>3
  <2>5. CASE Crash
    BY <2>5 DEF Crash, PassAdvances
  <2>6. ASSUME NEW w \in Worker, WorkerStep(w)
        PROVE  UNCHANGED eq
    BY <2>6 DEF WorkerStep, Claim, LookupCache, FetchFinds, FetchMisses,
       FetchThrottled, FailItem, GuardRejects, StoreSong, DetectInstrumental,
       DetectVocals, DetectSkipped, WriteLRC, MarkerUnwritable,
       StampInstrumental, StampOutcome, FinishItem, RequeueDeferred, Orphan,
       Settle
  <2>7. CASE \/ UNCHANGED vars \/ WebhookEnqueue \/ WebhookDelete
             \/ OperatorStep \/ TimePasses
    BY <2>2, <2>7 DEF vars, WebhookEnqueue, WebhookDelete, OperatorStep, TimePasses
  <2> HIDE DEF Rest
  <2> QED BY <1>1, <2>2, <2>3, <2>4, <2>5, <2>6, <2>7 DEF Next
<1>2. PipelineInv /\ [Next]_vars => [A]_vars
  BY <1>1
<1>3. PassShrinks <=> [][A]_vars
  BY DEF PassShrinks
<1> HIDE DEF A
<1> QED BY <1>2, <1>3, PipelineInvariant, PTL DEF Spec

-----------------------------------------------------------------------------
(* The pipeline implements TrackJob: every step of it is a step of the     *)
(* abstract job board or leaves the board as it is.                        *)

\* The job board as it is read off the pipeline's state.
Board == [k \in Key |-> StageOf(wq[k].status)]

Held == {<<w, wk[w].key>> : w \in {v \in Worker : Busy(v)}}

BoardStep == [Jobs!JobNext]_(Jobs!jobVars)

\* The stage of each status.
LEMMA Stages ==
  /\ \A st \in Retryable : StageOf(st) = "open"
  /\ StageOf("processing") = "claimed"
  /\ StageOf("done") = "closed"
  /\ StageOf("absent") = "absent"
  BY DEF StageOf, Retryable

\* A step that changes the stage of a set of rows nobody holds, all in the
\* same way.
LEMMA MoveStep ==
  ASSUME UNCHANGED wk, NEW S \in SUBSET Key,
         NEW from, NEW to,
         \/ from = "absent" /\ to = "open"
         \/ from = "open" /\ to = "absent"
         \/ from = "closed" /\ to \in {"open", "absent"},
         \A k \in S : StageOf(wq[k].status) = from,
         \A k \in Key : StageOf(wq'[k].status) =
                           IF k \in S THEN to ELSE StageOf(wq[k].status)
  PROVE  BoardStep
<1>1. Held' = Held
  BY DEF Held, Busy
<1>2. Board' = [k \in Key |-> IF k \in S THEN to ELSE Board[k]]
  BY DEF Board
<1>3. CASE S = {}
  <2>1. Board' = Board
    BY <1>2, <1>3 DEF Board
  <2> QED BY <1>1, <2>1 DEF BoardStep, Jobs!jobVars, Board, Held
<1>4. CASE S # {}
  <2>1. Jobs!MoveAll(S, from, to)
    BY <1>1, <1>2, <1>4 DEF Jobs!MoveAll, Board, Held
  <2> QED BY <2>1 DEF BoardStep, Jobs!JobNext
<1> QED BY <1>3, <1>4

\* A step that leaves stages and holders alone.
LEMMA StillStep ==
  ASSUME \A k \in Key : StageOf(wq'[k].status) = StageOf(wq[k].status),
         Held' = Held
  PROVE  BoardStep
<1>1. Board' = Board
  BY DEF Board
<1> QED BY <1>1 DEF BoardStep, Jobs!jobVars, Board, Held

\* A worker that moves on without letting go.
LEMMA SameHeld ==
  ASSUME PipelineInv, NEW w \in Worker, Busy(w), NEW r,
         wk' = [wk EXCEPT ![w] = r], r.pc # "idle", r.key = wk[w].key
  PROVE  Held' = Held
<1>1. wk \in [Worker -> WorkerRec]
  BY DEF PipelineInv, LocalTypes
<1>2. \A v \in Worker : /\ wk'[v].key = wk[v].key
                        /\ wk'[v].pc # "idle" <=> wk[v].pc # "idle"
  BY <1>1 DEF Busy
<1> QED BY <1>2 DEF Held, Busy

\* Letting go of one's item, the others keep theirs.
LEMMA LetGo ==
  ASSUME PipelineInv, NEW w \in Worker, Busy(w), Return(w)
  PROVE  /\ <<w, wk[w].key>> \in Held
         /\ Held' = Held \ {<<w, wk[w].key>>}
         /\ Held' = {h \in Held : h[1] \notin {w}}
<1>1. wk \in [Worker -> WorkerRec]
  BY DEF PipelineInv, LocalTypes
<1>2. wk'[w].pc = "idle" /\ \A v \in Worker : v # w => wk'[v] = wk[v]
  BY <1>1 DEF Return, IdleWorker
<1>3. <<w, wk[w].key>> \in Held
  BY DEF Held
<1>4. Held' = Held \ {<<w, wk[w].key>>}
  BY <1>2 DEF Held, Busy
<1>5. Held' = {h \in Held : h[1] \notin {w}}
  BY <1>2 DEF Held, Busy
<1> QED BY <1>3, <1>4, <1>5

\* Handing an item back is the abstract HandBack.
LEMMA HandBackRefines ==
  ASSUME PipelineInv, NEW w \in Worker, Busy(w), Return(w),
         NEW row, wq' = [wq EXCEPT ![wk[w].key] = row],
         NEW to \in {"open", "closed"}, StageOf(row.status) = to
  PROVE  BoardStep
<1>1. wk[w].key \in Key /\ wq \in [Key -> Row]
  BY DEF PipelineInv, ClaimOwned, QueueInv
<1>2. Board' = [Board EXCEPT ![wk[w].key] = to]
  BY <1>1 DEF Board
<1>3. Jobs!HandBack(w, wk[w].key, to)
  BY <1>1, <1>2, LetGo DEF Jobs!HandBack, Board, Held
<1> QED BY <1>1, <1>3 DEF BoardStep, Jobs!JobNext

\* Resolving, storing, writing and stamping leave the board as it is.
LEMMA QuietRefines ==
  ASSUME PipelineInv, NEW w \in Worker,
         \/ LookupCache(w) \/ FetchFinds(w) \/ FetchMisses(w) \/ StoreSong(w)
         \/ DetectInstrumental(w) \/ DetectVocals(w) \/ DetectSkipped(w)
         \/ WriteLRC(w) \/ MarkerUnwritable(w) \/ StampInstrumental(w)
         \/ StampOutcome(w)
  PROVE  BoardStep
<1>1. wk[w] \in WorkerRec /\ wq \in [Key -> Row] /\ ClaimOwned
  BY DEF PipelineInv, LocalTypes, QueueInv
<1>2. Busy(w)
  BY DEF Busy, LookupCache, FetchFinds, FetchMisses, StoreSong,
     DetectInstrumental, DetectVocals, DetectSkipped, WriteLRC,
     MarkerUnwritable, StampInstrumental, StampOutcome
<1>3. wk[w].key \in Key
  BY <1>1, <1>2 DEF ClaimOwned
<1>4. \A k \in Key : wq'[k].status = wq[k].status
  <2>1. \/ wq' = wq
        \/ \E v : SetInstrumentalResult(wk[w].key, v)
        \/ \E o : SetOutcomeType(wk[w].key, o)
    BY DEF LookupCache, FetchFinds, FetchMisses, StoreSong,
       DetectInstrumental, DetectVocals, DetectSkipped, WriteLRC,
       MarkerUnwritable, StampInstrumental, StampOutcome, queueVars
  <2>2. ASSUME NEW k \in Key
        PROVE  \/ wq'[k] = wq[k]
               \/ \E v : wq'[k] = [wq[k] EXCEPT !.instr = v]
               \/ \E o : wq'[k] = [wq[k] EXCEPT !.outcome = o]
    BY <1>1, <1>3, <2>1 DEF SetInstrumentalResult, SetOutcomeType
  <2>3. \A k \in Key : wq[k] \in Row
    BY <1>1
  <2> QED BY <2>2, <2>3 DEF Row
<1>5. ASSUME NEW pc \in WorkerPC \ {"idle"}, Goto(w, pc)
      PROVE  Held' = Held
  <2> DEFINE r == [wk[w] EXCEPT !.pc = pc]
  <2>1. wk' = [wk EXCEPT ![w] = r]
    BY <1>5 DEF Goto
  <2>2. r.pc # "idle" /\ r.key = wk[w].key
    BY <1>1 DEF WorkerRec
  <2> HIDE DEF r
  <2> QED BY <1>2, <2>1, <2>2, SameHeld
<1>6. ASSUME NEW song, NEW pc \in WorkerPC \ {"idle"}, NEW todo, NEW detected,
             \/ wk' = [wk EXCEPT ![w] = [@ EXCEPT !.pc = pc, !.song = song]]
             \/ wk' = [wk EXCEPT ![w] = [@ EXCEPT !.pc = pc, !.todo = todo]]
             \/ wk' = [wk EXCEPT ![w] = [@ EXCEPT !.todo = todo, !.pc = pc]]
             \/ wk' = [wk EXCEPT ![w] = [@ EXCEPT !.pc = pc, !.song = song,
                                                   !.todo = todo]]
             \/ wk' = [wk EXCEPT ![w] = [@ EXCEPT !.pc = pc, !.todo = todo,
                                                   !.song = song,
                                                   !.detected = detected]]
      PROVE  Held' = Held
  <2>1. PICK r : /\ wk' = [wk EXCEPT ![w] = r]
                 /\ \/ r = [wk[w] EXCEPT !.pc = pc, !.song = song]
                    \/ r = [wk[w] EXCEPT !.pc = pc, !.todo = todo]
                    \/ r = [wk[w] EXCEPT !.todo = todo, !.pc = pc]
                    \/ r = [wk[w] EXCEPT !.pc = pc, !.song = song, !.todo = todo]
                    \/ r = [wk[w] EXCEPT !.pc = pc, !.todo = todo,
                                         !.song = song, !.detected = detected]
    BY <1>6
  <2>2. r.pc # "idle" /\ r.key = wk[w].key
    <3>1. pc # "idle" /\ wk[w] \in WorkerRec
      BY <1>1
    <3>2. CASE r = [wk[w] EXCEPT !.pc = pc, !.song = song]
      BY <3>1, <3>2 DEF WorkerRec
    <3>3. CASE r = [wk[w] EXCEPT !.pc = pc, !.todo = todo]
      BY <3>1, <3>3 DEF WorkerRec
    <3>4. CASE r = [wk[w] EXCEPT !.todo = todo, !.pc = pc]
      BY <3>1, <3>4 DEF WorkerRec
    <3>5. CASE r = [wk[w] EXCEPT !.pc = pc, !.song = song, !.todo = todo]
      BY <3>1, <3>5 DEF WorkerRec
    <3>6. CASE r = [wk[w] EXCEPT !.pc = pc, !.todo = todo, !.song = song, !.detected = detected]
      BY <3>1, <3>6 DEF WorkerRec
    <3> QED BY <2>1, <3>2, <3>3, <3>4, <3>5, <3>6
  <2> QED BY <1>2, <2>1, <2>2, SameHeld
<1>7. Held' = Held
  <2>1. CASE LookupCache(w)
    <3> DEFINE cached == cache[FetchKey[wk[w].key]]
    <3>1. \/ Goto(w, "fetch")
          \/ wk' = [wk EXCEPT ![w] = [@ EXCEPT !.pc = "write", !.song = cached,
                                                !.todo = wk[w].paths]]
      BY <2>1 DEF LookupCache
    <3>2. {"fetch", "write"} \subseteq WorkerPC \ {"idle"}
      BY DEF WorkerPC
    <3> HIDE DEF cached
    <3> QED BY <1>5, <1>6, <3>1, <3>2
  <2>2. CASE FetchFinds(w)
    BY <1>6, <2>2 DEF FetchFinds, WorkerPC
  <2>3. CASE StoreSong(w)
    BY <1>6, <2>3 DEF StoreSong, WorkerPC
  <2>4. CASE DetectInstrumental(w)
    BY <1>6, <2>4 DEF DetectInstrumental, WorkerPC
  <2>5. CASE WriteLRC(w)
    <3>1. PICK p \in wk[w].todo :
             wk' = [wk EXCEPT ![w] = [@ EXCEPT !.todo = wk[w].todo \ {p},
                                              !.pc = AfterWrite(w, p)]]
      BY <2>5 DEF WriteLRC
    <3>2. AfterWrite(w, p) \in WorkerPC \ {"idle"}
      BY DEF AfterWrite, WorkerPC
    <3> QED BY <1>6, <3>1, <3>2
  <2>6. CASE \/ FetchMisses(w) \/ DetectVocals(w) \/ DetectSkipped(w)
             \/ MarkerUnwritable(w) \/ StampInstrumental(w) \/ StampOutcome(w)
    BY <1>5, <2>6 DEF FetchMisses, DetectVocals, DetectSkipped,
       MarkerUnwritable, StampInstrumental, StampOutcome, WorkerPC
  <2> QED BY <2>1, <2>2, <2>3, <2>4, <2>5, <2>6
<1> QED BY <1>4, <1>7, StillStep

\* Claiming is the abstract Claim: the row was open and the worker free.
LEMMA ClaimRefines ==
  ASSUME PipelineInv, NEW w \in Worker, Claim(w)
  PROVE  BoardStep
<1>1. wk \in [Worker -> WorkerRec] /\ wq \in [Key -> Row]
  BY DEF PipelineInv, LocalTypes, QueueInv
<1>2. PICK k \in Key :
         /\ Dequeue(k)
         /\ wk' = [wk EXCEPT ![w] =
                     [IdleWorker EXCEPT
                        !.pc = "lookup", !.key = k, !.paths = wq[k].paths,
                        !.miss = wq[k].miss,
                        !.bypass = gen # 0 /\ wq[k].pv # gen]]
  BY DEF Claim
<1>3. wk[w].pc = "idle"
  BY DEF Claim
<1>4. /\ wk'[w].pc = "lookup" /\ wk'[w].key = k
      /\ \A v \in Worker : v # w => wk'[v] = wk[v]
  BY <1>1, <1>2 DEF IdleWorker
<1>5. wq' = [wq EXCEPT ![k] = [@ EXCEPT !.status = "processing"]]
  BY <1>2 DEF Dequeue
<1>6. wq'[k].status = "processing" /\ \A j \in Key : j # k => wq'[j] = wq[j]
  BY <1>1, <1>5 DEF Row
<1>7. Board[k] = "open" /\ Board' = [Board EXCEPT ![k] = "claimed"]
  <2>1. StageOf(wq[k].status) = "open" /\ StageOf(wq'[k].status) = "claimed"
    BY <1>2, <1>6, Stages DEF Dequeue, Ready
  <2>2. Board' = [j \in Key |-> IF j = k THEN "claimed" ELSE Board[j]]
    BY <1>6, <2>1 DEF Board
  <2> QED BY <2>1, <2>2 DEF Board
<1>8. Held' = Held \cup {<<w, k>>}
  BY <1>3, <1>4 DEF Held, Busy
<1>9. \A j \in Key : <<w, j>> \notin Held
  BY <1>3 DEF Held, Busy
<1>10. Jobs!Claim(w, k)
  BY <1>7, <1>8, <1>9 DEF Jobs!Claim, Board, Held
<1> QED BY <1>10 DEF BoardStep, Jobs!JobNext

\* Every way to settle an item hands its job back.
LEMMA SettleRefines ==
  ASSUME PipelineInv, NEW w \in Worker,
         \/ FetchThrottled(w) \/ FailItem(w) \/ GuardRejects(w)
         \/ FinishItem(w) \/ RequeueDeferred(w)
  PROVE  BoardStep
<1> DEFINE k == wk[w].key
<1>1. Busy(w) /\ Return(w)
  BY DEF Busy, FetchThrottled, FailItem, GuardRejects, FinishItem,
     RequeueDeferred, Settle
<1>2. k \in Key /\ wq[k].status = "processing" /\ wq[k] \in Row
  BY <1>1 DEF PipelineInv, ClaimOwned, QueueInv
<1>3. Release(k) \/ Fail(k) \/ Complete(k) \/ Defer(k) \/ RetireMiss(k)
  BY <1>2 DEF FetchThrottled, FailItem, GuardRejects, FinishItem,
     RequeueDeferred, Settle
<1>4. \E row : /\ wq' = [wq EXCEPT ![k] = row]
               /\ row.status \in {"pending", "failed", "deferred", "done"}
  <2>1. CASE Release(k)
    <3> DEFINE row == [wq[k] EXCEPT !.status = "pending", !.err = "none"]
    <3>1. wq' = [wq EXCEPT ![k] = row] /\ row.status = "pending"
      BY <1>2, <2>1 DEF Release, Row
    <3> QED BY <3>1
  <2>2. CASE Fail(k)
    <3> DEFINE n == Bump(wq[k].attempts, AttemptBound)
               row == [wq[k] EXCEPT !.status = "failed", !.attempts = n,
                                    !.due = FALSE, !.err = "cause"]
    <3>1. wq' = [wq EXCEPT ![k] = row]
      BY <2>2 DEF Fail
    <3> HIDE DEF n
    <3>2. row.status = "failed"
      BY <1>2 DEF Row
    <3> HIDE DEF row
    <3> QED BY <3>1, <3>2
  <2>3. CASE Complete(k)
    <3> DEFINE row == [wq[k] EXCEPT !.status = "done", !.err = "none"]
    <3>1. wq' = [wq EXCEPT ![k] = row] /\ row.status = "done"
      BY <1>2, <2>3 DEF Complete, Row
    <3> QED BY <3>1
  <2>4. CASE Defer(k)
    <3> DEFINE n == Bump(wq[k].miss, MissBound)
               row == [wq[k] EXCEPT !.status = "deferred", !.miss = n,
                                    !.priority = PriorityMiss, !.due = FALSE,
                                    !.err = "cause"]
    <3>1. wq' = [wq EXCEPT ![k] = row]
      BY <2>4 DEF Defer
    <3> HIDE DEF n
    <3>2. row.status = "deferred"
      BY <1>2 DEF Row
    <3> HIDE DEF row
    <3> QED BY <3>1, <3>2
  <2>5. CASE RetireMiss(k)
    <3> DEFINE row == [wq[k] EXCEPT !.status = "done", !.err = "limit"]
    <3>1. wq' = [wq EXCEPT ![k] = row] /\ row.status = "done"
      BY <1>2, <2>5 DEF RetireMiss, Row
    <3> QED BY <3>1
  <2> QED BY <1>3, <2>1, <2>2, <2>3, <2>4, <2>5
<1>5. PICK row : /\ wq' = [wq EXCEPT ![k] = row]
                 /\ row.status \in {"pending", "failed", "deferred", "done"}
  BY <1>4
<1>6. StageOf(row.status) \in {"open", "closed"}
  BY <1>5, Stages DEF Retryable
<1> QED BY <1>1, <1>5, <1>6, HandBackRefines

\* A lost item and a crash abandon what was held.
LEMMA AbandonRefines ==
  ASSUME PipelineInv, Crash \/ \E w \in Worker : Orphan(w)
  PROVE  BoardStep
<1>1. Board' = Board
  BY DEF Board, Crash, Orphan, queueVars
<1>2. CASE Crash
  <2>1. \A w \in Worker : wk'[w].pc = "idle"
    BY <1>2 DEF Crash, IdleWorker
  <2>2. Held' = {h \in Held : h[1] \notin Worker}
    BY <2>1 DEF Held, Busy
  <2>3. Jobs!Abandon(Worker)
    BY <1>1, <2>2 DEF Jobs!Abandon, Board, Held
  <2> QED BY <2>3 DEF BoardStep, Jobs!JobNext
<1>3. ASSUME NEW w \in Worker, Orphan(w)
      PROVE  BoardStep
  <2>1. Busy(w) /\ Return(w)
    BY <1>3 DEF Busy, Orphan
  <2>2. Held' = {h \in Held : h[1] \notin {w}}
    BY <2>1, LetGo
  <2>3. Jobs!Abandon({w})
    BY <1>1, <2>2 DEF Jobs!Abandon, Board, Held
  <2> QED BY <2>3 DEF BoardStep, Jobs!JobNext
<1> QED BY <1>2, <1>3

\* Enqueueing opens a job that was absent and leaves the others alone.
LEMMA EnqueueRefines ==
  ASSUME PipelineInv, UNCHANGED wk, NEW k \in Key, NEW dests, NEW prio,
         NEW link, NEW stamp, Enqueue(k, dests, prio, link, stamp)
  PROVE  BoardStep
<1>1. wq \in [Key -> Row] /\ wq[k] \in Row
  BY DEF PipelineInv, QueueInv
<1>2. \A j \in Key : j # k => wq'[j] = wq[j]
  BY <1>1 DEF Enqueue
<1>3. CASE wq[k].status = "absent"
  <2>1. wq'[k] = Inserted(dests, prio, link, stamp)
    BY <1>1, <1>3 DEF Enqueue
  <2>2. wq'[k].status = "pending"
    BY <2>1 DEF Inserted, NoRow
  <2>3. StageOf(wq[k].status) = "absent" /\ StageOf(wq'[k].status) = "open"
    BY <1>3, <2>2, Stages DEF Retryable
  <2>4. \A j \in Key : StageOf(wq'[j].status) =
                          IF j \in {k} THEN "open" ELSE StageOf(wq[j].status)
    BY <1>2, <2>3
  <2>5. {k} \in SUBSET Key /\ \A j \in {k} : StageOf(wq[j].status) = "absent"
    BY <2>3
  <2> QED BY <2>4, <2>5, MoveStep
<1>4. CASE wq[k].status # "absent"
  <2>1. wq'[k] = Upserted(wq[k], dests, prio, link)
    BY <1>1, <1>4 DEF Enqueue
  <2>2. wq'[k].status = wq[k].status
    BY <1>1, <2>1 DEF Upserted, Row
  <2> QED BY <1>2, <2>2, StillStep DEF Held, Busy
<1> QED BY <1>3, <1>4

\* Enqueuers submit jobs and otherwise leave the board alone.
LEMMA EnqueuerRefines ==
  ASSUME PipelineInv, NEW e \in Enqueuer, EnqueuerStep(e)
  PROVE  BoardStep
<1>1. UNCHANGED wk
  BY DEF EnqueuerStep, Scan, Persist, PersistFails, ListPending, PickPending,
     LoopEnds, MarkHit, Reserve, EnqueueScan, EnqueueFails, Restore, ResultGone,
     LibraryGone, Abort
<1>2. CASE EnqueueScan(e)
  <2>1. eq[e].cur \subseteq ScanResult
    BY DEF PipelineInv, LocalTypes, EnqueuerRec
  <2>2. PICK s \in ScanResult :
              Enqueue(KeyOf[s], {PathOf[s]}, PriorityScan, {s}, 0)
    BY <1>2, <2>1 DEF EnqueueScan
  <2>3. KeyOf[s] \in Key
    BY QueueAssumption
  <2> QED BY <1>1, <2>2, <2>3, EnqueueRefines
<1>3. CASE ~EnqueueScan(e)
  <2>1. wq' = wq
    BY <1>3 DEF EnqueuerStep, Scan, Persist, PersistFails, ListPending,
       PickPending, LoopEnds, MarkHit, Reserve, EnqueueFails, Restore,
       ResultGone, LibraryGone, Abort, Upsert, SetStatus, queueVars
  <2> QED BY <1>1, <2>1, StillStep DEF Held, Busy
<1> QED BY <1>2, <1>3

\* Commands, deletions and time move only jobs that nobody holds.
LEMMA EnvironmentRefines ==
  ASSUME PipelineInv,
         \/ WebhookEnqueue \/ WebhookDelete \/ OperatorStep \/ LibraryStep
         \/ TimePasses
  PROVE  BoardStep
<1>1. wq \in [Key -> Row] /\ UNCHANGED wk /\ Held' = Held
  BY DEF PipelineInv, QueueInv, WebhookEnqueue, WebhookDelete, OperatorStep,
     LibraryStep, TimePasses, Held, Busy
<1>2. \A k \in Key : wq[k] \in Row
  BY <1>1
<1>3. CASE WebhookEnqueue
  BY <1>1, <1>3, EnqueueRefines DEF WebhookEnqueue
<1>4. ASSUME NEW k \in Key, Cleanup(k)
      PROVE  BoardStep
  <2>1. wq'[k] = NoRow /\ \A j \in Key : j # k => wq'[j] = wq[j]
    BY <1>1, <1>4 DEF Cleanup
  <2>2. StageOf(wq[k].status) = "open" /\ StageOf(wq'[k].status) = "absent"
    BY <1>4, <2>1, Stages DEF Cleanup, NoRow
  <2>3. \A j \in Key : StageOf(wq'[j].status) =
                          IF j \in {k} THEN "absent" ELSE StageOf(wq[j].status)
    BY <2>1, <2>2
  <2>4. {k} \in SUBSET Key /\ \A j \in {k} : StageOf(wq[j].status) = "open"
    BY <2>2
  <2> QED BY <1>1, <2>3, <2>4, MoveStep
<1>5. ASSUME NEW k \in Key, Elapse(k) \/ Retry(k)
      PROVE  BoardStep
  <2>1. \A j \in Key : \/ wq'[j] = wq[j]
                       \/ wq'[j] = [wq[j] EXCEPT !.due = TRUE]
                       \/ /\ wq[j].status = "failed"
                          /\ wq'[j] = [wq[j] EXCEPT !.status = "pending",
                                          !.attempts = 0, !.due = TRUE, !.err = "none"]
    <3>1. CASE Elapse(k)
      BY <1>1, <3>1 DEF Elapse
    <3>2. CASE Retry(k)
      BY <1>1, <3>2 DEF Retry
    <3> QED BY <1>5, <3>1, <3>2
  <2>2. ASSUME NEW j \in Key
        PROVE  \/ wq'[j].status = wq[j].status
               \/ wq[j].status = "failed" /\ wq'[j].status = "pending"
    <3>1. wq[j] \in Row
      BY <1>2
    <3>2. CASE wq'[j] = [wq[j] EXCEPT !.due = TRUE]
      BY <3>1, <3>2 DEF Row
    <3>3. CASE wq'[j] = [wq[j] EXCEPT !.status = "pending", !.attempts = 0,
                                      !.due = TRUE, !.err = "none"]
      BY <2>1, <3>1, <3>3 DEF Row
    <3> QED BY <2>1, <3>2, <3>3
  <2>3. \A j \in Key : StageOf(wq'[j].status) = StageOf(wq[j].status)
    BY <2>2, Stages DEF Retryable
  <2> QED BY <1>1, <2>3, StillStep
<1>6. ASSUME NEW scope, RecheckDeferred(scope)
      PROVE  BoardStep
  <2>1. \A j \in Key : wq'[j] \in {wq[j], [wq[j] EXCEPT !.due = TRUE]}
    BY <1>6 DEF RecheckDeferred
  <2>2. \A j \in Key : wq'[j].status = wq[j].status
    BY <1>2, <2>1 DEF Row
  <2> QED BY <1>1, <2>2, StillStep
<1>7. ASSUME NEW scope, RecheckRetired(scope)
      PROVE  BoardStep
  <2> DEFINE hit == {k \in Key : /\ wq[k].status = "done" /\ wq[k].err = "limit"
                                 /\ InScope(k, scope)}
  <2>1. \A j \in Key : wq'[j] = IF j \in hit THEN Requeued(wq[j]) ELSE wq[j]
    BY <1>7 DEF RecheckRetired
  <2>2. \A j \in Key : Requeued(wq[j]).status = "deferred"
    BY <1>2 DEF Requeued, Row
  <2>3. \A j \in hit : j \in Key /\ StageOf(wq[j].status) = "closed"
    BY Stages
  <2>4. StageOf("deferred") = "open"
    BY Stages DEF Retryable
  <2> HIDE DEF hit
  <2>5. \A j \in Key : StageOf(wq'[j].status) =
                          IF j \in hit THEN "open" ELSE StageOf(wq[j].status)
    BY <2>1, <2>2, <2>4
  <2>6. hit \in SUBSET Key
    BY <2>3
  <2> QED BY <1>1, <2>3, <2>5, <2>6, MoveStep
<1>8. CASE ClearDone
  <2> DEFINE hit == {k \in Key : wq[k].status = "done"}
  <2>1. \A j \in Key : wq'[j] = IF j \in hit THEN NoRow ELSE wq[j]
    BY <1>8 DEF ClearDone
  <2>2. \A j \in hit : j \in Key /\ StageOf(wq[j].status) = "closed"
    BY Stages
  <2>3. StageOf(NoRow.status) = "absent"
    BY Stages DEF NoRow
  <2> HIDE DEF hit
  <2>4. \A j \in Key : StageOf(wq'[j].status) =
                          IF j \in hit THEN "absent" ELSE StageOf(wq[j].status)
    BY <2>1, <2>3
  <2>5. hit \in SUBSET Key
    BY <2>2
  <2> QED BY <1>1, <2>2, <2>4, <2>5, MoveStep
<1>9. ASSUME NEW lib \in Library, LibraryRemove(lib)
      PROVE  BoardStep
  <2>1. \A j \in Key : wq'[j] = DropLinks(wq[j], OfLibrary(lib))
    BY <1>9 DEF LibraryRemove
  <2>2. \A j \in Key : wq'[j].status = wq[j].status
    BY <1>2, <2>1 DEF DropLinks, Row
  <2> QED BY <1>1, <2>2, StillStep
<1>10. ASSUME NEW lib \in Library, ScanClear(lib)
       PROVE  BoardStep
  <2> DEFINE row(j) == Cancelled(wq[j], lib)
             hit == {j \in Key : wq[j].status \in Retryable
                                  /\ row(j).status = "absent"}
  <2>1. \A j \in Key : wq'[j] = DropLinks(row(j), OfLibrary(lib))
    BY <1>10 DEF ScanClear
  <2>2. ASSUME NEW j \in Key
        PROVE  /\ row(j) \in Row
               /\ \/ row(j).status = wq[j].status
                  \/ wq[j].status \in Retryable /\ row(j).status = "absent"
    <3>1. GoodRow(wq[j], Present)
      BY DEF PipelineInv, QueueInv
    <3>2. row(j) \in Row
      BY <3>1, CancelledGood DEF GoodRow
    <3> DEFINE keep == {PathOf[s] : s \in wq[j].links \ OfLibrary(lib)}
               cut == [wq[j] EXCEPT !.paths = wq[j].paths \cap keep]
    <3>3. \/ row(j) = wq[j] \/ row(j) = cut
          \/ wq[j].status \in Retryable /\ row(j) = NoRow
      BY DEF Cancelled
    <3>4. cut.status = wq[j].status
      BY <1>2 DEF Row
    <3> HIDE DEF cut, row
    <3> QED BY <3>2, <3>3, <3>4 DEF NoRow
  <2> HIDE DEF row
  <2>3. \A j \in Key : wq'[j].status = row(j).status
    BY <2>1, <2>2 DEF DropLinks, Row
  <2>4. hit \in SUBSET Key /\ \A j \in hit : StageOf(wq[j].status) = "open"
    BY Stages
  <2>5. \A j \in Key : StageOf(wq'[j].status) =
                          IF j \in hit THEN "absent" ELSE StageOf(wq[j].status)
    <3> SUFFICES ASSUME NEW j \in Key
                 PROVE  StageOf(wq'[j].status) =
                          IF j \in hit THEN "absent" ELSE StageOf(wq[j].status)
      OBVIOUS
    <3>1. CASE j \in hit
      BY <2>3, <3>1, Stages
    <3>2. CASE j \notin hit
      BY <2>2, <2>3, <3>2
    <3> QED BY <3>1, <3>2
  <2> HIDE DEF hit
  <2> QED BY <1>1, <2>4, <2>5, MoveStep
<1> QED BY <1>3, <1>4, <1>5, <1>6, <1>7, <1>8, <1>9, <1>10
        DEF WebhookDelete, OperatorStep, LibraryStep, TimePasses

\* The pipeline implements the abstract job board: no command, scan, webhook
\* or second worker ever moves a job that a worker holds.
THEOREM PipelineKeepsJobs == Spec => KeepsJobs
<1>1. Init => Jobs!JobInit
  <2> SUFFICES ASSUME Init PROVE Jobs!JobInit
    OBVIOUS
  <2>1. \A k \in Key : StageOf(wq[k].status) = "absent"
    BY Stages DEF Init, QueueInit, NoRow
  <2>2. \A w \in Worker : wk[w].pc = "idle"
    BY DEF Init, IdleWorker
  <2>3. Board = [k \in Key |-> "absent"] /\ Held = {}
    BY <2>1, <2>2 DEF Board, Held, Busy
  <2> QED BY <2>3 DEF Jobs!JobInit, Board, Held
<1>2. PipelineInv /\ [Next]_vars => BoardStep
  <2> SUFFICES ASSUME PipelineInv, [Next]_vars PROVE BoardStep
    OBVIOUS
  <2>1. CASE UNCHANGED vars
    BY <2>1, StillStep DEF vars, Held, Busy
  <2>2. ASSUME NEW w \in Worker, WorkerStep(w)
        PROVE  BoardStep
    BY <2>2, ClaimRefines, QuietRefines, SettleRefines, AbandonRefines
       DEF WorkerStep
  <2> QED BY <2>1, <2>2, EnqueuerRefines, EnvironmentRefines, AbandonRefines
          DEF Next
<1>3. PipelineInv /\ [Next]_vars => [Jobs!JobNext]_(Jobs!jobVars)
  BY <1>2 DEF BoardStep
<1> QED BY <1>1, <1>3, PipelineInvariant, PTL DEF Spec, KeepsJobs, Jobs!JobSpec

=============================================================================
