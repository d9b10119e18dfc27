------------------------------ MODULE WorkQueue ------------------------------
(***************************************************************************)
(* The durable queue of lyrics work (internal/queue, DBQueue) together     *)
(* with the scan_results table it writes back to (internal/scan, Repo).    *)
(* Both are tables of one SQLite database, so every operation below is one *)
(* transaction and therefore one step.                                     *)
(*                                                                         *)
(* A work_queue row is unique per normalized (artist, title) key, so the   *)
(* table is a function on Key; a row that does not exist has status        *)
(* "absent".  The junction table work_queue_scan_results is the field      *)
(* links of a row.  next_attempt_at is kept as the field due, that is      *)
(* "next_attempt_at <= now": the queue only ever writes now, now plus a    *)
(* positive delay, or leaves the column alone.                             *)
(***************************************************************************)
EXTENDS Integers

CONSTANTS
    Key,              \* normalized (artist, title) keys
    ScanResult,       \* scan_results ids: one per (library, audio file)
    Library,          \* configured libraries
    Path,             \* output destinations (outdir, filename)
    KeyOf,            \* scan result -> the key of its track
    LibOf,            \* scan result -> its library
    PathOf,           \* scan result -> its output destination
    Gen,              \* provider generations (0 means "not configured")
    MaxMissAttempts,  \* api.max_miss_attempts; 0 means no cap
    AttemptBound,     \* the attempts column is counted up to this bound
    MissBound         \* the miss_count column is counted up to this bound

ASSUME QueueAssumption ==
    /\ KeyOf \in [ScanResult -> Key]
    /\ LibOf \in [ScanResult -> Library]
    /\ PathOf \in [ScanResult -> Path]
    /\ Gen \subseteq Nat
    /\ MaxMissAttempts \in Nat
    /\ AttemptBound \in Nat \ {0}
    /\ MissBound \in Nat \ {0}
    /\ MaxMissAttempts <= MissBound
    /\ "all" \notin Library

PriorityMiss == -100
PriorityScan == 0
PriorityWebhook == 10

Priority == {PriorityMiss, PriorityScan, PriorityWebhook}

Status == {"pending", "processing", "done", "failed", "deferred"}

\* The statuses Dequeue may claim and Cleanup / scan clear may delete.
Retryable == {"pending", "failed", "deferred"}

(***************************************************************************)
(* last_error is "none", the sentinel written by RetireMiss ("limit"), or  *)
(* the text of some other cause ("cause").  instr is instrumental_result   *)
(* (NULL, 1, 0) and outcome is outcome_type, synced and unsynced lyrics    *)
(* taken together.                                                         *)
(***************************************************************************)
Row == [status   : Status \cup {"absent"},
        priority : Priority,
        due      : BOOLEAN,
        attempts : 0 .. AttemptBound,
        miss     : 0 .. MissBound,
        err      : {"none", "limit", "cause"},
        paths    : SUBSET Path,
        links    : SUBSET ScanResult,
        pv       : Gen \cup {0},
        instr    : {"null", "yes", "no"},
        outcome  : {"null", "lyrics", "instrumental"}]

NoRow == [status |-> "absent", priority |-> PriorityScan, due |-> TRUE,
          attempts |-> 0, miss |-> 0, err |-> "none", paths |-> {},
          links |-> {}, pv |-> 0, instr |-> "null", outcome |-> "null"]

VARIABLES
    wq,   \* work_queue: [Key -> Row]
    sr    \* scan_results.status: [ScanResult -> ...], "absent" when no row

queueVars == <<wq, sr>>

ScanStatus == {"absent", "pending", "processing", "done"}

QueueInit ==
    /\ wq = [k \in Key |-> NoRow]
    /\ sr = [s \in ScanResult |-> "absent"]

Bump(n, bound) == IF n < bound THEN n + 1 ELSE bound

\* Rows of the scan_results table.
Present == {s \in ScanResult : sr[s] # "absent"}

-----------------------------------------------------------------------------
(* Enqueue                                                                 *)

\* Faulty: without the arm for deferred rows, the priority is the larger one.
UpsertedMaxOnly(row, dests, prio, link) ==
    [row EXCEPT
       !.paths    = IF row.status \in {"done", "processing"} THEN @ ELSE dests,
       !.links    = @ \cup link,
       !.priority = IF @ > prio THEN @ ELSE prio]

\* Faulty: the destinations are overwritten whatever the status.
UpsertedAnyStatus(row, dests, prio, link) ==
    [row EXCEPT !.paths = dests, !.links = @ \cup link]

\* The CASE arms of the ON CONFLICT upsert, column by column.
Upserted(row, dests, prio, link) ==
    [row EXCEPT
       !.paths    = IF row.status \in {"done", "processing"} THEN @ ELSE dests,
       !.links    = @ \cup link,
       !.priority = IF prio >= PriorityWebhook THEN prio
                    ELSE IF row.status = "deferred" \/ @ > prio THEN @
                    ELSE prio,
       !.due      = IF \/ row.status = "pending"
                       \/ /\ row.status \in {"failed", "deferred"}
                          /\ prio >= PriorityWebhook
                    THEN TRUE ELSE @,
       !.err      = IF row.status = "pending" THEN "none" ELSE @]

Inserted(dests, prio, link, stamp) ==
    [NoRow EXCEPT !.status = "pending", !.priority = prio, !.paths = dests,
                  !.links = link, !.pv = stamp]

\* link is {} or the one scan result the inputs carry; the foreign key of the
\* junction table rejects a scan result that is gone.
Enqueue(k, dests, prio, link, stamp) ==
    /\ link \subseteq Present
    /\ wq' = [wq EXCEPT ![k] = IF @.status = "absent"
                               THEN Inserted(dests, prio, link, stamp)
                               ELSE Upserted(@, dests, prio, link)]
    /\ UNCHANGED sr

-----------------------------------------------------------------------------
(* The worker's operations                                                 *)

Ready(k) == wq[k].status \in Retryable /\ wq[k].due

\* ORDER BY priority DESC; the order inside a tier is random by default.
Dequeue(k) ==
    /\ Ready(k)
    /\ \A j \in Key : Ready(j) => wq[j].priority <= wq[k].priority
    /\ wq' = [wq EXCEPT ![k] = [@ EXCEPT !.status = "processing"]]
    /\ UNCHANGED sr

WriteBack(k) ==
    sr' = [s \in ScanResult |->
             IF s \in wq[k].links /\ sr[s] # "absent" THEN "done" ELSE sr[s]]

Complete(k) ==
    /\ wq[k].status = "processing"
    /\ wq' = [wq EXCEPT ![k] = [@ EXCEPT !.status = "done", !.err = "none"]]
    /\ WriteBack(k)

Release(k) ==
    /\ wq[k].status = "processing"
    /\ wq' = [wq EXCEPT ![k] = [@ EXCEPT !.status = "pending", !.err = "none"]]
    /\ UNCHANGED sr

\* Faulty: the failed attempt is not counted.
FailUncounted(k) ==
    /\ wq[k].status = "processing"
    /\ wq' = [wq EXCEPT ![k] = [@ EXCEPT !.status = "failed", !.due = FALSE,
                                          !.err = "cause"]]
    /\ UNCHANGED sr

Fail(k) ==
    /\ wq[k].status = "processing"
    /\ wq' = [wq EXCEPT ![k] = [@ EXCEPT !.status = "failed",
                                          !.attempts = Bump(wq[k].attempts, AttemptBound),
                                          !.due = FALSE, !.err = "cause"]]
    /\ UNCHANGED sr

Defer(k) ==
    /\ wq[k].status = "processing"
    /\ wq' = [wq EXCEPT ![k] = [@ EXCEPT !.status = "deferred",
                                          !.miss = Bump(wq[k].miss, MissBound),
                                          !.priority = PriorityMiss,
                                          !.due = FALSE, !.err = "cause"]]
    /\ UNCHANGED sr

RetireMiss(k) ==
    /\ wq[k].status = "processing"
    /\ wq' = [wq EXCEPT ![k] = [@ EXCEPT !.status = "done", !.err = "limit"]]
    /\ WriteBack(k)

\* Both stamps key on the id alone; a missing id is a no-op.
SetInstrumentalResult(k, result) ==
    /\ wq[k].status # "absent"
    /\ wq' = [wq EXCEPT ![k] = [@ EXCEPT !.instr = result]]
    /\ UNCHANGED sr

SetOutcomeType(k, kind) ==
    /\ wq[k].status # "absent"
    /\ wq' = [wq EXCEPT ![k] = [@ EXCEPT !.outcome = kind]]
    /\ UNCHANGED sr

\* The backoff or cooldown window of a row elapses.
Elapse(k) ==
    /\ ~wq[k].due
    /\ wq' = [wq EXCEPT ![k] = [@ EXCEPT !.due = TRUE]]
    /\ UNCHANGED sr

-----------------------------------------------------------------------------
(* Webhook and operator commands                                           *)

\* Faulty: a row is deleted under the worker that holds it.
CleanupAnyStatus(k) ==
    /\ wq[k].status # "absent"
    /\ wq' = [wq EXCEPT ![k] = NoRow]
    /\ UNCHANGED sr

Cleanup(k) ==
    /\ wq[k].status \in Retryable
    /\ wq' = [wq EXCEPT ![k] = NoRow]
    /\ UNCHANGED sr

\* recheckLibraryClause: "all", or the rows linked to one library.
InScope(k, scope) ==
    scope = "all" \/ \E s \in wq[k].links : LibOf[s] = scope

RecheckDeferred(scope) ==
    LET hit == {k \in Key : wq[k].status = "deferred" /\ InScope(k, scope)}
    IN  /\ hit # {}
        /\ wq' = [k \in Key |-> IF k \in hit THEN [wq[k] EXCEPT !.due = TRUE]
                                ELSE wq[k]]
        /\ UNCHANGED sr

Requeued(row) ==
    [row EXCEPT !.status = "deferred", !.priority = PriorityMiss,
                !.due = TRUE, !.err = "none"]

RecheckRetired(scope) ==
    LET hit == {k \in Key : /\ wq[k].status = "done" /\ wq[k].err = "limit"
                            /\ InScope(k, scope)}
    IN  /\ hit # {}
        /\ wq' = [k \in Key |-> IF k \in hit THEN Requeued(wq[k]) ELSE wq[k]]
        /\ sr' = [s \in ScanResult |->
                    IF /\ sr[s] = "done"
                       /\ \E k \in hit : s \in wq[k].links
                       /\ scope = "all" \/ LibOf[s] = scope
                    THEN "pending" ELSE sr[s]]

Retry(k) ==
    /\ wq[k].status = "failed"
    /\ wq' = [wq EXCEPT ![k] = [@ EXCEPT !.status = "pending", !.attempts = 0,
                                          !.due = TRUE, !.err = "none"]]
    /\ sr' = [s \in ScanResult |->
                IF s \in wq[k].links /\ sr[s] = "processing" THEN "pending"
                ELSE sr[s]]

ClearDone ==
    /\ \E k \in Key : wq[k].status = "done"
    /\ wq' = [k \in Key |-> IF wq[k].status = "done" THEN NoRow ELSE wq[k]]
    /\ UNCHANGED sr

ResetInstrumental(k) ==
    /\ wq[k].status = "done" /\ wq[k].instr = "yes"
    /\ wq' = [wq EXCEPT ![k] = [Requeued(@) EXCEPT !.instr = "null",
                                                   !.outcome = "null"]]
    /\ sr' = [s \in ScanResult |->
                IF s \in wq[k].links /\ sr[s] = "done" THEN "pending"
                ELSE sr[s]]

-----------------------------------------------------------------------------
(* Libraries and their scan results                                        *)

OfLibrary(lib) == {s \in ScanResult : LibOf[s] = lib}

\* cancelByLibrary on one row: the destinations other libraries still claim.
Cancelled(row, lib) ==
    LET keep == {PathOf[s] : s \in row.links \ OfLibrary(lib)}
    IN  IF row.status \in Retryable /\ row.links \cap OfLibrary(lib) # {}
        THEN IF row.paths \cap keep = {} THEN NoRow
             ELSE [row EXCEPT !.paths = @ \cap keep]
        ELSE row

\* Faulty: the junction table without ON DELETE CASCADE.
DropLinksNot(row, gone) == row

\* Deleting scan_results rows cascades into the junction table.
DropLinks(row, gone) == [row EXCEPT !.links = @ \ gone]

\* scan clear --yes: cancel the queue rows, then delete the scan results.
ScanClear(lib) ==
    /\ OfLibrary(lib) \cap Present # {}
    /\ wq' = [k \in Key |-> DropLinks(Cancelled(wq[k], lib), OfLibrary(lib))]
    /\ sr' = [s \in ScanResult |-> IF LibOf[s] = lib THEN "absent" ELSE sr[s]]

\* library remove: the scan results cascade away, queue rows stay.
LibraryRemove(lib) ==
    /\ wq' = [k \in Key |-> DropLinks(wq[k], OfLibrary(lib))]
    /\ sr' = [s \in ScanResult |-> IF LibOf[s] = lib THEN "absent" ELSE sr[s]]

\* Upsert of one batch of found files: a new row is pending, an existing one
\* keeps its status unless the scan is forced (--update / --upgrade).
Upsert(found, force) ==
    /\ sr' = [s \in ScanResult |->
                IF s \in found /\ (force \/ sr[s] = "absent") THEN "pending"
                ELSE sr[s]]
    /\ UNCHANGED wq

\* SetStatus: an unconditional UPDATE by id.
SetStatus(s, status) ==
    /\ sr[s] # "absent"
    /\ sr' = [sr EXCEPT ![s] = status]
    /\ UNCHANGED wq

-----------------------------------------------------------------------------
(* The queue on its own: any caller, any order of calls.                   *)

RowStep(k) ==
    \/ \E p \in Path, prio \in {PriorityScan, PriorityWebhook},
          link \in {{}} \cup {{s} : s \in ScanResult}, stamp \in Gen \cup {0} :
             Enqueue(k, {p}, prio, link, stamp)
    \/ Dequeue(k) \/ Complete(k) \/ Release(k) \/ Fail(k) \/ Defer(k)
    \/ RetireMiss(k) \/ Elapse(k) \/ Cleanup(k) \/ Retry(k)
    \/ ResetInstrumental(k)
    \/ \E v \in {"yes", "no"} : SetInstrumentalResult(k, v)
    \/ \E o \in {"lyrics", "instrumental"} : SetOutcomeType(k, o)

ScanStep ==
    \/ \E found \in SUBSET ScanResult, force \in BOOLEAN : Upsert(found, force)
    \/ \E s \in ScanResult, st \in {"pending", "processing", "done"} :
          SetStatus(s, st)

BulkStep ==
    \/ \E scope \in Library \cup {"all"} :
          RecheckDeferred(scope) \/ RecheckRetired(scope)
    \/ \E lib \in Library : ScanClear(lib) \/ LibraryRemove(lib)
    \/ ClearDone

QueueNext == (\E k \in Key : RowStep(k)) \/ ScanStep \/ BulkStep

QueueSpec == QueueInit /\ [][QueueNext]_queueVars

-----------------------------------------------------------------------------
\* Type invariant of the two tables.
QueueTypeOK ==
    /\ wq \in [Key -> Row]
    /\ sr \in [ScanResult -> ScanStatus]

\* A failed row has a failed attempt on record (the claim on which migration
\* 012 tells a deferred row from a failed one), a row carrying the miss-limit
\* sentinel is finished, and only failed or deferred rows wait for a time.
StatusShape ==
    \A k \in Key :
        /\ wq[k].status = "failed" => wq[k].attempts > 0
        /\ wq[k].err = "limit" => wq[k].status = "done"
        /\ ~wq[k].due => wq[k].status \in {"failed", "deferred"}

\* A deferred row never competes in the scan tier: whatever scans, rechecks
\* and releases happen, it sits in the miss tier unless a webhook lifted it.
DeferredBehindScan ==
    \A k \in Key : wq[k].status = "deferred" => wq[k].priority # PriorityScan

\* Links never dangle: a queue row is linked to existing scan results only,
\* and a deleted queue row leaves no link behind.
LinksResolve ==
    \A k \in Key : /\ wq[k].links \subseteq Present
                   /\ wq[k].status = "absent" => wq[k].links = {}

=============================================================================
