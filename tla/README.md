# Canticle (mxlrcgo-svc): a TLA+ model of the lyrics service

Canticle is a service that finds lyrics for the audio files of a music library
and writes them as sidecar files. Scans, a filesystem watcher and a Lidarr
webhook put tracks into a durable SQLite queue; a worker claims them one by one,
looks their lyrics up in a cache or with one or more providers, and settles the
row. Around this pipeline there are the files themselves, which several parties
write, a web UI with accounts and settings, and a start that prepares keys,
certificates and binaries. This directory holds TLA+ specifications of these
parts, TLC models of small instances, and TLAPS proofs for every
instance. Paths below are relative to `src/internal/`; `PROJECT.json` maps each
definition to its source lines.

## 1. Inventory

| Component | State | Operations | Talks to |
|---|---|---|---|
| Work queue (`queue/`) | `work_queue`: one row per (artist, title); junction `work_queue_scan_results` | Enqueue, Dequeue, Complete, Release, Fail, Defer, RetireMiss, Cleanup, recheck, Retry, ClearDone, ResetInstrumental, cancel by library, stamps | one SQLite database, one connection |
| Scan results (`scan/repository.go`) | `scan_results`: one row per file and library, with a status | Upsert, SetStatus, listings, clear | written back by the queue |
| Scheduler, enqueuer (`scan/`) | the list it is working through | scan and persist; per pending result: cache lookup, reserve, enqueue | scan results, cache, queue |
| Worker (`worker/`) | the claimed item, a snapshot of its row | RunOnce | queue, cache, orchestrator, detector, guard, verifier, writer |
| Webhook (`server/`) | the request: titles, paths, resolved inputs | Download / TrackRetag: resolve all, enqueue one by one; Delete: cleanup | scan results, files, queue |
| Cache (`cache/`) | `lyrics_cache` | Lookup, Store | worker, enqueuer |
| Orchestrator, lanes (`orchestrator/`) | per dispatch: best song, top error, held song, results channel | FindLyrics, ordered or parallel | lanes; providers over HTTP |
| Breaker (`circuit/`) | openUntil, consecutiveTrips, probing | Allow, Trip, TripRenewal, RecordSuccess, RecordBenignMiss | one per lane; shared by overlapping dispatches |
| Backoff (`backoff/`) | none | Geometric | queue, worker, breaker |
| Pacer (`musixmatch/`) | lastRequest, adaptive level, success streak | pace, OnThrottle, OnSuccess | every Musixmatch call |
| Watcher (`watcher/`) | two channels, a timer per directory | Run, translate, dispatch | notify; the scheduler's scan of a path |
| Commands (`commands/`) | none | queue retry / clear / recheck, scan clear, reconcile, library remove | the same database, another process |
| Scheduler loop (`scan/scheduler.go`) | libraries left of this pass | scan at once, then at every tick; ends on the first error | beside the watcher |
| Scanner, skip list (`scanner/`, `scanfail/`) | the walk; files that could not be read | scanDir file by file, extraction of embedded lyrics | sidecars, tags |
| Writer, parser (`lyrics/`) | .lrc and .txt next to the audio file | WriteLRC: temporary file, remove, rename, remove the other kind; InjectProvenance | worker, backfill |
| Reconcile, provenance (`commands/`) | candidates left | re-detect, remove marker, reset row; add provenance tags | files, queue, detector |
| Detector (`detector/`) | vocal baseline, time of the last inference, mutex | Detect | ffmpeg, a classifier over HTTP |
| One-shot fetch (`app/`) | inputs and failed queues | Run, handleFailed | providers, writer, the list of failed items |
| Accounts, sessions, limiter, keys (`webauth/`, `web/`, `auth/`) | users, sessions, API keys; in memory the setup latch and the limiter's map | setup, login, logout, sweep, create / revoke / import keys | database; restarts |
| Settings (`config/`, `web/settings*`) | config.toml, the token in the secrets store | save a field, a section or the token; `config set`; load | the next start |
| Start and stop (`secrets/`, `ffmpeg/`, `servetls/`, `commands/`) | key file, cached binary, certificate pair; the loops and the database handle | resolve or create each; start loops, stop them, close | other processes on the volume |
| Others | verification, script guard, trusted networks, reports, migrations, normalization | see `components` in `PROJECT.json` | |

What is hard to test here: the worker works for seconds on a snapshot of its row
while scans, webhooks and commands change the tables; the process may stop
between any two statements; in parallel mode provider calls outlive the dispatch
that made them; timers, their goroutines and the loop that consumes them race;
callers of the pacer give reserved slots back; file writers work in several steps
and people edit the same directory; two requests pass one check together; two
processes start on one volume and one of them dies. Correctness means: a claim is
exclusive and its row does not change under the worker; "done" means lyrics on
disk; the miss budget is exact; deferred work does not overtake fresh work; a
throttled provider is never read as "no such track"; no event, slot or goroutine
is lost; nobody's sidecar is overwritten by a scan; there is one admin and one
master key; what the settings page accepts, the next start accepts. The `hazards` of `PROJECT.json` name each at its line.

## 2. Modules

| Module | Models | Checked by |
|---|---|---|
| `WorkQueue` | the two tables and every queue operation, each one transaction, one step | through `Pipeline`; `WorkQueue_proofs` |
| `Pipeline` | workers, enqueuers, webhook, operator, crashes around `WorkQueue` | `MCPipeline`, `Pipeline_proofs` |
| `TrackJob` | abstract: jobs that are absent, open, claimed or closed, and who holds them | `KeepsJobs` in `Pipeline`, `Pipeline_proofs` |
| `Dispatch` | lanes, breakers and the orchestrator in both modes | `MCDispatch`, `Dispatch_proofs` |
| `Watcher` | channels, debounce timers, goroutines, shutdown | through `ScanService`; `Watcher_proofs` |
| `ScanService` | the watcher and the periodic scheduler side by side, and which changes they have read | `MCScanService`, `Watcher_proofs` |
| `Sidecars` | the sidecar files of a directory and everybody who writes them | `MCSidecars`, `Sidecars_proofs` |
| `WebAccess` | setup, login, limiter, sessions, API keys | `MCServe`, `Serve_proofs` |
| `Settings` | config.toml, its writers and the next start's checks | `MCServe`, `Settings_proofs` |
| `Startup` | key file, ffmpeg, certificate, loops, shutdown | `MCServe`, `Settings_proofs` |
| `Webhook` | events of several tracks: resolution, enqueueing, failures, redelivery | `MCServe`, `Serve_proofs` |
| `Detector` | the instrumental detector | `MCServe`, `Serve_proofs` |
| `FetchOnce` | the one-shot command, and what the two providers' responses become | `MCServe`, `Serve_proofs` |
| `Backoff` | the delay schedule | through `Dispatch`, `FetchOnce`, `Cadence`; `Backoff_proofs` |
| `Cadence` | the retry settings from file and environment to the schedule | `MCServe`, `Serve_proofs` |
| `Pacer` | the adaptive request pacer | `MCServe`, `Serve_proofs` |
| `WatchRoots` | choice of watch roots and of an event's scan target | `MCServe`, `Watcher_proofs` |

`Pipeline` extends `WorkQueue`; `ScanService` extends `Watcher`; `Dispatch`,
`FetchOnce` and `Cadence` extend `Backoff`. The outcome of a dispatch (found,
missed, throttled, failed) is a nondeterministic choice of `Pipeline`'s fetch
steps, so the two can be checked apart; so is the detector's verdict. `Sidecars`
keeps of the queue and the worker what the files depend on, and refines the one
step that a write is in `Pipeline`.

`MCServe` holds the small parts that share no state with one another. Its
variable `part` chooses one of them at the start and the others do not move:
their product would repeat every part with every state of the others and show
nothing more. Each part's own specification (`AccessSpec`, ...) is in its module.

Definitions named "Faulty" in their comment are deliberate mutations of the
definition after them. No specification uses one; each shows that a property
notices the mistake.

### WorkQueue

`wq` maps every key to a row, or to a row with status "absent"; `sr` maps every
scan result to its status. Both tables live in one SQLite file opened with one
connection, and every operation is one statement or one transaction. Timestamps
are reduced to `due` (`next_attempt_at <= now`), the only thing the code reads of
them; `Elapse` lets a window pass. `attempts` and `miss_count` are counted up to
`AttemptBound` and `MissBound`. `outdir`, `filename` and `output_paths` are the
set `paths`, the junction table is `links`. The columns `detect_instrumental`
and `source_path` only decide whether the detector runs, which is a free choice
here; `created_at` only orders rows within a tier, which is random by default.

### Pipeline

A worker's record holds its program counter and what it read when it claimed the
row; each step of RunOnce that touches the database, the cache or a file is an
action. The closing statements of the queue are guarded by `status =
'processing'` and report an error when the row has moved on; `Settle` models
that, and `ClaimOwned` shows it never happens. `Orphan` is a closing statement
that itself fails: the row stays 'processing'. An enqueuer is any of the
scheduler, the watcher's scan and a scan command; `gone` remembers ids deleted
under it (ids are AUTOINCREMENT and not reused). A scan walks the disk in one
step and persists what it found in a later one, so its results may be stale.
Writing a sidecar is one step that succeeds or leaves the old file; the steps
inside the writer are in `Sidecars`. The constant `Env` selects which
optional parties and faults an instance has: webhook, delete, operator, library,
force (scans with --update / --upgrade), fault (failing stores, writes and
statements), crash. The worker looks the cache up under the resolved album
artist, the enqueuer under the track artist: `FetchKey` and `LookupKey`. serve
runs one worker goroutine; two workers are two serve processes on one database.

### Dispatch

A lane call passes the breaker (`Allow`), waits for the provider
(`ProviderAnswers`, which also drives the breaker) and sends its result; the
ordered mode runs the same steps for one lane at a time. `cur` is the dispatch
under way, `out` what the last one returned. Calls of earlier dispatches may
still be running. `openUntil` is the number of ticks left. `Poll` is the worker's
gate before it claims an item; asking a lane whose window has elapsed starts its
probe. Empty songs are left out; an authorization error counts as a throttle,
which is what the lane does with it. `sentinels` is the set of lanes whose error
values `ClassifyOutcome` knows, one of `Wirings`: Musixmatch alone, as the code
stands, or both. Every error of another lane is a transport error (`Class`), for
the lane's breaker as well as for the ranking. The properties hold either way.

### Pacer, Watcher, WatchRoots

`Pacer` guarantees the spacing of the reserved slots, which is what the code
computes; the moment a sleeper wakes up is the runtime's. In `Watcher` the scan
runs inside the loop, as in the code; a timer whose entry was deleted while it
was armed becomes an orphan, which still fires. notify is external: it delivers
an event or drops it when the channel is full. In `WatchRoots` a path is a
sequence of names, already cleaned; where the code breaks a tie of equal paths by
the length of their spelling, either library may win.

### ScanService

A directory is stale from a change until a scan has read it. Changes are reported
by notify or not (dropped, or a mount without events); the scheduler's passes and
the watcher's scans fail or succeed. A failing pass ends `Scheduler.Run`, whose
error `runScheduler` logs; a failing scan of the watcher is logged and its loop
goes on.

### Sidecars

A stem is an audio file with its .lrc and .txt; `disk` says what each holds: a
.lrc with or without provenance tags, a .txt with lyrics, with the exact
instrumental marker or with one somebody wrote a note into. The files of one
(artist, title) share a row of the queue, and a row has a set of destinations:
the scheduler and the webhook enqueue one, the queue and the worker's loop take
several, and so does the model. The worker's write is several steps for each
destination, with a failure or a death between any two. `end` tells how a row was
finished, because a row is done with nothing written too: at the miss limit, when
the guard refuses the lyrics, or when the marker of a detected instrumental cannot
be written and that miss is the last one. A failing Complete puts the row back with
its files on disk. Counts and clocks are left open here (they are in `WorkQueue`):
any miss may be the last.

The walk is one step per decision, so that sidecars appear and vanish between its
look and its link; it returns its results at its end, none when it is aborted.
Audio files change identity (mtime, size), and a read of the tags may fail at any
time; the skip list keeps the identity that was seen before the read. Scan results
are enqueued later, one by one, and one whose track is cached is marked done
without a row. Reconcile and backfill go through a list they read at the start;
`seen` tells whether a row is still the one reconcile listed, or went through the
queue since. Rows are deleted, trimmed and rechecked by the webhook and the
commands meanwhile. `removed`, `cleared` and `overruled` are history: sidecars
that a person or reconcile took away, destinations of the verdicts reconcile
cleared, and tracks it cleared and no fetch has followed.

### WebAccess, Settings, Startup

Requests interleave between their database and limiter calls; a request that
fails a form, origin or CSRF check changes nothing and is left out. The limiter
and the setup latch are in memory and gone after a restart; users, sessions and
keys are not. In `Settings` the fields are those that a check relates to one
another; the environment is fixed for a behaviour; `config set` takes no lock,
truncates the file and writes it whole, and `outside` marks behaviours in which
the file was written past the page's checks against it: by `config set`, by the
secrets command, or by a save of the page that could not load the file and was
checked against the configuration of the start instead. `Startup` gives every
start a number, and a key, pair or binary the number of the start that made it;
a process may die between any two steps.

### Webhook, Detector, FetchOnce, Cadence

`Webhook`: all tracks of an event are resolved before the first is enqueued, the
inventory and the files change meanwhile, and the queue may fail at any track.
`Detector` keeps of the scores what the gates compare. In `FetchOnce` a lookup is
one step whose answers are computed from the responses each provider may get,
stage by stage. `Cadence` follows five numbers from file and environment through
defaults, clamps and the worker's setters. Seconds and hours become durations in
machine arithmetic: the clamps see the number of the file, and a product that does
not fit wraps around behind them, to a negative duration, which the setter refuses,
or to a short positive one, which it takes. `PacedRetries` says what holds anyway,
and what holds only where the maximum fits.

## 3. Runs

| Run | Shows | Distinct states |
|---|---|---|
| `pipeline_claims` | two workers, scans of two libraries, webhooks, deletions, removals, crashes: claims are exclusive and undisturbed, rows keep their shape, links resolve, `Pipeline` implements `TrackJob` | 0.8 M |
| `pipeline_faults` | done means written, exact miss budget, with faults and crashes | 2.1 M |
| `pipeline_live` | claimed rows are settled, scan passes end | 94 k |
| `dispatch` | both modes: misses unanimous, best song served, breakers consistent, honest attribution, dispatches return, no goroutine leaks | 1.7 M |
| `scan_service` | accepted events are not lost, every change is scanned while the scheduler lives, shutdown complete | 88 k |
| `sidecars` | a row that was written has a sidecar at every destination, verdicts follow markers, scans never overwrite, the walk gives up only on a version it failed to read | 3.2 M |
| `serve` | one admin, lockouts held in a bounded map, revoked keys stay revoked; saves leave a file the next start accepts, an acknowledged token is used; one master key, whole files; paced slots apart; every library watched once, targets inside; no voice missed by a partial answer; every input of a fetch accounted for; delays are capped doubling and never 0 for every configuration, also where durations wrap around; an acknowledged event left its rows | 1.6 M |

Bounds. One track found in two libraries is what the deduplication of the queue
is about. Two workers are enough for exclusiveness, since each claim concerns one row; they are
interchangeable, hence the symmetry of `pipeline_claims`. Two misses are
enough to see the budget one short and exactly spent. Two lanes give every pair
of answers in every order, and two dispatches give late answers to a breaker that
has moved on; `mode` is chosen once, at the start. Three callers give a canceled
one between two others. The watcher's buffers have two slots so that they fill
up or have one so that notify drops, and three events are enough for a full buffer
while a scan and a timer race. In `sidecars` one track has two
destinations, so that a write loop fails half way, and one of them lies in the
library that is walked; two versions of an audio file let it change while it is
read. All actors together are more than TLC can enumerate, so `MCSidecars` takes
them in crews of two to four that meet on the same files (worker, queue and
reconcile; worker, queue, backfill and people; worker and walk; walk, queue and
people); `Sidecars_proofs` covers all of them at once. Three
clients, two of them behind one address, in front of a limiter with one entry,
fill its map with a lockout while another address fails. Two saves are the race
the lock is for; three starts of two processes let a third start meet what two
dead ones left; their one loop is the scheduler, which needs a provider and ends on
an error. Two deliveries are a failed one and its repetition, or a Download
and a Delete together. For `Cadence` every number from -1 on that makes a
difference is tried in file and environment, with defaults, units and machine word
scaled down, and numbers whose products wrap to either sign.
In the liveness runs of the pipeline and the dispatcher there are neither faults
nor crashes, because with them a row may really stay 'processing'.

Deadlock is checked in the pipeline runs. It is off where the bounds on
dispatches, events, slots, starts or attempts, or shutdown, let the system stop.

Fairness. `pipeline_live`: weak fairness of each worker's and each enqueuer's
next step; both are loops that only wait for their own calls, which have
timeouts. Nothing is assumed of webhooks, operators or time. `dispatch`: weak
fairness of the lane goroutines (HTTP clients have timeouts) and of the
collector. `scan_service`: weak fairness of goroutines, timers, the scan and the
scheduler; strong fairness of the cases of a `select`, among which Go chooses at
random. The other runs check no liveness and assume no fairness.

### Disagreements with comments and docs

Five runs check a sentence of the repository and TLC finds a behaviour of the
code that contradicts it; `findings` quotes each.

| Run | Behaviour |
|---|---|
| `linked_agree` | a scan result enqueued onto a done row stays 'processing' |
| `retries_behind_fresh` | a released re-attempt is lifted into the scan tier by the next scan |
| `reconcile_refetches` | a row that reconcile cleared is done again from the cached marker |
| `miss_reported` | misses of all lanes are a transport error when one lane is Petit Lyrics |
| `backstop` | one failing pass ends the periodic scheduler for good |

Further observations made while modelling, which have no run of their own:

* `commands/commands.go:1696` gives the enqueuer a queue without a providers
  version, so scanned rows are stamped 0 and the worker bypasses the cache for
  them; `docs/multi-provider-orchestration.md:233-234` says each new row gets the
  current generation.
* `worker/worker.go:641` compares the generation of the row, not of the cache
  entry, so a row enqueued after a change of providers can be answered by an
  older entry; the same document, lines 240-241, says it is revalidated.
* `orchestrator/orchestrator.go:133` skips an open lane before errors are ranked,
  so an open lane and a miss give a miss; `orchestrator/errors.go:17-20` ranks an
  open circuit above a miss. `MissIsUnanimous` is therefore about the lanes that
  were consulted.
* `orchestrator/parallel.go:44` leaves losers running, so calls of two dispatches
  may overlap on one lane; the document, lines 179-180, promises one at a time.
* `watcher/watcher.go:175` does not withdraw a token that was fired before an
  event restarted the timer, so a scan may start inside the new quiet period
  (`watcher/watcher.go:129-130`). The event itself is scanned later all the same.
* `orchestrator/parallel.go:97` returns a synced song that is ready when the
  context is canceled too, since `select` picks either; lines 71-73 say that
  cancellation "beats any pending commit".
* `app/app.go:70` backs off after a Petit Lyrics miss, because `IsBenignMiss`
  knows Musixmatch's sentinels; the comment above it says that a benign miss "must
  not trip the geometric backoff". A failed lookup waits the geometric delay only
  and not the cooldown. Two runs that end within a second write one failed list.
* `server/server.go:579`: of several payload files the first whose base name
  contains the title is taken, so the track "Love" of an album with a file "Love
  Song" may be written next to that file; the comment says multi-track payloads
  "target the right file".
* `secrets/key.go:104-107` calls concurrent first starts safe; one that reads the
  file between the winner's create and write finds 0 bytes and gives up, and a
  crash there leaves an empty key file that every later start refuses. There is
  never a second key (`OneMasterKey`).
* `commands/commands.go:858-879` returns on some errors without closing the
  database; at shutdown request handlers under way are not waited for.
* `web/settings_save.go`: `verification.enabled` without a whisper URL is saved
  and the next start refuses it; the checks are against the configuration of the
  start when the file cannot be loaded. `config set` (`commands/commands.go:2006`)
  takes no lock, makes no cross-field checks, and writes values of the environment
  into the file; a crash after its truncation leaves an empty one.
* `commands/commands.go:838-856` multiplies hours and seconds after the clamps:
  `miss_backoff_base_hours = 5124096` gives about 25 minutes and
  `circuit_open_duration = 18446744074` about 0.3 seconds, below the least values
  the clamps promise.
* A row at the miss limit that still carries a verdict can be rechecked, fetched
  and written again between reconcile's listing and its reset; the reset is guarded
  by id, status and verdict only and clears the new verdict above its marker.
  `VerdictFollowsMarker` excludes it (`seen`).
* Two workers that write one stem can remove each other's sidecars; a transient
  read error is recorded as an unreadable file until the file changes; the
  enqueuer marks a scan result of a cached track done without looking for a
  sidecar; a backfill that read a sidecar before the worker replaced it restores
  the old text; reconcile checks and removes a marker in two steps.
* The login limiter counts database errors as failures; revoking a key again
  changes the date of its revocation. The detector's baseline is per process, so
  after a restart a partial answer may pass until a class has been reported once.

## 4. Proofs

Every invariant and every action property that a passing run checks is also a
theorem, for every value of the constants that satisfies the named assumptions.
The assumptions type the constants, keep the special values apart from the real
ones (no row id is a file, no provider is called "unset", no key is the blank
file), make sets finite that are finite in the code (configured lanes, connected
clients, paths) and bounds positive that the code's clamps keep positive. TLC
evaluates all of them on the runs.

Each theorem has the same shape: an inductive invariant that implies it, a lemma
that it holds at the start, one lemma per action or group of actions, and a last
step by propositional temporal logic.

* `WorkQueue_proofs`: `QueueInv` is the conjunction of the type invariant,
  `StatusShape`, `DeferredBehindScan`, `LinksResolve` and what they need to be
  inductive; one lemma per operation. `QueueDestined` adds that every row has a
  destination: of the operations that remove one, `cancelByLibrary` deletes the row
  it would leave with none.
* `Pipeline_proofs`: `PipelineInv` joins the types, `ClaimOwned`, `MissBudget`,
  and a description of what each program counter implies: a worker past the write
  loop has written every destination of its snapshot, and by `ClaimOwned` these
  are the destinations of the row. From it follow `ClaimsOwned`,
  `MissBudgetKept` and the action property `LyricsBeforeDone`. The miss budget
  needs that a claimed row still has budget, which recheck preserves because it
  leaves the miss count alone. `PipelineUsesQueue` shows that the pipeline's
  steps are queue steps, so what is proved of the queue alone holds in it too.
  The last part is the refinement of `TrackJob`, step by step, from
  `PipelineInv`: without exclusive claims a settlement would be a step of a
  holder that does not hold. `RunOnceProgress` and `PassProgress` rank the
  statements of a worker's item (`ItemRank`) and of a scan pass (`PassRank`); a step
  goes down in rank or, at the same rank, takes a destination or a listed result
  off a set that nothing adds to.
* `Dispatch_proofs`: `BreakersOK` is inductive by itself and gives `RampHeld`; it
  needs the window to be positive, which is `GeometricBounded`. `DispatchInv` says
  of a dispatch under way what its cursor knows of the answers (`Knows`: the best
  song so far is the best of the consulted lanes, the top error the gravest of
  theirs). In the race, `pending` counts the lanes still busy and the answers in
  the channel, so that at zero every lane was consulted, open or canceled
  (`RaceOK`); in the ordered loop the lanes before the position are dealt with and
  those behind it were not called (`LoopOK`). What was returned stays right while
  losers still answer, because the answers it rests on are final (`ReturnOK`).
  `StuckTheorem` needs more (`ProgressInv`): the answers in a channel and the lanes
  still busy are together no more than the lanes, also after the race is over
  (`RoomLeft`); a race that collects has started every lane and has answers
  outstanding (`RaceAhead`); the ordered loop has called the lane it waits for, and
  once that lane is done its answer is in the channel (`LoopAhead`). `DispatchProgress` ranks the cursor (`LoopRank`) and a
  lane's call (`CallRank`).
* `Sidecars_proofs`: `DoneHasSidecar` needs that rows do not share destinations
  (`PathsOK`) and that the worker owns its row, whose destinations are still to do,
  at hand or written (`WriterOK`): whatever settles the row half way must not call
  it written. `VerdictFollowsMarker` needs that a done row that is still the listed
  one gets no marker, and that reconcile is past the removal of all it found when it
  resets the row (`ReconcileOK`). `SkipsOnlyFailed` has an invariant of its own
  (`SkipInv`): the identity a walk is about to record is of a version whose read
  failed, or of one that is gone. `ScanKeepsSidecars` is an action property: the
  walk's link fails on a name that exists.
* `Settings_proofs`: `StartupInv` says that whoever sealed a secret used the key
  that is in the file, that the only process about to write the key found none and
  is alone, and that a process keeps a certificate only with its own key
  (`OneMasterKey`, `WholeFiles`). `SettingsInv` says that a save past the mutex
  holds it, that the document it is about to change is still the file, that the file
  with its change on top passes the checks under the environment, and that an
  acknowledged token left no copy in the file (`SelectionBoots`, `TokenServed`).
* `Serve_proofs`: `AdminInv` (at most one account; a request past the insert is its
  owner's) gives `AdminStays`. For `LockoutHeld`, `LimiterInv` relates the failures
  of an address to the requests behind it that passed `allow` and have not been
  settled, so that concurrent logins cannot exceed the limit by more than
  themselves, and bounds the map and every lockout.
  `SlotsApart` is not inductive, since a cancel rolls `lastRequest` back;
  `Rollback` says that a sleeper's own slot is all that lies between what it rolls
  back to and the next slot. `BaselineInv`: the baseline is exactly what was
  reported. `HookInv`: the inputs of an event are those of its titles in order, and
  the first of them have their rows or lost them to a Delete since. `FetchInv`: an
  input is in one place and in it once, so that lengths and cardinalities add up.
  `PacedRetries` rests on `CapTurn`: capping before a doubling or after it is the
  same. `SetterKeeps` makes every duration in force positive, wrapped or not;
  `DurationExact` says that a product below half the word is the product, and
  `Honours` carries the clamps' bounds over to durations there. `ServeTypes` follows
  from the types of the parts.
* `Watcher_proofs`: `NoLostEvent` with the types, and that an entry which has not
  been scanned is armed or has its token on the way; the same invariant under the
  steps of `ScanService`. `ShutdownDrains` counts what the timers of a directory
  still have to do (`Left`: two steps for an orphan, one for a waiting goroutine),
  which only goes down once dispatch has returned, since it alone arms timers.
  `ChangesAhead` ranks the scheduler's loop seen from one directory (`Stage`): the
  rest of a pass that has been to its library, the wait, the listing, the pass that
  still has to go there; only a scan of the library leaves the last stage otherwise
  than by the end of the loop. `RootsInv` says that the
  watched roots are those `dedupeRoots` keeps; `RootKept` and `RootsApart`, that
  every library lies under a kept root (the shortest one that contains it) and no
  path under two. `WatchedOnce` then follows from the sum that `countDirs` makes.
* `Backoff_proofs`: `LeastNatural` (a set of naturals has a least member, from the
  library's well-founded order), and what it gives of the doubling loop. The
  provers cannot instantiate an induction scheme; a property of all turns of a loop
  is proved instead by looking at the least turn where it fails, and the existence
  of a recursive function by the least domain on which there is none. The sum over
  the watch roots is treated in the same way.

Only model-checked: the liveness properties as they stand, since the prover has
neither fairness nor ENABLED, and the five disagreements, which are
counterexamples. Of the liveness properties, the part that an implementation can
get wrong is proved: that no step goes backwards (`RunOnceProgress` for
`ClaimEnds`, `PassProgress` for `ScanEnds`, `DispatchProgress` for `DispatchEnds`
and `NoGoroutineLeak`, `ShutdownDrains` for `ShutdownEnds`, `NoLostEvent` and
`ChangesAhead` for `ChangesScanned`) and, for the dispatch, that nobody waits in
vain (`StuckTheorem`). What TLC adds on the small instances is that a step is
enabled and, being fair, is taken.

## 5. Not modelled, and the plan

`components` lists every part. Pages, reports, metrics and logging are
formatting; cryptography, Unicode tables, HTML scraping and floating-point
thresholds are out of reach and appear as free choices; migrations run once, and
the schema they leave is the state of `WorkQueue`. Trusted networks and key
normalization are sequential functions of strings with tests of their own. Of the
parts marked partly, the rest is reading, printing and formatting, or fields that
no check relates to another.

What is left: an abstract specification of a dispatch that `Dispatch` refines, and
more of the fields of the settings page.
