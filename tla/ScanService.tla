----------------------------- MODULE ScanService -----------------------------
(***************************************************************************)
(* The two loops of serve that scan libraries: the watcher (Watcher), fast *)
(* but best effort, and the periodic scheduler (Scheduler.Run in           *)
(* internal/scan/scheduler.go), its backstop. A file that changed is stale *)
(* until a scan of its directory has read it; the two loops run side by    *)
(* side and neither knows what the other has seen.                         *)
(***************************************************************************)
EXTENDS Watcher

CONSTANTS
    Library,
    LibraryOf    \* directory -> the library it lies in

ASSUME ScanServiceAssumption == LibraryOf \in [Dir -> Library]

VARIABLES
    sched,  \* Scheduler.Run: where it is, the libraries left of this pass, and
            \* whether Interval is positive
    stale   \* directory -> it changed and no scan has read it since

serviceVars == <<vars, sched, stale>>

ServiceInit ==
    /\ Init
    /\ sched \in [pc : {"list"}, todo : {{}}, repeat : BOOLEAN]
    /\ stale = [d \in Dir |-> FALSE]

-----------------------------------------------------------------------------
(* The file system and the watcher                                         *)

\* A change that notify reports, if its channel has room.
Reported(d) ==
    /\ Notify(d)
    /\ stale' = IF d \in Dir THEN [stale EXCEPT ![d] = TRUE] ELSE stale
    /\ UNCHANGED sched

\* A change on a file system that delivers no events.
Unreported(d) ==
    /\ events < MaxEvents /\ ~canceled
    /\ events' = events + 1
    /\ stale' = [stale EXCEPT ![d] = TRUE]
    /\ UNCHANGED <<raw, held, timers, orphans, sending, fired, loop, canceled, dirty, sched>>

\* RunOnceForPath on the fired directory; an error is only logged.
WatcherScans ==
    /\ TakeFired
    /\ \/ UNCHANGED stale
       \/ loop' \in Dir /\ stale' = [stale EXCEPT ![loop'] = FALSE]
    /\ UNCHANGED sched

WatcherStep ==
    /\ \/ Translate \/ TakeEvent \/ ScanDone
       \/ \E d \in Dir : Expire(d) \/ ExpireOrphan(d) \/ Send(d) \/ SenderExits(d)
       \/ Shutdown \/ DispatchExits \/ TranslateExits
    /\ UNCHANGED <<sched, stale>>

-----------------------------------------------------------------------------
(* The scheduler                                                           *)

\* RunOnce lists the libraries; a failing query ends the loop.
ListLibraries ==
    /\ sched.pc = "list" /\ ~canceled
    /\ \/ sched' = [sched EXCEPT !.pc = "pass", !.todo = Library]
       \/ sched' = [sched EXCEPT !.pc = "ended"]
    /\ UNCHANGED <<vars, stale>>

\* scanAndPersist: a directory that cannot be read (renamed during the walk,
\* unmounted), a failing Upsert or a failing callback ends the loop.
ScanLibrary(l) ==
    /\ sched.pc = "pass" /\ l \in sched.todo /\ ~canceled
    /\ \/ /\ sched' = [sched EXCEPT !.todo = @ \ {l}]
          /\ stale' = [d \in Dir |-> LibraryOf[d] # l /\ stale[d]]
       \/ sched' = [sched EXCEPT !.pc = "ended"] /\ UNCHANGED stale
    /\ UNCHANGED vars

\* Faulty: a timer that is not set again in the place of the ticker.
PassDoneForGood ==
    /\ sched.pc = "pass" /\ sched.todo = {}
    /\ sched' = [sched EXCEPT !.pc = IF sched.repeat THEN "idle" ELSE "ended"]
    /\ UNCHANGED <<vars, stale>>

\* The pass is over; with no interval that was all.
PassDone ==
    /\ sched.pc = "pass" /\ sched.todo = {}
    /\ sched' = [sched EXCEPT !.pc = IF sched.repeat THEN "wait" ELSE "ended"]
    /\ UNCHANGED <<vars, stale>>

TickerFires ==
    /\ sched.pc = "wait"
    /\ sched' = [sched EXCEPT !.pc = "list"]
    /\ UNCHANGED <<vars, stale>>

\* The canceled context is seen before the listing, before a library and by
\* the select.
SchedulerCanceled ==
    /\ canceled /\ sched.pc \in {"list", "pass", "wait"}
    /\ sched' = [sched EXCEPT !.pc = "ended"]
    /\ UNCHANGED <<vars, stale>>

SchedulerStep ==
    \/ ListLibraries \/ PassDone \/ TickerFires \/ SchedulerCanceled
    \/ \E l \in Library : ScanLibrary(l)

ServiceNext ==
    \/ \E d \in Dir \cup {Outside} : Reported(d)
    \/ \E d \in Dir : Unreported(d)
    \/ WatcherScans \/ WatcherStep \/ SchedulerStep

\* The fairness of Watcher, and the scheduler's goroutine runs.
ServiceSpec ==
    /\ ServiceInit /\ [][ServiceNext]_serviceVars
    /\ Fairness /\ WF_serviceVars(SchedulerStep)

-----------------------------------------------------------------------------
\* Every accepted event is followed by a scan of its directory unless the
\* service is shut down; and a change is read by a scan even if its event was
\* dropped, never delivered, or its scan failed, as long as the scheduler's
\* loop lives.
ChangesScanned ==
    \A d \in Dir :
        /\ []<>(~dirty[d] \/ canceled)
        /\ []<>(~stale[d] \/ canceled \/ sched.pc = "ended")

\* After shutdown the scheduler, the dispatch loop, the translator and every
\* timer goroutine end, the orphaned timers' included.
ShutdownEnds ==
    []<>(canceled => /\ loop = "exited" /\ held = "exited" /\ sched.pc = "ended"
                     /\ \A d \in Dir : sending[d] = 0 /\ orphans[d] = 0)

\* What runWatcher relies on: whatever becomes of the watcher, "the scheduler
\* keeps reconciling", so with a positive interval every change is read.
Reconciled ==
    \A d \in Dir : []<>(~stale[d] \/ canceled \/ ~sched.repeat)

=============================================================================
