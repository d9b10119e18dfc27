------------------------------- MODULE Watcher -------------------------------
(***************************************************************************)
(* The filesystem watcher: notify's channel, the translate goroutine, the  *)
(* dispatch loop with one debounce timer per directory, the goroutines the *)
(* expired timers start, and shutdown.  A timer whose entry was deleted    *)
(* while it was armed cannot be stopped any more: it is counted apart, as  *)
(* an orphan.                                                              *)
(***************************************************************************)
EXTENDS Integers, Sequences, SequencesExt

CONSTANTS
    Dir,          \* directories inside a watched library
    Outside,      \* an event path that no library contains
    None,
    eventBuffer,  \* capacity of the raw and of the fired channel
    MaxEvents     \* filesystem events looked at

ASSUME WatcherAssumption ==
    /\ Outside \notin Dir /\ None \notin Dir
    /\ {"select", "exited"} \cap Dir = {}
    /\ eventBuffer \in Nat \ {0} /\ MaxEvents \in Nat

VARIABLES
    raw,       \* c: what notify has delivered
    held,      \* translate: None, the directory it is sending, or "exited"
    timers,    \* directory -> its entry: "absent", "armed" or "spent"
    orphans,   \* directory -> armed timers whose entry is gone
    sending,   \* directory -> timer goroutines waiting to send on fired
    fired,     \* the fired channel
    loop,      \* dispatch: "select", the directory it scans, or "exited"
    canceled,  \* ctx
    events,    \* events so far
    dirty      \* directory -> an accepted event has not been scanned since

vars == <<raw, held, timers, orphans, sending, fired, loop, canceled, events, dirty>>

Init ==
    /\ raw = <<>> /\ fired = <<>>
    /\ held = None /\ loop = "select" /\ canceled = FALSE
    /\ timers = [d \in Dir |-> "absent"]
    /\ orphans = [d \in Dir |-> 0] /\ sending = [d \in Dir |-> 0]
    /\ events = 0 /\ dirty = [d \in Dir |-> FALSE]

\* notify delivers an event, or drops it when the channel is full.
Notify(d) ==
    /\ events < MaxEvents /\ ~canceled
    /\ events' = events + 1
    /\ IF Len(raw) < eventBuffer
       THEN /\ raw' = Append(raw, d)
            /\ dirty' = IF d \in Dir THEN [dirty EXCEPT ![d] = TRUE] ELSE dirty
       ELSE UNCHANGED <<raw, dirty>>
    /\ UNCHANGED <<held, timers, orphans, sending, fired, loop, canceled>>

\* translate receives a raw event; one outside every library is skipped.
Translate ==
    /\ held = None /\ raw # <<>>
    /\ raw' = Tail(raw)
    /\ held' = IF Head(raw) \in Dir THEN Head(raw) ELSE None
    /\ UNCHANGED <<timers, orphans, sending, fired, loop, canceled, events, dirty>>

\* Faulty: an entry's timer is stopped and not reset.
TakeEventStops ==
    /\ loop = "select" /\ held \in Dir
    /\ timers' = [timers EXCEPT ![held] = IF @ = "absent" THEN "armed" ELSE "spent"]
    /\ held' = None
    /\ UNCHANGED <<raw, orphans, sending, fired, loop, canceled, events, dirty>>

\* dispatch receives what translate sends: an entry's timer is stopped and
\* reset, a directory without an entry gets one with a new timer.
TakeEvent ==
    /\ loop = "select" /\ held \in Dir
    /\ timers' = [timers EXCEPT ![held] = "armed"]
    /\ held' = None
    /\ UNCHANGED <<raw, orphans, sending, fired, loop, canceled, events, dirty>>

\* A debounce window ends: the timer starts its goroutine.
Expire(d) ==
    /\ timers[d] = "armed"
    /\ timers' = [timers EXCEPT ![d] = "spent"]
    /\ sending' = [sending EXCEPT ![d] = @ + 1]
    /\ UNCHANGED <<raw, held, orphans, fired, loop, canceled, events, dirty>>

ExpireOrphan(d) ==
    /\ orphans[d] > 0
    /\ orphans' = [orphans EXCEPT ![d] = @ - 1]
    /\ sending' = [sending EXCEPT ![d] = @ + 1]
    /\ UNCHANGED <<raw, held, timers, fired, loop, canceled, events, dirty>>

Send(d) ==
    /\ sending[d] > 0 /\ Len(fired) < eventBuffer
    /\ sending' = [sending EXCEPT ![d] = @ - 1]
    /\ fired' = Append(fired, d)
    /\ UNCHANGED <<raw, held, timers, orphans, loop, canceled, events, dirty>>

\* dispatch receives a fired directory: the scan runs in the loop itself.
TakeFired ==
    /\ loop = "select" /\ fired # <<>>
    /\ fired' = Tail(fired)
    /\ LET d == Head(fired)
       IN  IF timers[d] = "absent"
           THEN UNCHANGED <<timers, orphans, loop, dirty>>
           ELSE /\ timers' = [timers EXCEPT ![d] = "absent"]
                /\ orphans' = IF timers[d] = "armed"
                              THEN [orphans EXCEPT ![d] = @ + 1] ELSE orphans
                /\ loop' = d
                /\ dirty' = [dirty EXCEPT ![d] = FALSE]
    /\ UNCHANGED <<raw, held, sending, canceled, events>>

\* The scan returns; its error is only logged.
ScanDone ==
    /\ loop \in Dir
    /\ loop' = "select"
    /\ UNCHANGED <<raw, held, timers, orphans, sending, fired, canceled, events, dirty>>

Shutdown ==
    /\ ~canceled
    /\ canceled' = TRUE
    /\ UNCHANGED <<raw, held, timers, orphans, sending, fired, loop, events, dirty>>

\* dispatch sees ctx.Done and stops the timers of its entries.
DispatchExits ==
    /\ canceled /\ loop = "select"
    /\ loop' = "exited"
    /\ timers' = [d \in Dir |-> IF timers[d] = "armed" THEN "spent" ELSE timers[d]]
    /\ UNCHANGED <<raw, held, orphans, sending, fired, canceled, events, dirty>>

TranslateExits ==
    /\ canceled /\ held # "exited"
    /\ held' = "exited"
    /\ UNCHANGED <<raw, timers, orphans, sending, fired, loop, canceled, events, dirty>>

\* Faulty: the timer goroutine sends without a select on ctx.Done.
SenderNeverExits(d) == FALSE /\ UNCHANGED vars

\* A timer goroutine blocked on fired sees ctx.Done.
SenderExits(d) ==
    /\ canceled /\ sending[d] > 0
    /\ sending' = [sending EXCEPT ![d] = @ - 1]
    /\ UNCHANGED <<raw, held, timers, orphans, fired, loop, canceled, events, dirty>>

Next ==
    \/ \E d \in Dir \cup {Outside} : Notify(d)
    \/ Translate \/ TakeEvent \/ TakeFired \/ ScanDone
    \/ \E d \in Dir : Expire(d) \/ ExpireOrphan(d) \/ Send(d) \/ SenderExits(d)
    \/ Shutdown \/ DispatchExits \/ TranslateExits

Spec == Init /\ [][Next]_vars

\* Go's select takes a ready case at random, so a case that is ready again
\* and again is taken in the end; timers expire and goroutines run.
Fairness ==
    /\ WF_vars(Translate) /\ WF_vars(ScanDone)
    /\ SF_vars(TakeEvent) /\ SF_vars(TakeFired)
    /\ SF_vars(DispatchExits) /\ WF_vars(TranslateExits)
    /\ \A d \in Dir : /\ WF_vars(Expire(d)) /\ WF_vars(ExpireOrphan(d))
                      /\ SF_vars(Send(d)) /\ WF_vars(SenderExits(d))

FairSpec == Spec /\ Fairness

-----------------------------------------------------------------------------
\* Type invariant of the watcher.
TypeOK ==
    /\ raw \in Seq(Dir \cup {Outside}) /\ Len(raw) <= eventBuffer
    /\ fired \in Seq(Dir) /\ Len(fired) <= eventBuffer
    /\ held \in Dir \cup {None, "exited"} /\ loop \in Dir \cup {"select", "exited"}
    /\ timers \in [Dir -> {"absent", "armed", "spent"}]
    /\ orphans \in [Dir -> Nat] /\ sending \in [Dir -> Nat]
    /\ canceled \in BOOLEAN /\ events \in 0 .. MaxEvents /\ dirty \in [Dir -> BOOLEAN]

\* Until shutdown no accepted event is lost between the channels, the timers
\* and the loop: it is still on its way, or its directory has an entry, and an
\* entry whose timer has expired has a token on its way to the loop.
NoLostEvent == ~canceled =>
    \A d \in Dir :
      /\ dirty[d] => d \in ToSet(raw) \/ held = d \/ timers[d] # "absent"
      /\ timers[d] = "spent" => sending[d] > 0 \/ d \in ToSet(fired)

=============================================================================
