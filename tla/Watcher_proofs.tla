--------------------------- MODULE Watcher_proofs ---------------------------
(***************************************************************************)
(* Proofs about the filesystem watcher: no accepted event is lost before   *)
(* shutdown, for any set of directories and any capacity of the channels,  *)
(* with the periodic scheduler beside it or not (Watcher, ScanService);    *)
(* shutdown and the passes of the scheduler only move on; and the roots it *)
(* chooses cover every library once (WatchRoots).                          *)
(***************************************************************************)
EXTENDS ScanService, WatchRoots, Backoff_proofs, SequenceTheorems,
        FiniteSetTheorems

-----------------------------------------------------------------------------
(* The channels                                                            *)

IInv == TypeOK /\ NoLostEvent

-----------------------------------------------------------------------------
\* A send on a channel adds its element to what the channel holds.
LEMMA ToSetAppend ==
    ASSUME NEW S, NEW q \in Seq(S), NEW e \in S
    PROVE  /\ Append(q, e) \in Seq(S) /\ Len(Append(q, e)) = Len(q) + 1
           /\ ToSet(q) \subseteq ToSet(Append(q, e))
           /\ e \in ToSet(Append(q, e))
<1>1. /\ Append(q, e) \in Seq(S) /\ Len(Append(q, e)) = Len(q) + 1
      /\ \A i \in 1 .. Len(q) : Append(q, e)[i] = q[i]
      /\ Append(q, e)[Len(q) + 1] = e
  BY AppendProperties
<1>2. /\ Len(q) \in Nat /\ DOMAIN q = 1 .. Len(q)
      /\ DOMAIN Append(q, e) = 1 .. Len(q) + 1
  BY <1>1, LenProperties
<1> QED  BY <1>1, <1>2 DEF ToSet

\* A receive takes the head and leaves every other element in the channel.
LEMMA ToSetTail ==
    ASSUME NEW S, NEW q \in Seq(S), q # <<>>
    PROVE  /\ Head(q) \in S /\ Tail(q) \in Seq(S) /\ Len(Tail(q)) = Len(q) - 1
           /\ \A e \in ToSet(q) : e = Head(q) \/ e \in ToSet(Tail(q))
<1>1. /\ Head(q) \in S /\ Tail(q) \in Seq(S) /\ Len(Tail(q)) = Len(q) - 1
      /\ \A i \in 1 .. Len(Tail(q)) : Tail(q)[i] = q[i + 1]
      /\ Head(q) = q[1]
  BY HeadTailProperties
<1>2. /\ Len(q) \in Nat /\ DOMAIN q = 1 .. Len(q)
      /\ DOMAIN Tail(q) = 1 .. Len(q) - 1
  BY <1>1, LenProperties
<1>3. ASSUME NEW i \in 1 .. Len(q), i # 1
      PROVE  i - 1 \in DOMAIN Tail(q) /\ q[i] = Tail(q)[i - 1]
  <2>1. i \in Int /\ i - 1 \in 1 .. Len(q) - 1 /\ (i - 1) + 1 = i
    BY <1>2, <1>3
  <2>2. Tail(q)[i - 1] = q[(i - 1) + 1]
    BY <1>1, <2>1
  <2> QED  BY <1>2, <2>1, <2>2
<1>4. ASSUME NEW e \in ToSet(q)
      PROVE  e = Head(q) \/ e \in ToSet(Tail(q))
  <2>1. PICK i \in 1 .. Len(q) : e = q[i]
    BY <1>2 DEF ToSet
  <2>2. CASE i = 1
    BY <1>1, <2>1, <2>2
  <2>3. CASE i # 1
    <3>1. i - 1 \in DOMAIN Tail(q) /\ e = Tail(q)[i - 1]
      BY <1>3, <2>1, <2>3
    <3> QED  BY <3>1 DEF ToSet
  <2> QED  BY <2>2, <2>3
<1> QED  BY <1>1, <1>4

-----------------------------------------------------------------------------
\* notify's step: an accepted event is in the raw channel.
LEMMA NotifyStep ==
    ASSUME IInv, NEW e \in Dir \cup {Outside}, Notify(e)
    PROVE  IInv'
<1>1. CASE Len(raw) < eventBuffer
  <2>1. /\ raw' = Append(raw, e)
        /\ dirty' = IF e \in Dir THEN [dirty EXCEPT ![e] = TRUE] ELSE dirty
    BY <1>1 DEF Notify
  <2>2. /\ raw' \in Seq(Dir \cup {Outside}) /\ Len(raw') = Len(raw) + 1
        /\ ToSet(raw) \subseteq ToSet(raw') /\ e \in ToSet(raw')
    BY <2>1, ToSetAppend DEF IInv, TypeOK
  <2>3. TypeOK'
    BY <1>1, <2>1, <2>2, WatcherAssumption, LenProperties DEF IInv, TypeOK, Notify
  <2>4. NoLostEvent'
    BY <2>1, <2>2 DEF IInv, TypeOK, NoLostEvent, Notify
  <2> QED  BY <2>3, <2>4 DEF IInv
<1>2. CASE ~(Len(raw) < eventBuffer)
  <2>1. raw' = raw /\ dirty' = dirty
    BY <1>2 DEF Notify
  <2>2. TypeOK'
    BY <2>1, WatcherAssumption DEF IInv, TypeOK, Notify
  <2>3. NoLostEvent'
    BY <2>1 DEF IInv, NoLostEvent, Notify
  <2> QED  BY <2>2, <2>3 DEF IInv
<1> QED  BY <1>1, <1>2

\* translate's step: the event moves from the channel to translate's hands.
LEMMA TranslateStep ==
    ASSUME IInv, Translate
    PROVE  IInv'
<1>1. /\ Head(raw) \in Dir \cup {Outside} /\ raw' \in Seq(Dir \cup {Outside})
      /\ Len(raw') = Len(raw) - 1 /\ Len(raw) \in Nat
      /\ \A e \in ToSet(raw) : e = Head(raw) \/ e \in ToSet(raw')
  BY ToSetTail, LenProperties DEF IInv, TypeOK, Translate
<1>2. TypeOK'
  BY <1>1, WatcherAssumption DEF IInv, TypeOK, Translate
<1>3. NoLostEvent'
  BY <1>1, WatcherAssumption DEF IInv, NoLostEvent, Translate
<1> QED  BY <1>2, <1>3 DEF IInv

\* The loop takes an event: its directory now has an armed entry.
LEMMA TakeEventStep ==
    ASSUME IInv, TakeEvent
    PROVE  IInv'
<1>1. TypeOK'
  BY DEF IInv, TypeOK, TakeEvent
<1>2. NoLostEvent'
  BY DEF IInv, TypeOK, NoLostEvent, TakeEvent
<1> QED  BY <1>1, <1>2 DEF IInv

\* The timers' steps: an expiry leaves a goroutine, the goroutine a token.
LEMMA TimerStep ==
    ASSUME IInv, NEW e \in Dir, Expire(e) \/ ExpireOrphan(e) \/ Send(e)
    PROVE  IInv'
<1>4. /\ timers \in [Dir -> {"absent", "armed", "spent"}]
      /\ orphans \in [Dir -> Nat] /\ sending \in [Dir -> Nat] /\ fired \in Seq(Dir)
  BY DEF IInv, TypeOK
<1>1. CASE Expire(e)
  <2>1. /\ timers' \in [Dir -> {"absent", "armed", "spent"}] /\ sending' \in [Dir -> Nat]
        /\ \A d \in Dir : /\ timers'[d] = IF d = e THEN "spent" ELSE timers[d]
                          /\ sending'[d] = IF d = e THEN sending[d] + 1 ELSE sending[d]
    BY <1>1, <1>4 DEF Expire
  <2>2. UNCHANGED <<raw, held, orphans, fired, loop, canceled, events, dirty>> /\ timers[e] = "armed"
    BY <1>1 DEF Expire
  <2>3. TypeOK'
    BY <2>1, <2>2 DEF IInv, TypeOK
  <2>4. NoLostEvent'
    <3>1. ASSUME ~canceled, NEW d \in Dir
          PROVE  /\ dirty[d] => d \in ToSet(raw) \/ held = d \/ timers[d] # "absent"
                 /\ timers[d] = "spent" => sending[d] > 0 \/ d \in ToSet(fired)
      BY <3>1, Zenon DEF IInv, NoLostEvent
    <3>2. ASSUME NEW d \in Dir PROVE sending[d] \in Nat /\ sending[d] + 1 > 0
      BY <1>4
    <3> QED  BY <2>1, <2>2, <3>1, <3>2 DEF NoLostEvent
  <2> QED  BY <2>3, <2>4 DEF IInv
<1>2. CASE ExpireOrphan(e)
  <2>1. /\ orphans' \in [Dir -> Nat] /\ sending' \in [Dir -> Nat]
        /\ \A d \in Dir : sending'[d] = IF d = e THEN sending[d] + 1 ELSE sending[d]
    BY <1>2, <1>4 DEF ExpireOrphan
  <2>2. UNCHANGED <<raw, held, timers, fired, loop, canceled, events, dirty>>
    BY <1>2 DEF ExpireOrphan
  <2>3. TypeOK'
    BY <2>1, <2>2 DEF IInv, TypeOK
  <2>4. NoLostEvent'
    <3>1. ASSUME ~canceled, NEW d \in Dir
          PROVE  /\ dirty[d] => d \in ToSet(raw) \/ held = d \/ timers[d] # "absent"
                 /\ timers[d] = "spent" => sending[d] > 0 \/ d \in ToSet(fired)
      BY <3>1, Zenon DEF IInv, NoLostEvent
    <3>2. ASSUME NEW d \in Dir PROVE sending[d] \in Nat /\ sending[d] + 1 > 0
      BY <1>4
    <3> QED  BY <2>1, <2>2, <3>1, <3>2 DEF NoLostEvent
  <2> QED  BY <2>3, <2>4 DEF IInv
<1>3. CASE Send(e)
  <2>1. /\ fired' \in Seq(Dir) /\ Len(fired') = Len(fired) + 1
        /\ ToSet(fired) \subseteq ToSet(fired') /\ e \in ToSet(fired')
    BY <1>3, <1>4, ToSetAppend DEF Send
  <2>2. /\ sending' \in [Dir -> Nat]
        /\ \A d \in Dir : sending'[d] = IF d = e THEN sending[d] - 1 ELSE sending[d]
    BY <1>3, <1>4 DEF Send
  <2>3. /\ UNCHANGED <<raw, held, timers, orphans, loop, canceled, events, dirty>>
        /\ Len(fired) < eventBuffer
    BY <1>3 DEF Send
  <2>4. Len(fired') <= eventBuffer
    BY <1>4, <2>1, <2>3, WatcherAssumption, LenProperties
  <2>5. TypeOK'
    BY <2>1, <2>2, <2>3, <2>4 DEF IInv, TypeOK
  <2>6. NoLostEvent'
    BY <1>4, <2>1, <2>2, <2>3 DEF IInv, NoLostEvent
  <2> QED  BY <2>5, <2>6 DEF IInv
<1> QED  BY <1>1, <1>2, <1>3

\* The loop takes a token: its directory is scanned or has no entry at all.
LEMMA TakeFiredStep ==
    ASSUME IInv, TakeFired
    PROVE  IInv'
<1>1. /\ Head(fired) \in Dir /\ fired' \in Seq(Dir)
      /\ Len(fired') = Len(fired) - 1 /\ Len(fired) \in Nat
      /\ \A e \in ToSet(fired) : e = Head(fired) \/ e \in ToSet(fired')
  BY ToSetTail, LenProperties DEF IInv, TypeOK, TakeFired
<1>2. TypeOK'
  <2>1. CASE timers[Head(fired)] = "absent"
    BY <1>1, <2>1, WatcherAssumption DEF IInv, TypeOK, TakeFired
  <2>2. CASE timers[Head(fired)] # "absent"
    <3> DEFINE d == Head(fired)
    <3>1. /\ timers' = [timers EXCEPT ![d] = "absent"] /\ loop' = d
          /\ orphans' = IF timers[d] = "armed"
                        THEN [orphans EXCEPT ![d] = @ + 1] ELSE orphans
          /\ dirty' = [dirty EXCEPT ![d] = FALSE]
      BY <2>2 DEF TakeFired
    <3>2. orphans' \in [Dir -> Nat]
      <4>1. orphans \in [Dir -> Nat] /\ d \in Dir
        BY <1>1 DEF IInv, TypeOK
      <4>2. orphans[d] + 1 \in Nat
        BY <4>1
      <4>3. [orphans EXCEPT ![d] = @ + 1] \in [Dir -> Nat]
        BY <4>1, <4>2
      <4> HIDE DEF d
      <4> QED  BY <3>1, <4>1, <4>3
    <3>3. /\ timers' \in [Dir -> {"absent", "armed", "spent"}]
          /\ dirty' \in [Dir -> BOOLEAN] /\ loop' \in Dir
      BY <1>1, <3>1 DEF IInv, TypeOK
    <3>4. Len(fired') <= eventBuffer
      BY <1>1, WatcherAssumption DEF IInv, TypeOK
    <3> QED  BY <1>1, <3>2, <3>3, <3>4 DEF IInv, TypeOK, TakeFired
  <2> QED  BY <2>1, <2>2
<1>3. NoLostEvent'
  <2>1. CASE timers[Head(fired)] = "absent"
    BY <1>1, <2>1 DEF IInv, NoLostEvent, TakeFired
  <2>2. CASE timers[Head(fired)] # "absent"
    BY <1>1, <2>2 DEF IInv, TypeOK, NoLostEvent, TakeFired
  <2> QED  BY <2>1, <2>2
<1> QED  BY <1>2, <1>3 DEF IInv

\* What ends a scan, or happens once ctx is canceled.
LEMMA OtherSteps ==
    ASSUME IInv,
           \/ ScanDone \/ Shutdown \/ DispatchExits \/ TranslateExits
           \/ \E d \in Dir : SenderExits(d)
           \/ UNCHANGED vars
    PROVE  IInv'
<1>1. CASE ScanDone
  BY <1>1 DEF IInv, TypeOK, NoLostEvent, ScanDone
<1>2. CASE Shutdown
  BY <1>2 DEF IInv, TypeOK, NoLostEvent, Shutdown
<1>3. CASE DispatchExits
  BY <1>3 DEF IInv, TypeOK, NoLostEvent, DispatchExits
<1>4. CASE TranslateExits
  BY <1>4 DEF IInv, TypeOK, NoLostEvent, TranslateExits
<1>5. CASE \E d \in Dir : SenderExits(d)
  <2>1. PICK d \in Dir : SenderExits(d)
    BY <1>5
  <2>2. sending' \in [Dir -> Nat]
    BY <2>1 DEF IInv, TypeOK, SenderExits
  <2>3. TypeOK'
    BY <2>1, <2>2 DEF IInv, TypeOK, SenderExits
  <2>4. canceled'
    BY <2>1 DEF SenderExits
  <2> QED  BY <2>3, <2>4 DEF IInv, NoLostEvent
<1>6. CASE UNCHANGED vars
  BY <1>6 DEF IInv, TypeOK, NoLostEvent, vars
<1> QED  BY <1>1, <1>2, <1>3, <1>4, <1>5, <1>6

-----------------------------------------------------------------------------
\* Before the first event the channels are empty and nothing is due.
LEMMA WatcherStarts == Init => IInv
<1> SUFFICES ASSUME Init PROVE IInv
  OBVIOUS
<1>1. TypeOK
  <2>1. Len(raw) = 0 /\ Len(fired) = 0 /\ raw = <<>> /\ fired = <<>>
    BY DEF Init
  <2>2. raw \in Seq(Dir \cup {Outside}) /\ fired \in Seq(Dir)
    BY <2>1
  <2>3. 0 <= eventBuffer /\ 0 \in 0 .. MaxEvents
    BY WatcherAssumption
  <2>4. dirty \in [Dir -> BOOLEAN] /\ canceled \in BOOLEAN
    BY DEF Init
  <2> QED  BY <2>1, <2>2, <2>3, <2>4 DEF Init, TypeOK
<1>2. NoLostEvent
  BY DEF Init, NoLostEvent
<1> QED  BY <1>1, <1>2 DEF IInv

\* Every step of the watcher keeps the invariant.
LEMMA WatcherKeeps == IInv /\ [Next]_vars => IInv'
  BY NotifyStep, TranslateStep, TakeEventStep, TimerStep, TakeFiredStep, OtherSteps DEF Next

\* The watcher's inductive invariant holds whatever order events, timers and
\* scans come in.
THEOREM WatcherInvariant == Spec => []IInv
  BY WatcherStarts, WatcherKeeps, PTL DEF Spec

\* No accepted filesystem event is lost between the channels, the debounce
\* timers and the dispatch loop before shutdown.
THEOREM WatcherKeepsEvents == Spec => []NoLostEvent
BY WatcherInvariant, PTL DEF IInv

-----------------------------------------------------------------------------
(* The watcher beside the scheduler                                        *)

\* A step of the service is a step of the watcher, or leaves all but the count
\* of the changes alone.
LEMMA ServiceStep == IInv /\ [ServiceNext]_serviceVars => IInv'
<1> SUFFICES ASSUME IInv, [ServiceNext]_serviceVars PROVE IInv'
  OBVIOUS
<1>1. CASE [Next]_vars
  BY <1>1, WatcherKeeps
<1>2. ASSUME NEW d \in Dir, Unreported(d) PROVE IInv'
  <2>1. events' \in 0 .. MaxEvents
    BY <1>2, WatcherAssumption DEF Unreported, IInv, TypeOK
  <2> QED  BY <1>2, <2>1 DEF Unreported, IInv, TypeOK, NoLostEvent
<1>3. CASE UNCHANGED serviceVars \/ SchedulerStep
  BY <1>1, <1>3 DEF serviceVars, SchedulerStep, ListLibraries, PassDone, TickerFires,
                    SchedulerCanceled, ScanLibrary
<1>4. ASSUME NEW d \in Dir \cup {Outside}, Reported(d) PROVE IInv'
  BY <1>1, <1>4 DEF Reported, Next
<1>5. CASE WatcherScans \/ WatcherStep
  BY <1>1, <1>5 DEF WatcherScans, WatcherStep, Next
<1> QED  BY <1>2, <1>3, <1>4, <1>5 DEF ServiceNext

\* With the periodic scheduler beside the watcher, changes that nobody reports
\* and scans that fail, no accepted event is lost before shutdown either.
THEOREM ServiceKeepsEvents == ServiceSpec => []NoLostEvent
<1>1. ServiceInit => IInv
  BY WatcherStarts DEF ServiceInit
<1>2. IInv => NoLostEvent
  BY DEF IInv
<1> QED  BY <1>1, <1>2, ServiceStep, PTL DEF ServiceSpec

-----------------------------------------------------------------------------
(* Shutdown                                                                *)

SchedPC == {"list", "pass", "wait", "ended"}

\* What dispatch leaves behind when it exits: ctx is canceled and no entry
\* has an armed timer, so no timer that was not already orphaned goes off.
Quiet ==
    loop = "exited" => canceled /\ \A d \in Dir : timers[d] # "armed"

ShutdownInv ==
    /\ IInv /\ Quiet
    /\ sched \in [pc : SchedPC, todo : SUBSET Library, repeat : BOOLEAN]

\* What a directory's timers have still to do: an orphan expires and then its
\* goroutine ends.
Left(d) == 2 * orphans[d] + sending[d]

SchedRank(pc) ==
    CASE pc = "pass" -> 3 [] pc = "wait" -> 2 [] pc = "list" -> 1 [] pc = "ended" -> 0

\* Once the dispatch loop has exited it stays so, and every step that touches
\* a directory's timers leaves them less to do; once ctx is canceled, a step of
\* the scheduler brings it nearer to its end.
Drains ==
    /\ loop = "exited" =>
         /\ loop' = "exited" /\ canceled'
         /\ \A d \in Dir : \/ Left(d)' < Left(d)
                           \/ orphans'[d] = orphans[d] /\ sending'[d] = sending[d]
    /\ canceled => \/ sched' = sched
                   \/ SchedRank(sched'.pc) < SchedRank(sched.pc)

\* The scheduler's record stays typed, and after cancellation its steps go
\* down; the watcher's steps leave it alone.
LEMMA SchedulerDrains ==
    ASSUME ShutdownInv, [ServiceNext]_serviceVars
    PROVE  /\ sched' \in [pc : SchedPC, todo : SUBSET Library, repeat : BOOLEAN]
           /\ canceled => \/ sched' = sched
                          \/ SchedRank(sched'.pc) < SchedRank(sched.pc)
<1> DEFINE S == [pc : SchedPC, todo : SUBSET Library, repeat : BOOLEAN]
<1>1. sched \in S
  BY DEF ShutdownInv
<1>2. CASE sched' = sched
  BY <1>1, <1>2
<1>3. ASSUME NEW pc \in SchedPC, sched' = [sched EXCEPT !.pc = pc]
      PROVE  sched' \in S /\ sched'.pc = pc
  BY <1>1, <1>3
<1>4. CASE ListLibraries
  <2>1. CASE sched' = [sched EXCEPT !.pc = "pass", !.todo = Library]
    BY <1>1, <1>4, <2>1 DEF ListLibraries, SchedPC
  <2>2. CASE sched' = [sched EXCEPT !.pc = "ended"]
    BY <1>3, <1>4, <2>2 DEF ListLibraries, SchedPC
  <2> QED  BY <1>4, <2>1, <2>2 DEF ListLibraries
<1>5. ASSUME NEW l \in Library, ScanLibrary(l)
      PROVE  sched' \in S /\ ~canceled
  <2>1. CASE sched' = [sched EXCEPT !.todo = sched.todo \ {l}]
    BY <1>1, <1>5, <2>1 DEF ScanLibrary
  <2>2. CASE sched' = [sched EXCEPT !.pc = "ended"]
    BY <1>3, <1>5, <2>2 DEF ScanLibrary, SchedPC
  <2> QED  BY <1>5, <2>1, <2>2 DEF ScanLibrary
<1>6. CASE PassDone
  <2>1. sched' \in S /\ sched'.pc \in {"wait", "ended"} /\ sched.pc = "pass"
    BY <1>3, <1>6 DEF PassDone, SchedPC
  <2> QED  BY <2>1 DEF SchedRank
<1>7. CASE TickerFires
  <2>1. sched' \in S /\ sched'.pc = "list" /\ sched.pc = "wait"
    BY <1>3, <1>7 DEF TickerFires, SchedPC
  <2> QED  BY <2>1 DEF SchedRank
<1>8. CASE SchedulerCanceled
  <2>1. sched' \in S /\ sched'.pc = "ended" /\ sched.pc \in {"list", "pass", "wait"}
    BY <1>3, <1>8 DEF SchedulerCanceled, SchedPC
  <2> QED  BY <2>1 DEF SchedRank
<1>9. \/ sched' = sched \/ ListLibraries \/ PassDone \/ TickerFires
      \/ SchedulerCanceled \/ \E l \in Library : ScanLibrary(l)
  BY DEF ServiceNext, serviceVars, Reported, Unreported, WatcherScans,
         WatcherStep, SchedulerStep
<1>10. ListLibraries => ~canceled
  BY DEF ListLibraries
<1>11. sched' \in S
  BY Zenon, <1>2, <1>4, <1>5, <1>6, <1>7, <1>8, <1>9
<1>12. canceled => sched' = sched \/ SchedRank(sched'.pc) < SchedRank(sched.pc)
  BY <1>5, <1>6, <1>7, <1>8, <1>9, <1>10
<1> QED  BY <1>11, <1>12

\* A step of the service as the watcher sees it.
LEMMA WatcherActions ==
    ASSUME [ServiceNext]_serviceVars
    PROVE  \/ UNCHANGED <<timers, orphans, sending, loop, canceled>>
           \/ TakeEvent \/ TakeFired \/ ScanDone \/ Shutdown \/ DispatchExits
           \/ \E d \in Dir : Expire(d) \/ ExpireOrphan(d) \/ Send(d) \/ SenderExits(d)
<1>1. CASE UNCHANGED serviceVars \/ SchedulerStep
  BY <1>1 DEF serviceVars, vars, SchedulerStep, ListLibraries, PassDone,
              TickerFires, SchedulerCanceled, ScanLibrary
<1>2. CASE \/ \E d \in Dir \cup {Outside} : Reported(d)
           \/ \E d \in Dir : Unreported(d)
  BY <1>2 DEF Reported, Notify, Unreported
<1>3. CASE WatcherScans
  BY <1>3 DEF WatcherScans
<1>4. CASE WatcherStep
  BY <1>4 DEF WatcherStep, Translate, TranslateExits
<1> QED  BY <1>1, <1>2, <1>3, <1>4 DEF ServiceNext

\* Dispatch exits only under a canceled ctx, with the timers of its entries
\* stopped, and only dispatch arms a timer.
LEMMA QuietStep ==
    ASSUME ShutdownInv, [ServiceNext]_serviceVars
    PROVE  Quiet'
<1>1. Quiet /\ timers \in [Dir -> {"absent", "armed", "spent"}]
      /\ Dir \cap {"select", "exited"} = {} /\ fired \in Seq(Dir)
  BY WatcherAssumption DEF ShutdownInv, IInv, TypeOK
<1>2. CASE UNCHANGED <<timers, orphans, sending, loop, canceled>>
  BY <1>1, <1>2 DEF Quiet
<1>3. CASE TakeEvent \/ ScanDone
  BY <1>1, <1>3 DEF Quiet, TakeEvent, ScanDone
<1>4. CASE TakeFired
  <2>1. Head(fired) \in Dir
    BY <1>1, <1>4, HeadTailProperties DEF TakeFired
  <2>2. loop' \in Dir \cup {"select"}
    BY <1>4, <2>1 DEF TakeFired
  <2> QED  BY <1>1, <2>2 DEF Quiet
<1>5. CASE Shutdown
  BY <1>1, <1>5 DEF Quiet, Shutdown
<1>6. CASE DispatchExits
  BY <1>1, <1>6 DEF Quiet, DispatchExits
<1>7. ASSUME NEW d \in Dir, Expire(d) \/ ExpireOrphan(d) \/ Send(d) \/ SenderExits(d)
      PROVE  Quiet'
  <2>1. CASE Expire(d)
    BY <1>1, <2>1 DEF Quiet, Expire
  <2>2. CASE ExpireOrphan(d) \/ Send(d) \/ SenderExits(d)
    BY <1>1, <2>2 DEF Quiet, ExpireOrphan, Send, SenderExits
  <2> QED  BY <1>7, <2>1, <2>2
<1> QED  BY <1>2, <1>3, <1>4, <1>5, <1>6, <1>7, WatcherActions

\* After the dispatch loop is gone only orphans expire and goroutines end.
LEMMA TimersDrain ==
    ASSUME ShutdownInv, [ServiceNext]_serviceVars, loop = "exited"
    PROVE  /\ loop' = "exited" /\ canceled'
           /\ \A d \in Dir : \/ Left(d)' < Left(d)
                             \/ orphans'[d] = orphans[d] /\ sending'[d] = sending[d]
<1>1. /\ canceled /\ \A d \in Dir : timers[d] # "armed"
      /\ orphans \in [Dir -> Nat] /\ sending \in [Dir -> Nat] /\ loop \notin Dir
  BY WatcherAssumption DEF ShutdownInv, Quiet, IInv, TypeOK
<1>2. CASE UNCHANGED <<timers, orphans, sending, loop, canceled>>
  BY <1>1, <1>2
<1>3. ASSUME NEW e \in Dir, ExpireOrphan(e), NEW d \in Dir
      PROVE  \/ Left(d)' < Left(d)
             \/ orphans'[d] = orphans[d] /\ sending'[d] = sending[d]
  <2>1. CASE d = e
    <3>1. orphans'[d] = orphans[d] - 1 /\ sending'[d] = sending[d] + 1
      BY <1>1, <1>3, <2>1 DEF ExpireOrphan
    <3> QED  BY <1>1, <3>1 DEF Left
  <2>2. CASE d # e
    BY <1>1, <1>3, <2>2 DEF ExpireOrphan
  <2> QED  BY <2>1, <2>2
<1>4. ASSUME NEW e \in Dir, Send(e) \/ SenderExits(e), NEW d \in Dir
      PROVE  \/ Left(d)' < Left(d)
             \/ orphans'[d] = orphans[d] /\ sending'[d] = sending[d]
  <2>1. orphans'[d] = orphans[d]
    BY <1>4 DEF Send, SenderExits
  <2>2. CASE d = e
    <3>1. sending'[d] = sending[d] - 1
      BY <1>1, <1>4, <2>2 DEF Send, SenderExits
    <3> QED  BY <1>1, <2>1, <3>1 DEF Left
  <2>3. CASE d # e
    BY <1>1, <1>4, <2>1, <2>3 DEF Send, SenderExits
  <2> QED  BY <2>2, <2>3
<1>5. \A e \in Dir : ExpireOrphan(e) \/ Send(e) \/ SenderExits(e)
                        => loop' = loop /\ canceled' = canceled
  BY DEF ExpireOrphan, Send, SenderExits
<1>6. ~TakeEvent /\ ~TakeFired /\ ~ScanDone /\ ~Shutdown /\ ~DispatchExits
  BY <1>1 DEF TakeEvent, TakeFired, ScanDone, Shutdown, DispatchExits
<1>7. \A e \in Dir : ~Expire(e)
  BY <1>1 DEF Expire
<1>8. \/ UNCHANGED <<timers, orphans, sending, loop, canceled>>
      \/ \E e \in Dir : ExpireOrphan(e) \/ Send(e) \/ SenderExits(e)
  BY <1>6, <1>7, WatcherActions
<1>9. CASE \E e \in Dir : ExpireOrphan(e) \/ Send(e) \/ SenderExits(e)
  BY <1>1, <1>3, <1>4, <1>5, <1>9
<1> QED  BY <1>2, <1>8, <1>9

\* The safety half of ShutdownEnds: a shutdown never runs backwards. Once the
\* dispatch loop of the watcher has returned, no debounce timer is armed and
\* every step of a timer goroutine leaves fewer of them; once ctx is canceled,
\* Scheduler.Run moves towards its return. What is left to fairness is that
\* the goroutines run.
THEOREM ShutdownDrains == ServiceSpec => []Quiet /\ [][Drains]_serviceVars
<1>1. ServiceInit => ShutdownInv
  BY WatcherStarts DEF ServiceInit, ShutdownInv, Quiet, Init, SchedPC
<1>2. ShutdownInv /\ [ServiceNext]_serviceVars => ShutdownInv'
  BY ServiceStep, QuietStep, SchedulerDrains DEF ShutdownInv
<1>3. ShutdownInv /\ [ServiceNext]_serviceVars => Drains
  BY TimersDrain, SchedulerDrains DEF Drains
<1>4. ShutdownInv => Quiet
  BY DEF ShutdownInv
<1> QED  BY <1>1, <1>2, <1>3, <1>4, PTL DEF ServiceSpec

\* How far the scheduler is from reading directory d again: the rest of a pass
\* that has already been to its library, the wait, the listing, and the pass
\* that still has to go there.
Stage(d) ==
    CASE sched.pc = "pass" /\ LibraryOf[d] \notin sched.todo -> 4
      [] sched.pc = "wait" -> 3
      [] sched.pc = "list" -> 2
      [] sched.pc = "pass" /\ LibraryOf[d] \in sched.todo -> 1
      [] sched.pc = "ended" -> 0

\* Each step of the scheduler reads a changed directory or brings its loop
\* nearer to it, by a stage or by one library of the pass.
ReadsAhead ==
    \A d \in Dir : stale[d] /\ stale'[d] =>
        \/ sched' = sched
        \/ Stage(d)' < Stage(d)
        \/ /\ Stage(d)' = Stage(d)
           /\ sched'.todo \subseteq sched.todo /\ sched'.todo # sched.todo

\* Only ScanLibrary takes a library off the list of a pass, and it reads every
\* directory of it.
LEMMA SchedulerReads ==
    ASSUME ShutdownInv, [ServiceNext]_serviceVars
    PROVE  ReadsAhead
<1> SUFFICES ASSUME NEW d \in Dir, stale[d], stale'[d], sched' # sched
             PROVE  \/ Stage(d)' < Stage(d)
                    \/ /\ Stage(d)' = Stage(d)
                       /\ sched'.todo \subseteq sched.todo /\ sched'.todo # sched.todo
  BY DEF ReadsAhead
<1>1. /\ sched \in [pc : SchedPC, todo : SUBSET Library, repeat : BOOLEAN]
      /\ LibraryOf[d] \in Library
  BY ScanServiceAssumption DEF ShutdownInv
<1>2. ASSUME NEW pc \in SchedPC, sched' = [sched EXCEPT !.pc = pc]
      PROVE  sched'.pc = pc /\ sched'.todo = sched.todo
  BY <1>1, <1>2
<1>3. CASE ListLibraries
  <2>1. /\ sched.pc = "list"
        /\ \/ sched'.pc = "ended"
           \/ sched'.pc = "pass" /\ sched'.todo = Library
    BY <1>1, <1>3 DEF ListLibraries
  <2> QED  BY <1>1, <2>1 DEF Stage
<1>4. ASSUME NEW l \in Library, ScanLibrary(l)
      PROVE  \/ Stage(d)' < Stage(d)
             \/ /\ Stage(d)' = Stage(d)
                /\ sched'.todo \subseteq sched.todo /\ sched'.todo # sched.todo
  <2>1. CASE sched' = [sched EXCEPT !.pc = "ended"]
    <3>1. sched.pc = "pass" /\ sched'.pc = "ended"
      BY <1>2, <1>4, <2>1 DEF ScanLibrary, SchedPC
    <3> QED  BY <3>1 DEF Stage
  <2>2. CASE /\ sched' = [sched EXCEPT !.todo = sched.todo \ {l}]
             /\ stale' = [e \in Dir |-> LibraryOf[e] # l /\ stale[e]]
    <3>1. LibraryOf[d] # l
      BY <2>2
    <3>2. /\ sched.pc = "pass" /\ sched'.pc = "pass" /\ l \in sched.todo
          /\ sched'.todo = sched.todo \ {l}
      BY <1>1, <1>4, <2>2 DEF ScanLibrary
    <3>3. Stage(d)' = Stage(d)
      BY <3>1, <3>2 DEF Stage
    <3> QED  BY <3>2, <3>3
  <2> QED  BY <1>4, <2>1, <2>2 DEF ScanLibrary
<1>5. CASE PassDone
  <2>1. /\ sched.pc = "pass" /\ sched.todo = {}
        /\ sched'.pc \in {"wait", "ended"} /\ sched'.todo = {}
    BY <1>2, <1>5 DEF PassDone, SchedPC
  <2> QED  BY <2>1 DEF Stage
<1>6. CASE TickerFires
  <2>1. sched.pc = "wait" /\ sched'.pc = "list"
    BY <1>2, <1>6 DEF TickerFires, SchedPC
  <2> QED  BY <2>1 DEF Stage
<1>7. CASE SchedulerCanceled
  <2>1. sched.pc \in {"list", "pass", "wait"} /\ sched'.pc = "ended"
    BY <1>2, <1>7 DEF SchedulerCanceled, SchedPC
  <2> QED  BY <2>1 DEF Stage
<1>8. \/ ListLibraries \/ PassDone \/ TickerFires
      \/ SchedulerCanceled \/ \E l \in Library : ScanLibrary(l)
  BY DEF ServiceNext, serviceVars, Reported, Unreported, WatcherScans,
         WatcherStep, SchedulerStep
<1> QED  BY <1>3, <1>4, <1>5, <1>6, <1>7, <1>8

\* The safety half of ChangesScanned, for the scheduler: a directory that
\* changes while a pass is under way, before or after RunOnce has been to its
\* library, is read by this pass or by the next one. No order of passes,
\* events, failing scans and scans of the watcher takes the loop past it.
THEOREM ChangesAhead == ServiceSpec => [][ReadsAhead]_serviceVars
<1>1. ServiceInit => ShutdownInv
  BY WatcherStarts DEF ServiceInit, ShutdownInv, Quiet, Init, SchedPC
<1>2. ShutdownInv /\ [ServiceNext]_serviceVars => ShutdownInv'
  BY ServiceStep, QuietStep, SchedulerDrains DEF ShutdownInv
<1> QED  BY <1>1, <1>2, SchedulerReads, PTL DEF ServiceSpec

-----------------------------------------------------------------------------
(* The roots                                                               *)

-----------------------------------------------------------------------------
(* Paths *)

\* A path is inside another when its first names are those of the other.
LEMMA Within ==
    ASSUME NEW p \in Seq(STRING), NEW q \in Seq(STRING)
    PROVE  WithinRoot(p, q) <=> Len(p) <= Len(q) /\ \A i \in 1 .. Len(p) : p[i] = q[i]
<1>1. Len(p) \in Nat /\ Len(q) \in Nat
  OBVIOUS
<1>2. SubSeq(p, 1, Len(p)) = [i \in 1 .. Len(p) |-> p[i]]
  BY <1>1
<1>3. Len(p) <= Len(q) => SubSeq(q, 1, Len(p)) = [i \in 1 .. Len(p) |-> q[i]]
  BY <1>1
<1> QED  BY <1>2, <1>3 DEF WithinRoot, IsPrefix

\* A path is inside itself.
LEMMA WithinSelf == ASSUME NEW p \in Seq(STRING) PROVE WithinRoot(p, p)
  BY Within

\* A path inside a path that is inside a third is inside that one.
LEMMA WithinTrans ==
    ASSUME NEW p \in Seq(STRING), NEW q \in Seq(STRING), NEW r \in Seq(STRING),
           WithinRoot(p, q), WithinRoot(q, r)
    PROVE  WithinRoot(p, r)
<1>1. Len(p) <= Len(q) /\ Len(q) <= Len(r)
  BY Within
<1>2. /\ \A i \in 1 .. Len(p) : p[i] = q[i]
      /\ \A i \in 1 .. Len(q) : q[i] = r[i]
  BY Within
<1>3. Len(p) <= Len(r) /\ \A i \in 1 .. Len(p) : i \in 1 .. Len(q)
  BY <1>1
<1> QED  BY <1>2, <1>3, Within

\* Of two paths that contain a third the shorter one contains the longer.
LEMMA WithinChain ==
    ASSUME NEW p \in Seq(STRING), NEW q \in Seq(STRING), NEW r \in Seq(STRING),
           WithinRoot(p, r), WithinRoot(q, r), Len(p) <= Len(q)
    PROVE  WithinRoot(p, q)
<1>1. /\ \A i \in 1 .. Len(p) : p[i] = r[i]
      /\ \A i \in 1 .. Len(q) : q[i] = r[i]
  BY Within
<1>2. \A i \in 1 .. Len(p) : i \in 1 .. Len(q)
  OBVIOUS
<1> QED  BY <1>1, <1>2, Within

\* Two paths inside each other are the same.
LEMMA WithinEqual ==
    ASSUME NEW p \in Seq(STRING), NEW q \in Seq(STRING), WithinRoot(p, q), Len(q) <= Len(p)
    PROVE  p = q
<1>1. Len(p) = Len(q) /\ \A i \in 1 .. Len(p) : p[i] = q[i]
  BY Within
<1> QED  BY <1>1

\* A root of an event's path contains the path's parent, or is the path.
LEMMA WithinParent ==
    ASSUME NEW p \in Seq(STRING), NEW q \in Seq(STRING), WithinRoot(p, q)
    PROVE  /\ Parent(q) \in Seq(STRING)
           /\ WithinRoot(p, Parent(q)) \/ p = q
<1>1. CASE q = <<>>
  BY <1>1 DEF Parent
<1>2. CASE q # <<>>
  <2>1. Parent(q) = SubSeq(q, 1, Len(q) - 1) /\ Len(q) \in Nat \ {0}
    BY <1>2 DEF Parent, Front
  <2>2. /\ Parent(q) \in Seq(STRING) /\ Len(Parent(q)) = Len(q) - 1
        /\ \A i \in 1 .. Len(q) - 1 : Parent(q)[i] = q[i]
    <3>0. Len(q) - 1 \in Nat
      BY <2>1
    <3>1. PICK n \in Nat : n = Len(q) - 1
      BY <3>0
    <3>2. SubSeq(q, 1, n) = [i \in 1 .. n |-> q[i]] /\ \A i \in 1 .. n : q[i] \in STRING
      <4>1. \A i \in 1 .. n : i \in 1 .. Len(q)
        BY <2>1, <3>1
      <4>2. \A i \in 1 .. Len(q) : q[i] \in STRING
        OBVIOUS
      <4>3. SubSeq(q, 1, n) = [i \in 1 .. n |-> q[i]]
        BY <3>1
      <4> QED  BY <4>1, <4>2, <4>3
    <3>3. [i \in 1 .. n |-> q[i]] \in Seq(STRING) /\ Len([i \in 1 .. n |-> q[i]]) = n
      BY <3>2
    <3> QED  BY <2>1, <3>1, <3>2, <3>3
  <2>3. CASE Len(p) <= Len(q) - 1
    <3>1. \A i \in 1 .. Len(p) : i \in 1 .. Len(q) - 1
      BY <2>1, <2>3
    <3>2. \A i \in 1 .. Len(p) : p[i] = Parent(q)[i]
      BY <2>2, <3>1, Within
    <3> QED  BY <2>2, <2>3, <3>2, Within
  <2>4. CASE ~(Len(p) <= Len(q) - 1)
    <3>1. Len(q) <= Len(p)
      BY <2>1, <2>4
    <3> QED  BY <2>2, <3>1, WithinEqual
  <2> QED  BY <2>3, <2>4
<1> QED  BY <1>1, <1>2

-----------------------------------------------------------------------------
(* The watched roots *)

RootsInv ==
    /\ libs \in Seq(Path) /\ event \in Seq(STRING)
    /\ watched = {} \/ watched = dedupeRoots(libs)
    /\ run = "watching" => watched = dedupeRoots(libs)
    /\ TargetInside

\* The configured libraries are finitely many paths.
LEMMA LibPaths ==
    ASSUME NEW s \in Seq(Path)
    PROVE  /\ DOMAIN s \subseteq Nat
           /\ \A i \in DOMAIN s : s[i] \in Seq(STRING) /\ Len(s[i]) \in Nat
<1>1. \A i \in DOMAIN s : s[i] \in Path
  OBVIOUS
<1> QED  BY <1>1, WatchRootsAssumption

\* Every library lies under one of the kept roots.
LEMMA RootKept ==
    ASSUME NEW s \in Seq(Path), NEW p \in Seq(STRING), \E i \in DOMAIN s : WithinRoot(s[i], p)
    PROVE  \E m \in dedupeRoots(s) : WithinRoot(s[m], p)
<1> DEFINE owners == {i \in DOMAIN s : WithinRoot(s[i], p)}
           lengths == {Len(s[i]) : i \in owners}
<1>1. PICK n \in lengths : \A k \in lengths : n <= k
  <2>1. lengths # {} /\ lengths \in SUBSET Nat
    BY LibPaths
  <2> HIDE DEF lengths
  <2> QED  BY <2>1, LeastNatural
<1> DEFINE shortest == {i \in owners : Len(s[i]) = n}
<1>2. PICK m \in shortest : \A k \in shortest : m <= k
  <2>1. shortest # {} /\ shortest \in SUBSET Nat
    BY <1>1, LibPaths
  <2> HIDE DEF shortest
  <2> QED  BY <2>1, LeastNatural
<1>3. m \in DOMAIN s /\ WithinRoot(s[m], p) /\ s[m] \in Seq(STRING) /\ Len(s[m]) = n
  BY <1>2, LibPaths
<1>4. ASSUME NEW j \in DOMAIN s \ {m}, s[j] = s[m] PROVE m < j
  <2>1. j \in shortest /\ j \in Nat /\ m \in Nat
    BY <1>3, <1>4, LibPaths
  <2>2. m <= j /\ m # j
    BY <1>2, <2>1
  <2> QED  BY <2>1, <2>2
<1>5. ASSUME NEW j \in DOMAIN s \ {m}, s[j] # s[m], WithinRoot(s[j], s[m]) PROVE FALSE
  <2>1. s[j] \in Seq(STRING) /\ j \in DOMAIN s
    BY LibPaths
  <2>2. WithinRoot(s[j], p)
    BY <1>3, <1>5, <2>1, WithinTrans
  <2>3. Len(s[j]) \in lengths
    BY <2>1, <2>2
  <2>4. Len(s[m]) <= Len(s[j])
    BY <1>1, <1>3, <2>3
  <2> QED  BY <1>3, <1>5, <2>1, <2>4, WithinEqual
<1> QED  BY <1>3, <1>4, <1>5 DEF dedupeRoots

\* No path lies under two of them.
LEMMA RootsApart ==
    ASSUME NEW s \in Seq(Path), NEW i \in dedupeRoots(s), NEW j \in dedupeRoots(s),
           NEW p \in Seq(STRING), WithinRoot(s[i], p), WithinRoot(s[j], p)
    PROVE  i = j
<1> SUFFICES ASSUME i # j PROVE FALSE
  OBVIOUS
<1>1. /\ i \in DOMAIN s /\ j \in DOMAIN s /\ i \in Nat /\ j \in Nat
      /\ s[i] \in Seq(STRING) /\ s[j] \in Seq(STRING)
      /\ Len(s[i]) \in Nat /\ Len(s[j]) \in Nat
  BY LibPaths DEF dedupeRoots
<1>2. /\ IF s[j] = s[i] THEN i < j ELSE ~WithinRoot(s[j], s[i])
      /\ IF s[i] = s[j] THEN j < i ELSE ~WithinRoot(s[i], s[j])
  BY <1>1 DEF dedupeRoots
<1>3. s[i] # s[j]
  BY <1>1, <1>2
<1>4. WithinRoot(s[i], s[j]) \/ WithinRoot(s[j], s[i])
  <2>1. CASE Len(s[i]) <= Len(s[j])
    BY <1>1, <2>1, WithinChain
  <2>2. CASE Len(s[j]) <= Len(s[i])
    BY <1>1, <2>2, WithinChain
  <2> QED  BY <1>1, <2>1, <2>2
<1> QED  BY <1>2, <1>3, <1>4

\* The deepest library that contains a path exists.
LEMMA DeepestFound ==
    ASSUME NEW s \in Seq(Path), NEW p \in Seq(STRING), \E i \in DOMAIN s : WithinRoot(s[i], p)
    PROVE  \E i \in DOMAIN s : /\ WithinRoot(s[i], p)
                               /\ \A j \in DOMAIN s : WithinRoot(s[j], p) => Len(s[j]) <= Len(s[i])
<1> DEFINE owners == {i \in DOMAIN s : WithinRoot(s[i], p)}
           rests == {Len(p) - Len(s[i]) : i \in owners}
<1>1. \A i \in owners : Len(s[i]) \in Nat /\ Len(p) \in Nat /\ Len(s[i]) <= Len(p)
  BY LibPaths, Within
<1>2. PICK n \in rests : \A k \in rests : n <= k
  <2>1. rests # {} /\ rests \in SUBSET Nat
    BY <1>1
  <2> HIDE DEF rests
  <2> QED  BY <2>1, LeastNatural
<1>3. PICK i \in owners : n = Len(p) - Len(s[i])
  BY <1>2
<1>4. ASSUME NEW j \in owners PROVE Len(s[j]) <= Len(s[i])
  <2>1. Len(p) - Len(s[i]) <= Len(p) - Len(s[j])
    BY <1>2, <1>3
  <2> QED  BY <1>1, <2>1
<1> QED  BY <1>3, <1>4

\* What eventTarget yields.
LEMMA Targets ==
    ASSUME NEW s \in Seq(Path), NEW p \in Seq(STRING), NEW isDir \in BOOLEAN,
           NEW x \in eventTarget(s, p, isDir)
    PROVE  /\ x.lib \in DOMAIN s /\ WithinRoot(s[x.lib], p) /\ WithinRoot(s[x.lib], x.dir)
           /\ \A j \in DOMAIN s : WithinRoot(s[j], p) => WithinRoot(s[j], s[x.lib])
           /\ x.dir = p \/ x.dir = Parent(p)
<1> DEFINE dir == IF isDir THEN p ELSE Parent(p)
<1>1. PICK i \in DOMAIN s :
        /\ WithinRoot(s[i], p)
        /\ \A j \in DOMAIN s : WithinRoot(s[j], p) => Len(s[j]) <= Len(s[i])
        /\ x = [lib |-> i, dir |-> IF WithinRoot(s[i], dir) THEN dir ELSE s[i]]
  BY DEF eventTarget
<1>2. x.lib = i /\ x.dir = IF WithinRoot(s[i], dir) THEN dir ELSE s[i]
  BY <1>1
<1>3. s[i] \in Seq(STRING)
  BY LibPaths
<1>4. WithinRoot(s[i], x.dir)
  BY <1>2, <1>3, WithinSelf
<1>5. ASSUME NEW j \in DOMAIN s, WithinRoot(s[j], p) PROVE WithinRoot(s[j], s[i])
  BY <1>1, <1>3, <1>5, LibPaths, WithinChain
<1>6. x.dir = p \/ x.dir = Parent(p)
  <2>1. CASE WithinRoot(s[i], dir)
    BY <1>2, <2>1
  <2>2. CASE ~WithinRoot(s[i], dir)
    <3>1. s[i] = p
      BY <1>1, <1>3, <2>2, WithinParent
    <3> QED  BY <1>2, <2>2, <3>1
  <2> QED  BY <2>1, <2>2
<1> QED  BY <1>1, <1>2, <1>4, <1>5, <1>6

-----------------------------------------------------------------------------
\* Before the watcher runs nothing is watched and no event was translated.
LEMMA RootsStart == RootsInit => RootsInv
<1> SUFFICES ASSUME RootsInit PROVE RootsInv
  OBVIOUS
<1>1. PICK n \in 1 .. MaxLibs : libs \in [1 .. n -> Path]
  BY DEF RootsInit
<1>2. libs \in Seq(Path)
  BY <1>1, WatchRootsAssumption
<1>3. event = <<>> /\ target = NoEvent /\ watched = {} /\ run = "start"
  BY DEF RootsInit
<1>4. event \in Seq(STRING)
  BY <1>3
<1> QED  BY <1>2, <1>3, <1>4 DEF RootsInv, TargetInside

\* Choosing the roots and translating an event keep the invariant.
LEMMA RootsStep == RootsInv /\ [RootsNext]_rootsVars => RootsInv'
<1> SUFFICES ASSUME RootsInv, [RootsNext]_rootsVars PROVE RootsInv'
  OBVIOUS
<1>1. CASE UNCHANGED rootsVars
  BY <1>1 DEF rootsVars, RootsInv, TargetInside
<1>2. CASE Run
  <2>1. /\ UNCHANGED <<libs, event, target>>
        /\ \/ run' = "failed" /\ UNCHANGED watched
           \/ run' = "watching" /\ watched' = dedupeRoots(libs)
    BY <1>2 DEF Run
  <2> QED  BY <2>1 DEF RootsInv, TargetInside
<1>3. ASSUME NEW p \in Path, TranslateEvent(p) PROVE RootsInv'
  <2>1. /\ UNCHANGED <<libs, run, watched>> /\ event' = p /\ libs \in Seq(Path)
        /\ p \in Seq(STRING) /\ watched = dedupeRoots(libs)
    BY <1>3, WatchRootsAssumption DEF TranslateEvent, RootsInv
  <2>2. \E i \in DOMAIN libs : WithinRoot(libs[i], p)
    BY <1>3, <2>1 DEF TranslateEvent, dedupeRoots
  <2>3. PICK isDir \in BOOLEAN :
          target' \in IF eventTarget(libs, p, isDir) = {} THEN {Dropped}
                      ELSE eventTarget(libs, p, isDir)
    BY <1>3 DEF TranslateEvent
  <2>4. eventTarget(libs, p, isDir) # {}
    BY <2>1, <2>2, DeepestFound DEF eventTarget
  <2>5. target' \in eventTarget(libs, p, isDir)
    BY <2>3, <2>4
  <2>6. /\ target'.lib \in DOMAIN libs /\ WithinRoot(libs[target'.lib], p)
        /\ WithinRoot(libs[target'.lib], target'.dir)
        /\ \A j \in DOMAIN libs : WithinRoot(libs[j], p) => WithinRoot(libs[j], libs[target'.lib])
        /\ target'.dir = p \/ target'.dir = Parent(p)
    BY <2>1, <2>5, Targets
  <2>7. target' # Dropped
    <3>1. -1 \notin DOMAIN libs
      BY <2>1, LibPaths
    <3> QED  BY <2>6, <3>1 DEF Dropped
  <2>8. TargetInside'
    BY <2>1, <2>6, <2>7 DEF TargetInside
  <2> QED  BY <2>1, <2>8 DEF RootsInv
<1> QED  BY <1>1, <1>2, <1>3 DEF RootsNext

\* An event that notify delivers goes to the closest library, and its scan stays
\* inside that library (eventTarget), for any libraries, nested or equal ones too.
THEOREM TargetTheorem == RootsSpec => []TargetInside
<1>1. RootsInv => TargetInside
  BY DEF RootsInv
<1> QED  BY <1>1, RootsStart, RootsStep, PTL DEF RootsSpec

-----------------------------------------------------------------------------
(* The watch budget *)

\* The directories under one root, and those under some of them.
Under(s, i) == {p \in Tree : WithinRoot(s[i], p)}
Covered(s, r) == {p \in Tree : \E i \in r : WithinRoot(s[i], p)}

\* One step of the sum that countDirs makes over a set of roots.
Added(f, s, r) ==
    IF r = {} THEN 0
    ELSE Cardinality(Under(s, CHOOSE x \in r : TRUE)) + f[r \ {CHOOSE x \in r : TRUE}]

\* The sum over every set of at most k roots.
Sums(f, s, roots, k) ==
    f = [r \in {t \in SUBSET roots : Cardinality(t) <= k} |-> Added(f, s, r)]

\* The sum over all of them.
AllSums(f, s, roots) == f = [r \in SUBSET roots |-> Added(f, s, r)]

\* No directory is under two roots.
TreesApart(s, roots) == \A i, j \in roots : i # j => Under(s, i) \cap Under(s, j) = {}

\* The budget count is the sum over the roots, as the fold makes it.
LEMMA CountDirsSum ==
    ASSUME NEW s, NEW roots
    PROVE  countDirs(s, roots) =
             (CHOOSE f : AllSums(f, s, roots))[roots]
  BY DEF countDirs, MapThenSumSet, MapThenFoldSet, Under, Added, AllSums

\* A set that is not empty without the root that is added first.
LEMMA Without ==
    ASSUME NEW roots, IsFiniteSet(roots), NEW r \in SUBSET roots, r # {}
    PROVE  \E x \in r : /\ x = (CHOOSE y \in r : TRUE) /\ r \ {x} \in SUBSET roots
                        /\ Cardinality(r) \in Nat \ {0}
                        /\ Cardinality(r \ {x}) = Cardinality(r) - 1
<1>1. PICK x \in r : x = (CHOOSE y \in r : TRUE)
  OBVIOUS
<1>2. IsFiniteSet(r)
  BY FS_Subset
<1>3. Cardinality(r) \in Nat /\ Cardinality(r) # 0 /\ Cardinality(r \ {x}) = Cardinality(r) - 1
  BY <1>2, FS_CardinalityType, FS_EmptySet, FS_RemoveElement
<1> QED  BY <1>1, <1>3

\* There is such a sum over every finite set of roots: the least size for which
\* there was none would have one.
LEMMA SumsExist ==
    ASSUME NEW s, NEW roots, IsFiniteSet(roots), NEW k \in Nat
    PROVE  \E f : Sums(f, s, roots, k)
<1> DEFINE T == {n \in Nat : ~ \E f : Sums(f, s, roots, n)}
<1> SUFFICES ASSUME T # {} PROVE FALSE
  OBVIOUS
<1>1. PICK m \in T : \A n \in T : m <= n
  BY LeastNatural
<1>2. m \in Nat /\ ~ \E f : Sums(f, s, roots, m)
  OBVIOUS
<1> DEFINE Small(n) == {t \in SUBSET roots : Cardinality(t) <= n}
<1>3. CASE m = 0
  <2> DEFINE g == [r \in Small(0) |-> 0]
  <2>1. ASSUME NEW r \in Small(0) PROVE Added(g, s, r) = 0
    <3>1. r = {}
      <4> SUFFICES ASSUME r # {} PROVE FALSE
        OBVIOUS
      <4>1. Cardinality(r) \in Nat \ {0}
        BY Without
      <4>2. Cardinality(r) <= 0
        OBVIOUS
      <4> QED  BY <4>1, <4>2
    <3> QED  BY <3>1 DEF Added
  <2>2. g = [r \in Small(0) |-> Added(g, s, r)]
    BY <2>1
  <2>3. Sums(g, s, roots, 0)
    BY <2>2 DEF Sums
  <2> QED  BY <1>2, <1>3, <2>3
<1>4. CASE m # 0
  <2>1. m - 1 \in Nat /\ ~(m <= m - 1)
    BY <1>2, <1>4
  <2>2. PICK f : Sums(f, s, roots, m - 1)
    BY <1>1, <2>1
  <2> DEFINE g == [r \in Small(m) |-> Added(f, s, r)]
  <2>3. ASSUME NEW r \in Small(m) PROVE Added(g, s, r) = Added(f, s, r)
    <3>1. CASE r = {}
      BY <3>1 DEF Added
    <3>2. CASE r # {}
      <4>1. PICK x \in r : /\ x = (CHOOSE y \in r : TRUE) /\ r \ {x} \in SUBSET roots
                           /\ Cardinality(r) \in Nat \ {0}
                           /\ Cardinality(r \ {x}) = Cardinality(r) - 1
        BY <3>2, Without
      <4>2. r \ {x} \in Small(m - 1) /\ r \ {x} \in Small(m)
        <5>1. Cardinality(r) <= m
          OBVIOUS
        <5>2. Cardinality(r \ {x}) <= m - 1 /\ Cardinality(r \ {x}) <= m
          BY <1>2, <2>1, <4>1, <5>1
        <5> QED  BY <4>1, <5>2
      <4>3. f[r \ {x}] = Added(f, s, r \ {x})
        BY <2>2, <4>2 DEF Sums
      <4>4. g[r \ {x}] = f[r \ {x}]
        BY <4>2, <4>3
      <4> HIDE DEF g
      <4> QED  BY <3>2, <4>1, <4>4 DEF Added
    <3> QED  BY <3>1, <3>2
  <2>4. g = [r \in Small(m) |-> Added(g, s, r)]
    BY <2>3
  <2> HIDE DEF g
  <2>5. Sums(g, s, roots, m)
    BY <2>4 DEF Sums
  <2> QED  BY <1>2, <2>5
<1> QED  BY <1>3, <1>4

\* The sum is the number of directories under some root, as long as none is
\* under two of them.
LEMMA SumCounts ==
    ASSUME NEW s, NEW roots, IsFiniteSet(roots), IsFiniteSet(Tree),
           TreesApart(s, roots), NEW f, AllSums(f, s, roots),
           NEW r \in SUBSET roots
    PROVE  f[r] = Cardinality(Covered(s, r))
<1> DEFINE T == {n \in Nat : \E q \in SUBSET roots :
                    Cardinality(q) = n /\ f[q] # Cardinality(Covered(s, q))}
<1>1. SUFFICES ASSUME T # {} PROVE FALSE
  <2>1. Cardinality(r) \in Nat
    BY FS_Subset, FS_CardinalityType
  <2> QED  BY <1>1, <2>1
<1>2. PICK m \in T : \A n \in T : m <= n
  <2> HIDE DEF T
  <2>1. T \in SUBSET Nat
    BY DEF T
  <2> QED  BY <1>1, <2>1, LeastNatural
<1>3. PICK q \in SUBSET roots : Cardinality(q) = m /\ f[q] # Cardinality(Covered(s, q))
  BY <1>2
<1>4. f[q] = Added(f, s, q)
  BY <1>3 DEF AllSums
<1>5. CASE q = {}
  <2>1. Covered(s, q) = {} /\ Added(f, s, q) = 0
    BY <1>5 DEF Covered, Added
  <2> QED  BY <1>3, <1>4, <2>1, FS_EmptySet
<1>6. CASE q # {}
  <2>1. PICK x \in q : /\ x = (CHOOSE y \in q : TRUE) /\ q \ {x} \in SUBSET roots
                       /\ Cardinality(q) \in Nat \ {0}
                       /\ Cardinality(q \ {x}) = Cardinality(q) - 1
    BY <1>6, Without
  <2>2. Added(f, s, q) = Cardinality(Under(s, x)) + f[q \ {x}]
    BY <1>6, <2>1 DEF Added
  <2>3. f[q \ {x}] = Cardinality(Covered(s, q \ {x}))
    <3>1. m - 1 \in Nat /\ ~(m <= m - 1)
      BY <1>3, <2>1
    <3>2. m - 1 \notin T
      BY <1>2, <3>1
    <3> QED  BY <1>3, <2>1, <3>1, <3>2
  <2>4. Covered(s, q) = Under(s, x) \cup Covered(s, q \ {x})
    BY <2>1 DEF Covered, Under
  <2>5. Under(s, x) \cap Covered(s, q \ {x}) = {}
    BY <1>3, <2>1 DEF Covered, Under, TreesApart
  <2>6. IsFiniteSet(Under(s, x)) /\ IsFiniteSet(Covered(s, q \ {x}))
    BY FS_Subset DEF Under, Covered
  <2>7. /\ Cardinality(Under(s, x)) \in Nat /\ Cardinality(Covered(s, q \ {x})) \in Nat
        /\ Cardinality(Covered(s, q)) = Cardinality(Under(s, x)) + Cardinality(Covered(s, q \ {x})) - 0
    <3>1. PICK A, B : A = Under(s, x) /\ B = Covered(s, q \ {x})
      OBVIOUS
    <3>2. /\ IsFiniteSet(A) /\ IsFiniteSet(B) /\ A \cap B = {}
      BY <2>5, <2>6, <3>1
    <3>3. Cardinality(A \cup B) = Cardinality(A) + Cardinality(B) - Cardinality(A \cap B)
      BY <3>2, FS_Union
    <3>4. Cardinality(A) \in Nat /\ Cardinality(B) \in Nat /\ Cardinality({}) = 0
      BY <3>2, FS_CardinalityType, FS_EmptySet
    <3> QED  BY <2>4, <3>1, <3>2, <3>3, <3>4
  <2>8. Cardinality(Covered(s, q)) = Cardinality(Under(s, x)) + Cardinality(Covered(s, q \ {x}))
    BY <2>7
  <2> QED  BY <1>3, <1>4, <2>2, <2>3, <2>8
<1> QED  BY <1>5, <1>6

\* Over the kept roots the budget counts every directory under a library once.
LEMMA CountDirsCounts ==
    ASSUME NEW s \in Seq(Path)
    PROVE  countDirs(s, dedupeRoots(s)) = Cardinality(Covered(s, DOMAIN s))
<1> DEFINE roots == dedupeRoots(s)
<1>1. IsFiniteSet(roots) /\ IsFiniteSet(Tree) /\ Tree \subseteq Seq(STRING)
  <2>1. IsFiniteSet(1 .. Len(s)) /\ roots \in SUBSET (1 .. Len(s))
    BY FS_Interval DEF dedupeRoots
  <2>2. IsFiniteSet(roots)
    BY <2>1, FS_Subset
  <2> QED  BY <2>2, WatchRootsAssumption, FS_Subset
<1>2. TreesApart(s, roots)
  BY <1>1, RootsApart DEF Under, TreesApart
<1>3. Covered(s, roots) = Covered(s, DOMAIN s)
  <2>1. \A p \in Tree : (\E i \in DOMAIN s : WithinRoot(s[i], p)) =>
                           \E m \in roots : WithinRoot(s[m], p)
    BY <1>1, RootKept
  <2>2. roots \subseteq DOMAIN s
    BY DEF dedupeRoots
  <2> HIDE DEF roots
  <2> QED  BY <2>1, <2>2 DEF Covered
<1> HIDE DEF roots
<1>4. \E f : AllSums(f, s, roots)
  <2>1. Cardinality(roots) \in Nat
    BY <1>1, FS_CardinalityType
  <2>2. PICK f : Sums(f, s, roots, Cardinality(roots))
    BY <1>1, <2>1, SumsExist
  <2>3. {t \in SUBSET roots : Cardinality(t) <= Cardinality(roots)} = SUBSET roots
    BY <1>1, FS_Subset
  <2> QED  BY <2>2, <2>3 DEF Sums, AllSums
<1>5. PICK f : AllSums(f, s, roots) /\ countDirs(s, roots) = f[roots]
  BY <1>4, CountDirsSum
<1>6. f[roots] = Cardinality(Covered(s, roots))
  BY <1>1, <1>2, <1>5, SumCounts
<1> QED  BY <1>3, <1>5, <1>6 DEF roots

\* Every library lies in exactly one watched tree and no directory is counted twice
\* against the budget (dedupeRoots, countDirs), for any libraries and any tree.
THEOREM WatchedTheorem == RootsSpec => []WatchedOnce
<1>1. RootsInv => WatchedOnce
  <2> SUFFICES ASSUME RootsInv, run = "watching" PROVE WatchedOnce
    BY DEF WatchedOnce
  <2>1. libs \in Seq(Path) /\ watched = dedupeRoots(libs)
    BY DEF RootsInv
  <2>2. ASSUME NEW i \in DOMAIN libs
        PROVE  Cardinality({j \in watched : WithinRoot(libs[j], libs[i])}) = 1
    <3>1. libs[i] \in Seq(STRING)
      BY <2>1, LibPaths
    <3>2. WithinRoot(libs[i], libs[i])
      BY <3>1, WithinSelf
    <3>3. PICK m \in watched : WithinRoot(libs[m], libs[i])
      BY <2>1, <3>1, <3>2, RootKept
    <3>4. \A j \in watched : WithinRoot(libs[j], libs[i]) => j = m
      BY <2>1, <3>1, <3>3, RootsApart
    <3>5. {j \in watched : WithinRoot(libs[j], libs[i])} = {m}
      BY <3>3, <3>4
    <3> QED  BY <3>5, FS_Singleton
  <2>3. countDirs(libs, watched) =
          Cardinality({p \in Tree : \E i \in DOMAIN libs : WithinRoot(libs[i], p)})
    BY <2>1, CountDirsCounts DEF Covered
  <2> QED  BY <2>2, <2>3 DEF WatchedOnce
<1> QED  BY <1>1, RootsStart, RootsStep, PTL DEF RootsSpec

=============================================================================
