------------------------------ MODULE Dispatch ------------------------------
(***************************************************************************)
(* Looking a track up with several providers: one lane per provider with a *)
(* circuit breaker of its own (internal/circuit, orchestrator.Lane), and   *)
(* the orchestrator that consults the lanes in order or races them         *)
(* (internal/orchestrator).  A dispatch is one call of FindLyrics; the     *)
(* worker makes them one after another, but in parallel mode it does not   *)
(* wait for the losers of a race, so lane calls of earlier dispatches may  *)
(* still be under way.                                                     *)
(*                                                                         *)
(* A breaker's openUntil is kept as the time left until then: -1 when it   *)
(* is zero, 0 when it has passed.                                          *)
(***************************************************************************)
EXTENDS Backoff, Sequences, FiniteSets

CONSTANTS
    Lane,
    LaneOrder,     \* the lanes in priority order
    Modes,         \* the dispatch modes looked at
    Wirings,       \* sets of lanes whose errors the classification knows
    NoLane,
    MaxDispatch,   \* how many dispatches are looked at
    BackoffBase,   \* the breaker's first window, in ticks
    OpenDuration,  \* its longest window
    TripBound      \* consecutiveTrips is counted up to this bound

Id == 1 .. MaxDispatch

ASSUME DispatchAssumption ==
    /\ Modes \subseteq {"ordered", "parallel"}
    /\ IsFiniteSet(Lane) /\ Wirings \subseteq SUBSET Lane
    /\ LaneOrder \in [1 .. Cardinality(Lane) -> Lane]
    /\ \A l \in Lane : \E i \in 1 .. Cardinality(Lane) : LaneOrder[i] = l
    /\ NoLane \notin Lane
    /\ MaxDispatch \in Nat
    /\ BackoffBase \in Nat \ {0} /\ OpenDuration \in Nat \ {0}
    /\ TripBound \in Nat \ {0}

(***************************************************************************)
(* What a provider call ends with: a song (synced, unsynced, synced in a   *)
(* script the guard rejects, or an instrumental marker), an error (nothing *)
(* there, transport, throttled or refused, token renewal), or a canceled   *)
(* context.  "unavailable" is the lane's own answer while it is open.      *)
(***************************************************************************)
Song == {"synced", "unsynced", "rejected", "marker"}

Fault == {"miss", "transport", "throttle", "renewal"}

Answer == Song \cup Fault \cup {"canceled", "unavailable"}

VARIABLES
    br,    \* lane -> breaker
    job,   \* dispatch, lane -> where the lane's call is
    res,   \* dispatch, lane -> its answer
    chan,  \* dispatch -> results channel: lanes whose answer waits in it
    cur,   \* the dispatch under way
    out,   \* what the last dispatch returned
    down,  \* the worker's context is canceled
    mode,  \* the configured mode of the orchestrator
    sentinels  \* the lanes whose providers return Musixmatch's error sentinels

vars == <<br, job, res, chan, cur, out, down, mode, sentinels>>

Breaker == [left : -1 .. OpenDuration, trips : 0 .. TripBound,
            probing : BOOLEAN, ever : BOOLEAN]

JobPC == {"none", "start", "call", "send", "done"}

Cursor == [id : 0 .. MaxDispatch, pc : {"idle", "polled", "next", "collect"},
           at : 0 .. Cardinality(Lane), pending : 0 .. Cardinality(Lane),
           consulted : SUBSET Lane, best : Lane \cup {NoLane},
           top : Fault \cup {"canceled", "none"}, held : Lane \cup {NoLane},
           armed : BOOLEAN]

Outcome == [what : Answer \cup {"none"}, lane : Lane \cup {NoLane},
            attempts : SUBSET Lane]

Fresh(id) == [id |-> id, pc |-> "idle", at |-> 0, pending |-> 0,
              consulted |-> {}, best |-> NoLane, top |-> "none",
              held |-> NoLane, armed |-> FALSE]

Init ==
    /\ br = [l \in Lane |-> [left |-> -1, trips |-> 0, probing |-> FALSE,
                             ever |-> FALSE]]
    /\ job = [d \in Id |-> [l \in Lane |-> "none"]]
    /\ res = [d \in Id |-> [l \in Lane |-> "none"]]
    /\ chan = [d \in Id |-> <<>>]
    /\ cur = Fresh(0)
    /\ out = [what |-> "none", lane |-> NoLane, attempts |-> {}]
    /\ down = FALSE
    /\ mode \in Modes /\ sentinels \in Wirings

-----------------------------------------------------------------------------
(* The breaker: each operation is one critical section.                    *)

\* Faulty: the probe is not remembered.
AdmittedUnmarked(b) == IF b.left = 0 THEN [b EXCEPT !.left = -1] ELSE b

Admitted(b) == IF b.left = 0 THEN [b EXCEPT !.left = -1, !.probing = TRUE] ELSE b

\* Faulty: the window grows past its maximum.
TripUncapped(b) ==
    LET n == IF b.trips < TripBound THEN b.trips + 1 ELSE TripBound
    IN  [b EXCEPT !.trips = n, !.probing = FALSE, !.left = n * OpenDuration]

Trip(b) ==
    LET n == IF b.trips < TripBound THEN b.trips + 1 ELSE TripBound
    IN  [b EXCEPT !.trips = n, !.probing = FALSE,
                  !.left = Geometric(n, BackoffBase, OpenDuration)]

TripRenewal(b) == [b EXCEPT !.left = OpenDuration, !.probing = FALSE]

RecordSuccess(b) == [b EXCEPT !.ever = TRUE, !.trips = 0, !.probing = FALSE]

RecordBenignMiss(b) == [b EXCEPT !.trips = 0, !.probing = FALSE]

\* Lane.classify and ClassifyOutcome compare with Musixmatch's sentinels: any
\* other provider's error is a transport failure to them.
Class(l, answer) ==
    IF answer \in Fault /\ l \notin sentinels THEN "transport" ELSE answer

\* What the lane does to its breaker when its provider answers.
Classified(b, answer) ==
    CASE answer \in Song -> RecordSuccess(b)
      [] answer = "renewal" -> TripRenewal(b)
      [] answer = "throttle" -> Trip(b)
      [] answer = "miss" -> RecordBenignMiss(b)
      [] answer \in {"transport", "canceled"} -> b

-----------------------------------------------------------------------------
(* Lane.FindLyrics, in a goroutine of its own in parallel mode             *)

\* The child context ends with its dispatch, or with the worker's.
Canceled(d) == down \/ cur.id # d \/ cur.pc \in {"idle", "polled"}

Allow(d, l) ==
    /\ job[d][l] = "start"
    /\ IF br[l].left > 0
       THEN /\ res' = [res EXCEPT ![d][l] = "unavailable"]
            /\ job' = [job EXCEPT ![d][l] = "send"]
            /\ UNCHANGED br
       ELSE /\ br' = [br EXCEPT ![l] = Admitted(@)]
            /\ job' = [job EXCEPT ![d][l] = "call"]
            /\ UNCHANGED res
    /\ UNCHANGED <<chan, cur, out, down, mode, sentinels>>

ProviderAnswers(d, l) ==
    /\ job[d][l] = "call"
    /\ \E answer \in Song \cup Fault \cup {"canceled"} :
         /\ answer = "canceled" => Canceled(d)
         /\ br' = [br EXCEPT ![l] = Classified(@, Class(l, answer))]
         /\ res' = [res EXCEPT ![d][l] = answer]
    /\ job' = [job EXCEPT ![d][l] = "send"]
    /\ UNCHANGED <<chan, cur, out, down, mode, sentinels>>

\* Faulty: one slot too few.
CapacityShort == Cardinality(Lane) - 1

\* The results channel is buffered to the number of lanes.
Capacity == Cardinality(Lane)

Send(d, l) ==
    /\ job[d][l] = "send"
    /\ Len(chan[d]) < Capacity
    /\ chan' = [chan EXCEPT ![d] = Append(@, l)]
    /\ job' = [job EXCEPT ![d][l] = "done"]
    /\ UNCHANGED <<br, res, cur, out, down, mode, sentinels>>

LaneStep(d, l) == Allow(d, l) \/ ProviderAnswers(d, l) \/ Send(d, l)

-----------------------------------------------------------------------------
(* The orchestrator                                                        *)

Quality(answer) ==
    CASE answer \in {"synced", "rejected"} -> 3
      [] answer = "unsynced" -> 2
      [] answer = "marker" -> 1

IsSuitable(answer) == answer \in {"synced", "unsynced"}

\* Faulty: a miss outranks what may pass.
PrecedenceSwapped(fault) == IF fault = "miss" THEN 3 ELSE 1

\* A canceled context outside the collector's own check counts as transport.
Precedence(fault) ==
    CASE fault = "miss" -> 1
      [] fault \in {"transport", "canceled"} -> 2
      [] fault \in {"throttle", "renewal"} -> 3

Retained(c, l) ==
    IF c.best = NoLane \/ Quality(res[c.id][l]) > Quality(res[c.id][c.best])
    THEN [c EXCEPT !.best = l] ELSE c

Ranked(c, fault) ==
    IF c.top = "none" \/ Precedence(fault) > Precedence(c.top)
    THEN [c EXCEPT !.top = fault] ELSE c

\* FindLyrics returns; attempts are the lanes recorded for the track.
Return(c, what, lane) ==
    /\ out' = [what |-> what, lane |-> lane, attempts |-> c.consulted]
    /\ cur' = Fresh(c.id)

\* Faulty: an error hides the song another lane had.
ResolveErrorFirst(c) ==
    IF c.top # "none" THEN Return(c, c.top, NoLane)
    ELSE IF c.best # NoLane THEN Return(c, res[c.id][c.best], c.best)
    ELSE Return(c, "unavailable", NoLane)

\* No suitable song: the best one, else the weightiest error, else nothing
\* was consulted.
Resolve(c) ==
    IF c.best # NoLane THEN Return(c, res[c.id][c.best], c.best)
    ELSE IF c.consulted = {}
    THEN Return(c, IF down THEN "canceled" ELSE "unavailable", NoLane)
    ELSE Return(c, c.top, NoLane)

\* RunOnce's gate: the lanes are asked in order until one is not open, and
\* asking starts that lane's probe; with every lane open the worker idles.
Poll ==
    /\ cur.pc = "idle" /\ cur.id < MaxDispatch /\ ~down
    /\ \E i \in 1 .. Cardinality(Lane) :
         /\ br[LaneOrder[i]].left <= 0
         /\ \A j \in 1 .. i - 1 : br[LaneOrder[j]].left > 0
         /\ br' = [br EXCEPT ![LaneOrder[i]] = Admitted(@)]
    /\ cur' = [cur EXCEPT !.pc = "polled"]
    /\ UNCHANGED <<job, res, chan, out, down, mode, sentinels>>

\* The queue is empty, or the cache has the song.
NoLookup ==
    /\ cur.pc = "polled"
    /\ cur' = [cur EXCEPT !.pc = "idle"]
    /\ UNCHANGED <<br, job, res, chan, out, down, mode, sentinels>>

BeginDispatch ==
    /\ cur.pc = "polled"
    /\ LET id == cur.id + 1
       IN  \/ /\ mode = "ordered"
              /\ cur' = [Fresh(id) EXCEPT !.pc = "next"]
              /\ UNCHANGED <<job, out>>
           \/ /\ mode = "parallel" /\ ~down
              /\ job' = [job EXCEPT ![id] = [l \in Lane |-> "start"]]
              /\ cur' = [Fresh(id) EXCEPT !.pc = "collect",
                                          !.pending = Cardinality(Lane)]
              /\ UNCHANGED out
           \/ /\ mode = "parallel" /\ down
              /\ Return(Fresh(id), "canceled", NoLane)
              /\ UNCHANGED job
    /\ UNCHANGED <<br, res, chan, down, mode, sentinels>>

\* findOrdered: the next lane in priority order, or the end of the list.
NextLane ==
    /\ cur.pc = "next"
    /\ IF cur.at = Cardinality(Lane)
       THEN Resolve(cur) /\ UNCHANGED job
       ELSE IF down
       THEN Return([cur EXCEPT !.consulted = {}], "canceled", NoLane) /\ UNCHANGED job
       ELSE /\ job' = [job EXCEPT ![cur.id][LaneOrder[cur.at + 1]] = "start"]
            /\ cur' = [cur EXCEPT !.at = cur.at + 1, !.pc = "collect"]
            /\ UNCHANGED out
    /\ UNCHANGED <<br, res, chan, down, mode, sentinels>>

\* The ordered loop takes the answer of the lane it called.
OrderedAnswer ==
    /\ mode = "ordered" /\ cur.pc = "collect" /\ chan[cur.id] # <<>>
    /\ LET l == Head(chan[cur.id])
           answer == res[cur.id][l]
           c == [cur EXCEPT !.pc = "next", !.consulted = @ \cup {l}]
       IN  \/ /\ answer = "unavailable"
              /\ cur' = [cur EXCEPT !.pc = "next"]
              /\ UNCHANGED out
           \/ /\ answer \in Song /\ IsSuitable(answer)
              /\ Return(c, answer, l)
           \/ /\ answer \in Song /\ ~IsSuitable(answer)
              /\ cur' = Retained(c, l)
              /\ UNCHANGED out
           \/ /\ answer \in Fault \cup {"canceled"}
              /\ cur' = Ranked(c, Class(l, answer))
              /\ UNCHANGED out
    /\ chan' = [chan EXCEPT ![cur.id] = Tail(@)]
    /\ UNCHANGED <<br, job, res, down, mode, sentinels>>

\* Faulty: open and canceled lanes count as consulted.
CollectedEverything(l) ==
    LET answer == res[cur.id][l]
        k == [cur EXCEPT !.pending = @ - 1, !.consulted = @ \cup {l}]
    IN  CASE answer \in {"canceled", "unavailable"} -> k
          [] IsSuitable(answer) -> [k EXCEPT !.held = l, !.armed = k.pending > 0]
          [] answer \in Song /\ ~IsSuitable(answer) -> Retained(k, l)
          [] answer \in Fault -> Ranked(k, Class(l, answer))

\* Faulty: an error is not an answer that was waited for.
CollectedSongsOnly(l) ==
    LET answer == res[cur.id][l]
        k == [cur EXCEPT !.pending = @ - 1, !.consulted = @ \cup {l}]
    IN  CASE answer \in Fault \cup {"canceled", "unavailable"} -> cur
          [] IsSuitable(answer) -> [k EXCEPT !.held = l, !.armed = k.pending > 0]
          [] answer \in Song /\ ~IsSuitable(answer) -> Retained(k, l)

\* What findParallel knows once the answer of lane l is taken in.
Collected(l) ==
    LET answer == res[cur.id][l]
        c == [cur EXCEPT !.pending = @ - 1]
        k == [c EXCEPT !.consulted = @ \cup {l}]
    IN  CASE answer \in {"canceled", "unavailable"} -> c
          [] IsSuitable(answer) ->
               [k EXCEPT !.held = IF @ = NoLane THEN l ELSE @,
                         !.armed = @ \/ k.pending > 0]
          [] answer \in Song /\ ~IsSuitable(answer) -> Retained(k, l)
          [] answer \in Fault -> Ranked(k, Class(l, answer))

\* findParallel takes the next answer: a synced song is returned at once,
\* otherwise the last answer decides.
ParallelAnswer ==
    /\ mode = "parallel" /\ cur.pc = "collect" /\ chan[cur.id] # <<>>
    /\ LET l == Head(chan[cur.id])
           c == Collected(l)
       IN  IF res[cur.id][l] = "synced" THEN Return(c, "synced", l)
           ELSE IF c.pending > 0 THEN cur' = c /\ UNCHANGED out
           ELSE IF down THEN Return([c EXCEPT !.consulted = {}], "canceled", NoLane)
           ELSE IF c.held # NoLane THEN Return(c, res[c.id][c.held], c.held)
           ELSE Resolve(c)
    /\ chan' = [chan EXCEPT ![cur.id] = Tail(@)]
    /\ UNCHANGED <<br, job, res, down, mode, sentinels>>

\* The upgrade window elapses.
UpgradeElapses ==
    /\ cur.pc = "collect" /\ cur.armed
    /\ IF down THEN Return([cur EXCEPT !.consulted = {}], "canceled", NoLane)
       ELSE Return(cur, res[cur.id][cur.held], cur.held)
    /\ UNCHANGED <<br, job, res, chan, down, mode, sentinels>>

\* The parallel collector sees the worker's context canceled.
ParentDone ==
    /\ mode = "parallel" /\ cur.pc = "collect" /\ down
    /\ Return([cur EXCEPT !.consulted = {}], "canceled", NoLane)
    /\ UNCHANGED <<br, job, res, chan, down, mode, sentinels>>

OrchestratorStep ==
    NextLane \/ OrderedAnswer \/ ParallelAnswer \/ UpgradeElapses \/ ParentDone

Shutdown ==
    /\ ~down
    /\ down' = TRUE
    /\ UNCHANGED <<br, job, res, chan, cur, out, mode, sentinels>>

Tick ==
    /\ \E l \in Lane : br[l].left > 0
    /\ br' = [l \in Lane |-> [br[l] EXCEPT !.left = IF @ > 0 THEN @ - 1 ELSE @]]
    /\ UNCHANGED <<job, res, chan, cur, out, down, mode, sentinels>>

Next ==
    \/ Poll \/ NoLookup \/ BeginDispatch \/ OrchestratorStep \/ Shutdown \/ Tick
    \/ \E d \in Id, l \in Lane : LaneStep(d, l)

Spec == Init /\ [][Next]_vars

\* Provider calls end (the HTTP clients have a timeout), goroutines and the
\* collector are scheduled.
Fairness ==
    /\ WF_vars(OrchestratorStep)
    /\ \A d \in Id, l \in Lane : WF_vars(LaneStep(d, l))

FairSpec == Spec /\ Fairness

-----------------------------------------------------------------------------
\* Type invariant of the dispatcher.
TypeOK ==
    /\ br \in [Lane -> Breaker]
    /\ job \in [Id -> [Lane -> JobPC]]
    /\ res \in [Id -> [Lane -> Answer \cup {"none"}]]
    /\ \A d \in Id : \A i \in 1 .. Len(chan[d]) : chan[d][i] \in Lane
    /\ cur \in Cursor
    /\ out \in Outcome
    /\ down \in BOOLEAN /\ mode \in Modes /\ sentinels \in Wirings

\* A throttled lane stays throttled until a round trip succeeds: as long as
\* its ramp is not reset its breaker is open or probing, and never both, also
\* when late answers of earlier dispatches arrive.
RampHeld ==
    \A l \in Lane :
        /\ br[l].trips > 0 => br[l].left >= 0 \/ br[l].probing
        /\ br[l].probing => br[l].left = -1

\* The answers the last dispatch had when it returned.
Known == {res[cur.id][l] : l \in out.attempts}

Returned == cur.pc = "idle" /\ out.what # "none"

\* A dispatch reports a miss only if every lane it consulted answered with
\* one, and "unavailable" only if it consulted none: a throttled, refused or
\* broken lane never turns into a miss.
MissIsUnanimous ==
    Returned =>
        /\ out.what = "miss" => Known = {"miss"}
        /\ out.what = "unavailable" =>
              \A l \in Lane : res[cur.id][l] = "unavailable"

\* A dispatch reports a miss whenever every lane it consulted found that the
\* track is not there.
MissReported == (Returned /\ Known = {"miss"}) => out.what = "miss"

\* The song returned is the best of what was collected: synced before held
\* unsynced before the best unsuitable one (a song in a rejected script before
\* a marker), and no error while there is any.
BestServed ==
    (Returned /\ out.what # "canceled") =>
        /\ "synced" \in Known => out.what = "synced"
        /\ (Known \cap {"synced", "unsynced"} # {}) => IsSuitable(out.what)
        /\ (Known \cap Song # {}) => out.what \in Song
        /\ "rejected" \in Known => out.what # "marker"

\* Attribution: only lanes whose provider was asked and answered are recorded,
\* the winner among them; a lane that was open, or that was canceled or still
\* under way when a race returned, is not.
AttemptsHonest ==
    Returned =>
        /\ \A l \in out.attempts :
              \/ res[cur.id][l] \in Song \cup Fault
              \/ res[cur.id][l] = "canceled" /\ mode = "ordered"
        /\ out.lane # NoLane => /\ out.lane \in out.attempts
                                /\ res[cur.id][out.lane] = out.what

\* Every dispatch returns: it is not under way for good.
DispatchEnds == []<>(cur.pc \notin {"next", "collect"})

\* No goroutine is leaked: every lane call that was started ends, also when
\* nobody reads its result any more (a call never goes back to "none").
NoGoroutineLeak ==
    <>[](\A d \in Id, l \in Lane : job[d][l] \in {"none", "done"})

=============================================================================
