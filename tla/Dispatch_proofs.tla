-------------------------- MODULE Dispatch_proofs --------------------------
(***************************************************************************)
(* Proofs about Dispatch, for every number of lanes and of dispatches: its *)
(* types, the breaker's ramp, what a dispatch may return, and that nothing *)
(* in it waits in vain or goes backwards.                                  *)
(***************************************************************************)
EXTENDS Dispatch, Backoff_proofs, FiniteSetTheorems

\* The number of lanes.
N == Cardinality(Lane)

\* The lanes are finitely many, and the order names only lanes.
LEMMA LanesCounted == N \in Nat /\ \A i \in 1 .. N : LaneOrder[i] \in Lane
  BY DispatchAssumption, FS_CardinalityType DEF N

\* No lane comes twice in the order.
LEMMA OrderInjective ==
    ASSUME NEW i \in 1 .. N, NEW j \in 1 .. N, LaneOrder[i] = LaneOrder[j]
    PROVE  i = j
<1>1. LaneOrder \in Surjection(1 .. N, Lane)
  BY DispatchAssumption DEF N, Surjection
<1>2. IsFiniteSet(1 .. N) /\ Cardinality(1 .. N) = N
  <2>1. 1 \in Int /\ N \in Int /\ N \in Nat
    BY LanesCounted
  <2>2. IsFiniteSet(1 .. N) /\ Cardinality(1 .. N) = IF 1 > N THEN 0 ELSE N - 1 + 1
    BY <2>1, FS_Interval
  <2> QED  BY <2>1, <2>2
<1>3. LaneOrder \in Injection(1 .. N, Lane)
  BY <1>1, <1>2, FS_SurjSameCardinalityImpliesInj, DispatchAssumption DEF N
<1> QED  BY <1>3 DEF Injection, IsInjective

-----------------------------------------------------------------------------
(* The breakers                                                            *)

BreakerOK(b) ==
    /\ b \in Breaker
    /\ b.trips > 0 => b.left >= 0 \/ b.probing
    /\ b.probing => b.left = -1

BreakersOK == br \in [Lane -> Breaker] /\ \A l \in Lane : BreakerOK(br[l])

\* A breaker is one again when a field of it gets a value of the field's type.
LEMMA SetField ==
    ASSUME NEW b \in Breaker
    PROVE  /\ \A x \in -1 .. OpenDuration : [b EXCEPT !.left = x] \in Breaker
           /\ \A x \in 0 .. TripBound : [b EXCEPT !.trips = x] \in Breaker
           /\ \A x \in BOOLEAN : [b EXCEPT !.probing = x] \in Breaker
           /\ \A x \in BOOLEAN : [b EXCEPT !.ever = x] \in Breaker
<1>1. \A x \in -1 .. OpenDuration : [b EXCEPT !.left = x] \in Breaker
  BY DEF Breaker
<1>2. \A x \in 0 .. TripBound : [b EXCEPT !.trips = x] \in Breaker
  BY DEF Breaker
<1>3. \A x \in BOOLEAN : [b EXCEPT !.probing = x] \in Breaker
  BY DEF Breaker
<1>4. \A x \in BOOLEAN : [b EXCEPT !.ever = x] \in Breaker
  BY DEF Breaker
<1> QED  BY <1>1, <1>2, <1>3, <1>4

\* A breaker that admits a call is probing or was closed.
LEMMA AdmittedOK ==
    ASSUME NEW b, BreakerOK(b), ~(b.left > 0) PROVE BreakerOK(Admitted(b))
<1>1. /\ b \in Breaker /\ b.left \in Int /\ b.trips \in Nat /\ OpenDuration \in Nat
  BY DispatchAssumption DEF BreakerOK, Breaker
<1>2. CASE b.left # 0
  BY <1>2 DEF Admitted
<1>3. CASE b.left = 0
  <2> DEFINE a == [b EXCEPT !.left = -1, !.probing = TRUE]
  <2>1. a.left = -1 /\ a.probing = TRUE
    BY <1>1 DEF Breaker
  <2>2. -1 \in -1 .. OpenDuration
    BY <1>1
  <2>3. [[b EXCEPT !.left = -1] EXCEPT !.probing = TRUE] \in Breaker
    BY <1>1, <2>2, SetField
  <2>4. a \in Breaker
    BY <2>3
  <2> HIDE DEF a
  <2> QED  BY <1>3, <2>1, <2>4 DEF Admitted, BreakerOK, a
<1> QED  BY <1>2, <1>3

\* What a late or a timely answer does to a breaker keeps the ramp.
LEMMA ClassifiedOK ==
    ASSUME NEW b, BreakerOK(b), NEW answer \in Song \cup Fault \cup {"canceled"}
    PROVE  BreakerOK(Classified(b, answer))
<1>1. /\ b \in Breaker /\ b.left \in Int /\ b.trips \in Nat /\ OpenDuration \in Nat \ {0}
      /\ TripBound \in Nat \ {0} /\ b.trips \in 0 .. TripBound /\ BackoffBase \in Nat \ {0}
  BY DispatchAssumption DEF BreakerOK, Breaker
<1>7. 0 \in 0 .. TripBound
  BY <1>1
<1>2. BreakerOK(RecordSuccess(b))
  <2> DEFINE a == [b EXCEPT !.ever = TRUE, !.trips = 0, !.probing = FALSE]
  <2>1. a.trips = 0 /\ a.probing = FALSE
    BY <1>1 DEF Breaker
  <2>2. [[[b EXCEPT !.ever = TRUE] EXCEPT !.trips = 0] EXCEPT !.probing = FALSE] \in Breaker
    BY <1>1, <1>7, SetField
  <2>3. a \in Breaker
    BY <2>2
  <2> HIDE DEF a
  <2> QED  BY <2>1, <2>3 DEF RecordSuccess, BreakerOK, a
<1>3. BreakerOK(RecordBenignMiss(b))
  <2> DEFINE a == [b EXCEPT !.trips = 0, !.probing = FALSE]
  <2>1. a.trips = 0 /\ a.probing = FALSE
    BY <1>1 DEF Breaker
  <2>2. [[b EXCEPT !.trips = 0] EXCEPT !.probing = FALSE] \in Breaker
    BY <1>1, <1>7, SetField
  <2>3. a \in Breaker
    BY <2>2
  <2> HIDE DEF a
  <2> QED  BY <2>1, <2>3 DEF RecordBenignMiss, BreakerOK, a
<1>4. BreakerOK(TripRenewal(b))
  <2> DEFINE a == [b EXCEPT !.left = OpenDuration, !.probing = FALSE]
  <2>1. a.left = OpenDuration /\ a.probing = FALSE /\ OpenDuration \in -1 .. OpenDuration
    BY <1>1 DEF Breaker
  <2>2. [[b EXCEPT !.left = OpenDuration] EXCEPT !.probing = FALSE] \in Breaker
    BY <1>1, <2>1, SetField
  <2>3. a \in Breaker
    BY <2>2
  <2> HIDE DEF a
  <2> QED  BY <1>1, <2>1, <2>3 DEF TripRenewal, BreakerOK, a
<1>5. BreakerOK(Trip(b))
  <2> DEFINE n == IF b.trips < TripBound THEN b.trips + 1 ELSE TripBound
             window == Geometric(n, BackoffBase, OpenDuration)
             a == [b EXCEPT !.trips = n, !.probing = FALSE, !.left = window]
  <2>1. n \in 0 .. TripBound /\ n \in Int
    BY <1>1
  <2>2. window \in 1 .. OpenDuration
    BY <1>1, <2>1, GeometricBounded
  <2> HIDE DEF n, window
  <2>3. a.left = window /\ a.probing = FALSE /\ window \in -1 .. OpenDuration
    BY <1>1, <2>2 DEF Breaker
  <2>4. [[[b EXCEPT !.trips = n] EXCEPT !.probing = FALSE] EXCEPT !.left = window] \in Breaker
    BY <1>1, <2>1, <2>3, SetField
  <2>5. a \in Breaker
    BY <2>4
  <2> HIDE DEF a
  <2>6. BreakerOK(a)
    BY <1>1, <2>2, <2>3, <2>5 DEF BreakerOK
  <2> QED  BY <2>6 DEF Trip, a, n, window
<1>6. BreakerOK(b) /\ Song \cap {"renewal", "throttle", "miss", "transport", "canceled"} = {}
  BY DEF Song
<1> QED  BY <1>2, <1>3, <1>4, <1>5, <1>6 DEF Classified, Song, Fault

\* Every step keeps the breakers in order.
LEMMA BreakersStep == BreakersOK /\ [Next]_vars => BreakersOK'
<1> SUFFICES ASSUME BreakersOK, [Next]_vars PROVE BreakersOK'
  OBVIOUS
<1>1. ASSUME NEW l \in Lane, NEW b, BreakerOK(b), br' = [br EXCEPT ![l] = b]
      PROVE  BreakersOK'
  BY <1>1 DEF BreakersOK, BreakerOK
<1>2. CASE br' = br
  BY <1>2 DEF BreakersOK
<1>3. CASE Poll
  <2>1. PICK i \in 1 .. N : /\ br[LaneOrder[i]].left <= 0
                            /\ br' = [br EXCEPT ![LaneOrder[i]] = Admitted(br[LaneOrder[i]])]
    BY <1>3 DEF Poll, N
  <2>2. LaneOrder[i] \in Lane
    BY LanesCounted
  <2>3. BreakerOK(br[LaneOrder[i]]) /\ ~(br[LaneOrder[i]].left > 0)
    BY <2>1, <2>2, DispatchAssumption DEF BreakersOK, Breaker
  <2> QED  BY <1>1, <2>1, <2>2, <2>3, AdmittedOK
<1>4. CASE Tick
  <2>1. ASSUME NEW l \in Lane PROVE BreakerOK(br'[l])
    <3> DEFINE b == br[l]
               a == [b EXCEPT !.left = IF b.left > 0 THEN b.left - 1 ELSE b.left]
    <3>1. /\ b \in Breaker /\ b.left \in Int /\ b.trips \in Nat /\ OpenDuration \in Nat
          /\ b.left \in -1 .. OpenDuration /\ BreakerOK(b)
      BY DispatchAssumption DEF BreakersOK, Breaker
    <3>2. br'[l] = a
      BY <1>4 DEF Tick
    <3> HIDE DEF b
    <3>3. /\ a \in Breaker /\ a.trips = b.trips /\ a.probing = b.probing
          /\ a.left = IF b.left > 0 THEN b.left - 1 ELSE b.left
      <4>1. (IF b.left > 0 THEN b.left - 1 ELSE b.left) \in -1 .. OpenDuration
        BY <3>1
      <4> QED  BY <3>1, <4>1 DEF Breaker
    <3> HIDE DEF a
    <3> QED  BY <3>1, <3>2, <3>3 DEF BreakerOK
  <2>2. br' = [l \in Lane |-> br'[l]]
    BY <1>4 DEF Tick
  <2> QED  BY <2>1, <2>2 DEF BreakersOK, BreakerOK
<1>5. ASSUME NEW d \in Id, NEW l \in Lane, Allow(d, l)
      PROVE  BreakersOK'
  <2>1. CASE br[l].left > 0
    BY <1>2, <1>5, <2>1 DEF Allow
  <2>2. CASE ~(br[l].left > 0)
    <3>1. br' = [br EXCEPT ![l] = Admitted(br[l])]
      BY <1>5, <2>2 DEF Allow
    <3> QED  BY <1>1, <2>2, <3>1, AdmittedOK DEF BreakersOK
  <2> QED  BY <2>1, <2>2
<1>6. ASSUME NEW d \in Id, NEW l \in Lane, ProviderAnswers(d, l)
      PROVE  BreakersOK'
  <2>1. PICK answer \in Song \cup Fault \cup {"canceled"} :
          br' = [br EXCEPT ![l] = Classified(br[l], Class(l, answer))]
    BY <1>6 DEF ProviderAnswers
  <2>2. Class(l, answer) \in Song \cup Fault \cup {"canceled"}
    BY DEF Class, Fault
  <2> QED  BY <1>1, <2>1, <2>2, ClassifiedOK DEF BreakersOK
<1>7. ASSUME \/ UNCHANGED vars \/ NoLookup \/ BeginDispatch \/ OrchestratorStep \/ Shutdown
             \/ \E d \in Id, l \in Lane : Send(d, l)
      PROVE  br' = br
  BY <1>7 DEF vars, NoLookup, BeginDispatch, OrchestratorStep, NextLane, OrderedAnswer,
              ParallelAnswer, UpgradeElapses, ParentDone, Shutdown, Send
<1> QED  BY <1>2, <1>3, <1>4, <1>5, <1>6, <1>7 DEF Next, LaneStep

\* All breakers start closed.
LEMMA BreakersInit == Init => BreakersOK
<1> SUFFICES ASSUME Init PROVE BreakersOK
  OBVIOUS
<1> DEFINE b == [left |-> -1, trips |-> 0, probing |-> FALSE, ever |-> FALSE]
<1>1. b \in Breaker /\ b.trips = 0 /\ ~b.probing
  BY DispatchAssumption DEF Breaker
<1>2. BreakerOK(b)
  BY <1>1 DEF BreakerOK
<1>3. br = [l \in Lane |-> b]
  BY DEF Init
<1> HIDE DEF b
<1> QED  BY <1>1, <1>2, <1>3 DEF BreakersOK

\* A throttled lane stays open or probing, and never both, until a round trip
\* succeeds (Breaker.Allow, Trip, RecordSuccess), also when answers of earlier
\* dispatches arrive late: for any lanes, windows and number of dispatches.
THEOREM RampTheorem == Spec => []RampHeld
<1>1. BreakersOK => RampHeld
  BY DEF BreakersOK, BreakerOK, RampHeld
<1> QED  BY <1>1, BreakersInit, BreakersStep, PTL DEF Spec

-----------------------------------------------------------------------------
(* What a dispatch knows                                                   *)

\* A lane was asked and answered; only the ordered loop counts a call that
\* was canceled.
Honest(d, l) ==
    \/ res[d][l] \in Song \cup Fault
    \/ res[d][l] = "canceled" /\ mode = "ordered"

Failure == Fault \cup {"canceled"}

\* What the collector of dispatch d may conclude from the lanes it consulted:
\* their calls are over, the song held back and the best unsuitable song are
\* theirs, the weightiest failure is that of one of them, and nothing better
\* was seen.
Knows(d, consulted, best, top, held) ==
    /\ \A l \in consulted :
         /\ l \in Lane /\ job[d][l] = "done" /\ Honest(d, l) /\ res[d][l] # "synced"
         /\ res[d][l] = "unsynced" => held # NoLane
         /\ res[d][l] = "marker" => best # NoLane
         /\ res[d][l] = "rejected" => best # NoLane /\ res[d][best] = "rejected"
         /\ res[d][l] \in Failure =>
              top # "none" /\ Precedence(top) >= Precedence(Class(l, res[d][l]))
    /\ held # NoLane => held \in consulted /\ res[d][held] = "unsynced"
    /\ best # NoLane => best \in consulted /\ res[d][best] \in {"rejected", "marker"}
    /\ top # "none" => \E l \in consulted :
                          res[d][l] \in Failure /\ top = Class(l, res[d][l])

\* What was returned is right about the answers of dispatch d, and these
\* answers are final.
ReturnOK(d, what, lane, asked) ==
    /\ \A l \in asked : l \in Lane /\ job[d][l] = "done" /\ Honest(d, l)
    /\ lane # NoLane => lane \in asked /\ res[d][lane] = what
    /\ what = "miss" => asked # {} /\ \A l \in asked : res[d][l] = "miss"
    /\ what = "unavailable" =>
         \A l \in Lane : job[d][l] = "done" /\ res[d][l] = "unavailable"
    /\ what # "canceled" => \A l \in asked :
         /\ res[d][l] = "synced" => what = "synced"
         /\ res[d][l] = "unsynced" => IsSuitable(what)
         /\ res[d][l] \in Song => what \in Song
         /\ res[d][l] = "rejected" => what # "marker"

\* The weights of the errors.
LEMMA Precedences ==
    /\ \A f \in Failure : Precedence(f) \in 1 .. 3 /\ (Precedence(f) <= 1 => f = "miss")
    /\ Precedence("miss") = 1
  BY DEF Precedence, Failure, Fault

\* What the lanes make of an answer.
LEMMA Classes ==
    ASSUME NEW l \in Lane, NEW answer \in Failure
    PROVE  Class(l, answer) \in Failure /\ (Class(l, answer) = "miss" => answer = "miss")
  BY DEF Class, Failure, Fault

\* A failure is taken in.
LEMMA KnowsFailure ==
    ASSUME NEW d, NEW C, NEW best, NEW top, NEW held, NEW l \in Lane,
           Knows(d, C, best, top, held),
           job[d][l] = "done", Honest(d, l), res[d][l] \in Failure, top \in Failure \cup {"none"}
    PROVE  LET fault == Class(l, res[d][l])
           IN  Knows(d, C \cup {l}, best,
                     IF top = "none" \/ Precedence(fault) > Precedence(top) THEN fault ELSE top, held)
<1> DEFINE fault == Class(l, res[d][l])
           heavy == IF top = "none" \/ Precedence(fault) > Precedence(top) THEN fault ELSE top
<1>1. fault \in Failure /\ Precedence(fault) \in Int /\ fault # "none"
  BY Classes, Precedences DEF Failure, Fault
<1>2. top # "none" => Precedence(top) \in Int
  BY Precedences
<1>3. /\ heavy # "none" /\ Precedence(heavy) \in Int /\ Precedence(heavy) >= Precedence(fault)
      /\ top # "none" => Precedence(heavy) >= Precedence(top)
      /\ heavy = fault \/ (heavy = top /\ top # "none")
  <2> HIDE DEF fault
  <2> QED  BY <1>1, <1>2
<1>4. res[d][l] \notin {"synced", "unsynced", "marker", "rejected"}
  BY DEF Failure, Fault
<1>5. ASSUME NEW m \in C, res[d][m] \in Failure
      PROVE  heavy # "none" /\ Precedence(heavy) >= Precedence(Class(m, res[d][m]))
  <2>1. /\ m \in Lane /\ top # "none" /\ Precedence(top) >= Precedence(Class(m, res[d][m]))
    BY <1>5 DEF Knows
  <2>2. Precedence(Class(m, res[d][m])) \in Int
    BY <1>5, <2>1, Classes, Precedences
  <2> HIDE DEF heavy
  <2> QED  BY <1>2, <1>3, <2>1, <2>2
<1>6. \E m \in C \cup {l} : res[d][m] \in Failure /\ heavy = Class(m, res[d][m])
  <2> HIDE DEF heavy
  <2>1. CASE heavy = fault
    BY <2>1
  <2>2. CASE heavy = top /\ top # "none"
    BY <2>2 DEF Knows
  <2> QED  BY <1>3, <2>1, <2>2
<1> HIDE DEF heavy
<1>7. Knows(d, C \cup {l}, best, heavy, held)
  <2>1. ASSUME NEW m \in C \cup {l}
        PROVE  /\ m \in Lane /\ job[d][m] = "done" /\ Honest(d, m) /\ res[d][m] # "synced"
               /\ res[d][m] = "unsynced" => held # NoLane
               /\ res[d][m] = "marker" => best # NoLane
               /\ res[d][m] = "rejected" => best # NoLane /\ res[d][best] = "rejected"
               /\ res[d][m] \in Failure =>
                    heavy # "none" /\ Precedence(heavy) >= Precedence(Class(m, res[d][m]))
    <3>1. CASE m = l
      BY <1>3, <1>4, <3>1
    <3>2. CASE m \in C
      BY <1>5, <3>2 DEF Knows
    <3> QED  BY <3>1, <3>2
  <2>2. held # NoLane => held \in C \cup {l} /\ res[d][held] = "unsynced"
    BY DEF Knows
  <2>3. best # NoLane => best \in C \cup {l} /\ res[d][best] \in {"rejected", "marker"}
    BY DEF Knows
  <2> HIDE DEF fault
  <2> QED  BY <1>6, <2>1, <2>2, <2>3 DEF Knows
<1> QED  BY <1>7 DEF heavy

\* An unsuitable song is taken in.
LEMMA KnowsUnsuitable ==
    ASSUME NEW d, NEW C, NEW best, NEW top, NEW held, NEW l \in Lane,
           Knows(d, C, best, top, held),
           job[d][l] = "done", res[d][l] \in {"rejected", "marker"}
    PROVE  Knows(d, C \cup {l},
                 IF best = NoLane \/ Quality(res[d][l]) > Quality(res[d][best]) THEN l ELSE best,
                 top, held)
<1> DEFINE good == IF best = NoLane \/ Quality(res[d][l]) > Quality(res[d][best]) THEN l ELSE best
<1>1. Quality("rejected") = 3 /\ Quality("marker") = 1
  BY DEF Quality
<1>2. l # NoLane
  BY DispatchAssumption
<1>3. good # NoLane /\ good \in C \cup {l} /\ res[d][good] \in {"rejected", "marker"}
  BY <1>2 DEF Knows
<1>4. res[d][l] = "rejected" => res[d][good] = "rejected"
  BY <1>1, <1>2 DEF Knows
<1>5. best # NoLane /\ res[d][best] = "rejected" => res[d][good] = "rejected"
  BY <1>1 DEF Knows
<1> HIDE DEF good
<1>6. Honest(d, l) /\ res[d][l] \notin Failure \cup {"synced", "unsynced"}
  BY DEF Honest, Song, Failure, Fault
<1>7. Knows(d, C \cup {l}, good, top, held)
  BY <1>2, <1>3, <1>4, <1>5, <1>6 DEF Knows
<1> QED  BY <1>7 DEF good

\* A song to hold back is taken in.
LEMMA KnowsHeld ==
    ASSUME NEW d, NEW C, NEW best, NEW top, NEW held, NEW l \in Lane,
           Knows(d, C, best, top, held), job[d][l] = "done", res[d][l] = "unsynced"
    PROVE  Knows(d, C \cup {l}, best, top, IF held = NoLane THEN l ELSE held)
<1>1. Honest(d, l) /\ res[d][l] \notin Failure \cup {"synced", "marker", "rejected"} /\ l # NoLane
  BY DispatchAssumption DEF Honest, Song, Failure, Fault
<1> QED  BY <1>1 DEF Knows

-----------------------------------------------------------------------------
(* What may be returned                                                    *)

\* A suitable song that was just taken in, when nothing synced was before.
LEMMA ReturnSong ==
    ASSUME NEW d, NEW C, NEW best, NEW top, NEW held, NEW l \in Lane,
           Knows(d, C, best, top, held), job[d][l] = "done",
           \/ res[d][l] = "synced"
           \/ res[d][l] = "unsynced"
    PROVE  ReturnOK(d, res[d][l], l, C \cup {l})
  BY DEF Knows, ReturnOK, Honest, IsSuitable, Song

\* A dispatch that returns the song it holds.
LEMMA ReturnHeld ==
    ASSUME NEW d, NEW C, NEW best, NEW top, NEW held, Knows(d, C, best, top, held),
           held # NoLane
    PROVE  ReturnOK(d, res[d][held], held, C)
  BY DEF Knows, ReturnOK, IsSuitable, Song

\* A dispatch that returns because it was canceled.
LEMMA ReturnCanceled ==
    ASSUME NEW d PROVE ReturnOK(d, "canceled", NoLane, {})
  BY DEF ReturnOK

\* What Resolve answers.
LEMMA ReturnResolved ==
    ASSUME NEW d, NEW C, NEW best, NEW top, Knows(d, C, best, top, NoLane),
           top \in Failure \cup {"none"},
           C = {} /\ ~down => \A l \in Lane : job[d][l] = "done" /\ res[d][l] = "unavailable"
    PROVE  /\ best # NoLane => ReturnOK(d, res[d][best], best, C) /\ res[d][best] \in Answer
           /\ best = NoLane /\ C = {} =>
                ReturnOK(d, IF down THEN "canceled" ELSE "unavailable", NoLane, C)
           /\ best = NoLane /\ C # {} => ReturnOK(d, top, NoLane, C) /\ top \in Answer
<1>1. ASSUME best # NoLane
      PROVE  ReturnOK(d, res[d][best], best, C) /\ res[d][best] \in Answer
  BY <1>1 DEF Knows, ReturnOK, IsSuitable, Song, Answer, Failure, Fault
<1>2. ASSUME best = NoLane, C = {}
      PROVE  ReturnOK(d, IF down THEN "canceled" ELSE "unavailable", NoLane, C)
  <2>1. CASE down
    BY <1>2, <2>1, ReturnCanceled
  <2>2. CASE ~down
    BY <1>2, <2>2 DEF ReturnOK
  <2> QED  BY <2>1, <2>2
<1>3. ASSUME best = NoLane, C # {}
      PROVE  ReturnOK(d, top, NoLane, C) /\ top \in Answer
  <2>1. ASSUME NEW l \in C PROVE l \in Lane /\ res[d][l] \in Failure /\ res[d][l] \notin Song
    BY <1>3 DEF Knows, Honest, Song, Failure, Fault
  <2>2. top # "none" /\ top \in Failure
    BY <1>3, <2>1 DEF Knows
  <2>3. ASSUME top = "miss", NEW l \in C PROVE res[d][l] = "miss"
    <3>1. Precedence(top) >= Precedence(Class(l, res[d][l])) /\ Precedence(top) = 1
      BY <2>1, <2>3, Precedences DEF Knows
    <3>2. Class(l, res[d][l]) \in Failure /\ Precedence(Class(l, res[d][l])) \in Int
      BY <2>1, Classes, Precedences
    <3>3. Precedence(Class(l, res[d][l])) <= 1
      BY <3>1, <3>2
    <3> QED  BY <2>1, <3>2, <3>3, Classes, Precedences
  <2>4. top \in Answer /\ top # "unavailable"
    BY <2>2 DEF Answer, Failure, Fault
  <2>5. \A l \in C : l \in Lane /\ job[d][l] = "done" /\ Honest(d, l)
    BY DEF Knows
  <2>6. \A l \in C : res[d][l] \notin {"synced", "unsynced", "rejected"}
    BY <2>1 DEF Song
  <2> QED  BY <1>3, <2>1, <2>3, <2>4, <2>5, <2>6 DEF ReturnOK
<1> QED  BY <1>1, <1>2, <1>3

-----------------------------------------------------------------------------
(* The invariant                                                           *)

\* The calls: one that is over has its answer, the channel holds calls that
\* are over, and a dispatch that has not begun has none.
CallsOK ==
    /\ job \in [Id -> [Lane -> JobPC]]
    /\ res \in [Id -> [Lane -> Answer \cup {"none"}]]
    /\ chan \in [Id -> Seq(Lane)]
    /\ \A d \in Id, l \in Lane : job[d][l] \in {"send", "done"} => res[d][l] \in Answer
    /\ \A d \in Id : \A i \in 1 .. Len(chan[d]) : job[d][chan[d][i]] = "done"
    /\ \A d \in Id : d > cur.id =>
         chan[d] = <<>> /\ \A l \in Lane : job[d][l] = "none" /\ res[d][l] = "none"

CursorOK ==
    /\ cur \in Cursor /\ out \in Outcome
    /\ down \in BOOLEAN /\ mode \in Modes /\ sentinels \in Wirings
    /\ cur.pc = "polled" => cur.id < MaxDispatch

Active == cur.pc \in {"next", "collect"}

\* The lanes of a dispatch that have not sent their answer yet.
Busy(d) == {l \in Lane : job[d][l] # "done"}

Waiting(d, l) == \E i \in 1 .. Len(chan[d]) : chan[d][i] = l

\* The race: pending counts the answers still to come, so when it reaches zero
\* every lane was consulted, or was open or canceled.
RaceOK ==
    /\ cur.pc = "collect"
    /\ cur.pending = Cardinality(Busy(cur.id)) + Len(chan[cur.id])
    /\ \A l \in Lane : \/ l \in Busy(cur.id) \/ Waiting(cur.id, l)
                       \/ l \in cur.consulted
                       \/ res[cur.id][l] \in {"unavailable", "canceled"}
    /\ cur.armed => cur.held # NoLane

\* The ordered loop: the lanes before its position are dealt with, those after
\* it were not called, and the channel holds at most the answer of the lane
\* at its position.
LoopOK ==
    /\ cur.held = NoLane /\ ~cur.armed
    /\ cur.pc = "next" => chan[cur.id] = <<>>
    /\ cur.pc = "collect" =>
         cur.at >= 1 /\ \/ chan[cur.id] = <<>>
                        \/ chan[cur.id] = <<LaneOrder[cur.at]>>
    /\ \A i \in 1 .. N : i > cur.at => job[cur.id][LaneOrder[i]] = "none"
    /\ \A i \in 1 .. N : i < cur.at \/ (i = cur.at /\ cur.pc = "next") =>
         /\ job[cur.id][LaneOrder[i]] = "done"
         /\ \/ LaneOrder[i] \in cur.consulted
            \/ res[cur.id][LaneOrder[i]] = "unavailable"

DispatchOK ==
    Active =>
        /\ cur.id \in Id
        /\ Knows(cur.id, cur.consulted, cur.best, cur.top, cur.held)
        /\ \A l \in Lane : res[cur.id][l] = "canceled" => down
        /\ mode = "parallel" => RaceOK
        /\ mode = "ordered" => LoopOK

ReturnedOK ==
    ~Active /\ out.what # "none" =>
        cur.id \in Id /\ ReturnOK(cur.id, out.what, out.lane, out.attempts)

DispatchInv == CallsOK /\ CursorOK /\ DispatchOK /\ ReturnedOK

-----------------------------------------------------------------------------
(* The steps of the lanes                                                  *)

\* What a lane's step does: its own call moves on, and ends in the channel.
LaneMoves(d, l, to, answer) ==
    /\ \A e \in Id, m \in Lane :
         /\ job'[e][m] = IF e = d /\ m = l THEN to ELSE job[e][m]
         /\ res'[e][m] = IF e = d /\ m = l THEN answer ELSE res[e][m]
    /\ to = "call" => answer = res[d][l] /\ chan' = chan
    /\ to = "send" => answer \in Answer /\ (answer = "canceled" => Canceled(d)) /\ chan' = chan
    /\ to = "done" => /\ answer = res[d][l] /\ job[d][l] = "send"
                      /\ chan' = [chan EXCEPT ![d] = Append(chan[d], l)]

\* What a step of a lane changes.
LEMMA LaneEffect ==
    ASSUME CallsOK, NEW d \in Id, NEW l \in Lane, LaneStep(d, l)
    PROVE  /\ job[d][l] \in {"start", "call", "send"}
           /\ UNCHANGED <<cur, out, down, mode, sentinels>>
           /\ job' \in [Id -> [Lane -> JobPC]]
           /\ res' \in [Id -> [Lane -> Answer \cup {"none"}]]
           /\ \E to \in {"call", "send", "done"}, answer \in Answer \cup {"none"} :
                LaneMoves(d, l, to, answer)
<1> USE DEF CallsOK, LaneMoves
<1>1. CASE Allow(d, l)
  <2>1. CASE br[l].left > 0
    <3>1. /\ res' = [res EXCEPT ![d][l] = "unavailable"] /\ job' = [job EXCEPT ![d][l] = "send"]
          /\ chan' = chan /\ job[d][l] = "start" /\ UNCHANGED <<cur, out, down, mode, sentinels>>
      BY <1>1, <2>1 DEF Allow
    <3>2. job' \in [Id -> [Lane -> JobPC]] /\ res' \in [Id -> [Lane -> Answer \cup {"none"}]]
      BY <3>1 DEF JobPC, Answer
    <3>3. "unavailable" \in Answer /\ LaneMoves(d, l, "send", "unavailable")
      BY <3>1 DEF Answer
    <3> HIDE DEF LaneMoves
    <3> QED  BY <3>1, <3>2, <3>3
  <2>2. CASE ~(br[l].left > 0)
    <3>1. /\ res' = res /\ job' = [job EXCEPT ![d][l] = "call"]
          /\ chan' = chan /\ job[d][l] = "start" /\ UNCHANGED <<cur, out, down, mode, sentinels>>
      BY <1>1, <2>2 DEF Allow
    <3>2. job' \in [Id -> [Lane -> JobPC]] /\ res' \in [Id -> [Lane -> Answer \cup {"none"}]]
      BY <3>1 DEF JobPC
    <3>3. res[d][l] \in Answer \cup {"none"} /\ LaneMoves(d, l, "call", res[d][l])
      BY <3>1
    <3> QED  BY <3>1, <3>2, <3>3
  <2> QED  BY <2>1, <2>2
<1>2. CASE ProviderAnswers(d, l)
  <2>1. PICK answer \in Song \cup Fault \cup {"canceled"} :
          /\ answer = "canceled" => Canceled(d)
          /\ res' = [res EXCEPT ![d][l] = answer]
    BY <1>2 DEF ProviderAnswers
  <2>2. /\ job' = [job EXCEPT ![d][l] = "send"]
        /\ chan' = chan /\ job[d][l] = "call" /\ UNCHANGED <<cur, out, down, mode, sentinels>>
    BY <1>2 DEF ProviderAnswers
  <2>3. answer \in Answer
    BY DEF Answer
  <2>4. job' \in [Id -> [Lane -> JobPC]] /\ res' \in [Id -> [Lane -> Answer \cup {"none"}]]
    BY <2>1, <2>2, <2>3 DEF JobPC
  <2>5. LaneMoves(d, l, "send", answer)
    BY <2>1, <2>2, <2>3
  <2> QED  BY <2>2, <2>3, <2>4, <2>5
<1>3. CASE Send(d, l)
  <2>1. /\ job' = [job EXCEPT ![d][l] = "done"] /\ res' = res
        /\ chan' = [chan EXCEPT ![d] = Append(chan[d], l)] /\ job[d][l] = "send"
        /\ UNCHANGED <<cur, out, down, mode, sentinels>>
    BY <1>3 DEF Send
  <2>2. job' \in [Id -> [Lane -> JobPC]] /\ res' \in [Id -> [Lane -> Answer \cup {"none"}]]
    BY <2>1 DEF JobPC
  <2>3. res[d][l] \in Answer \cup {"none"} /\ LaneMoves(d, l, "done", res[d][l])
    BY <2>1
  <2> QED  BY <2>1, <2>2, <2>3
<1> QED  BY <1>1, <1>2, <1>3 DEF LaneStep

\* A channel after a send.
LEMMA Appended ==
    ASSUME NEW s \in Seq(Lane), NEW l \in Lane
    PROVE  /\ Append(s, l) \in Seq(Lane) /\ Len(Append(s, l)) = Len(s) + 1
           /\ \A i \in 1 .. Len(s) : Append(s, l)[i] = s[i]
           /\ Append(s, l)[Len(s) + 1] = l
           /\ \A i \in 1 .. Len(s) + 1 : i \in 1 .. Len(s) \/ i = Len(s) + 1
  OBVIOUS

\* A channel after a receive.
LEMMA Taken ==
    ASSUME NEW s \in Seq(Lane), s # <<>>
    PROVE  /\ Head(s) \in Lane /\ Tail(s) \in Seq(Lane) /\ Len(s) \in Nat \ {0}
           /\ Len(Tail(s)) = Len(s) - 1 /\ Head(s) = s[1]
           /\ \A i \in 1 .. Len(Tail(s)) : Tail(s)[i] = s[i + 1] /\ i + 1 \in 1 .. Len(s)
  OBVIOUS

\* The calls stay in order.
LEMMA LaneKeepsCalls ==
    ASSUME DispatchInv, NEW d \in Id, NEW l \in Lane, LaneStep(d, l)
    PROVE  CallsOK'
<1>1. CallsOK /\ cur.id \in Nat /\ cur' = cur
  BY LaneEffect DEF DispatchInv, CursorOK, Cursor
<1>2. PICK to \in {"call", "send", "done"}, answer \in Answer \cup {"none"} :
        LaneMoves(d, l, to, answer)
  BY <1>1, LaneEffect
<1>3. /\ job' \in [Id -> [Lane -> JobPC]] /\ res' \in [Id -> [Lane -> Answer \cup {"none"}]]
      /\ job[d][l] \in {"start", "call", "send"}
  BY <1>1, LaneEffect
<1>4. /\ chan' \in [Id -> Seq(Lane)]
      /\ \A e \in Id \ {d} : chan'[e] = chan[e]
      /\ chan'[d] = chan[d] \/ (to = "done" /\ chan'[d] = Append(chan[d], l))
  <2>1. chan \in [Id -> Seq(Lane)] /\ Append(chan[d], l) \in Seq(Lane)
    BY <1>1, Appended DEF CallsOK
  <2> QED  BY <1>2, <2>1 DEF LaneMoves
<1>5. \A e \in Id, m \in Lane : job'[e][m] \in {"send", "done"} => res'[e][m] \in Answer
  BY <1>1, <1>2 DEF LaneMoves, CallsOK
<1>6. ASSUME NEW e \in Id, NEW i \in 1 .. Len(chan'[e])
      PROVE  job'[e][chan'[e][i]] = "done"
  <2>1. ASSUME NEW m \in Lane, job[e][m] = "done" PROVE job'[e][m] = "done"
    BY <1>2, <1>3, <2>1 DEF LaneMoves
  <2>2. ASSUME NEW j \in 1 .. Len(chan[e])
        PROVE  chan[e][j] \in Lane /\ job[e][chan[e][j]] = "done"
    BY <1>1 DEF CallsOK
  <2>3. CASE chan'[e] = chan[e]
    BY <2>1, <2>2, <2>3
  <2>4. CASE e = d /\ to = "done" /\ chan'[d] = Append(chan[d], l)
    <3>1. job'[d][l] = "done"
      BY <1>2, <2>4 DEF LaneMoves
    <3>2. chan[d] \in Seq(Lane)
      BY <1>1 DEF CallsOK
    <3>3. \/ i \in 1 .. Len(chan[d]) /\ chan'[d][i] = chan[d][i]
          \/ chan'[d][i] = l
      BY <2>4, <3>2, Appended
    <3> QED  BY <2>1, <2>2, <2>4, <3>1, <3>3
  <2> QED  BY <1>4, <2>3, <2>4
<1>7. ASSUME NEW e \in Id, e > cur.id
      PROVE  chan'[e] = <<>> /\ \A m \in Lane : job'[e][m] = "none" /\ res'[e][m] = "none"
  <2>1. e # d
    BY <1>1, <1>3, <1>7 DEF CallsOK
  <2> QED  BY <1>1, <1>2, <1>4, <1>7, <2>1 DEF CallsOK, LaneMoves
<1> QED  BY <1>1, <1>3, <1>4, <1>5, <1>6, <1>7 DEF CallsOK

\* What was returned stays right: the calls it is about are over.
LEMMA LaneKeepsReturned ==
    ASSUME DispatchInv, NEW d \in Id, NEW l \in Lane, LaneStep(d, l)
    PROVE  ReturnedOK'
<1>1. CallsOK /\ UNCHANGED <<cur, out, mode, sentinels>> /\ job[d][l] # "done"
  BY LaneEffect DEF DispatchInv
<1>2. PICK to \in {"call", "send", "done"}, answer \in Answer \cup {"none"} :
        LaneMoves(d, l, to, answer)
  BY <1>1, LaneEffect
<1>3. ASSUME NEW e \in Id, NEW m \in Lane, job[e][m] = "done"
      PROVE  job'[e][m] = "done" /\ res'[e][m] = res[e][m]
  BY <1>1, <1>2, <1>3 DEF LaneMoves
<1>4. ASSUME ~Active, out.what # "none"
      PROVE  cur.id \in Id /\ ReturnOK(cur.id, out.what, out.lane, out.attempts)'
  <2>1. cur.id \in Id /\ ReturnOK(cur.id, out.what, out.lane, out.attempts)
    BY <1>4 DEF DispatchInv, ReturnedOK
  <2>2. \A m \in out.attempts : m \in Lane /\ job[cur.id][m] = "done"
    BY <2>1 DEF ReturnOK
  <2>3. \A m \in out.attempts : /\ job'[cur.id][m] = "done" /\ res'[cur.id][m] = res[cur.id][m]
                                /\ (Honest(cur.id, m) => Honest(cur.id, m)')
    BY <1>1, <1>3, <2>1, <2>2 DEF Honest
  <2>4. out.what = "unavailable" =>
          \A m \in Lane : job'[cur.id][m] = "done" /\ res'[cur.id][m] = "unavailable"
    BY <1>3, <2>1 DEF ReturnOK
  <2> QED  BY <1>1, <2>1, <2>2, <2>3, <2>4 DEF ReturnOK
<1> QED  BY <1>1, <1>4 DEF ReturnedOK, Active

\* The dispatch under way keeps what it knows and counts.
LEMMA LaneKeepsDispatch ==
    ASSUME DispatchInv, NEW d \in Id, NEW l \in Lane, LaneStep(d, l)
    PROVE  DispatchOK'
<1>1. /\ CallsOK /\ UNCHANGED <<cur, out, down, mode, sentinels>>
      /\ job[d][l] \in {"start", "call", "send"} /\ cur \in Cursor
  BY LaneEffect DEF DispatchInv, CursorOK
<1>2. PICK to \in {"call", "send", "done"}, answer \in Answer \cup {"none"} :
        LaneMoves(d, l, to, answer)
  BY <1>1, LaneEffect
<1>3. ASSUME NEW e \in Id, NEW m \in Lane, job[e][m] = "done"
      PROVE  job'[e][m] = "done" /\ res'[e][m] = res[e][m]
  BY <1>1, <1>2, <1>3 DEF LaneMoves
<1> SUFFICES ASSUME Active
             PROVE  /\ cur.id \in Id
                    /\ Knows(cur.id, cur.consulted, cur.best, cur.top, cur.held)'
                    /\ \A m \in Lane : res'[cur.id][m] = "canceled" => down
                    /\ mode = "parallel" => RaceOK'
                    /\ mode = "ordered" => LoopOK'
  BY <1>1 DEF DispatchOK, Active
<1>4. /\ cur.id \in Id /\ Knows(cur.id, cur.consulted, cur.best, cur.top, cur.held)
      /\ \A m \in Lane : res[cur.id][m] = "canceled" => down
      /\ mode = "parallel" => RaceOK
      /\ mode = "ordered" => LoopOK
  BY DEF DispatchInv, DispatchOK
<1>5. Knows(cur.id, cur.consulted, cur.best, cur.top, cur.held)'
  <2>1. \A m \in cur.consulted :
          /\ m \in Lane /\ job'[cur.id][m] = "done" /\ res'[cur.id][m] = res[cur.id][m]
          /\ Honest(cur.id, m)' /\ Class(m, res[cur.id][m])' = Class(m, res[cur.id][m])
    BY <1>1, <1>3, <1>4 DEF Knows, Honest, Class
  <2>2. /\ cur.held # NoLane => cur.held \in cur.consulted
        /\ cur.best # NoLane => cur.best \in cur.consulted
    BY <1>4 DEF Knows
  <2> QED  BY <1>1, <1>4, <2>1, <2>2 DEF Knows, Class
<1>6. \A m \in Lane : res'[cur.id][m] = "canceled" => down
  BY <1>2, <1>4 DEF LaneMoves, Canceled, Active
<1>7. ASSUME mode = "parallel" PROVE RaceOK'
  <2>1. RaceOK
    BY <1>4, <1>7
  <2>2. /\ chan \in [Id -> Seq(Lane)] /\ chan[cur.id] \in Seq(Lane) /\ IsFiniteSet(Busy(cur.id))
    <3>1. Busy(cur.id) \subseteq Lane
      BY DEF Busy
    <3> QED  BY <1>1, <1>4, <3>1, FS_Subset, DispatchAssumption DEF CallsOK
  <2>3. CASE d # cur.id \/ to # "done"
    <3>1. chan'[cur.id] = chan[cur.id]
      BY <1>2, <1>4, <2>2, <2>3 DEF LaneMoves
    <3>2. Busy(cur.id)' = Busy(cur.id)
      <4>1. \A m \in Lane : job'[cur.id][m] = "done" <=> job[cur.id][m] = "done"
        BY <1>1, <1>2, <1>4, <2>3 DEF LaneMoves
      <4> QED  BY <1>1, <4>1 DEF Busy
    <3>3. ASSUME NEW m \in Lane
          PROVE  \/ m \in Busy(cur.id) \/ Waiting(cur.id, m)' \/ m \in cur.consulted
                 \/ res'[cur.id][m] \in {"unavailable", "canceled"}
      <4>1. CASE job[cur.id][m] # "done"
        BY <4>1 DEF Busy
      <4>2. CASE job[cur.id][m] = "done"
        BY <1>1, <1>3, <1>4, <2>1, <3>1, <4>2 DEF RaceOK, Waiting, Busy
      <4> QED  BY <4>1, <4>2
    <3> QED  BY <1>1, <2>1, <3>1, <3>2, <3>3 DEF RaceOK
  <2>4. CASE d = cur.id /\ to = "done"
    <3>1. chan'[cur.id] = Append(chan[cur.id], l)
      BY <1>2, <2>2, <2>4 DEF LaneMoves
    <3>2. Busy(cur.id)' = Busy(cur.id) \ {l} /\ l \in Busy(cur.id)
      BY <1>1, <1>2, <2>4 DEF LaneMoves, Busy
    <3>3. Cardinality(Busy(cur.id)') = Cardinality(Busy(cur.id)) - 1
      <4>1. Cardinality(Busy(cur.id) \ {l}) = Cardinality(Busy(cur.id)) - 1
        BY <2>2, <3>2, FS_RemoveElement, Zenon
      <4> QED  BY <3>2, <4>1, Zenon
    <3>4. Len(chan'[cur.id]) = Len(chan[cur.id]) + 1 /\ Len(chan[cur.id]) \in Nat
      BY <2>2, <3>1, Appended
    <3>5. Cardinality(Busy(cur.id)) \in Nat
      BY <2>2, FS_CardinalityType
    <3>6. cur'.pending = Cardinality(Busy(cur.id)') + Len(chan'[cur.id])
      <4>1. cur.pending = Cardinality(Busy(cur.id)) + Len(chan[cur.id])
        BY <2>1 DEF RaceOK
      <4> QED  BY <1>1, <3>3, <3>4, <3>5, <4>1
    <3>7. ASSUME NEW m \in Lane
          PROVE  \/ m \in Busy(cur.id)' \/ Waiting(cur.id, m)' \/ m \in cur.consulted
                 \/ res'[cur.id][m] \in {"unavailable", "canceled"}
      <4>1. CASE m = l
        <5>1. Len(chan[cur.id]) + 1 \in 1 .. Len(chan'[cur.id])
              /\ chan'[cur.id][Len(chan[cur.id]) + 1] = l
          BY <2>2, <3>1, <3>4, Appended
        <5> QED  BY <1>1, <4>1, <5>1 DEF Waiting
      <4>2. CASE m # l /\ m \in Busy(cur.id)
        BY <3>2, <4>2
      <4>3. CASE Waiting(cur.id, m)
        <5>1. PICK i \in 1 .. Len(chan[cur.id]) : chan[cur.id][i] = m
          BY <4>3 DEF Waiting
        <5>2. i \in 1 .. Len(chan'[cur.id]) /\ chan'[cur.id][i] = m
          BY <2>2, <3>1, <3>4, <5>1, Appended
        <5> QED  BY <1>1, <5>2 DEF Waiting
      <4>4. CASE m # l /\ job[cur.id][m] = "done" /\ res[cur.id][m] \in {"unavailable", "canceled"}
        BY <1>3, <1>4, <4>4
      <4> QED  BY <2>1, <4>1, <4>2, <4>3, <4>4 DEF RaceOK, Busy
    <3> QED  BY <1>1, <2>1, <3>6, <3>7 DEF RaceOK
  <2> QED  BY <2>3, <2>4
<1>8. ASSUME mode = "ordered" PROVE LoopOK'
  <2>1. LoopOK /\ N \in Nat /\ cur.at \in 0 .. N
    BY <1>1, <1>4, <1>8, LanesCounted DEF Cursor, N
  <2>2. chan \in [Id -> Seq(Lane)]
    BY <1>1 DEF CallsOK
  <2>3. CASE d # cur.id
    <3>1. /\ chan'[cur.id] = chan[cur.id]
          /\ \A m \in Lane : job'[cur.id][m] = job[cur.id][m] /\ res'[cur.id][m] = res[cur.id][m]
      BY <1>2, <1>4, <2>2, <2>3 DEF LaneMoves
    <3> QED  BY <1>1, <2>1, <3>1, LanesCounted DEF LoopOK
  <2>4. CASE d = cur.id
    <3>1. cur.at \in 1 .. N /\ l = LaneOrder[cur.at] /\ cur.pc = "collect"
      <4>1. PICK i \in 1 .. N : l = LaneOrder[i]
        BY DispatchAssumption DEF N
      <4>2. ~(i > cur.at) /\ ~(i < cur.at \/ (i = cur.at /\ cur.pc = "next"))
        BY <1>1, <2>1, <2>4, <4>1 DEF LoopOK
      <4>3. i = cur.at /\ cur.pc # "next"
        BY <2>1, <4>2
      <4> QED  BY <4>1, <4>3 DEF Active
    <3>2. chan'[cur.id] = <<>> \/ chan'[cur.id] = <<LaneOrder[cur.at]>>
      <4>1. chan[cur.id] = <<>>
        <5>1. chan[cur.id] = <<>> \/ chan[cur.id] = <<LaneOrder[cur.at]>>
          BY <2>1, <3>1 DEF LoopOK
        <5>2. ASSUME chan[cur.id] = <<LaneOrder[cur.at]>> PROVE FALSE
          <6>1. 1 \in 1 .. Len(chan[cur.id]) /\ chan[cur.id][1] = l
            BY <3>1, <5>2
          <6>2. job[cur.id][l] = "done"
            BY <1>1, <1>4, <6>1 DEF CallsOK
          <6> QED  BY <1>1, <2>4, <6>2
        <5> QED  BY <5>1, <5>2
      <4>2. Append(<<>>, l) = <<l>>
        OBVIOUS
      <4> QED  BY <1>2, <1>4, <2>2, <2>4, <3>1, <4>1, <4>2 DEF LaneMoves
    <3>3. ASSUME NEW i \in 1 .. N, i > cur.at \/ i < cur.at
          PROVE  /\ job'[cur.id][LaneOrder[i]] = job[cur.id][LaneOrder[i]]
                 /\ res'[cur.id][LaneOrder[i]] = res[cur.id][LaneOrder[i]]
      <4>1. LaneOrder[i] \in Lane /\ LaneOrder[i] # l
        <5>1. i # cur.at
          BY <2>1, <3>3
        <5> QED  BY <3>1, <5>1, LanesCounted, OrderInjective
      <4> QED  BY <1>2, <1>4, <4>1 DEF LaneMoves
    <3> QED  BY <1>1, <2>1, <3>1, <3>2, <3>3 DEF LoopOK
  <2> QED  BY <2>3, <2>4
<1> QED  BY <1>4, <1>5, <1>6, <1>7, <1>8

\* A step of a lane keeps what is known of the collector.
LEMMA LaneKeeps ==
    ASSUME DispatchInv, NEW d \in Id, NEW l \in Lane, LaneStep(d, l)
    PROVE  DispatchInv'
<1>1. CursorOK'
  BY LaneEffect DEF DispatchInv, CursorOK
<1> QED  BY <1>1, LaneKeepsCalls, LaneKeepsReturned, LaneKeepsDispatch DEF DispatchInv

-----------------------------------------------------------------------------
(* The steps of the orchestrator                                           *)

CursorPC == {"idle", "polled", "next", "collect"}

\* A cursor is one again when a field of it gets a value of the field's type,
\* and its other fields stay.
LEMMA SetCursor ==
    ASSUME NEW c \in Cursor
    PROVE  /\ \A x \in CursorPC : [c EXCEPT !.pc = x] \in Cursor
           /\ \A x \in 0 .. Cardinality(Lane) : [c EXCEPT !.at = x] \in Cursor
           /\ \A x \in 0 .. Cardinality(Lane) : [c EXCEPT !.pending = x] \in Cursor
           /\ \A x \in SUBSET Lane : [c EXCEPT !.consulted = x] \in Cursor
           /\ \A x \in Lane \cup {NoLane} : [c EXCEPT !.best = x] \in Cursor
           /\ \A x \in Failure \cup {"none"} : [c EXCEPT !.top = x] \in Cursor
           /\ \A x \in Lane \cup {NoLane} : [c EXCEPT !.held = x] \in Cursor
           /\ \A x \in BOOLEAN : [c EXCEPT !.armed = x] \in Cursor
<1>1. \A x \in CursorPC : [c EXCEPT !.pc = x] \in Cursor
  BY DEF Cursor, CursorPC
<1>2. \A x \in 0 .. Cardinality(Lane) : [c EXCEPT !.at = x] \in Cursor
  BY DEF Cursor
<1>3. \A x \in 0 .. Cardinality(Lane) : [c EXCEPT !.pending = x] \in Cursor
  BY DEF Cursor
<1>4. \A x \in SUBSET Lane : [c EXCEPT !.consulted = x] \in Cursor
  BY DEF Cursor
<1>5. \A x \in Lane \cup {NoLane} : [c EXCEPT !.best = x] \in Cursor
  BY DEF Cursor
<1>6. \A x \in Failure \cup {"none"} : [c EXCEPT !.top = x] \in Cursor
  BY DEF Cursor, Failure
<1>7. \A x \in Lane \cup {NoLane} : [c EXCEPT !.held = x] \in Cursor
  BY DEF Cursor
<1>8. \A x \in BOOLEAN : [c EXCEPT !.armed = x] \in Cursor
  BY DEF Cursor
<1> QED  BY <1>1, <1>2, <1>3, <1>4, <1>5, <1>6, <1>7, <1>8

\* The cursor of a new dispatch is well typed.
LEMMA FreshType ==
    ASSUME NEW d \in 0 .. MaxDispatch
    PROVE  /\ Fresh(d) \in Cursor /\ Fresh(d).id = d /\ Fresh(d).pc = "idle"
           /\ Fresh(d).at = 0 /\ Fresh(d).consulted = {} /\ Fresh(d).best = NoLane
           /\ Fresh(d).top = "none" /\ Fresh(d).held = NoLane /\ Fresh(d).armed = FALSE
<1>1. Cardinality(Lane) \in Nat
  BY LanesCounted DEF N
<1>2. 0 \in 0 .. Cardinality(Lane)
  BY <1>1
<1>3. Fresh(d) \in Cursor
  BY <1>2 DEF Fresh, Cursor
<1> QED  BY <1>3 DEF Fresh

\* The best unsuitable song is updated, the rest of the cursor stays.
LEMMA RetainedFields ==
    ASSUME NEW c \in Cursor, NEW l \in Lane
    PROVE  LET k == Retained(c, l)
           IN  /\ k \in Cursor /\ k.id = c.id /\ k.pc = c.pc /\ k.at = c.at
               /\ k.pending = c.pending /\ k.consulted = c.consulted /\ k.top = c.top
               /\ k.held = c.held /\ k.armed = c.armed
               /\ k.best = IF c.best = NoLane \/ Quality(res[c.id][l]) > Quality(res[c.id][c.best])
                           THEN l ELSE c.best
<1>1. CASE c.best = NoLane \/ Quality(res[c.id][l]) > Quality(res[c.id][c.best])
  <2>1. [c EXCEPT !.best = l] \in Cursor
    BY SetCursor
  <2>2. Retained(c, l) = [c EXCEPT !.best = l]
    BY <1>1 DEF Retained
  <2> QED  BY <1>1, <2>1, <2>2 DEF Cursor
<1>2. CASE ~(c.best = NoLane \/ Quality(res[c.id][l]) > Quality(res[c.id][c.best]))
  BY <1>2 DEF Retained
<1> QED  BY <1>1, <1>2

\* Ranking an error changes the top error only.
LEMMA RankedFields ==
    ASSUME NEW c \in Cursor, NEW fault \in Failure
    PROVE  LET k == Ranked(c, fault)
           IN  /\ k \in Cursor /\ k.id = c.id /\ k.pc = c.pc /\ k.at = c.at
               /\ k.pending = c.pending /\ k.consulted = c.consulted /\ k.best = c.best
               /\ k.held = c.held /\ k.armed = c.armed
               /\ k.top = IF c.top = "none" \/ Precedence(fault) > Precedence(c.top)
                          THEN fault ELSE c.top
<1>1. CASE c.top = "none" \/ Precedence(fault) > Precedence(c.top)
  <2>1. [c EXCEPT !.top = fault] \in Cursor
    BY SetCursor
  <2>2. Ranked(c, fault) = [c EXCEPT !.top = fault]
    BY <1>1 DEF Ranked
  <2> QED  BY <1>1, <2>1, <2>2 DEF Cursor
<1>2. CASE ~(c.top = "none" \/ Precedence(fault) > Precedence(c.top))
  BY <1>2 DEF Ranked
<1> QED  BY <1>1, <1>2

\* An answer leaves the channel, or nothing moves at all.
LEMMA CallsStay ==
    ASSUME DispatchInv, UNCHANGED <<job, res>>, cur'.id \in 0 .. MaxDispatch, cur'.id >= cur.id,
           \/ chan' = chan
           \/ /\ cur.id \in Id /\ chan[cur.id] # <<>>
              /\ chan' = [chan EXCEPT ![cur.id] = Tail(chan[cur.id])]
    PROVE  CallsOK'
<1>1. CallsOK /\ cur.id \in Nat /\ cur'.id \in Nat /\ MaxDispatch \in Nat
  BY DispatchAssumption DEF DispatchInv, CursorOK, Cursor
<1>2. ASSUME NEW d \in Id, d > cur'.id PROVE d > cur.id
  BY <1>1, <1>2 DEF Id
<1>3. CASE chan' = chan
  BY <1>1, <1>2, <1>3 DEF CallsOK
<1>4. CASE /\ cur.id \in Id /\ chan[cur.id] # <<>>
           /\ chan' = [chan EXCEPT ![cur.id] = Tail(chan[cur.id])]
  <2> DEFINE s == chan[cur.id]
  <2>1. s \in Seq(Lane) /\ s # <<>> /\ chan \in [Id -> Seq(Lane)]
    BY <1>1, <1>4 DEF CallsOK
  <2>2. /\ Tail(s) \in Seq(Lane)
        /\ \A i \in 1 .. Len(Tail(s)) : Tail(s)[i] = s[i + 1] /\ i + 1 \in 1 .. Len(s)
    BY <2>1, Taken
  <2>3. chan' \in [Id -> Seq(Lane)] /\ chan'[cur.id] = Tail(s)
        /\ \A d \in Id \ {cur.id} : chan'[d] = chan[d]
    BY <1>4, <2>1, <2>2
  <2>4. ASSUME NEW d \in Id, NEW i \in 1 .. Len(chan'[d]) PROVE job[d][chan'[d][i]] = "done"
    <3>1. CASE d = cur.id
      <4>1. i \in 1 .. Len(Tail(s)) /\ chan'[d][i] = s[i + 1] /\ i + 1 \in 1 .. Len(s)
        BY <2>2, <2>3, <2>4, <3>1
      <4> QED  BY <1>1, <1>4, <3>1, <4>1 DEF CallsOK
    <3>2. CASE d # cur.id
      BY <1>1, <2>3, <2>4, <3>2 DEF CallsOK
    <3> QED  BY <3>1, <3>2
  <2>5. ASSUME NEW d \in Id, d > cur'.id PROVE chan'[d] = <<>>
    <3>1. d > cur.id /\ d # cur.id
      BY <1>1, <1>2, <2>5 DEF Id
    <3> QED  BY <1>1, <2>3, <3>1 DEF CallsOK
  <2> QED  BY <1>1, <1>2, <2>3, <2>4, <2>5 DEF CallsOK
<1> QED  BY <1>3, <1>4

\* The dispatch returns.
LEMMA ReturnStep ==
    ASSUME DispatchInv, CallsOK', NEW d \in Id, NEW what \in Answer,
           NEW lane \in Lane \cup {NoLane}, NEW asked \in SUBSET Lane,
           out' = [what |-> what, lane |-> lane, attempts |-> asked], cur' = Fresh(d),
           ReturnOK(d, what, lane, asked), UNCHANGED <<job, res, down, mode, sentinels>>
    PROVE  DispatchInv'
<1>1. d \in 0 .. MaxDispatch
  BY DispatchAssumption DEF Id
<1>2. cur' \in Cursor /\ cur'.id = d /\ cur'.pc = "idle"
  BY <1>1, FreshType
<1>3. /\ out' \in Outcome /\ out'.what = what /\ out'.lane = lane /\ out'.attempts = asked
  BY DEF Outcome
<1>4. CursorOK'
  BY <1>2, <1>3 DEF DispatchInv, CursorOK
<1>5. ReturnOK(d, what, lane, asked)'
  BY DEF ReturnOK, Honest
<1>6. ReturnedOK'
  BY <1>2, <1>3, <1>5 DEF ReturnedOK
<1> QED  BY <1>2, <1>4, <1>6 DEF DispatchInv, DispatchOK, Active

\* The dispatch under way returns, with or without taking an answer.
LEMMA ReturnKeeps ==
    ASSUME DispatchInv, Active, NEW c, c.id = cur.id, c.consulted \in SUBSET Lane,
           NEW what \in Answer, NEW lane \in Lane \cup {NoLane}, Return(c, what, lane),
           ReturnOK(cur.id, what, lane, c.consulted), UNCHANGED <<job, res, down, mode, sentinels>>,
           \/ chan' = chan
           \/ /\ chan[cur.id] # <<>>
              /\ chan' = [chan EXCEPT ![cur.id] = Tail(chan[cur.id])]
    PROVE  DispatchInv'
<1>1. cur.id \in Id /\ cur.id \in 0 .. MaxDispatch /\ cur.id \in Nat
  BY DispatchAssumption DEF DispatchInv, DispatchOK, CursorOK, Cursor
<1>2. /\ out' = [what |-> what, lane |-> lane, attempts |-> c.consulted]
      /\ cur' = Fresh(cur.id)
  BY DEF Return
<1>3. cur'.id = cur.id
  BY <1>1, <1>2, FreshType
<1>4. cur'.id \in 0 .. MaxDispatch /\ cur'.id >= cur.id
  BY <1>1, <1>3
<1>5. CallsOK'
  BY <1>1, <1>4, CallsStay
<1> QED  BY <1>1, <1>2, <1>5, ReturnStep

\* What is known does not depend on the channel or on the cursor.
LEMMA KnowsStays ==
    ASSUME NEW d, NEW C, NEW best, NEW top, NEW held, Knows(d, C, best, top, held),
           UNCHANGED <<job, res, mode, sentinels>>
    PROVE  Knows(d, C, best, top, held)'
  BY DEF Knows, Honest, Class

\* The ordered loop goes on with the next lane.
LEMMA LoopGoesOn ==
    ASSUME DispatchInv, mode = "ordered", cur.pc = "collect", chan[cur.id] # <<>>,
           NEW k \in Cursor, cur' = k, k.id = cur.id, k.pc = "next", k.at = cur.at,
           k.held = cur.held, k.armed = cur.armed, cur.consulted \subseteq k.consulted,
           \/ Head(chan[cur.id]) \in k.consulted
           \/ res[cur.id][Head(chan[cur.id])] = "unavailable",
           Knows(cur.id, k.consulted, k.best, k.top, k.held),
           chan' = [chan EXCEPT ![cur.id] = Tail(chan[cur.id])],
           UNCHANGED <<job, res, out, down, mode, sentinels>>
    PROVE  DispatchInv'
<1>1. /\ cur.id \in Id /\ cur.id \in Nat /\ cur \in Cursor /\ CallsOK /\ LoopOK
      /\ \A l \in Lane : res[cur.id][l] = "canceled" => down
  BY DEF DispatchInv, CursorOK, Cursor, DispatchOK, Active
<1>2. CallsOK'
  <2>1. cur'.id \in 0 .. MaxDispatch /\ cur'.id >= cur.id
    BY <1>1 DEF Cursor
  <2> QED  BY <1>1, <2>1, CallsStay
<1>3. CursorOK'
  BY DEF DispatchInv, CursorOK
<1>4. cur.at \in 1 .. N /\ N \in Nat /\ chan[cur.id] = <<LaneOrder[cur.at]>>
  BY <1>1, LanesCounted DEF LoopOK, Cursor, N
<1>5. Head(chan[cur.id]) = LaneOrder[cur.at] /\ Tail(chan[cur.id]) = <<>>
      /\ job[cur.id][LaneOrder[cur.at]] = "done"
  <2>1. 1 \in 1 .. Len(chan[cur.id]) /\ chan[cur.id][1] = LaneOrder[cur.at]
    BY <1>4
  <2>2. job[cur.id][LaneOrder[cur.at]] = "done"
    BY <1>1, <2>1 DEF CallsOK
  <2> QED  BY <1>4, <2>2
<1>6. chan'[cur.id] = <<>>
  BY <1>1, <1>5 DEF CallsOK
<1>7. LoopOK'
  <2>1. \A i \in 1 .. N : i > cur.at => job[cur.id][LaneOrder[i]] = "none"
    BY <1>1 DEF LoopOK
  <2>2. ASSUME NEW i \in 1 .. N, i < cur.at \/ i = cur.at
        PROVE  /\ job[cur.id][LaneOrder[i]] = "done"
               /\ LaneOrder[i] \in k.consulted \/ res[cur.id][LaneOrder[i]] = "unavailable"
    <3>1. CASE i = cur.at
      BY <1>5, <3>1
    <3>2. CASE i < cur.at
      BY <1>1, <3>2 DEF LoopOK
    <3> QED  BY <2>2, <3>1, <3>2
  <2>3. cur'.held = NoLane /\ ~cur'.armed
    BY <1>1 DEF LoopOK
  <2> QED  BY <1>6, <2>1, <2>2, <2>3 DEF LoopOK
<1>8. Knows(cur.id, cur.consulted, cur.best, cur.top, cur.held)'
  BY KnowsStays
<1>9. DispatchOK'
  BY <1>1, <1>7, <1>8 DEF DispatchOK
<1>10. ReturnedOK'
  BY DEF ReturnedOK, Active
<1> QED  BY <1>2, <1>3, <1>9, <1>10 DEF DispatchInv

\* The ordered loop takes an answer.
LEMMA OrderedKeeps == ASSUME DispatchInv, OrderedAnswer PROVE DispatchInv'
<1> DEFINE l == Head(chan[cur.id])
           answer == res[cur.id][l]
           c == [cur EXCEPT !.pc = "next", !.consulted = cur.consulted \cup {l}]
<1>1. /\ mode = "ordered" /\ cur.pc = "collect" /\ chan[cur.id] # <<>>
      /\ chan' = [chan EXCEPT ![cur.id] = Tail(chan[cur.id])]
      /\ UNCHANGED <<br, job, res, down, mode, sentinels>>
  BY DEF OrderedAnswer
<1>2. /\ cur.id \in Id /\ cur \in Cursor /\ CallsOK /\ LoopOK /\ cur.id \in Nat
      /\ Knows(cur.id, cur.consulted, cur.best, cur.top, cur.held)
  BY <1>1 DEF DispatchInv, CursorOK, DispatchOK, Active, Cursor
<1>3. l \in Lane /\ job[cur.id][l] = "done" /\ answer \in Answer
  <2>1. chan[cur.id] \in Seq(Lane)
    BY <1>2 DEF CallsOK
  <2>2. l \in Lane /\ l = chan[cur.id][1] /\ 1 \in 1 .. Len(chan[cur.id])
    BY <1>1, <2>1, Taken
  <2> QED  BY <1>2, <2>2 DEF CallsOK
<1> HIDE DEF l
<1>4. /\ c \in Cursor /\ c.id = cur.id /\ c.pc = "next" /\ c.at = cur.at /\ c.pending = cur.pending
      /\ c.consulted = cur.consulted \cup {l} /\ c.best = cur.best /\ c.top = cur.top
      /\ c.held = cur.held /\ c.armed = cur.armed
  <2>1. cur.consulted \cup {l} \in SUBSET Lane
    BY <1>2, <1>3 DEF Cursor
  <2>2. [[cur EXCEPT !.pc = "next"] EXCEPT !.consulted = cur.consulted \cup {l}] \in Cursor
    BY <1>2, <2>1, SetCursor DEF CursorPC
  <2>3. c \in Cursor
    BY <2>2
  <2> QED  BY <1>2, <2>3 DEF Cursor
<1> HIDE DEF c
<1>5. CASE answer = "unavailable" /\ cur' = [cur EXCEPT !.pc = "next"] /\ UNCHANGED out
  <2> DEFINE k == [cur EXCEPT !.pc = "next"]
  <2>1. /\ k \in Cursor /\ k.id = cur.id /\ k.pc = "next" /\ k.at = cur.at
        /\ k.consulted = cur.consulted /\ k.best = cur.best /\ k.top = cur.top
        /\ k.held = cur.held /\ k.armed = cur.armed
    <3>1. "next" \in CursorPC
      BY DEF CursorPC
    <3>2. k \in Cursor
      BY <1>2, <3>1, SetCursor
    <3> QED  BY <1>2, <3>2 DEF Cursor
  <2> HIDE DEF k
  <2> QED  BY <1>1, <1>2, <1>5, <2>1, LoopGoesOn DEF l, k
<1>6. CASE answer \in Song /\ IsSuitable(answer) /\ Return(c, answer, l)
  <2>1. answer = "synced" \/ answer = "unsynced"
    BY <1>6 DEF IsSuitable
  <2>2. ReturnOK(cur.id, answer, l, c.consulted) /\ c.consulted \in SUBSET Lane
    <3>1. c.consulted \in SUBSET Lane
      BY <1>4 DEF Cursor
    <3>2. ReturnOK(cur.id, answer, l, cur.consulted \cup {l})
      BY <1>2, <1>3, <2>1, ReturnSong
    <3> QED  BY <1>4, <3>1, <3>2
  <2> HIDE DEF answer
  <2> QED  BY <1>1, <1>2, <1>3, <1>4, <1>6, <2>2, ReturnKeeps DEF Active
<1>7. CASE answer \in Song /\ ~IsSuitable(answer) /\ cur' = Retained(c, l) /\ UNCHANGED out
  <2> DEFINE k == Retained(c, l)
  <2>1. answer \in {"rejected", "marker"}
    BY <1>7 DEF IsSuitable, Song
  <2>2. /\ k \in Cursor /\ k.id = cur.id /\ k.pc = "next" /\ k.at = cur.at
        /\ k.consulted = cur.consulted \cup {l} /\ k.top = cur.top
        /\ k.held = cur.held /\ k.armed = cur.armed
        /\ k.best = IF cur.best = NoLane \/ Quality(res[cur.id][l]) > Quality(res[cur.id][cur.best])
                    THEN l ELSE cur.best
    BY <1>3, <1>4, RetainedFields
  <2>3. Knows(cur.id, k.consulted, k.best, k.top, k.held)
    <3> HIDE DEF k
    <3> QED  BY <1>2, <1>3, <2>1, <2>2, KnowsUnsuitable
  <2> HIDE DEF k
  <2> QED  BY <1>1, <1>2, <1>7, <2>2, <2>3, LoopGoesOn DEF l, k
<1>8. CASE answer \in Fault \cup {"canceled"} /\ cur' = Ranked(c, Class(l, answer)) /\ UNCHANGED out
  <2> DEFINE k == Ranked(c, Class(l, answer))
  <2>1. answer \in Failure /\ Class(l, answer) \in Failure /\ cur.top \in Failure \cup {"none"}
    BY <1>2, <1>3, <1>8, Classes DEF Failure, Cursor
  <2>2. /\ k \in Cursor /\ k.id = cur.id /\ k.pc = "next" /\ k.at = cur.at
        /\ k.consulted = cur.consulted \cup {l} /\ k.best = cur.best
        /\ k.held = cur.held /\ k.armed = cur.armed
        /\ k.top = IF cur.top = "none" \/ Precedence(Class(l, answer)) > Precedence(cur.top)
                   THEN Class(l, answer) ELSE cur.top
    BY <1>3, <1>4, <2>1, RankedFields
  <2>3. Honest(cur.id, l)
    BY <1>1, <1>8 DEF Honest
  <2>4. Knows(cur.id, k.consulted, k.best, k.top, k.held)
    <3> HIDE DEF k
    <3> QED  BY <1>2, <1>3, <2>1, <2>2, <2>3, KnowsFailure
  <2> HIDE DEF k
  <2> QED  BY <1>1, <1>2, <1>8, <2>2, <2>4, LoopGoesOn DEF l, k
<1> QED  BY <1>5, <1>6, <1>7, <1>8 DEF OrderedAnswer, l, c

-----------------------------------------------------------------------------
\* What the race knows once the answer of a lane is taken in.
LEMMA CollectedFields ==
    ASSUME DispatchInv, Active, mode = "parallel", cur.pending >= 1,
           NEW l \in Lane, job[cur.id][l] = "done"
    PROVE  LET c == Collected(l)
               answer == res[cur.id][l]
           IN  /\ c \in Cursor /\ c.id = cur.id /\ c.pc = cur.pc /\ c.pending = cur.pending - 1
               /\ cur.consulted \subseteq c.consulted
               /\ l \in c.consulted \/ answer \in {"canceled", "unavailable"}
               /\ answer = "synced" => c.consulted = cur.consulted \cup {l}
               /\ answer # "synced" =>
                    /\ Knows(cur.id, c.consulted, c.best, c.top, c.held)
                    /\ c.armed => c.held # NoLane
<1> DEFINE answer == res[cur.id][l]
           c == [cur EXCEPT !.pending = cur.pending - 1]
           k == [c EXCEPT !.consulted = cur.consulted \cup {l}]
<1>1. /\ cur \in Cursor /\ cur.id \in Id /\ answer \in Answer
      /\ Knows(cur.id, cur.consulted, cur.best, cur.top, cur.held)
      /\ cur.armed => cur.held # NoLane
  BY DEF DispatchInv, CursorOK, DispatchOK, RaceOK, CallsOK
<1>2. cur.pending - 1 \in 0 .. Cardinality(Lane)
  <2>1. cur.pending \in 0 .. Cardinality(Lane) /\ Cardinality(Lane) \in Nat
    BY <1>1, LanesCounted DEF Cursor, N
  <2> QED  BY <2>1
<1>3. /\ c \in Cursor /\ c.id = cur.id /\ c.pc = cur.pc /\ c.pending = cur.pending - 1
      /\ c.at = cur.at /\ c.consulted = cur.consulted /\ c.best = cur.best /\ c.top = cur.top
      /\ c.held = cur.held /\ c.armed = cur.armed
  <2>1. c \in Cursor
    BY <1>1, <1>2, SetCursor
  <2> QED  BY <1>1, <2>1 DEF Cursor
<1> HIDE DEF c
<1>4. /\ k \in Cursor /\ k.id = cur.id /\ k.pc = cur.pc /\ k.pending = cur.pending - 1
      /\ k.at = cur.at /\ k.consulted = cur.consulted \cup {l} /\ k.best = cur.best
      /\ k.top = cur.top /\ k.held = cur.held /\ k.armed = cur.armed
  <2>1. cur.consulted \cup {l} \in SUBSET Lane
    BY <1>1 DEF Cursor
  <2>2. k \in Cursor
    BY <1>3, <2>1, SetCursor
  <2> QED  BY <1>3, <2>2 DEF Cursor
<1>5. Collected(l) =
        CASE answer \in {"canceled", "unavailable"} -> c
          [] IsSuitable(answer) -> [k EXCEPT !.held = IF k.held = NoLane THEN l ELSE k.held,
                                             !.armed = k.armed \/ k.pending > 0]
          [] answer \in Song /\ ~IsSuitable(answer) -> Retained(k, l)
          [] answer \in Fault -> Ranked(k, Class(l, answer))
  BY <1>3 DEF Collected, c
<1> HIDE DEF k, answer
<1>6. CASE answer \in {"canceled", "unavailable"}
  <2>1. Collected(l) = c /\ answer # "synced"
    BY <1>5, <1>6 DEF IsSuitable, Song, Fault
  <2> QED  BY <1>1, <1>3, <1>6, <2>1 DEF answer
<1>7. CASE IsSuitable(answer)
  <2> DEFINE h == IF k.held = NoLane THEN l ELSE k.held
             a == k.armed \/ k.pending > 0
             m == [[k EXCEPT !.held = h] EXCEPT !.armed = a]
  <2>1. Collected(l) = m /\ answer \in {"synced", "unsynced"}
    BY <1>5, <1>7 DEF IsSuitable, Song, Fault
  <2>2. h \in Lane \cup {NoLane} /\ h # NoLane /\ a \in BOOLEAN
    BY <1>1, <1>4, DispatchAssumption DEF Cursor
  <2> HIDE DEF h, a
  <2>3. [k EXCEPT !.held = h] \in Cursor
    BY <1>4, <2>2, SetCursor
  <2>4. m \in Cursor
    BY <2>2, <2>3, SetCursor
  <2>5. /\ m.id = k.id /\ m.pc = k.pc /\ m.pending = k.pending /\ m.consulted = k.consulted
        /\ m.best = k.best /\ m.top = k.top /\ m.held = h
    BY <1>4, <2>3, <2>4 DEF Cursor
  <2> HIDE DEF m
  <2>6. ASSUME answer = "unsynced"
        PROVE  Knows(cur.id, m.consulted, m.best, m.top, m.held)
    <3>1. Knows(cur.id, cur.consulted \cup {l}, cur.best, cur.top,
                IF cur.held = NoLane THEN l ELSE cur.held)
      BY <1>1, <2>6, KnowsHeld DEF answer
    <3>2. /\ m.consulted = cur.consulted \cup {l} /\ m.best = cur.best /\ m.top = cur.top
          /\ m.held = IF cur.held = NoLane THEN l ELSE cur.held
      BY <1>4, <2>5 DEF h
    <3> QED  BY <3>1, <3>2
  <2> QED  BY <1>4, <2>1, <2>2, <2>4, <2>5, <2>6 DEF answer
<1>8. CASE answer \in Song /\ ~IsSuitable(answer)
  <2>1. Collected(l) = Retained(k, l) /\ answer \in {"rejected", "marker"}
    BY <1>5, <1>8 DEF IsSuitable, Song, Fault
  <2> DEFINE m == Retained(k, l)
  <2>2. /\ m \in Cursor /\ m.id = cur.id /\ m.pc = cur.pc /\ m.pending = cur.pending - 1
        /\ m.consulted = cur.consulted \cup {l} /\ m.top = cur.top
        /\ m.held = cur.held /\ m.armed = cur.armed
        /\ m.best = IF cur.best = NoLane \/ Quality(answer) > Quality(res[cur.id][cur.best])
                    THEN l ELSE cur.best
    BY <1>4, RetainedFields DEF answer
  <2> HIDE DEF m
  <2>3. Knows(cur.id, m.consulted, m.best, m.top, m.held)
    BY <1>1, <2>1, <2>2, KnowsUnsuitable DEF answer
  <2>4. Collected(l) = m /\ answer # "synced"
    BY <2>1 DEF m
  <2> QED  BY <1>1, <2>2, <2>3, <2>4 DEF answer
<1>9. CASE answer \in Fault
  <2>1. Collected(l) = Ranked(k, Class(l, answer)) /\ answer # "synced"
    BY <1>5, <1>9 DEF IsSuitable, Song, Fault
  <2> DEFINE m == Ranked(k, Class(l, answer))
  <2>2. /\ answer \in Failure /\ Class(l, answer) \in Failure /\ Honest(cur.id, l)
        /\ cur.top \in Failure \cup {"none"}
    BY <1>1, <1>9, Classes DEF Failure, Honest, Cursor, answer
  <2>3. /\ m \in Cursor /\ m.id = cur.id /\ m.pc = cur.pc /\ m.pending = cur.pending - 1
        /\ m.consulted = cur.consulted \cup {l} /\ m.best = cur.best
        /\ m.held = cur.held /\ m.armed = cur.armed
        /\ m.top = IF cur.top = "none" \/ Precedence(Class(l, answer)) > Precedence(cur.top)
                   THEN Class(l, answer) ELSE cur.top
    <3> DEFINE fault == Class(l, answer)
    <3>1. fault \in Failure
      BY <2>2
    <3> HIDE DEF fault
    <3>2. LET n == Ranked(k, fault)
          IN  /\ n \in Cursor /\ n.id = k.id /\ n.pc = k.pc /\ n.pending = k.pending
              /\ n.consulted = k.consulted /\ n.best = k.best
              /\ n.held = k.held /\ n.armed = k.armed
              /\ n.top = IF k.top = "none" \/ Precedence(fault) > Precedence(k.top)
                         THEN fault ELSE k.top
      BY <1>4, <3>1, RankedFields
    <3> QED  BY <1>4, <3>2 DEF fault
  <2> HIDE DEF m
  <2>4. Knows(cur.id, m.consulted, m.best, m.top, m.held)
    BY <1>1, <2>2, <2>3, KnowsFailure DEF answer
  <2>5. Collected(l) = m
    BY <2>1 DEF m
  <2> QED  BY <1>1, <2>1, <2>3, <2>4, <2>5 DEF answer
<1>10. answer \in Song \cup Fault \cup {"canceled", "unavailable"}
  BY <1>1 DEF Answer
<1> QED  BY <1>6, <1>7, <1>8, <1>9, <1>10

\* The race takes an answer.
LEMMA ParallelKeeps == ASSUME DispatchInv, ParallelAnswer PROVE DispatchInv'
<1> DEFINE l == Head(chan[cur.id])
           c == Collected(l)
<1>1. /\ mode = "parallel" /\ cur.pc = "collect" /\ chan[cur.id] # <<>> /\ Active
      /\ chan' = [chan EXCEPT ![cur.id] = Tail(chan[cur.id])]
      /\ UNCHANGED <<br, job, res, down, mode, sentinels>>
  BY DEF ParallelAnswer, Active
<1>2. /\ cur.id \in Id /\ cur \in Cursor /\ CallsOK /\ RaceOK /\ cur.id \in Nat
      /\ Knows(cur.id, cur.consulted, cur.best, cur.top, cur.held)
      /\ \A m \in Lane : res[cur.id][m] = "canceled" => down
      /\ mode # "ordered" /\ chan[cur.id] \in Seq(Lane) /\ chan \in [Id -> Seq(Lane)]
  BY <1>1 DEF DispatchInv, CursorOK, DispatchOK, Active, Cursor, CallsOK
<1>3. /\ l \in Lane /\ l = chan[cur.id][1] /\ 1 \in 1 .. Len(chan[cur.id])
      /\ Len(Tail(chan[cur.id])) = Len(chan[cur.id]) - 1 /\ Len(chan[cur.id]) \in Nat \ {0}
      /\ chan'[cur.id] = Tail(chan[cur.id])
  BY <1>1, <1>2, Taken
<1>4. job[cur.id][l] = "done" /\ res[cur.id][l] \in Answer
  BY <1>2, <1>3 DEF CallsOK
<1>5. /\ IsFiniteSet(Busy(cur.id)) /\ Cardinality(Busy(cur.id)) \in Nat
      /\ cur.pending = Cardinality(Busy(cur.id)) + Len(chan[cur.id])
  <2>1. Busy(cur.id) \subseteq Lane
    BY DEF Busy
  <2>2. IsFiniteSet(Busy(cur.id)) /\ Cardinality(Busy(cur.id)) \in Nat
    BY <2>1, FS_Subset, FS_CardinalityType, DispatchAssumption
  <2> QED  BY <1>2, <2>2 DEF RaceOK
<1>6. cur.pending >= 1 /\ cur.pending - 1 = Cardinality(Busy(cur.id)) + Len(chan'[cur.id])
  BY <1>3, <1>5
<1>7. /\ c \in Cursor /\ c.id = cur.id /\ c.pc = cur.pc /\ c.pending = cur.pending - 1
      /\ cur.consulted \subseteq c.consulted
      /\ l \in c.consulted \/ res[cur.id][l] \in {"canceled", "unavailable"}
      /\ res[cur.id][l] = "synced" => c.consulted = cur.consulted \cup {l}
      /\ res[cur.id][l] # "synced" =>
           /\ Knows(cur.id, c.consulted, c.best, c.top, c.held)
           /\ c.armed => c.held # NoLane
  BY <1>1, <1>3, <1>4, <1>6, CollectedFields
<1>8. /\ c.consulted \in SUBSET Lane /\ c.held \in Lane \cup {NoLane}
      /\ c.best \in Lane \cup {NoLane} /\ c.top \in Failure \cup {"none"}
      /\ "canceled" \in Answer /\ "unavailable" \in Answer
  BY <1>7 DEF Cursor, Failure, Answer
<1>9. ASSUME NEW m \in Lane
      PROVE  \/ m \in Busy(cur.id) \/ m \in c.consulted
             \/ \E i \in 1 .. Len(chan'[cur.id]) : chan'[cur.id][i] = m
             \/ res[cur.id][m] \in {"unavailable", "canceled"}
  <2>1. CASE Waiting(cur.id, m)
    <3>1. PICK i \in 1 .. Len(chan[cur.id]) : chan[cur.id][i] = m
      BY <2>1 DEF Waiting
    <3>2. CASE i = 1
      BY <1>3, <1>7, <3>1, <3>2
    <3>3. CASE i # 1
      <4>1. i - 1 \in 1 .. Len(Tail(chan[cur.id])) /\ (i - 1) + 1 = i
        BY <1>3, <3>1, <3>3
      <4>2. Tail(chan[cur.id])[i - 1] = chan[cur.id][(i - 1) + 1]
        BY <1>1, <1>2, <4>1, Taken
      <4> QED  BY <1>3, <3>1, <4>1, <4>2
    <3> QED  BY <3>2, <3>3
  <2> QED  BY <1>2, <1>7, <2>1 DEF RaceOK
<1> HIDE DEF l, c
<1>10. CASE res[cur.id][l] = "synced" /\ Return(c, "synced", l)
  <2>1. ReturnOK(cur.id, "synced", l, c.consulted)
    <3>1. ReturnOK(cur.id, res[cur.id][l], l, cur.consulted \cup {l})
      BY <1>2, <1>3, <1>4, <1>10, ReturnSong
    <3> QED  BY <1>7, <1>10, <3>1
  <2>2. "synced" \in Answer
    BY DEF Answer, Song
  <2> QED  BY <1>1, <1>3, <1>7, <1>8, <1>10, <2>1, <2>2, ReturnKeeps
<1>11. CASE res[cur.id][l] # "synced" /\ c.pending > 0 /\ cur' = c /\ UNCHANGED out
  <2>1. CallsOK'
    <3>1. cur'.id \in 0 .. MaxDispatch /\ cur'.id >= cur.id
      BY <1>2, <1>7, <1>11 DEF Cursor
    <3> QED  BY <1>1, <1>2, <3>1, CallsStay
  <2>2. CursorOK'
    BY <1>1, <1>7, <1>11 DEF DispatchInv, CursorOK
  <2>3. RaceOK'
    <3>1. Busy(cur.id)' = Busy(cur.id) /\ cur'.id = cur.id
      BY <1>1, <1>7, <1>11 DEF Busy
    <3>2. cur'.pending = Cardinality(Busy(cur.id)') + Len(chan'[cur.id])
      BY <1>6, <1>7, <1>11, <3>1
    <3> QED  BY <1>1, <1>7, <1>9, <1>11, <3>1, <3>2 DEF RaceOK, Waiting
  <2>4. Knows(cur.id, cur.consulted, cur.best, cur.top, cur.held)'
    <3>1. PICK k : k = c
      OBVIOUS
    <3>2. Knows(cur.id, k.consulted, k.best, k.top, k.held) /\ cur' = k /\ k.id = cur.id
      BY <1>7, <1>11, <3>1
    <3> QED  BY <1>1, <3>2, KnowsStays
  <2>5. DispatchOK'
    <3>1. cur'.id = cur.id
      BY <1>7, <1>11
    <3> QED  BY <1>1, <1>2, <2>3, <2>4, <3>1 DEF DispatchOK
  <2>6. ReturnedOK'
    BY <1>1, <1>7, <1>11 DEF ReturnedOK, Active
  <2> QED  BY <2>1, <2>2, <2>5, <2>6 DEF DispatchInv
<1>12. CASE down /\ Return([c EXCEPT !.consulted = {}], "canceled", NoLane)
  <2> DEFINE e == [c EXCEPT !.consulted = {}]
  <2>1. e.id = cur.id /\ e.consulted = {}
    BY <1>7 DEF Cursor
  <2> HIDE DEF e
  <2>2. Return(e, "canceled", NoLane)
    BY <1>12 DEF e
  <2> QED  BY <1>1, <1>8, <2>1, <2>2, ReturnCanceled, ReturnKeeps
<1>13. CASE /\ res[cur.id][l] # "synced" /\ c.held # NoLane
            /\ Return(c, res[c.id][c.held], c.held)
  <2>1. ReturnOK(cur.id, res[cur.id][c.held], c.held, c.consulted) /\ res[cur.id][c.held] \in Answer
    BY <1>7, <1>13, ReturnHeld DEF Knows, Answer, Song
  <2> QED  BY <1>1, <1>7, <1>8, <1>13, <2>1, ReturnKeeps
<1>14. CASE /\ res[cur.id][l] # "synced" /\ ~(c.pending > 0) /\ ~down /\ c.held = NoLane
            /\ Resolve(c)
  <2>1. Busy(cur.id) = {} /\ Len(chan'[cur.id]) = 0
    <3>1. chan'[cur.id] \in Seq(Lane) /\ Len(chan'[cur.id]) \in Nat
      BY <1>1, <1>2, <1>3, Taken
    <3>2. Cardinality(Busy(cur.id)) = 0 /\ Len(chan'[cur.id]) = 0
      BY <1>5, <1>6, <1>7, <1>14, <3>1
    <3> QED  BY <1>5, <3>2, FS_EmptySet
  <2>2. ASSUME c.consulted = {}
        PROVE  \A m \in Lane : job[cur.id][m] = "done" /\ res[cur.id][m] = "unavailable"
    <3> SUFFICES ASSUME NEW m \in Lane
                 PROVE  job[cur.id][m] = "done" /\ res[cur.id][m] = "unavailable"
      OBVIOUS
    <3>1. job[cur.id][m] = "done"
      BY <2>1 DEF Busy
    <3>2. res[cur.id][m] \in {"unavailable", "canceled"}
      BY <1>9, <2>1, <2>2
    <3> QED  BY <1>2, <1>14, <3>1, <3>2
  <2>3. Knows(cur.id, c.consulted, c.best, c.top, NoLane)
    BY <1>7, <1>14
  <2>4. /\ c.best # NoLane => /\ ReturnOK(cur.id, res[cur.id][c.best], c.best, c.consulted)
                              /\ res[cur.id][c.best] \in Answer
        /\ c.best = NoLane /\ c.consulted = {} =>
             ReturnOK(cur.id, IF down THEN "canceled" ELSE "unavailable", NoLane, c.consulted)
        /\ c.best = NoLane /\ c.consulted # {} =>
             ReturnOK(cur.id, c.top, NoLane, c.consulted) /\ c.top \in Answer
    BY <1>8, <2>2, <2>3, ReturnResolved
  <2> QED  BY <1>1, <1>7, <1>8, <1>14, <2>4, ReturnKeeps DEF Resolve
<1> QED
  BY <1>10, <1>11, <1>12, <1>13, <1>14 DEF ParallelAnswer, l, c

\* The ordered loop calls the next lane, or comes to its end.
LEMMA NextLaneKeeps == ASSUME DispatchInv, NextLane PROVE DispatchInv'
<1>1. /\ cur.pc = "next" /\ Active /\ UNCHANGED <<br, res, chan, down, mode, sentinels>>
  BY DEF NextLane, Active
<1>2. /\ cur.id \in Id /\ cur \in Cursor /\ CallsOK /\ cur.id \in Nat /\ mode = "ordered" /\ LoopOK
      /\ Knows(cur.id, cur.consulted, cur.best, cur.top, cur.held)
      /\ \A m \in Lane : res[cur.id][m] = "canceled" => down
      /\ cur.held = NoLane
  BY <1>1, DispatchAssumption
     DEF DispatchInv, CursorOK, DispatchOK, Active, Cursor, RaceOK, LoopOK
<1>3. /\ cur.at \in 0 .. N /\ N \in Nat /\ cur.consulted \in SUBSET Lane
      /\ cur.best \in Lane \cup {NoLane} /\ cur.top \in Failure \cup {"none"}
      /\ "canceled" \in Answer /\ "unavailable" \in Answer
  BY <1>2, LanesCounted DEF Cursor, N, Failure, Answer
<1>4. CASE cur.at = N /\ Resolve(cur) /\ UNCHANGED job
  <2>1. ASSUME cur.consulted = {}, NEW m \in Lane
        PROVE  job[cur.id][m] = "done" /\ res[cur.id][m] = "unavailable"
    <3>1. PICK i \in 1 .. N : m = LaneOrder[i]
      BY DispatchAssumption DEF N
    <3>2. i < cur.at \/ i = cur.at
      BY <1>3, <1>4, <3>1
    <3> QED  BY <1>1, <1>2, <2>1, <3>1, <3>2 DEF LoopOK
  <2>2. /\ cur.best # NoLane => /\ ReturnOK(cur.id, res[cur.id][cur.best], cur.best, cur.consulted)
                                /\ res[cur.id][cur.best] \in Answer
        /\ cur.best = NoLane /\ cur.consulted = {} =>
             ReturnOK(cur.id, IF down THEN "canceled" ELSE "unavailable", NoLane, cur.consulted)
        /\ cur.best = NoLane /\ cur.consulted # {} =>
             ReturnOK(cur.id, cur.top, NoLane, cur.consulted) /\ cur.top \in Answer
    BY <1>2, <1>3, <2>1, ReturnResolved
  <2> QED  BY <1>1, <1>3, <1>4, <2>2, ReturnKeeps DEF Resolve
<1>5. CASE Return([cur EXCEPT !.consulted = {}], "canceled", NoLane) /\ UNCHANGED job
  <2> DEFINE e == [cur EXCEPT !.consulted = {}]
  <2>1. e.id = cur.id /\ e.consulted = {}
    BY <1>2 DEF Cursor
  <2> HIDE DEF e
  <2>2. Return(e, "canceled", NoLane)
    BY <1>5 DEF e
  <2> QED  BY <1>1, <1>3, <1>5, <2>1, <2>2, ReturnCanceled, ReturnKeeps
<1>6. CASE /\ cur.at # N /\ job' = [job EXCEPT ![cur.id][LaneOrder[cur.at + 1]] = "start"]
           /\ cur' = [cur EXCEPT !.at = cur.at + 1, !.pc = "collect"] /\ UNCHANGED out
  <2> DEFINE l == LaneOrder[cur.at + 1]
  <2>1. cur.at + 1 \in 1 .. N /\ cur.at + 1 \in 0 .. Cardinality(Lane) /\ cur.at + 1 > cur.at
    BY <1>3, <1>6 DEF N
  <2>2. l \in Lane /\ job[cur.id][l] = "none"
    BY <1>2, <2>1, LanesCounted DEF LoopOK
  <2>3. /\ cur' \in Cursor /\ cur'.id = cur.id /\ cur'.pc = "collect" /\ cur'.at = cur.at + 1
        /\ cur'.consulted = cur.consulted /\ cur'.best = cur.best /\ cur'.top = cur.top
        /\ cur'.held = cur.held /\ cur'.armed = cur.armed
    <3>1. [[cur EXCEPT !.at = cur.at + 1] EXCEPT !.pc = "collect"] \in Cursor
      BY <1>2, <2>1, SetCursor DEF CursorPC
    <3>2. cur' \in Cursor
      BY <1>6, <3>1
    <3> QED  BY <1>2, <1>6, <3>2 DEF Cursor
  <2> HIDE DEF l
  <2>4. /\ job' \in [Id -> [Lane -> JobPC]]
        /\ \A d \in Id, m \in Lane :
             job'[d][m] = IF d = cur.id /\ m = l THEN "start" ELSE job[d][m]
    BY <1>2, <1>6, <2>2 DEF CallsOK, JobPC, l
  <2>5. CallsOK'
    <3>1. \A d \in Id, m \in Lane : job'[d][m] \in {"send", "done"} => res'[d][m] \in Answer
      BY <1>1, <1>2, <2>4 DEF CallsOK
    <3>2. ASSUME NEW d \in Id, NEW i \in 1 .. Len(chan[d])
          PROVE  job'[d][chan[d][i]] = "done"
      <4>1. chan[d][i] \in Lane /\ job[d][chan[d][i]] = "done"
        BY <1>2 DEF CallsOK
      <4> QED  BY <2>2, <2>4, <4>1
    <3>3. ASSUME NEW d \in Id, d > cur.id PROVE \A m \in Lane : job'[d][m] = "none"
      <4>1. d # cur.id
        BY <1>2, <3>3
      <4> QED  BY <1>2, <2>4, <3>3, <4>1 DEF CallsOK
    <3> QED  BY <1>1, <1>2, <2>3, <2>4, <3>1, <3>2, <3>3 DEF CallsOK
  <2>6. CursorOK'
    BY <1>1, <1>6, <2>3 DEF DispatchInv, CursorOK
  <2>7. Knows(cur.id, cur.consulted, cur.best, cur.top, cur.held)'
    <3>1. \A m \in cur.consulted : m \in Lane /\ m # l /\ job'[cur.id][m] = "done"
      BY <1>2, <2>2, <2>4 DEF Knows
    <3> QED  BY <1>1, <1>2, <2>3, <3>1 DEF Knows, Honest, Class
  <2>8. LoopOK'
    <3>1. ASSUME NEW i \in 1 .. N, i > cur.at + 1
          PROVE  job'[cur.id][LaneOrder[i]] = "none"
      <4>1. i # cur.at + 1 /\ i > cur.at
        BY <1>3, <3>1
      <4>2. LaneOrder[i] \in Lane /\ LaneOrder[i] # l
        BY <2>1, <4>1, LanesCounted, OrderInjective DEF l
      <4> QED  BY <1>2, <2>4, <4>1, <4>2 DEF LoopOK
    <3>2. ASSUME NEW i \in 1 .. N, i < cur.at + 1
          PROVE  /\ job'[cur.id][LaneOrder[i]] = "done"
                 /\ LaneOrder[i] \in cur.consulted \/ res[cur.id][LaneOrder[i]] = "unavailable"
      <4>1. i < cur.at \/ i = cur.at
        BY <1>3, <3>2
      <4>2. /\ LaneOrder[i] \in Lane /\ job[cur.id][LaneOrder[i]] = "done"
            /\ LaneOrder[i] \in cur.consulted \/ res[cur.id][LaneOrder[i]] = "unavailable"
        BY <1>1, <1>2, <4>1, LanesCounted DEF LoopOK
      <4> QED  BY <1>2, <2>2, <2>4, <4>2
    <3>3. chan[cur.id] = <<>> /\ cur.held = NoLane /\ ~cur.armed /\ cur.at + 1 >= 1
      BY <1>1, <1>2, <1>3 DEF LoopOK
    <3> QED  BY <1>1, <2>3, <3>1, <3>2, <3>3 DEF LoopOK
  <2>9. DispatchOK'
    BY <1>1, <1>2, <2>3, <2>7, <2>8 DEF DispatchOK
  <2>10. ReturnedOK'
    BY <2>3 DEF ReturnedOK, Active
  <2> QED  BY <2>5, <2>6, <2>9, <2>10 DEF DispatchInv
<1> QED  BY <1>4, <1>5, <1>6 DEF NextLane, N

\* The collector stops waiting.
LEMMA StopKeeps == ASSUME DispatchInv, UpgradeElapses \/ ParentDone PROVE DispatchInv'
<1>1. /\ cur.pc = "collect" /\ Active /\ UNCHANGED <<br, job, res, chan, down, mode, sentinels>>
  BY DEF UpgradeElapses, ParentDone, Active
<1>2. /\ cur.id \in Id /\ cur \in Cursor
      /\ Knows(cur.id, cur.consulted, cur.best, cur.top, cur.held)
      /\ cur.armed => cur.held # NoLane
      /\ cur.consulted \in SUBSET Lane /\ "canceled" \in Answer
      /\ cur.held \in Lane \cup {NoLane}
  <2>1. cur \in Cursor /\ mode \in Modes /\ DispatchOK
    BY DEF DispatchInv, CursorOK
  <2>2. mode \in {"ordered", "parallel"}
    BY <2>1, DispatchAssumption
  <2>3. cur.armed => cur.held # NoLane
    BY <1>1, <2>1, <2>2 DEF DispatchOK, LoopOK, RaceOK
  <2> QED  BY <1>1, <2>1, <2>3 DEF DispatchOK, Cursor, Answer
<1>3. CASE Return([cur EXCEPT !.consulted = {}], "canceled", NoLane)
  <2> DEFINE e == [cur EXCEPT !.consulted = {}]
  <2>1. e.id = cur.id /\ e.consulted = {}
    BY <1>2 DEF Cursor
  <2> HIDE DEF e
  <2>2. Return(e, "canceled", NoLane)
    BY <1>3 DEF e
  <2> QED  BY <1>1, <1>2, <2>1, <2>2, ReturnCanceled, ReturnKeeps
<1>4. CASE cur.armed /\ Return(cur, res[cur.id][cur.held], cur.held)
  <2>1. /\ ReturnOK(cur.id, res[cur.id][cur.held], cur.held, cur.consulted)
        /\ res[cur.id][cur.held] \in Answer
    BY <1>2, <1>4, ReturnHeld DEF Knows, Answer, Song
  <2> QED  BY <1>1, <1>2, <1>4, <2>1, ReturnKeeps
<1> QED  BY <1>3, <1>4 DEF UpgradeElapses, ParentDone

\* The worker asks for a lane, looks for an item, or begins a dispatch.
LEMMA WorkerKeeps ==
    ASSUME DispatchInv, Poll \/ NoLookup \/ BeginDispatch \/ Shutdown \/ Tick
    PROVE  DispatchInv'
<1>1. CallsOK /\ cur \in Cursor /\ cur.id \in Nat /\ MaxDispatch \in Nat /\ CursorOK
      /\ cur.id \in 0 .. MaxDispatch
  BY DispatchAssumption DEF DispatchInv, CursorOK, Cursor
\* Nothing but the program counter moves, between idle and polled.
<1>2. ASSUME NEW pc \in {"idle", "polled"}, ~Active, cur' = [cur EXCEPT !.pc = pc],
             UNCHANGED <<job, res, chan, out, down, mode, sentinels>>,
             pc = "polled" => cur.id < MaxDispatch
      PROVE  DispatchInv'
  <2>1. cur' \in Cursor /\ cur'.id = cur.id /\ cur'.pc = pc
    <3>1. [cur EXCEPT !.pc = pc] \in Cursor
      BY <1>1, SetCursor DEF CursorPC
    <3> QED  BY <1>1, <1>2, <3>1 DEF Cursor
  <2>2. CallsOK'
    BY <1>1, <1>2, <2>1 DEF CallsOK
  <2>3. CursorOK'
    BY <1>1, <1>2, <2>1 DEF CursorOK
  <2>4. ASSUME out.what # "none"
        PROVE  cur.id \in Id /\ ReturnOK(cur.id, out.what, out.lane, out.attempts)'
    <3>1. cur.id \in Id /\ ReturnOK(cur.id, out.what, out.lane, out.attempts)
      BY <1>2, <2>4 DEF DispatchInv, ReturnedOK
    <3> QED  BY <1>2, <2>1, <3>1 DEF ReturnOK, Honest
  <2>5. ReturnedOK'
    BY <1>2, <2>1, <2>4 DEF ReturnedOK
  <2>6. DispatchOK'
    BY <2>1 DEF DispatchOK, Active
  <2> QED  BY <2>2, <2>3, <2>5, <2>6 DEF DispatchInv
<1>3. CASE Poll
  <2>1. /\ cur.pc = "idle" /\ cur' = [cur EXCEPT !.pc = "polled"] /\ cur.id < MaxDispatch
        /\ UNCHANGED <<job, res, chan, out, down, mode, sentinels>>
    BY <1>3 DEF Poll
  <2> QED  BY <1>2, <2>1 DEF Active
<1>4. CASE NoLookup
  <2>1. /\ cur.pc = "polled" /\ cur' = [cur EXCEPT !.pc = "idle"]
        /\ UNCHANGED <<job, res, chan, out, down, mode, sentinels>>
    BY <1>4 DEF NoLookup
  <2> QED  BY <1>2, <2>1 DEF Active
<1>5. CASE Shutdown \/ Tick
  <2>1. UNCHANGED <<job, res, chan, cur, out, mode, sentinels>> /\ (down => down') /\ down' \in BOOLEAN
    BY <1>1, <1>5 DEF Shutdown, Tick, CursorOK
  <2>2. CallsOK' /\ CursorOK'
    BY <1>1, <2>1 DEF CallsOK, CursorOK
  <2>3. ASSUME Active PROVE Knows(cur.id, cur.consulted, cur.best, cur.top, cur.held)'
    BY <2>1, <2>3 DEF DispatchInv, DispatchOK, Knows, Honest, Class
  <2>4. (RaceOK => RaceOK') /\ (LoopOK => LoopOK')
    BY <2>1 DEF RaceOK, LoopOK, Busy, Waiting
  <2>5. DispatchOK'
    BY <2>1, <2>3, <2>4 DEF DispatchInv, DispatchOK, Active
  <2>6. ReturnedOK'
    BY <2>1 DEF DispatchInv, ReturnedOK, ReturnOK, Honest, Active
  <2> QED  BY <2>2, <2>5, <2>6 DEF DispatchInv
<1>6. CASE BeginDispatch
  <2>0. PICK id : id = cur.id + 1
    OBVIOUS
  <2>1. /\ cur.pc = "polled" /\ id \in Id /\ id \in 0 .. MaxDispatch /\ id > cur.id /\ id \in Nat
        /\ UNCHANGED <<br, res, chan, down, mode, sentinels>>
    <3>1. cur.pc = "polled" /\ UNCHANGED <<br, res, chan, down, mode, sentinels>>
      BY <1>6 DEF BeginDispatch
    <3>2. cur.id < MaxDispatch
      BY <1>1, <3>1 DEF CursorOK
    <3> QED  BY <1>1, <2>0, <3>1, <3>2 DEF Id
  <2>2. chan[id] = <<>> /\ \A l \in Lane : job[id][l] = "none" /\ res[id][l] = "none"
    BY <1>1, <2>1 DEF CallsOK
  <2>3. /\ Fresh(id) \in Cursor /\ Fresh(id).id = id /\ Fresh(id).pc = "idle"
        /\ Fresh(id).at = 0 /\ Fresh(id).consulted = {} /\ Fresh(id).best = NoLane
        /\ Fresh(id).top = "none" /\ Fresh(id).held = NoLane /\ Fresh(id).armed = FALSE
    BY <2>1, FreshType
  <2>4. Knows(id, {}, NoLane, "none", NoLane)'
    BY DEF Knows
  <2>5. CASE mode = "ordered" /\ cur' = [Fresh(id) EXCEPT !.pc = "next"] /\ UNCHANGED <<job, out>>
    <3>1. /\ cur' \in Cursor /\ cur'.id = id /\ cur'.pc = "next" /\ cur'.at = 0
          /\ cur'.consulted = {} /\ cur'.best = NoLane /\ cur'.top = "none"
          /\ cur'.held = NoLane /\ cur'.armed = FALSE
      <4>1. [Fresh(id) EXCEPT !.pc = "next"] \in Cursor
        BY <2>3, SetCursor DEF CursorPC
      <4> QED  BY <2>3, <2>5, <4>1 DEF Cursor
    <3>2. CallsOK'
      <4>1. cur'.id \in 0 .. MaxDispatch /\ cur'.id >= cur.id
        BY <1>1, <2>1, <3>1
      <4> QED  BY <2>1, <2>5, <4>1, CallsStay
    <3>3. CursorOK'
      BY <1>1, <2>1, <2>5, <3>1 DEF CursorOK
    <3>4. LoopOK'
      <4>1. \A i \in 1 .. N : LaneOrder[i] \in Lane /\ ~(i < 0) /\ i # 0
        BY LanesCounted
      <4> QED  BY <2>1, <2>2, <2>5, <3>1, <4>1 DEF LoopOK
    <3>5. DispatchOK'
      BY <2>1, <2>2, <2>4, <2>5, <3>1, <3>4 DEF DispatchOK
    <3>6. ReturnedOK'
      BY <3>1 DEF ReturnedOK, Active
    <3> QED  BY <3>2, <3>3, <3>5, <3>6 DEF DispatchInv
  <2>6. CASE /\ mode = "parallel" /\ job' = [job EXCEPT ![id] = [l \in Lane |-> "start"]]
             /\ cur' = [Fresh(id) EXCEPT !.pc = "collect", !.pending = Cardinality(Lane)]
             /\ UNCHANGED out
    <3>1. /\ cur' \in Cursor /\ cur'.id = id /\ cur'.pc = "collect" /\ cur'.pending = Cardinality(Lane)
          /\ cur'.consulted = {} /\ cur'.best = NoLane /\ cur'.top = "none"
          /\ cur'.held = NoLane /\ cur'.armed = FALSE
      <4>1. Cardinality(Lane) \in 0 .. Cardinality(Lane)
        BY LanesCounted DEF N
      <4>2. [[Fresh(id) EXCEPT !.pc = "collect"] EXCEPT !.pending = Cardinality(Lane)] \in Cursor
        BY <2>3, <4>1, SetCursor DEF CursorPC
      <4>3. cur' \in Cursor
        BY <2>6, <4>2
      <4> QED  BY <2>3, <2>6, <4>3 DEF Cursor
    <3>2. /\ job' \in [Id -> [Lane -> JobPC]]
          /\ \A l \in Lane : job'[id][l] = "start"
          /\ \A d \in Id \ {id} : job'[d] = job[d]
      BY <1>1, <2>1, <2>6 DEF CallsOK, JobPC
    <3>3. CallsOK'
      <4>1. \A d \in Id, m \in Lane : job'[d][m] \in {"send", "done"} => res[d][m] \in Answer
        BY <1>1, <3>2 DEF CallsOK
      <4>2. ASSUME NEW d \in Id, NEW i \in 1 .. Len(chan[d])
            PROVE  job'[d][chan[d][i]] = "done"
        <5>1. d # id
          BY <2>2
        <5> QED  BY <1>1, <3>2, <5>1 DEF CallsOK
      <4>3. ASSUME NEW d \in Id, d > id
            PROVE  chan[d] = <<>> /\ \A m \in Lane : job'[d][m] = "none" /\ res[d][m] = "none"
        <5>1. d # id /\ d > cur.id
          BY <1>1, <2>1, <4>3 DEF Id
        <5> QED  BY <1>1, <3>2, <5>1 DEF CallsOK
      <4> QED  BY <1>1, <2>1, <3>1, <3>2, <4>1, <4>2, <4>3 DEF CallsOK
    <3>4. CursorOK'
      BY <1>1, <2>1, <2>6, <3>1 DEF CursorOK
    <3>5. RaceOK'
      <4>1. Busy(id)' = Lane
        BY <3>1, <3>2 DEF Busy
      <4>2. Len(chan'[id]) = 0 /\ Cardinality(Lane) \in Nat
        BY <2>1, <2>2, LanesCounted DEF N
      <4>3. cur'.pending = Cardinality(Lane) + Len(chan'[id])
        BY <3>1, <4>2
      <4>4. Busy(cur.id)' = Lane
        BY <3>1, <3>2 DEF Busy
      <4> QED  BY <3>1, <4>3, <4>4 DEF RaceOK
    <3>6. DispatchOK'
      BY <2>1, <2>2, <2>4, <2>6, <3>1, <3>5 DEF DispatchOK
    <3>7. ReturnedOK'
      BY <3>1 DEF ReturnedOK, Active
    <3> QED  BY <3>3, <3>4, <3>6, <3>7 DEF DispatchInv
  <2>7. CASE Return(Fresh(id), "canceled", NoLane) /\ UNCHANGED job
    <3>1. /\ out' = [what |-> "canceled", lane |-> NoLane, attempts |-> {}]
          /\ cur' = Fresh(id)
      BY <2>3, <2>7 DEF Return
    <3>2. cur'.id \in 0 .. MaxDispatch /\ cur'.id >= cur.id
      BY <1>1, <2>1, <2>3, <3>1
    <3>3. CallsOK'
      BY <2>1, <2>7, <3>2, CallsStay
    <3>4. "canceled" \in Answer /\ ReturnOK(id, "canceled", NoLane, {})
      BY ReturnCanceled DEF Answer
    <3> QED  BY <2>1, <2>7, <3>1, <3>3, <3>4, ReturnStep
  <2> QED  BY <1>6, <2>0, <2>5, <2>6, <2>7 DEF BeginDispatch
<1> QED  BY <1>3, <1>4, <1>5, <1>6

\* The invariant holds at the start.
LEMMA DispatchInvInit == Init => DispatchInv
<1> SUFFICES ASSUME Init PROVE DispatchInv
  OBVIOUS
<1>1. 0 \in 0 .. MaxDispatch
  BY DispatchAssumption
<1>2. cur \in Cursor /\ cur.pc = "idle" /\ cur.id = 0
  BY <1>1, FreshType DEF Init
<1>3. out \in Outcome /\ out.what = "none"
  BY DEF Init, Outcome
<1>4. down \in BOOLEAN /\ mode \in Modes /\ sentinels \in Wirings
  BY DEF Init
<1>5. CallsOK
  BY DEF Init, CallsOK, JobPC
<1>6. CursorOK
  BY <1>2, <1>3, <1>4 DEF CursorOK
<1> QED  BY <1>2, <1>3, <1>5, <1>6 DEF DispatchInv, DispatchOK, ReturnedOK, Active

\* Every step keeps the invariant.
LEMMA DispatchInvStep == DispatchInv /\ [Next]_vars => DispatchInv'
<1> SUFFICES ASSUME DispatchInv, [Next]_vars PROVE DispatchInv'
  OBVIOUS
<1>1. CASE UNCHANGED vars
  <2>1. CallsOK' /\ CursorOK'
    BY <1>1 DEF vars, DispatchInv, CallsOK, CursorOK
  <2>2. DispatchOK'
    BY <1>1 DEF vars, DispatchInv, DispatchOK, Active, Knows, Honest, Class, RaceOK, LoopOK,
                Busy, Waiting
  <2>3. ReturnedOK'
    BY <1>1 DEF vars, DispatchInv, ReturnedOK, Active, ReturnOK, Honest
  <2> QED  BY <2>1, <2>2, <2>3 DEF DispatchInv
<1> QED
  BY <1>1, WorkerKeeps, NextLaneKeeps, OrderedKeeps, ParallelKeeps, StopKeeps, LaneKeeps
     DEF Next, OrchestratorStep

\* The invariant of the dispatcher holds throughout.
LEMMA DispatchInvariant == Spec => [](DispatchInv /\ BreakersOK)
  BY DispatchInvInit, DispatchInvStep, BreakersInit, BreakersStep, PTL DEF Spec

\* The dispatcher's type invariant, for any lanes and number of dispatches.
THEOREM TypeTheorem == Spec => []TypeOK
<1>1. DispatchInv /\ BreakersOK => TypeOK
  BY DEF DispatchInv, BreakersOK, CallsOK, CursorOK, TypeOK
<1> QED  BY <1>1, DispatchInvariant, PTL

\* Only lanes whose provider was asked and answered are recorded as attempts, and
\* the lane named as the winner is one of them with the answer that was returned
\* (findOrdered, findParallel), however the goroutines interleave.
THEOREM AttemptsTheorem == Spec => []AttemptsHonest
<1>1. DispatchInv => AttemptsHonest
  <2> SUFFICES ASSUME DispatchInv, Returned PROVE
        /\ \A l \in out.attempts :
              \/ res[cur.id][l] \in Song \cup Fault
              \/ res[cur.id][l] = "canceled" /\ mode = "ordered"
        /\ out.lane # NoLane => /\ out.lane \in out.attempts
                                /\ res[cur.id][out.lane] = out.what
    BY DEF AttemptsHonest
  <2>1. ReturnOK(cur.id, out.what, out.lane, out.attempts)
    BY DEF DispatchInv, ReturnedOK, Active, Returned
  <2> QED  BY <2>1 DEF ReturnOK, Honest
<1> QED  BY <1>1, DispatchInvariant, PTL

\* A dispatch reports a miss only if every lane it consulted answered with one, and
\* "unavailable" only if every lane was open (resolve), for any lanes in any order.
THEOREM MissTheorem == Spec => []MissIsUnanimous
<1>1. DispatchInv => MissIsUnanimous
  <2> SUFFICES ASSUME DispatchInv, Returned PROVE
        /\ out.what = "miss" => Known = {"miss"}
        /\ out.what = "unavailable" => \A l \in Lane : res[cur.id][l] = "unavailable"
    BY DEF MissIsUnanimous
  <2>1. ReturnOK(cur.id, out.what, out.lane, out.attempts)
    BY DEF DispatchInv, ReturnedOK, Active, Returned
  <2>2. ASSUME out.what = "miss" PROVE Known = {"miss"}
    <3>1. out.attempts # {} /\ \A l \in out.attempts : res[cur.id][l] = "miss"
      BY <2>1, <2>2 DEF ReturnOK
    <3> QED  BY <3>1 DEF Known
  <2> QED  BY <2>1, <2>2 DEF ReturnOK
<1> QED  BY <1>1, DispatchInvariant, PTL

\* The song returned is the best one that was collected when the dispatch returned,
\* in both modes and whatever the order of the answers.
THEOREM BestTheorem == Spec => []BestServed
<1>1. DispatchInv => BestServed
  <2> SUFFICES ASSUME DispatchInv, Returned, out.what # "canceled" PROVE
        /\ "synced" \in Known => out.what = "synced"
        /\ (Known \cap {"synced", "unsynced"} # {}) => IsSuitable(out.what)
        /\ (Known \cap Song # {}) => out.what \in Song
        /\ "rejected" \in Known => out.what # "marker"
    BY DEF BestServed
  <2>1. ReturnOK(cur.id, out.what, out.lane, out.attempts)
    BY DEF DispatchInv, ReturnedOK, Active, Returned
  <2>2. \A a \in Known : /\ a = "synced" => out.what = "synced"
                         /\ a = "unsynced" => IsSuitable(out.what)
                         /\ a \in Song => out.what \in Song
                         /\ a = "rejected" => out.what # "marker"
    BY <2>1 DEF ReturnOK, Known
  <2> QED  BY <2>2 DEF IsSuitable
<1> QED  BY <1>1, DispatchInvariant, PTL

-----------------------------------------------------------------------------
(* Progress: the safety half of DispatchEnds and NoGoroutineLeak.          *)

\* The collector takes the next answer out of its channel.
TakesAnswer == chan[cur.id] # <<>> /\ chan' = [chan EXCEPT ![cur.id] = Tail(chan[cur.id])]

\* The four things a step of the orchestrator may do.
ReturnsNow ==
    /\ cur'.pc = "idle" /\ cur'.id = cur.id /\ job' = job
    /\ chan' = chan \/ TakesAnswer

CallsLane ==
    /\ mode = "ordered" /\ cur.pc = "next" /\ cur.at # N
    /\ cur'.id = cur.id /\ cur'.pc = "collect" /\ cur'.at = cur.at + 1
    /\ job' = [job EXCEPT ![cur.id][LaneOrder[cur.at + 1]] = "start"] /\ chan' = chan

LoopsOn ==
    /\ mode = "ordered" /\ cur.pc = "collect"
    /\ cur'.id = cur.id /\ cur'.pc = "next" /\ cur'.at = cur.at
    /\ job' = job /\ TakesAnswer

CollectsOne ==
    /\ mode = "parallel" /\ cur.pc = "collect"
    /\ cur'.id = cur.id /\ cur'.pc = "collect"
    /\ cur'.pending = cur.pending - 1 /\ cur'.pending > 0
    /\ job' = job /\ TakesAnswer

LEMMA ReturnIsNow ==
    ASSUME DispatchInv, Active, NEW c, c.id = cur.id, NEW what, NEW lane,
           Return(c, what, lane), job' = job, chan' = chan \/ TakesAnswer
    PROVE  ReturnsNow
<1>1. cur.id \in 0 .. MaxDispatch /\ cur' = Fresh(cur.id)
  BY DEF DispatchInv, CursorOK, Cursor, Return
<1> QED  BY <1>1, FreshType DEF ReturnsNow

\* The ordered loop begins with the next lane, or is over.
LEMMA NextLaneEffect == ASSUME DispatchInv, NextLane PROVE ReturnsNow \/ CallsLane
<1>1. /\ cur.pc = "next" /\ Active /\ chan' = chan /\ cur \in Cursor
  BY DEF NextLane, Active, DispatchInv, CursorOK
<1>2. mode = "ordered"
  BY <1>1, DispatchAssumption DEF DispatchInv, CursorOK, DispatchOK, RaceOK
<1>3. CASE Resolve(cur) /\ UNCHANGED job
  BY <1>1, <1>3, ReturnIsNow DEF Resolve
<1>4. CASE Return([cur EXCEPT !.consulted = {}], "canceled", NoLane) /\ UNCHANGED job
  <2> DEFINE e == [cur EXCEPT !.consulted = {}]
  <2>1. e.id = cur.id
    BY <1>1 DEF Cursor
  <2> HIDE DEF e
  <2>2. Return(e, "canceled", NoLane)
    BY <1>4 DEF e
  <2> QED  BY <1>1, <1>4, <2>1, <2>2, ReturnIsNow
<1>5. CASE /\ cur.at # N /\ job' = [job EXCEPT ![cur.id][LaneOrder[cur.at + 1]] = "start"]
           /\ cur' = [cur EXCEPT !.at = cur.at + 1, !.pc = "collect"]
  <2>1. cur'.id = cur.id /\ cur'.pc = "collect" /\ cur'.at = cur.at + 1
    BY <1>1, <1>5 DEF Cursor
  <2> QED  BY <1>1, <1>2, <1>5, <2>1 DEF CallsLane
<1> QED  BY <1>3, <1>4, <1>5 DEF NextLane, N

\* The ordered loop takes an answer.
LEMMA OrderedEffect == ASSUME DispatchInv, OrderedAnswer PROVE ReturnsNow \/ LoopsOn
<1> DEFINE l == Head(chan[cur.id])
           answer == res[cur.id][l]
           c == [cur EXCEPT !.pc = "next", !.consulted = cur.consulted \cup {l}]
<1>1. /\ mode = "ordered" /\ cur.pc = "collect" /\ Active /\ TakesAnswer
      /\ UNCHANGED <<br, job, res, down, mode, sentinels>>
  BY DEF OrderedAnswer, Active, TakesAnswer
<1>2. /\ cur.id \in Id /\ cur \in Cursor /\ CallsOK
  BY <1>1 DEF DispatchInv, CursorOK, DispatchOK
<1>3. l \in Lane
  <2>1. chan[cur.id] \in Seq(Lane)
    BY <1>2 DEF CallsOK
  <2> QED  BY <1>1, <2>1, Taken DEF TakesAnswer
<1> HIDE DEF l
<1>4. c \in Cursor /\ c.id = cur.id /\ c.pc = "next" /\ c.at = cur.at
  <2>1. cur.consulted \cup {l} \in SUBSET Lane
    BY <1>2, <1>3 DEF Cursor
  <2>2. [[cur EXCEPT !.pc = "next"] EXCEPT !.consulted = cur.consulted \cup {l}] \in Cursor
    BY <1>2, <2>1, SetCursor DEF CursorPC
  <2>3. c \in Cursor
    BY <2>2
  <2> QED  BY <1>2, <2>3 DEF Cursor
<1> HIDE DEF c
<1>5. CASE cur' = [cur EXCEPT !.pc = "next"]
  <2>1. cur'.id = cur.id /\ cur'.pc = "next" /\ cur'.at = cur.at
    BY <1>2, <1>5 DEF Cursor
  <2> QED  BY <1>1, <2>1 DEF LoopsOn
<1>6. CASE Return(c, answer, l)
  BY <1>1, <1>4, <1>6, ReturnIsNow
<1>7. CASE cur' = Retained(c, l)
  BY <1>1, <1>3, <1>4, <1>7, RetainedFields DEF LoopsOn
<1>8. CASE answer \in Fault \cup {"canceled"} /\ cur' = Ranked(c, Class(l, answer))
  <2>1. Class(l, answer) \in Failure
    BY <1>3, <1>8, Classes DEF Failure
  <2> QED  BY <1>1, <1>4, <1>8, <2>1, RankedFields DEF LoopsOn
<1> QED  BY <1>5, <1>6, <1>7, <1>8 DEF OrderedAnswer, l, c

\* The race takes an answer.
LEMMA ParallelEffect == ASSUME DispatchInv, ParallelAnswer PROVE ReturnsNow \/ CollectsOne
<1> DEFINE l == Head(chan[cur.id])
           c == Collected(l)
<1>1. /\ mode = "parallel" /\ cur.pc = "collect" /\ Active /\ TakesAnswer
      /\ UNCHANGED <<br, job, res, down, mode, sentinels>>
  BY DEF ParallelAnswer, Active, TakesAnswer
<1>2. /\ cur.id \in Id /\ CallsOK /\ RaceOK /\ chan[cur.id] \in Seq(Lane)
  BY <1>1 DEF DispatchInv, CursorOK, DispatchOK, CallsOK
<1>3. /\ l \in Lane /\ l = chan[cur.id][1] /\ 1 \in 1 .. Len(chan[cur.id])
      /\ Len(chan[cur.id]) \in Nat \ {0}
  BY <1>1, <1>2, Taken DEF TakesAnswer
<1>4. job[cur.id][l] = "done"
  BY <1>2, <1>3 DEF CallsOK
<1>5. cur.pending >= 1
  <2>1. Busy(cur.id) \subseteq Lane
    BY DEF Busy
  <2>2. Cardinality(Busy(cur.id)) \in Nat
    BY <2>1, FS_Subset, FS_CardinalityType, DispatchAssumption
  <2> QED  BY <1>2, <1>3, <2>2 DEF RaceOK
<1>6. c \in Cursor /\ c.id = cur.id /\ c.pc = "collect" /\ c.pending = cur.pending - 1
  BY <1>1, <1>3, <1>4, <1>5, CollectedFields
<1> HIDE DEF l, c
<1>7. CASE c.pending > 0 /\ cur' = c
  BY <1>1, <1>6, <1>7 DEF CollectsOne
<1>8. ASSUME NEW k, k.id = cur.id, NEW what, NEW lane, Return(k, what, lane)
      PROVE  ReturnsNow
  BY <1>1, <1>8, ReturnIsNow
<1>9. CASE Return([c EXCEPT !.consulted = {}], "canceled", NoLane)
  <2> DEFINE e == [c EXCEPT !.consulted = {}]
  <2>1. e.id = cur.id
    BY <1>6 DEF Cursor
  <2> HIDE DEF e
  <2> QED  BY <1>8, <1>9, <2>1 DEF e
<1>10. CASE Resolve(c)
  BY <1>6, <1>8, <1>10 DEF Resolve
<1>11. CASE Return(c, "synced", l) \/ Return(c, res[c.id][c.held], c.held)
  BY <1>6, <1>8, <1>11
<1> QED  BY <1>7, <1>9, <1>10, <1>11 DEF ParallelAnswer, l, c

\* The upgrade window and the worker's context end a dispatch.
LEMMA StopEffect == ASSUME DispatchInv, UpgradeElapses \/ ParentDone PROVE ReturnsNow
<1>1. /\ cur.pc = "collect" /\ Active /\ job' = job /\ chan' = chan /\ cur \in Cursor
  BY DEF UpgradeElapses, ParentDone, Active, DispatchInv, CursorOK
<1>2. CASE Return([cur EXCEPT !.consulted = {}], "canceled", NoLane)
  <2> DEFINE e == [cur EXCEPT !.consulted = {}]
  <2>1. e.id = cur.id
    BY <1>1 DEF Cursor
  <2> HIDE DEF e
  <2>2. Return(e, "canceled", NoLane)
    BY <1>2 DEF e
  <2> QED  BY <1>1, <2>1, <2>2, ReturnIsNow
<1>3. CASE Return(cur, res[cur.id][cur.held], cur.held)
  BY <1>1, <1>3, ReturnIsNow
<1> QED  BY <1>2, <1>3 DEF UpgradeElapses, ParentDone

\* What a step of the orchestrator does to the cursor, the calls and the
\* channels.
LEMMA OrchestratorEffect ==
    ASSUME DispatchInv, OrchestratorStep
    PROVE  /\ Active /\ mode' = mode
           /\ ReturnsNow \/ CallsLane \/ LoopsOn \/ CollectsOne
<1>1. Active /\ mode' = mode
  BY DEF OrchestratorStep, NextLane, OrderedAnswer, ParallelAnswer, UpgradeElapses,
         ParentDone, Active
<1> QED  BY <1>1, NextLaneEffect, OrderedEffect, ParallelEffect, StopEffect
            DEF OrchestratorStep

\* A race begins: every lane is called.
RaceBegins ==
    /\ mode = "parallel" /\ cur.id + 1 \in Id /\ Lane # {} /\ chan[cur.id + 1] = <<>>
    /\ \A l \in Lane : job[cur.id + 1][l] = "none"
    /\ cur'.id = cur.id + 1 /\ cur'.pc = "collect" /\ cur'.pending = N
    /\ job' = [job EXCEPT ![cur.id + 1] = [l \in Lane |-> "start"]]

\* What the worker's own steps do to them.
LEMMA WorkerEffect ==
    ASSUME DispatchInv, cur.pc # "idle" => Lane # {},
           Poll \/ NoLookup \/ BeginDispatch \/ Shutdown \/ Tick
    PROVE  /\ mode' = mode /\ chan' = chan
           /\ \/ cur' = cur /\ job' = job
              \/ ~Active /\ job' = job /\ cur'.pc = "idle"
              \/ ~Active /\ job' = job /\ cur'.pc = "polled" /\ Lane # {}
              \/ ~Active /\ job' = job /\ cur'.pc = "next" /\ Lane # {} /\ mode = "ordered"
              \/ ~Active /\ RaceBegins
<1>1. CallsOK /\ cur \in Cursor /\ cur.id \in Nat /\ MaxDispatch \in Nat /\ CursorOK
  BY DispatchAssumption DEF DispatchInv, CursorOK, Cursor
<1>2. CASE Shutdown \/ Tick
  BY <1>2 DEF Shutdown, Tick
<1>3. CASE Poll
  <2>1. cur.pc = "idle" /\ cur' = [cur EXCEPT !.pc = "polled"] /\ UNCHANGED <<job, chan, mode>>
    BY <1>3 DEF Poll
  <2>2. PICK i \in 1 .. N : TRUE
    BY <1>3 DEF Poll, N
  <2>3. LaneOrder[i] \in Lane
    BY LanesCounted
  <2>4. cur'.pc = "polled"
    BY <1>1, <2>1 DEF Cursor
  <2> QED  BY <2>1, <2>3, <2>4 DEF Active
<1>4. CASE NoLookup
  <2>1. cur.pc = "polled" /\ cur' = [cur EXCEPT !.pc = "idle"] /\ UNCHANGED <<job, chan, mode>>
    BY <1>4 DEF NoLookup
  <2>2. cur'.pc = "idle"
    BY <1>1, <2>1 DEF Cursor
  <2> QED  BY <2>1, <2>2 DEF Active
<1>5. CASE BeginDispatch
  <2>0. PICK id : id = cur.id + 1
    OBVIOUS
  <2>1. /\ cur.pc = "polled" /\ Lane # {} /\ id \in Id /\ id \in 0 .. MaxDispatch
        /\ id > cur.id /\ UNCHANGED <<chan, mode>>
    <3>1. cur.pc = "polled" /\ UNCHANGED <<chan, mode>>
      BY <1>5 DEF BeginDispatch
    <3>2. cur.id < MaxDispatch
      BY <1>1, <3>1 DEF CursorOK
    <3> QED  BY <1>1, <2>0, <3>1, <3>2 DEF Id
  <2>2. chan[id] = <<>> /\ \A l \in Lane : job[id][l] = "none"
    BY <1>1, <2>1 DEF CallsOK
  <2>3. Fresh(id) \in Cursor /\ Fresh(id).id = id /\ Fresh(id).pc = "idle"
    BY <2>1, FreshType
  <2>4. ~Active
    BY <2>1 DEF Active
  <2>5. CASE mode = "ordered" /\ cur' = [Fresh(id) EXCEPT !.pc = "next"] /\ UNCHANGED job
    <3>1. cur'.pc = "next"
      BY <2>3, <2>5 DEF Cursor
    <3> QED  BY <2>1, <2>4, <2>5, <3>1
  <2>6. CASE /\ mode = "parallel"
             /\ job' = [job EXCEPT ![id] = [l \in Lane |-> "start"]]
             /\ cur' = [Fresh(id) EXCEPT !.pc = "collect", !.pending = N]
    <3>1. cur'.pc = "collect" /\ cur'.id = id /\ cur'.pending = N
      BY <2>3, <2>6 DEF Cursor
    <3>2. RaceBegins
      BY <2>0, <2>1, <2>2, <2>6, <3>1 DEF RaceBegins
    <3> QED  BY <2>1, <2>4, <3>2
  <2>7. CASE Return(Fresh(id), "canceled", NoLane) /\ UNCHANGED job
    BY <2>1, <2>3, <2>4, <2>7 DEF Return
  <2> QED  BY <1>5, <2>0, <2>5, <2>6, <2>7 DEF BeginDispatch, N
<1> QED  BY <1>2, <1>3, <1>4, <1>5

\* No channel holds more answers than calls that are over.
RoomLeft == \A d \in Id : Len(chan[d]) + Cardinality(Busy(d)) <= N

\* A dispatch that is collecting has called whom it waits for: the ordered
\* loop the lane at its position, whose answer is not taken yet, the race
\* every lane, and not all their answers are taken.
SomeLane == cur.pc # "idle" => Lane # {}

LoopAhead ==
    cur.pc = "collect" /\ mode = "ordered" =>
        /\ job[cur.id][LaneOrder[cur.at]] # "none"
        /\ job[cur.id][LaneOrder[cur.at]] = "done" => chan[cur.id] # <<>>

RaceAhead ==
    Active /\ mode = "parallel" =>
        cur.pending > 0 /\ \A l \in Lane : job[cur.id][l] # "none"

ProgressInv == RoomLeft /\ SomeLane /\ LoopAhead /\ RaceAhead

\* Nobody waits for good: a lane that has its answer finds room in the
\* channel, and a collector finds an answer in its channel or has a call under
\* way that is going to send one.
NeverStuck ==
    /\ \A d \in Id, l \in Lane : job[d][l] = "send" => Len(chan[d]) < Capacity
    /\ cur.pc = "collect" =>
         \/ chan[cur.id] # <<>>
         \/ \E l \in Lane : job[cur.id][l] \in {"start", "call", "send"}

LEMMA BusyFinite ==
    ASSUME NEW d \in Id
    PROVE  IsFiniteSet(Busy(d)) /\ Cardinality(Busy(d)) \in Nat /\ Busy(d) \subseteq Lane
<1>1. Busy(d) \subseteq Lane
  BY DEF Busy
<1> QED  BY <1>1, FS_Subset, FS_CardinalityType, DispatchAssumption

LEMMA RoomTypes ==
    ASSUME DispatchInv, NEW d \in Id
    PROVE  chan[d] \in Seq(Lane) /\ Len(chan[d]) \in Nat /\ N \in Nat
  BY LanesCounted DEF DispatchInv, CallsOK

\* A channel that is not longer, beside the same calls under way, leaves room.
LEMMA RoomStays ==
    ASSUME DispatchInv, RoomLeft, NEW d \in Id, Busy(d)' = Busy(d),
           Len(chan'[d]) \in Nat, Len(chan'[d]) <= Len(chan[d])
    PROVE  Len(chan'[d]) + Cardinality(Busy(d)') <= N
<1>1. Len(chan[d]) \in Nat /\ N \in Nat /\ Cardinality(Busy(d)) \in Nat
  BY RoomTypes, BusyFinite
<1>2. Len(chan[d]) + Cardinality(Busy(d)) <= N
  BY DEF RoomLeft
<1>3. Cardinality(Busy(d)') = Cardinality(Busy(d))
  BY Zenon
<1> HIDE DEF N
<1> QED  BY <1>1, <1>2, <1>3

\* Taking an answer only shortens a channel.
LEMMA TakenRoom ==
    ASSUME DispatchInv, Active, RoomLeft, job' = job, chan' = chan \/ TakesAnswer
    PROVE  RoomLeft'
<1> SUFFICES ASSUME NEW d \in Id PROVE Len(chan'[d]) + Cardinality(Busy(d)') <= N
  BY DEF RoomLeft
<1>1. Busy(d)' = Busy(d)
  BY DEF Busy
<1>2. chan \in [Id -> Seq(Lane)] /\ chan[d] \in Seq(Lane) /\ Len(chan[d]) \in Nat
  BY RoomTypes DEF DispatchInv, CallsOK
<1>3. Len(chan'[d]) \in Nat /\ Len(chan'[d]) <= Len(chan[d])
  <2>1. CASE chan'[d] = chan[d]
    BY <1>2, <2>1
  <2>2. CASE d = cur.id /\ TakesAnswer
    <3>1. chan'[d] = Tail(chan[d]) /\ chan[d] # <<>>
      BY <1>2, <2>2 DEF TakesAnswer
    <3>2. Len(Tail(chan[d])) = Len(chan[d]) - 1 /\ Len(chan[d]) \in Nat \ {0}
      BY <1>2, <3>1, Taken
    <3> QED  BY <3>1, <3>2
  <2> QED  BY <1>2, <2>1, <2>2 DEF TakesAnswer
<1> QED  BY <1>1, <1>3, RoomStays

\* A lane's step takes its call out of the ones under way when it sends.
LEMMA LaneRoom ==
    ASSUME DispatchInv, RoomLeft, NEW d \in Id, NEW l \in Lane, LaneStep(d, l)
    PROVE  RoomLeft'
<1>1. CallsOK /\ job[d][l] \in {"start", "call", "send"} /\ chan \in [Id -> Seq(Lane)]
  BY LaneEffect DEF DispatchInv, CallsOK
<1>2. PICK to \in {"call", "send", "done"}, answer \in Answer \cup {"none"} :
        LaneMoves(d, l, to, answer)
  BY <1>1, LaneEffect
<1> SUFFICES ASSUME NEW e \in Id PROVE Len(chan'[e]) + Cardinality(Busy(e)') <= N
  BY DEF RoomLeft
<1>3. chan[e] \in Seq(Lane) /\ Len(chan[e]) \in Nat /\ N \in Nat
  BY RoomTypes
<1>4. CASE e # d \/ to # "done"
  <2>1. chan'[e] = chan[e]
    BY <1>1, <1>2, <1>4 DEF LaneMoves
  <2>2. \A m \in Lane : job'[e][m] = "done" <=> job[e][m] = "done"
    BY <1>1, <1>2, <1>4 DEF LaneMoves
  <2>3. Busy(e)' = Busy(e)
    BY <2>2 DEF Busy
  <2>4. Len(chan'[e]) \in Nat /\ Len(chan'[e]) <= Len(chan[e])
    BY <1>3, <2>1
  <2> QED  BY <2>3, <2>4, RoomStays
<1>5. CASE e = d /\ to = "done"
  <2>1. chan'[d] = Append(chan[d], l)
    BY <1>1, <1>2, <1>5 DEF LaneMoves
  <2>2. Busy(d)' = Busy(d) \ {l} /\ l \in Busy(d)
    BY <1>1, <1>2, <1>5 DEF LaneMoves, Busy
  <2>3. Cardinality(Busy(d) \ {l}) = Cardinality(Busy(d)) - 1
    BY <2>2, BusyFinite, FS_RemoveElement, Zenon
  <2>4. Cardinality(Busy(d)') = Cardinality(Busy(d)) - 1
    BY <2>2, <2>3, Zenon
  <2>5. Len(chan'[d]) = Len(chan[d]) + 1
    BY <1>3, <1>5, <2>1, Appended
  <2>6. Len(chan[d]) + Cardinality(Busy(d)) <= N /\ Cardinality(Busy(d)) \in Nat
    BY BusyFinite DEF RoomLeft
  <2> HIDE DEF N
  <2> QED  BY <1>3, <1>5, <2>4, <2>5, <2>6
<1> QED  BY <1>4, <1>5

\* What the lanes do keeps a collector supplied.
LEMMA LaneProgress ==
    ASSUME DispatchInv, ProgressInv, NEW d \in Id, NEW l \in Lane, LaneStep(d, l)
    PROVE  ProgressInv'
<1>1. /\ CallsOK /\ UNCHANGED <<cur, mode>> /\ cur \in Cursor
      /\ job[d][l] \in {"start", "call", "send"} /\ chan \in [Id -> Seq(Lane)]
  BY LaneEffect DEF DispatchInv, CursorOK, CallsOK
<1>2. PICK to \in {"call", "send", "done"}, answer \in Answer \cup {"none"} :
        LaneMoves(d, l, to, answer)
  BY <1>1, LaneEffect
<1>3. RoomLeft' /\ SomeLane'
  BY <1>1, LaneRoom DEF ProgressInv, SomeLane
<1>4. \A e \in Id, m \in Lane : job[e][m] # "none" => job'[e][m] # "none"
  BY <1>2 DEF LaneMoves
<1>5. RaceAhead'
  <2> SUFFICES ASSUME Active, mode = "parallel"
               PROVE  cur.pending > 0 /\ \A m \in Lane : job'[cur.id][m] # "none"
    BY <1>1 DEF RaceAhead, Active
  <2>1. cur.id \in Id
    BY DEF DispatchInv, DispatchOK
  <2> QED  BY <1>4, <2>1 DEF ProgressInv, RaceAhead
<1>6. LoopAhead'
  <2> SUFFICES ASSUME cur.pc = "collect", mode = "ordered"
               PROVE  /\ job'[cur.id][LaneOrder[cur.at]] # "none"
                      /\ job'[cur.id][LaneOrder[cur.at]] = "done" => chan'[cur.id] # <<>>
    BY <1>1 DEF LoopAhead
  <2> DEFINE m == LaneOrder[cur.at]
  <2>1. cur.id \in Id /\ LoopOK
    BY DEF DispatchInv, DispatchOK, Active
  <2>2. cur.at \in 1 .. N /\ m \in Lane
    BY <1>1, <2>1, LanesCounted DEF LoopOK, Cursor, N
  <2>3. job[cur.id][m] # "none" /\ (job[cur.id][m] = "done" => chan[cur.id] # <<>>)
    BY DEF ProgressInv, LoopAhead
  <2> HIDE DEF m
  <2>4. chan[cur.id] \in Seq(Lane)
    BY <1>1, <2>1
  <2>8. Append(chan[cur.id], l) # <<>>
    <3>1. Len(Append(chan[cur.id], l)) = Len(chan[cur.id]) + 1 /\ Len(chan[cur.id]) \in Nat
      BY <2>4, Appended
    <3>2. Len(<<>>) = 0
      OBVIOUS
    <3>3. Len(Append(chan[cur.id], l)) # Len(<<>>)
      BY <3>1, <3>2
    <3> QED  BY <3>3, Zenon
  <2>5. chan[cur.id] # <<>> => chan'[cur.id] # <<>>
    <3>1. chan'[cur.id] = chan[cur.id] \/ chan'[cur.id] = Append(chan[cur.id], l)
      BY <1>1, <1>2, <2>1 DEF LaneMoves
    <3> QED  BY <2>8, <3>1
  <2>6. job'[cur.id][m] = "done" => chan'[cur.id] # <<>>
    <3>1. CASE job[cur.id][m] = "done"
      BY <2>3, <2>5, <3>1
    <3>2. CASE job[cur.id][m] # "done"
      <4> SUFFICES ASSUME job'[cur.id][m] = "done" PROVE chan'[cur.id] # <<>>
        OBVIOUS
      <4>1. d = cur.id /\ to = "done"
        BY <1>2, <2>1, <2>2, <3>2 DEF LaneMoves
      <4>2. chan'[cur.id] = Append(chan[cur.id], l)
        BY <1>1, <1>2, <2>1, <4>1 DEF LaneMoves
      <4> QED  BY <2>8, <4>2
    <3> QED  BY <3>1, <3>2
  <2> QED  BY <1>4, <2>1, <2>2, <2>3, <2>6 DEF m
<1> QED  BY <1>3, <1>5, <1>6 DEF ProgressInv

\* The orchestrator's steps.
LEMMA OrchestratorProgress ==
    ASSUME DispatchInv, ProgressInv, OrchestratorStep
    PROVE  ProgressInv'
<1>1. /\ Active /\ mode' = mode /\ cur.id \in Id /\ cur \in Cursor /\ Lane # {}
      /\ job \in [Id -> [Lane -> JobPC]]
      /\ mode = "ordered" => LoopOK
      /\ ReturnsNow \/ CallsLane \/ LoopsOn \/ CollectsOne
  BY OrchestratorEffect DEF DispatchInv, DispatchOK, CursorOK, CallsOK, ProgressInv, SomeLane, Active
<1>2. SomeLane'
  BY <1>1 DEF SomeLane
<1>3. CASE ReturnsNow
  <2>1. RoomLeft'
    BY <1>1, <1>3, TakenRoom DEF ReturnsNow, ProgressInv
  <2> QED  BY <1>2, <1>3, <2>1 DEF ReturnsNow, ProgressInv, LoopAhead, RaceAhead, Active
<1>4. CASE LoopsOn
  <2>1. RoomLeft'
    BY <1>1, <1>4, TakenRoom DEF LoopsOn, ProgressInv
  <2> QED  BY <1>1, <1>2, <1>4, <2>1 DEF LoopsOn, ProgressInv, LoopAhead, RaceAhead
<1>5. CASE CollectsOne
  <2>1. RoomLeft'
    BY <1>1, <1>5, TakenRoom DEF CollectsOne, ProgressInv
  <2> QED  BY <1>1, <1>2, <1>5, <2>1 DEF CollectsOne, ProgressInv, LoopAhead, RaceAhead
<1>6. CASE CallsLane
  <2> DEFINE m == LaneOrder[cur.at + 1]
  <2>1. cur.at \in 0 .. N /\ N \in Nat /\ cur.at # N /\ mode = "ordered" /\ LoopOK
    BY <1>1, <1>6, LanesCounted DEF Cursor, CallsLane, N
  <2>2. cur.at + 1 \in 1 .. N /\ cur.at + 1 > cur.at
    BY <2>1
  <2>3. m \in Lane /\ job[cur.id][m] = "none"
    BY <2>1, <2>2, LanesCounted DEF LoopOK
  <2>4. job' = [job EXCEPT ![cur.id][m] = "start"] /\ chan' = chan
    BY <1>6 DEF CallsLane
  <2> HIDE DEF m
  <2>5. job'[cur.id][m] = "start"
    BY <1>1, <2>3, <2>4
  <2>6. RoomLeft'
    <3> SUFFICES ASSUME NEW e \in Id PROVE Len(chan'[e]) + Cardinality(Busy(e)') <= N
      BY DEF RoomLeft
    <3>1. \A k \in Lane : job'[e][k] = "done" <=> job[e][k] = "done"
      BY <1>1, <2>3, <2>4
    <3>2. Busy(e)' = Busy(e)
      BY <3>1 DEF Busy
    <3>3. Len(chan'[e]) \in Nat /\ Len(chan'[e]) <= Len(chan[e])
      BY <2>4, RoomTypes
    <3> QED  BY <3>2, <3>3, RoomStays DEF ProgressInv
  <2>7. LoopAhead'
    BY <1>6, <2>5 DEF LoopAhead, CallsLane, m
  <2> QED  BY <1>1, <1>2, <2>1, <2>6, <2>7 DEF ProgressInv, RaceAhead
<1> QED  BY <1>1, <1>3, <1>4, <1>5, <1>6

\* The worker's steps: a race begins with every lane called.
LEMMA WorkerProgress ==
    ASSUME DispatchInv, ProgressInv, Poll \/ NoLookup \/ BeginDispatch \/ Shutdown \/ Tick
    PROVE  ProgressInv'
<1>1. /\ mode' = mode /\ chan' = chan
      /\ \/ cur' = cur /\ job' = job
         \/ ~Active /\ job' = job /\ cur'.pc = "idle"
         \/ ~Active /\ job' = job /\ cur'.pc = "polled" /\ Lane # {}
         \/ ~Active /\ job' = job /\ cur'.pc = "next" /\ Lane # {} /\ mode = "ordered"
         \/ ~Active /\ RaceBegins
  BY WorkerEffect DEF ProgressInv, SomeLane
<1>2. job' = job => RoomLeft'
  <2> SUFFICES ASSUME job' = job, NEW e \in Id
               PROVE  Len(chan'[e]) + Cardinality(Busy(e)') <= N
    BY DEF RoomLeft
  <2>1. Busy(e)' = Busy(e)
    BY DEF Busy
  <2>2. Len(chan'[e]) \in Nat /\ Len(chan'[e]) <= Len(chan[e])
    BY <1>1, RoomTypes
  <2> QED  BY <2>1, <2>2, RoomStays DEF ProgressInv
<1>3. CASE cur' = cur /\ job' = job
  BY <1>1, <1>2, <1>3 DEF ProgressInv, SomeLane, LoopAhead, RaceAhead, Active
<1>4. CASE /\ job' = job
           /\ \/ cur'.pc = "idle"
              \/ cur'.pc = "polled" /\ Lane # {}
              \/ cur'.pc = "next" /\ Lane # {} /\ mode = "ordered"
  BY <1>1, <1>2, <1>4 DEF ProgressInv, SomeLane, LoopAhead, RaceAhead, Active
<1>5. CASE RaceBegins
  <2>0. PICK id : id = cur.id + 1
    OBVIOUS
  <2>1. /\ id \in Id /\ Lane # {} /\ chan[id] = <<>> /\ mode = "parallel"
        /\ cur'.id = id /\ cur'.pc = "collect" /\ cur'.pending = N
        /\ job' = [job EXCEPT ![id] = [l \in Lane |-> "start"]]
    BY <1>5, <2>0 DEF RaceBegins
  <2>2. job \in [Id -> [Lane -> JobPC]]
    BY DEF DispatchInv, CallsOK
  <2>3. \A l \in Lane : job'[id][l] = "start"
    BY <2>1, <2>2
  <2>4. N > 0 /\ N \in Nat
    <3>1. N # 0
      BY <2>1, FS_EmptySet, DispatchAssumption DEF N
    <3> QED  BY <3>1, LanesCounted
  <2>5. RaceAhead'
    BY <2>1, <2>3, <2>4 DEF RaceAhead
  <2>6. RoomLeft'
    <3> SUFFICES ASSUME NEW e \in Id PROVE Len(chan'[e]) + Cardinality(Busy(e)') <= N
      BY DEF RoomLeft
    <3>1. CASE e = id
      <4>1. Len(chan'[e]) = 0
        BY <1>1, <2>1, <3>1
      <4>2. Busy(e)' = Lane
        BY <2>3, <3>1 DEF Busy
      <4>3. Cardinality(Busy(e)') = N
        BY <4>2, Zenon DEF N
      <4> HIDE DEF N
      <4> QED  BY <2>4, <4>1, <4>3
    <3>2. CASE e # id
      <4>1. job'[e] = job[e]
        BY <2>1, <2>2, <3>2
      <4>2. Busy(e)' = Busy(e)
        BY <4>1 DEF Busy
      <4>3. Len(chan'[e]) \in Nat /\ Len(chan'[e]) <= Len(chan[e])
        BY <1>1, RoomTypes
      <4> QED  BY <4>2, <4>3, RoomStays DEF ProgressInv
    <3> QED  BY <3>1, <3>2
  <2> QED  BY <1>1, <2>1, <2>5, <2>6 DEF ProgressInv, SomeLane, LoopAhead
<1> QED  BY <1>1, <1>3, <1>4, <1>5

LEMMA ProgressStep == DispatchInv /\ ProgressInv /\ [Next]_vars => ProgressInv'
<1> SUFFICES ASSUME DispatchInv, ProgressInv, [Next]_vars PROVE ProgressInv'
  OBVIOUS
<1>1. CASE UNCHANGED vars
  BY <1>1 DEF vars, ProgressInv, RoomLeft, SomeLane, LoopAhead, RaceAhead, Active, Busy
<1> QED  BY <1>1, LaneProgress, OrchestratorProgress, WorkerProgress DEF Next

LEMMA ProgressInit == Init => ProgressInv
<1> SUFFICES ASSUME Init PROVE ProgressInv
  OBVIOUS
<1>1. cur.pc = "idle"
  BY DEF Init, Fresh
<1>2. ASSUME NEW d \in Id PROVE Len(chan[d]) + Cardinality(Busy(d)) <= N
  <2>1. Len(chan[d]) = 0
    BY DEF Init
  <2>2. Busy(d) \subseteq Lane /\ Cardinality(Busy(d)) \in Nat
    BY BusyFinite
  <2>3. Cardinality(Busy(d)) <= N /\ N \in Nat
    BY <2>2, FS_Subset, DispatchAssumption, LanesCounted DEF N
  <2> HIDE DEF N
  <2> QED  BY <2>1, <2>2, <2>3
<1> QED  BY <1>1, <1>2 DEF ProgressInv, RoomLeft, SomeLane, LoopAhead, RaceAhead, Active

\* The invariants leave nobody waiting for good.
LEMMA NotStuck == DispatchInv /\ ProgressInv => NeverStuck
<1> SUFFICES ASSUME DispatchInv, ProgressInv PROVE NeverStuck
  OBVIOUS
<1>1. ASSUME NEW d \in Id, NEW l \in Lane, job[d][l] = "send"
      PROVE  Len(chan[d]) < Capacity
  <2>1. l \in Busy(d)
    BY <1>1 DEF Busy
  <2>2. IsFiniteSet(Busy(d)) /\ Cardinality(Busy(d)) \in Nat
    BY BusyFinite
  <2>3. Cardinality(Busy(d)) # 0
    BY <2>1, <2>2, FS_EmptySet
  <2>4. Len(chan[d]) + Cardinality(Busy(d)) <= N
    BY DEF ProgressInv, RoomLeft
  <2>5. Len(chan[d]) \in Nat /\ N \in Nat /\ Capacity = N
    BY RoomTypes DEF Capacity, N
  <2> HIDE DEF N
  <2> QED  BY <2>2, <2>3, <2>4, <2>5
<1>2. ASSUME cur.pc = "collect", chan[cur.id] = <<>>
      PROVE  \E l \in Lane : job[cur.id][l] \in {"start", "call", "send"}
  <2>1. /\ cur.id \in Id /\ mode \in {"ordered", "parallel"} /\ cur \in Cursor
        /\ job \in [Id -> [Lane -> JobPC]]
    BY <1>2, DispatchAssumption DEF DispatchInv, DispatchOK, CursorOK, CallsOK, Active
  <2>2. CASE mode = "ordered"
    <3>1. LoopOK
      BY <1>2, <2>2 DEF DispatchInv, DispatchOK, Active
    <3>2. cur.at \in 1 .. N /\ LaneOrder[cur.at] \in Lane
      BY <1>2, <2>1, <3>1, LanesCounted DEF LoopOK, Cursor, N
    <3>3. job[cur.id][LaneOrder[cur.at]] \notin {"none", "done"}
      BY <1>2, <2>2 DEF ProgressInv, LoopAhead
    <3> QED  BY <2>1, <3>2, <3>3 DEF JobPC
  <2>3. CASE mode = "parallel"
    <3>1. /\ cur.pending = Cardinality(Busy(cur.id)) + Len(chan[cur.id])
          /\ cur.pending > 0 /\ \A l \in Lane : job[cur.id][l] # "none"
      BY <1>2, <2>3 DEF DispatchInv, DispatchOK, RaceOK, ProgressInv, RaceAhead, Active
    <3>2. Cardinality(Busy(cur.id)) # 0
      <4>1. Len(chan[cur.id]) = 0 /\ Cardinality(Busy(cur.id)) \in Nat
        BY <1>2, <2>1, BusyFinite
      <4> QED  BY <3>1, <4>1
    <3>3. Busy(cur.id) # {}
      BY <3>2, FS_EmptySet
    <3>4. PICK l \in Lane : job[cur.id][l] # "done"
      BY <3>3 DEF Busy
    <3> QED  BY <2>1, <3>1, <3>4 DEF JobPC
  <2> QED  BY <2>1, <2>2, <2>3
<1> QED  BY <1>1, <1>2 DEF NeverStuck

\* How much of a dispatch is left: lanes to call and answers to take in order,
\* answers to come in a race.
LoopRank ==
    CASE mode = "ordered"  -> 2 * (N - cur.at) + (IF cur.pc = "collect" THEN 2 ELSE 1)
      [] mode = "parallel" -> cur.pending

CallRank(pc) ==
    CASE pc = "none" -> 4 [] pc = "start" -> 3 [] pc = "call" -> 2
      [] pc = "send" -> 1 [] pc = "done" -> 0

\* A step that touches the dispatch under way ends it or leaves less of it,
\* and a step that touches a lane's call brings it nearer to its end.
DispatchShrinks ==
    [][/\ Active /\ cur' # cur =>
            /\ cur'.id = cur.id
            /\ cur'.pc = "idle" \/ (Active' /\ 0 <= LoopRank' /\ LoopRank' < LoopRank)
       /\ \A d \in Id, l \in Lane :
            job'[d][l] = job[d][l] \/ CallRank(job'[d][l]) < CallRank(job[d][l])]_vars

\* The orchestrator leaves less of its dispatch.
LEMMA LoopShrinks ==
    ASSUME DispatchInv, OrchestratorStep
    PROVE  /\ cur'.id = cur.id
           /\ cur'.pc = "idle" \/ (Active' /\ 0 <= LoopRank' /\ LoopRank' < LoopRank)
<1>1. /\ Active /\ mode' = mode /\ cur \in Cursor
      /\ ReturnsNow \/ CallsLane \/ LoopsOn \/ CollectsOne
  BY OrchestratorEffect DEF DispatchInv, CursorOK
<1>2. cur.at \in 0 .. N /\ cur.pending \in Nat /\ N \in Nat
  BY <1>1, LanesCounted DEF Cursor, N
<1> HIDE DEF N
<1>3. CASE ReturnsNow
  BY <1>3 DEF ReturnsNow
<1>4. CASE CallsLane
  <2>1. /\ mode = "ordered" /\ mode' = "ordered" /\ cur.pc = "next" /\ cur'.pc = "collect"
        /\ cur'.at = cur.at + 1 /\ cur.at # N /\ cur'.id = cur.id
    BY <1>1, <1>4 DEF CallsLane
  <2>2. LoopRank = 2 * (N - cur.at) + 1 /\ LoopRank' = 2 * (N - (cur.at + 1)) + 2
    BY <2>1 DEF LoopRank
  <2>3. 0 <= LoopRank' /\ LoopRank' < LoopRank
    BY <1>2, <2>1, <2>2
  <2> QED  BY <2>1, <2>3 DEF Active
<1>5. CASE LoopsOn
  <2>1. /\ mode = "ordered" /\ mode' = "ordered" /\ cur.pc = "collect" /\ cur'.pc = "next"
        /\ cur'.at = cur.at /\ cur'.id = cur.id
    BY <1>1, <1>5 DEF LoopsOn
  <2>2. LoopRank = 2 * (N - cur.at) + 2 /\ LoopRank' = 2 * (N - cur.at) + 1
    BY <2>1 DEF LoopRank
  <2>3. 0 <= LoopRank' /\ LoopRank' < LoopRank
    BY <1>2, <2>2
  <2> QED  BY <2>1, <2>3 DEF Active
<1>6. CASE CollectsOne
  <2>1. /\ mode = "parallel" /\ mode' = "parallel" /\ cur'.pc = "collect"
        /\ cur'.pending = cur.pending - 1 /\ cur'.pending > 0 /\ cur'.id = cur.id
    BY <1>1, <1>6 DEF CollectsOne
  <2>2. LoopRank = cur.pending /\ LoopRank' = cur.pending - 1
    BY <2>1 DEF LoopRank
  <2>3. 0 <= LoopRank' /\ LoopRank' < LoopRank
    BY <1>2, <2>1, <2>2
  <2> QED  BY <2>1, <2>3 DEF Active
<1> QED  BY <1>1, <1>3, <1>4, <1>5, <1>6

LEMMA CallRanks ==
    /\ CallRank("start") < CallRank("none") /\ CallRank("call") < CallRank("start")
    /\ CallRank("send") < CallRank("start") /\ CallRank("send") < CallRank("call")
    /\ CallRank("done") < CallRank("send")
  BY DEF CallRank

\* No call goes back.
LEMMA CallsShrink ==
    ASSUME DispatchInv, ProgressInv, [Next]_vars, NEW d \in Id, NEW l \in Lane
    PROVE  job'[d][l] = job[d][l] \/ CallRank(job'[d][l]) < CallRank(job[d][l])
<1>1. CallsOK /\ job \in [Id -> [Lane -> JobPC]]
  BY DEF DispatchInv, CallsOK
<1>2. CASE job' = job
  BY <1>2
<1>3. ASSUME NEW e \in Id, NEW m \in Lane, LaneStep(e, m)
      PROVE  job'[d][l] = job[d][l] \/ CallRank(job'[d][l]) < CallRank(job[d][l])
  <2>1. CASE Allow(e, m)
    <3>1. \/ job'[d][l] = job[d][l]
          \/ job[d][l] = "start" /\ job'[d][l] \in {"call", "send"}
      BY <1>1, <2>1 DEF Allow
    <3> QED  BY <3>1, CallRanks
  <2>2. CASE ProviderAnswers(e, m)
    <3>1. \/ job'[d][l] = job[d][l]
          \/ job[d][l] = "call" /\ job'[d][l] = "send"
      BY <1>1, <2>2 DEF ProviderAnswers
    <3> QED  BY <3>1, CallRanks
  <2>3. CASE Send(e, m)
    <3>1. \/ job'[d][l] = job[d][l]
          \/ job[d][l] = "send" /\ job'[d][l] = "done"
      BY <1>1, <2>3 DEF Send
    <3> QED  BY <3>1, CallRanks
  <2> QED  BY <1>3, <2>1, <2>2, <2>3 DEF LaneStep
<1>4. CASE OrchestratorStep
  <2>1. /\ Active /\ (ReturnsNow \/ CallsLane \/ LoopsOn \/ CollectsOne)
        /\ cur.id \in Id /\ cur \in Cursor
    BY <1>4, OrchestratorEffect DEF DispatchInv, DispatchOK, CursorOK
  <2>2. CASE CallsLane
    <3>1. cur.at \in 0 .. N /\ N \in Nat /\ cur.at # N /\ LoopOK
      BY <2>1, <2>2, LanesCounted DEF Cursor, CallsLane, N, DispatchInv, DispatchOK
    <3>2. cur.at + 1 \in 1 .. N /\ cur.at + 1 > cur.at
      BY <3>1
    <3>3. job[cur.id][LaneOrder[cur.at + 1]] = "none" /\ LaneOrder[cur.at + 1] \in Lane
      BY <3>1, <3>2, LanesCounted DEF LoopOK
    <3>4. job' = [job EXCEPT ![cur.id][LaneOrder[cur.at + 1]] = "start"]
      BY <2>2 DEF CallsLane
    <3>5. \/ job'[d][l] = job[d][l]
          \/ job[d][l] = "none" /\ job'[d][l] = "start"
      BY <1>1, <2>1, <3>3, <3>4
    <3> QED  BY <3>5, CallRanks
  <2>3. CASE ReturnsNow \/ LoopsOn \/ CollectsOne
    BY <1>2, <2>3 DEF ReturnsNow, LoopsOn, CollectsOne
  <2> QED  BY <2>1, <2>2, <2>3
<1>5. CASE Poll \/ NoLookup \/ BeginDispatch \/ Shutdown \/ Tick
  <2>1. job' = job \/ RaceBegins
    BY <1>5, WorkerEffect DEF ProgressInv, SomeLane
  <2>2. CASE RaceBegins
    <3>1. \/ job'[d][l] = job[d][l]
          \/ job[d][l] = "none" /\ job'[d][l] = "start"
      BY <1>1, <2>2 DEF RaceBegins
    <3> QED  BY <3>1, CallRanks
  <2> QED  BY <1>2, <2>1, <2>2
<1>6. CASE UNCHANGED vars
  BY <1>2, <1>6 DEF vars
<1> QED  BY <1>3, <1>4, <1>5, <1>6 DEF Next

\* The cursor of a dispatch under way is moved by the orchestrator alone.
LEMMA OnlyOrchestrator ==
    ASSUME DispatchInv, ProgressInv, [Next]_vars, Active, cur' # cur
    PROVE  OrchestratorStep
<1>1. ASSUME NEW d \in Id, NEW l \in Lane, LaneStep(d, l) PROVE cur' = cur
  BY <1>1, LaneEffect DEF DispatchInv
<1>2. ASSUME Poll \/ NoLookup \/ BeginDispatch \/ Shutdown \/ Tick PROVE cur' = cur
  BY <1>2, WorkerEffect DEF ProgressInv, SomeLane
<1>3. UNCHANGED vars => cur' = cur
  BY DEF vars
<1> QED  BY <1>1, <1>2, <1>3 DEF Next

\* No goroutine of a lane waits for room in a results channel, not even for a
\* dispatch nobody reads any more, and no collector waits for an answer nobody
\* is going to send (findParallel, findOrdered): the channel is as wide as the
\* lanes, and pending never counts a lane twice.
THEOREM StuckTheorem == Spec => []NeverStuck
  BY DispatchInvariant, ProgressInit, ProgressStep, NotStuck, PTL DEF Spec

\* The safety half of DispatchEnds and NoGoroutineLeak. Every step of the
\* orchestrator ends its dispatch or leaves less of it, and nothing else
\* touches it; every call of a lane only moves on. With StuckTheorem, all that
\* is left to fairness is that the goroutines are scheduled.
THEOREM DispatchProgress == Spec => DispatchShrinks
<1> DEFINE A == /\ Active /\ cur' # cur =>
                     /\ cur'.id = cur.id
                     /\ cur'.pc = "idle" \/ (Active' /\ 0 <= LoopRank' /\ LoopRank' < LoopRank)
                /\ \A d \in Id, l \in Lane :
                     job'[d][l] = job[d][l] \/ CallRank(job'[d][l]) < CallRank(job[d][l])
<1>1. DispatchInv /\ ProgressInv /\ [Next]_vars => [A]_vars
  BY OnlyOrchestrator, LoopShrinks, CallsShrink
<1>2. DispatchShrinks <=> [][A]_vars
  BY DEF DispatchShrinks
<1> HIDE DEF A
<1> QED  BY <1>1, <1>2, DispatchInvariant, ProgressInit, ProgressStep, PTL DEF Spec

=============================================================================
