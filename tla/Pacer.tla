-------------------------------- MODULE Pacer --------------------------------
(***************************************************************************)
(* The adaptive request pacer of the Musixmatch client: every call first   *)
(* reserves a slot one effective interval after the last reserved one,     *)
(* then sleeps until its slot; a call canceled in its sleep gives the slot *)
(* back if nobody reserved past it.  Calls overlap when the loser of a     *)
(* race is still under way as the next dispatch starts.                    *)
(***************************************************************************)
EXTENDS Integers, Sequences

CONSTANTS
    Caller,
    minInterval,   \* ticks between requests at level 0
    Horizon,       \* the clock is looked at up to this tick
    SlotBound      \* no slot is reserved once the last one is past this

adaptiveMaxLevel == 3

adaptiveSuccessThreshold == 5

ASSUME PacerAssumption ==
    /\ minInterval \in Nat \ {0}
    /\ Horizon \in Nat /\ SlotBound \in Nat

VARIABLES
    now,          \* the clock
    lastRequest,  \* the last reserved slot
    call,         \* caller -> what it is doing
    level,        \* adaptiveLevel
    streak,       \* consecutiveSuccesses
    sent          \* the slots of the requests let through, in order

vars == <<now, lastRequest, call, level, streak, sent>>

\* lastRequest starts as the zero time, long before any slot.
LongAgo == -8 * minInterval - 1

Idle == [pc |-> "idle", slot |-> 0, prev |-> 0]

Init ==
    /\ now = 0
    /\ lastRequest = LongAgo
    /\ call = [c \in Caller |-> Idle]
    /\ level = 0 /\ streak = 0
    /\ sent = <<>>

\* 1 << adaptiveLevel
Multiplier ==
    CASE level = 0 -> 1 [] level = 1 -> 2 [] level = 2 -> 4 [] level = 3 -> 8

NextSlot ==
    LET next == lastRequest + minInterval * Multiplier
    IN  IF next < now THEN now ELSE next

\* The critical section of pace; a caller whose slot is now does not sleep.
Reserve(c) ==
    /\ call[c].pc = "idle"
    /\ lastRequest <= SlotBound
    /\ lastRequest' = NextSlot
    /\ IF NextSlot = now
       THEN sent' = Append(sent, NextSlot) /\ UNCHANGED call
       ELSE /\ call' = [call EXCEPT ![c] = [pc |-> "sleep", slot |-> NextSlot,
                                            prev |-> lastRequest]]
            /\ UNCHANGED sent
    /\ UNCHANGED <<now, level, streak>>

Wake(c) ==
    /\ call[c].pc = "sleep" /\ now >= call[c].slot
    /\ sent' = Append(sent, call[c].slot)
    /\ call' = [call EXCEPT ![c] = Idle]
    /\ UNCHANGED <<now, lastRequest, level, streak>>

\* Faulty: the slot is given back although others were reserved past it.
CancelAlways(c) ==
    /\ call[c].pc = "sleep"
    /\ lastRequest' = call[c].prev
    /\ call' = [call EXCEPT ![c] = Idle]
    /\ UNCHANGED <<now, level, streak, sent>>

\* The context is canceled during the sleep.
Cancel(c) ==
    /\ call[c].pc = "sleep"
    /\ lastRequest' = IF lastRequest = call[c].slot THEN call[c].prev
                      ELSE lastRequest
    /\ call' = [call EXCEPT ![c] = Idle]
    /\ UNCHANGED <<now, level, streak, sent>>

OnThrottle ==
    /\ level' = IF level < adaptiveMaxLevel THEN level + 1 ELSE level
    /\ streak' = 0
    /\ UNCHANGED <<now, lastRequest, call, sent>>

OnSuccess ==
    /\ IF streak + 1 >= adaptiveSuccessThreshold
       THEN /\ level' = IF level > 0 THEN level - 1 ELSE level
            /\ streak' = 0
       ELSE streak' = streak + 1 /\ UNCHANGED level
    /\ UNCHANGED <<now, lastRequest, call, sent>>

Tick ==
    /\ now < Horizon
    /\ now' = now + 1
    /\ UNCHANGED <<lastRequest, call, level, streak, sent>>

Next ==
    \/ \E c \in Caller : Reserve(c) \/ Wake(c) \/ Cancel(c)
    \/ OnThrottle \/ OnSuccess \/ Tick

Spec == Init /\ [][Next]_vars

-----------------------------------------------------------------------------
\* Type invariant of the pacer.
TypeOK ==
    /\ now \in Nat /\ lastRequest \in Int
    /\ call \in [Caller -> [pc : {"idle", "sleep"}, slot : Int, prev : Int]]
    /\ level \in 0 .. adaptiveMaxLevel
    /\ streak \in 0 .. adaptiveSuccessThreshold - 1
    /\ sent \in Seq(Int)

Asleep(c) == call[c].pc = "sleep"

\* At least minInterval lies between s and t.
Apart(s, t) == s + minInterval <= t \/ t + minInterval <= s

\* No convoy: the slots of requests let through, and those of the callers
\* still asleep, are pairwise at least the configured interval apart,
\* whichever callers are canceled and give their slots back.
SlotsApart ==
    /\ \A i, j \in 1 .. Len(sent) : i # j => Apart(sent[i], sent[j])
    /\ \A c \in Caller : Asleep(c) =>
         \A i \in 1 .. Len(sent) : Apart(call[c].slot, sent[i])
    /\ \A c, d \in Caller : (c # d /\ Asleep(c) /\ Asleep(d)) =>
         Apart(call[c].slot, call[d].slot)

\* The strengthening that makes SlotsApart inductive: nothing reserved lies
\* past lastRequest, and a sleeper's own slot is the only one between what it
\* would roll lastRequest back to and the slot after it.
Rollback ==
    /\ \A i \in 1 .. Len(sent) : sent[i] <= lastRequest
    /\ \A c \in Caller : Asleep(c) =>
         /\ call[c].slot <= lastRequest
         /\ call[c].prev + minInterval <= call[c].slot
         /\ \A i \in 1 .. Len(sent) :
              \/ sent[i] <= call[c].prev
              \/ call[c].slot + minInterval <= sent[i]
         /\ \A d \in Caller \ {c} : Asleep(d) =>
              \/ call[d].slot <= call[c].prev
              \/ call[c].slot <= call[d].prev

=============================================================================
