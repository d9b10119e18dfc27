------------------------------- MODULE Backoff -------------------------------
(***************************************************************************)
(* The delay schedule of internal/backoff, shared by failed items, misses  *)
(* and circuit breakers.  Durations are 64-bit in the code; the loop       *)
(* doubles only while the delay is at most half of max.                    *)
(***************************************************************************)
EXTENDS Integers

\* One turn of the loop: the delay before the next attempt, from this one's.
Doubled(delay, max) ==
    IF delay >= max \/ delay > max \div 2 THEN max ELSE 2 * delay

Geometric(attempts, base, max) ==
    LET n == IF attempts < 1 THEN 1 ELSE attempts
        delay[i \in 1 .. n] == IF i = 1 THEN base ELSE Doubled(delay[i - 1], max)
    IN  IF base <= 0 \/ max <= 0 THEN 0
        ELSE IF delay[n] > max THEN max ELSE delay[n]

MissCooldown(missCount, base, max) == Geometric(missCount, base, max)

=============================================================================
