--------------------------- MODULE Backoff_proofs ---------------------------
(***************************************************************************)
(* The delays of internal/backoff stay within their maximum, and are never *)
(* zero once a failure is counted, for every base, maximum and number of   *)
(* attempts.                                                               *)
(***************************************************************************)
EXTENDS Backoff, WellFoundedInduction, TLAPS

LEMMA LeastNatural ==
    ASSUME NEW T \in SUBSET Nat, T # {}
    PROVE  \E m \in T : \A k \in T : m <= k
<1> DEFINE R == OpToRel(<, Nat)
<1>1. IsWellFoundedOn(R, Nat)
  BY NatLessThanWellFounded
<1>2. \E m \in T : \A k \in T : <<k, m>> \notin R
  <2> HIDE DEF R
  <2> QED BY <1>1, WFMin
<1>3. \A k, m \in Nat : k < m => <<k, m>> \in R
  BY DEF OpToRel
<1> HIDE DEF R
<1>4. PICK m \in T : \A k \in T : <<k, m>> \notin R
  BY <1>2
<1>5. \A k \in T : ~(k < m) /\ k \in Nat /\ m \in Nat
  BY <1>3, <1>4
<1> QED BY <1>5

\* The loop of Geometric as a function of the number of its turns.
Turns(f, n, base, max) ==
    f = [i \in 1 .. n |-> IF i = 1 THEN base ELSE Doubled(f[i - 1], max)]

\* The loop's delays exist, whatever the number of turns.
LEMMA TurnsExist ==
    ASSUME NEW base, NEW max, NEW n \in Nat \ {0}
    PROVE  \E f : Turns(f, n, base, max)
<1> DEFINE T == {k \in Nat : k > 0 /\ ~ \E f : Turns(f, k, base, max)}
<1> SUFFICES ASSUME T # {} PROVE FALSE
  OBVIOUS
<1>1. PICK m \in T : \A k \in T : m <= k
  BY LeastNatural
<1>2. m \in Nat /\ m > 0 /\ ~ \E f : Turns(f, m, base, max)
  OBVIOUS
<1>3. CASE m = 1
  <2> DEFINE g == [i \in 1 .. 1 |-> base]
  <2>1. Turns(g, 1, base, max)
    BY DEF Turns
  <2> QED  BY <1>2, <1>3, <2>1
<1>4. CASE m # 1
  <2>1. m - 1 \in Nat /\ m - 1 > 0 /\ ~(m <= m - 1)
    BY <1>2, <1>4
  <2>2. m - 1 \notin T
    BY <1>1, <2>1
  <2>3. PICK f : Turns(f, m - 1, base, max)
    BY <2>1, <2>2
  <2> DEFINE g == [i \in 1 .. m |-> IF i = m THEN Doubled(f[m - 1], max) ELSE f[i]]
  <2>4. \A i \in 1 .. m : g[i] = IF i = 1 THEN base ELSE Doubled(g[i - 1], max)
    <3> TAKE i \in 1 .. m
    <3>1. CASE i = m
      <4>1. g[i] = Doubled(f[m - 1], max)
        BY <3>1
      <4>2. g[m - 1] = f[m - 1]
        BY <2>1
      <4> QED  BY <1>4, <3>1, <4>1, <4>2
    <3>2. CASE i # m
      <4>1. i \in 1 .. m - 1 /\ g[i] = f[i]
        BY <1>2, <3>2
      <4>2. f[i] = IF i = 1 THEN base ELSE Doubled(f[i - 1], max)
        BY <2>3, <4>1 DEF Turns
      <4>3. i # 1 => i - 1 \in 1 .. m /\ i - 1 # m /\ g[i - 1] = f[i - 1]
        BY <1>2, <4>1
      <4> HIDE DEF g
      <4> QED  BY <4>1, <4>2, <4>3
    <3> QED  BY <3>1, <3>2
  <2>5. g = [i \in 1 .. m |-> g[i]]
    OBVIOUS
  <2> HIDE DEF g
  <2>6. Turns(g, m, base, max)
    BY <2>4, <2>5 DEF Turns
  <2> QED  BY <1>2, <2>6
<1> QED  BY <1>3, <1>4

\* Every delay of the loop is positive, and from the second on at most the
\* maximum.
LEMMA TurnsPositive ==
    ASSUME NEW base \in Nat \ {0}, NEW max \in Nat \ {0}, NEW n \in Nat \ {0}, NEW f,
           Turns(f, n, base, max)
    PROVE  \A i \in 1 .. n : f[i] \in Nat \ {0}
<1> DEFINE T == {k \in 1 .. n : f[k] \notin Nat \ {0}}
<1> SUFFICES ASSUME T # {} PROVE FALSE
  OBVIOUS
<1>1. T \in SUBSET Nat /\ T # {}
  OBVIOUS
<1> HIDE DEF T
<1>2. PICK m \in T : \A k \in T : m <= k
  BY <1>1, LeastNatural
<1>3. m \in 1 .. n /\ f[m] \notin Nat \ {0}
  BY DEF T
<1>4. f[m] = IF m = 1 THEN base ELSE Doubled(f[m - 1], max)
  BY <1>3 DEF Turns
<1>5. m # 1
  BY <1>3, <1>4
<1>6. m - 1 \in 1 .. n /\ ~(m <= m - 1)
  BY <1>3, <1>5
<1>7. f[m - 1] \in Nat \ {0}
  BY <1>2, <1>6 DEF T
<1>8. Doubled(f[m - 1], max) \in Nat \ {0}
  BY <1>7 DEF Doubled
<1> QED  BY <1>3, <1>4, <1>5, <1>8

\* What Geometric computes is the last delay of the loop, capped.
LEMMA GeometricTurns ==
    ASSUME NEW base \in Nat \ {0}, NEW max \in Nat \ {0}, NEW attempts \in Int
    PROVE  \E f : LET n == IF attempts < 1 THEN 1 ELSE attempts
                  IN  /\ Turns(f, n, base, max)
                      /\ Geometric(attempts, base, max) = IF f[n] > max THEN max ELSE f[n]
<1> DEFINE n == IF attempts < 1 THEN 1 ELSE attempts
           g == CHOOSE f : f = [i \in 1 .. n |-> IF i = 1 THEN base ELSE Doubled(f[i - 1], max)]
<1>1. n \in Nat \ {0}
  OBVIOUS
<1>2. Turns(g, n, base, max)
  <2> HIDE DEF n
  <2>1. PICK f : Turns(f, n, base, max)
    BY <1>1, TurnsExist
  <2>2. f = [i \in 1 .. n |-> IF i = 1 THEN base ELSE Doubled(f[i - 1], max)]
    BY <2>1 DEF Turns
  <2> QED  BY <2>2 DEF Turns
<1>3. Geometric(attempts, base, max) = IF g[n] > max THEN max ELSE g[n]
  BY DEF Geometric
<1> QED BY <1>2, <1>3

\* Geometric is positive and never more than the maximum, however many the
\* attempts: the doubling neither overflows the cap nor ends in zero.
THEOREM GeometricBounded ==
    ASSUME NEW base \in Nat \ {0}, NEW max \in Nat \ {0}, NEW attempts \in Int
    PROVE  Geometric(attempts, base, max) \in 1 .. max
<1> DEFINE n == IF attempts < 1 THEN 1 ELSE attempts
<1>1. n \in Nat \ {0} /\ n \in 1 .. n
  OBVIOUS
<1>2. PICK f : /\ Turns(f, n, base, max)
               /\ Geometric(attempts, base, max) = IF f[n] > max THEN max ELSE f[n]
  BY GeometricTurns
<1> HIDE DEF n
<1>3. f[n] \in Nat \ {0}
  BY <1>1, <1>2, TurnsPositive
<1> QED  BY <1>2, <1>3

\* A delay is never shorter than its base.
LEMMA GeometricBetween ==
    ASSUME NEW base \in Nat \ {0}, NEW max \in Nat \ {0}, base <= max, NEW attempts \in Int
    PROVE  /\ base <= Geometric(attempts, base, max) /\ Geometric(attempts, base, max) <= max
           /\ Geometric(attempts, base, max) \in Int
<1> DEFINE n == IF attempts < 1 THEN 1 ELSE attempts
<1>1. n \in Nat \ {0} /\ n \in 1 .. n
  OBVIOUS
<1>2. PICK f : /\ Turns(f, n, base, max)
               /\ Geometric(attempts, base, max) = IF f[n] > max THEN max ELSE f[n]
  BY GeometricTurns
<1> HIDE DEF n
<1>3. f[n] \in Nat \ {0} /\ \A i \in 1 .. n : f[i] \in Nat \ {0}
  BY <1>1, <1>2, TurnsPositive
<1> DEFINE T == {k \in 1 .. n : f[k] < base}
<1>4. CASE T # {}
  <2>1. T \in SUBSET Nat
    BY <1>1
  <2> HIDE DEF T
  <2>2. PICK m \in T : \A k \in T : m <= k
    BY <1>4, <2>1, LeastNatural
  <2>3. m \in 1 .. n /\ f[m] < base
    BY DEF T
  <2>4. f[m] = IF m = 1 THEN base ELSE Doubled(f[m - 1], max)
    BY <1>2, <2>3 DEF Turns
  <2>5. m # 1
    BY <2>3, <2>4
  <2>6. m - 1 \in 1 .. n /\ ~(m <= m - 1)
    BY <1>1, <2>3, <2>5
  <2>7. f[m - 1] >= base /\ f[m - 1] \in Nat \ {0}
    BY <1>3, <2>2, <2>6 DEF T
  <2>8. Doubled(f[m - 1], max) >= base
    BY <2>7 DEF Doubled
  <2> QED  BY <2>3, <2>4, <2>5, <2>7, <2>8 DEF Doubled
<1>5. T = {} => f[n] >= base
  BY <1>1, <1>3
<1> QED  BY <1>2, <1>3, <1>4, <1>5

=============================================================================
