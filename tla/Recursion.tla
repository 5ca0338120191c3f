------------------------------ MODULE Recursion ------------------------------
(***************************************************************************)
(* Machine-checked facts about the natural numbers which the proofs about  *)
(* sums and grammars rest on: induction, stated for sets, and that what is *)
(* defined by recursion exists, stated for functions.  Sets and functions  *)
(* can be instantiated by the provers, operators cannot.                   *)
(***************************************************************************)
EXTENDS Integers, WellFoundedInduction, TLAPS

\* A set of natural numbers that is not empty has a least one.
LEMMA LeastElement ==
    ASSUME NEW S \in SUBSET Nat, S # {}
    PROVE  \E m \in S : \A n \in S : m <= n
<1> DEFINE R == OpToRel(<, Nat)
<1>1. PICK m \in S : \A n \in S : <<n, m>> \notin R
  <2>1. IsWellFoundedOn(R, Nat)
    BY NatLessThanWellFounded
  <2> HIDE DEF R
  <2> QED
    BY <2>1, WFMin
<1>2. \A x, y \in Nat : x < y => <<x, y>> \in R
  BY DEF OpToRel
<1> HIDE DEF R
<1>3. ASSUME NEW n \in S
      PROVE  m <= n
  <2>1. m \in Nat /\ n \in Nat
    OBVIOUS
  <2>2. ~(n < m)
    BY <1>1, <1>2, <2>1
  <2> QED
    BY <2>1, <2>2
<1> QED
  BY <1>3

\* Induction: a set with zero, and with the successor of each of its numbers,
\* has them all.
LEMMA SetInduction ==
    ASSUME NEW S, 0 \in S, \A n \in Nat : n \in S => n + 1 \in S
    PROVE  Nat \subseteq S
<1> SUFFICES ASSUME Nat \ S # {} PROVE FALSE
  OBVIOUS
<1>1. PICK m \in Nat \ S : \A n \in Nat \ S : m <= n
  BY LeastElement
<1>2. m - 1 \in Nat /\ m - 1 \notin Nat \ S
  BY <1>1
<1> QED
  BY <1>1, <1>2

-----------------------------------------------------------------------------

\* The first values of the function that starts with base and goes on with step.
Begins(h, n, T, base, step) ==
    /\ h \in [0..n -> T]
    /\ h[0] = base
    /\ \A m \in 0..(n - 1) : h[m + 1] = step[<<m, h[m]>>]

LEMMA OneMoreValue ==
    ASSUME NEW T, NEW base, NEW step \in [Nat \X T -> T], NEW n \in Nat,
           NEW h, Begins(h, n, T, base, step)
    PROVE  \E e : Begins(e, n + 1, T, base, step)
<1> DEFINE next == step[<<n, h[n]>>]
           e == [x \in 0..(n + 1) |-> IF x = n + 1 THEN next ELSE h[x]]
<1>1. h \in [0..n -> T] /\ h[0] = base
  BY DEF Begins
<1>2. next \in T
  <2>1. h[n] \in T
    BY <1>1
  <2> QED
    BY <2>1
<1> HIDE DEF next
<1>3. e \in [0..(n + 1) -> T] /\ e[0] = base
  BY <1>1, <1>2
<1>4. ASSUME NEW m \in 0..n
      PROVE  e[m + 1] = step[<<m, e[m]>>]
  <2>1. e[m] = h[m] /\ e[m + 1] = IF m = n THEN next ELSE h[m + 1]
    OBVIOUS
  <2> HIDE DEF e
  <2>2. CASE m = n
    BY <2>1, <2>2 DEF next
  <2>3. CASE m # n
    <3>1. m \in 0..(n - 1)
      BY <2>3
    <3>2. h[m + 1] = step[<<m, h[m]>>]
      BY <3>1 DEF Begins
    <3> QED
      BY <2>1, <2>3, <3>2
  <2> QED
    BY <2>2, <2>3
<1> HIDE DEF e
<1>5. Begins(e, n + 1, T, base, step)
  BY <1>3, <1>4 DEF Begins
<1> QED
  BY <1>5

LEMMA BeginsAgree ==
    ASSUME NEW T, NEW base, NEW step, NEW a \in Nat, NEW b \in Nat, a <= b,
           NEW g, NEW h, Begins(g, a, T, base, step), Begins(h, b, T, base, step)
    PROVE  \A n \in 0..a : g[n] = h[n]
<1> DEFINE U == {n \in Nat : n <= a => g[n] = h[n]}
<1>1. 0 \in U
  BY DEF Begins
<1>2. ASSUME NEW n \in Nat, n \in U
      PROVE  n + 1 \in U
  <2> SUFFICES ASSUME n + 1 <= a PROVE g[n + 1] = h[n + 1]
    OBVIOUS
  <2>1. n \in 0..(a - 1) /\ n \in 0..(b - 1) /\ g[n] = h[n]
    BY <1>2
  <2> QED
    BY <2>1 DEF Begins
<1>3. Nat \subseteq U
  <2> HIDE DEF U
  <2> QED
    BY <1>1, <1>2, SetInduction
<1> QED
  BY <1>3

\* A first value and a step to the next, in T; the function they define.
Steps(T, base, step) == base \in T /\ step \in [Nat \X T -> T]
Goes(g, T, base, step) ==
    /\ g \in [Nat -> T]
    /\ g[0] = base
    /\ \A n \in Nat : g[n + 1] = step[<<n, g[n]>>]

\* Recursion: there is a function with the first value base, in which each
\* value follows from the one in front of it by step.
THEOREM RecursionExists ==
    ASSUME NEW T, NEW base, NEW step, Steps(T, base, step)
    PROVE  \E g : Goes(g, T, base, step)
<1> USE DEF Steps
<1> DEFINE S == {n \in Nat : \E h : Begins(h, n, T, base, step)}
<1>1. 0 \in S
  <2>1. Begins([x \in 0..0 |-> base], 0, T, base, step)
    BY DEF Begins
  <2> QED
    BY <2>1
<1>2. ASSUME NEW n \in Nat, n \in S
      PROVE  n + 1 \in S
  <2>1. PICK h : Begins(h, n, T, base, step)
    BY <1>2
  <2>2. \E e : Begins(e, n + 1, T, base, step)
    BY <2>1, OneMoreValue
  <2> QED
    BY <2>2
<1>3. \A n \in Nat : \E h : Begins(h, n, T, base, step)
  <2>1. Nat \subseteq S
    <3> HIDE DEF S
    <3> QED
      BY <1>1, <1>2, SetInduction
  <2> QED
    BY <2>1
<1> DEFINE H(n) == CHOOSE h : Begins(h, n, T, base, step)
           g == [n \in Nat |-> H(n)[n]]
<1>4. \A n \in Nat : Begins(H(n), n, T, base, step)
  BY <1>3, Zenon
<1> HIDE DEF H
<1>5. g \in [Nat -> T] /\ g[0] = base
  BY <1>4 DEF Begins
<1>6. ASSUME NEW n \in Nat
      PROVE  g[n + 1] = step[<<n, g[n]>>]
  <2>1. Begins(H(n), n, T, base, step) /\ Begins(H(n + 1), n + 1, T, base, step)
    BY <1>4
  <2>2. n \in 0..n /\ n + 1 \in Nat /\ n <= n + 1
    OBVIOUS
  <2>3. H(n)[n] = H(n + 1)[n]
    BY <2>1, <2>2, BeginsAgree
  <2>4. H(n + 1)[n + 1] = step[<<n, H(n + 1)[n]>>]
    BY <2>1 DEF Begins
  <2> QED
    BY <2>3, <2>4
<1> HIDE DEF g
<1>7. Goes(g, T, base, step)
  BY <1>5, <1>6 DEF Goes
<1> QED
  BY <1>7
=============================================================================
