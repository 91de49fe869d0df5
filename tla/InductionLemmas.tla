---------------------------- MODULE InductionLemmas ----------------------------
(***************************************************************************)
(* Induction and recursion over the numbers in a form that names a set or a *)
(* function and no operator: what the proofs about folds, recursive         *)
(* functions and minima rest on.                                            *)
(***************************************************************************)
EXTENDS Integers, FiniteSetsExt, WellFoundedInduction, TLAPS

(* Induction over the numbers, for a set of them.                            *)
LEMMA Induction ==
    ASSUME NEW S \in SUBSET Nat, 0 \in S, \A n \in S : n + 1 \in S
    PROVE  Nat \subseteq S
<1> SUFFICES ASSUME Nat \ S # {} PROVE FALSE
  OBVIOUS
<1>1. PICK m \in Nat \ S : \A n \in Nat \ S : <<n, m>> \notin OpToRel(<, Nat)
  BY NatLessThanWellFounded, WFMin
<1>2. \A n \in Nat \ S : ~(n < m)
  BY <1>1 DEF OpToRel
<1>3. m \in Nat /\ m \notin S
  BY <1>1
<1>4. m # 0 /\ m - 1 \in Nat /\ m - 1 < m
  BY <1>3
<1>5. m - 1 \in S
  BY <1>2, <1>4
<1>6. (m - 1) + 1 \in S
  BY <1>5
<1> QED
  BY <1>3, <1>6

\* The functions that a first value and a step from each number to the next define.
Iterations(V, first, step) ==
    {f \in [Nat -> V] : f[0] = first /\ \A n \in Nat : f[n + 1] = step[n][f[n]]}

(* What is defined by recursion over the numbers exists.                     *)
LEMMA Recursion ==
    ASSUME NEW V, NEW first \in V, NEW step \in [Nat -> [V -> V]]
    PROVE  \E f : f \in Iterations(V, first, step)
<1> DEFINE Begins(n, g) ==
        g \in [0..n -> V] /\ g[0] = first /\ \A k \in 0..(n - 1) : g[k + 1] = step[k][g[k]]
<1>1. \A n \in Nat : \E g : Begins(n, g)
  <2> DEFINE S == {n \in Nat : \E g : Begins(n, g)}
  <2>1. 0 \in S
    <3>1. Begins(0, [k \in 0..0 |-> first])
      OBVIOUS
    <3> QED
      BY <3>1
  <2>2. ASSUME NEW n \in S PROVE n + 1 \in S
    <3>1. PICK g : Begins(n, g)
      OBVIOUS
    <3> DEFINE h == [k \in 0..(n + 1) |-> IF k = n + 1 THEN step[n][g[n]] ELSE g[k]]
    <3>2. step[n][g[n]] \in V
      BY <3>1
    <3>3. h \in [0..(n + 1) -> V] /\ h[0] = first
      BY <3>1, <3>2
    <3>4. \A k \in 0..((n + 1) - 1) : h[k + 1] = step[k][h[k]]
      BY <3>1
    <3>5. Begins(n + 1, h)
      BY <3>3, <3>4
    <3> HIDE DEF h
    <3> QED
      BY <3>5
  <2> HIDE DEF S
  <2>3. Nat \subseteq S
    BY <2>1, <2>2, Induction DEF S
  <2> QED
    BY <2>3 DEF S
<1>2. ASSUME NEW g, NEW h, NEW m \in Nat, NEW n \in Nat, Begins(m, g), Begins(n, h)
      PROVE  \A k \in Nat : k <= m /\ k <= n => g[k] = h[k]
  <2> DEFINE S == {k \in Nat : k <= m /\ k <= n => g[k] = h[k]}
  <2>1. 0 \in S
    BY <1>2
  <2>2. ASSUME NEW k \in S PROVE k + 1 \in S
    BY <1>2
  <2> HIDE DEF S
  <2>3. Nat \subseteq S
    BY <2>1, <2>2, Induction DEF S
  <2> QED
    BY <2>3 DEF S
<1> DEFINE part == [n \in Nat |-> CHOOSE g : Begins(n, g)]
           f == [n \in Nat |-> part[n][n]]
<1>3. \A n \in Nat : Begins(n, part[n])
  BY <1>1
<1> HIDE DEF part
<1>4. f \in [Nat -> V] /\ f[0] = first
  BY <1>3
<1>5. ASSUME NEW n \in Nat PROVE f[n + 1] = step[n][f[n]]
  <2>1. Begins(n, part[n]) /\ Begins(n + 1, part[n + 1])
    BY <1>3
  <2>2. part[n + 1][n] = part[n][n]
    <3> HIDE DEF Begins
    <3>1. n \in Nat /\ n + 1 \in Nat /\ n <= n + 1
      OBVIOUS
    <3>2. \A k \in Nat : k <= n + 1 /\ k <= n => part[n + 1][k] = part[n][k]
      BY <1>2, <2>1, <3>1
    <3> QED
      BY <3>1, <3>2
  <2>3. part[n + 1][n + 1] = step[n][part[n + 1][n]]
    <3>1. n \in 0..((n + 1) - 1)
      OBVIOUS
    <3> QED
      BY <2>1, <3>1
  <2> QED
    BY <2>2, <2>3
<1> QED
  BY <1>4, <1>5 DEF Iterations

(* Induction up to a number.                                                 *)
LEMMA InductionTo ==
    ASSUME NEW n \in Nat, NEW S, 0 \in S, \A k \in 1..n : k - 1 \in S => k \in S
    PROVE  0..n \subseteq S
<1> DEFINE T == {k \in Nat : k <= n => k \in S}
<1>1. 0 \in T
  OBVIOUS
<1>2. ASSUME NEW k \in T PROVE k + 1 \in T
  <2> SUFFICES ASSUME k + 1 <= n PROVE k + 1 \in S
    OBVIOUS
  <2>1. k + 1 \in 1..n /\ (k + 1) - 1 = k /\ k \in S
    OBVIOUS
  <2> QED
    BY <2>1
<1> HIDE DEF T
<1>3. Nat \subseteq T
  BY <1>1, <1>2, Induction DEF T
<1> QED
  BY <1>3 DEF T

(* What is defined by recursion up to a number exists.                       *)
LEMMA RecursionTo ==
    ASSUME NEW V, NEW first \in V, NEW n \in Nat, NEW step \in [1..n -> [V -> V]]
    PROVE  \E f \in [0..n -> V] : f[0] = first /\ \A k \in 1..n : f[k] = step[k][f[k - 1]]
<1> DEFINE next == [k \in Nat |-> IF k < n THEN step[k + 1] ELSE [x \in V |-> x]]
<1>1. next \in [Nat -> [V -> V]]
  <2>1. ASSUME NEW k \in Nat, k < n PROVE step[k + 1] \in [V -> V]
    <3>1. k + 1 \in 1..n
      BY <2>1
    <3> QED
      BY <3>1
  <2> QED
    BY <2>1
<1>2. \A k \in 1..n : next[k - 1] = step[k]
  OBVIOUS
<1> HIDE DEF next
<1>3. PICK g \in [Nat -> V] : g[0] = first /\ \A k \in Nat : g[k + 1] = next[k][g[k]]
  <2>1. \E g : g \in Iterations(V, first, next)
    BY <1>1, Recursion
  <2> QED
    BY <2>1 DEF Iterations
<1> DEFINE f == [k \in 0..n |-> g[k]]
<1>4. f \in [0..n -> V] /\ f[0] = first
  BY <1>3
<1>5. ASSUME NEW k \in 1..n PROVE f[k] = step[k][f[k - 1]]
  <2>1. k - 1 \in Nat /\ (k - 1) + 1 = k /\ k - 1 \in 0..n /\ k \in 0..n
    OBVIOUS
  <2>2. g[k] = next[k - 1][g[k - 1]]
    BY <1>3, <2>1
  <2> QED
    BY <1>2, <2>1, <2>2
<1> QED
  BY <1>4, <1>5

(* A set of numbers has a least.                                             *)
LEMMA LeastExists ==
    ASSUME NEW S \in SUBSET Nat, S # {}
    PROVE  Min(S) \in S /\ \A n \in S : Min(S) <= n
<1>1. PICK m \in S : \A n \in S : <<n, m>> \notin OpToRel(<, Nat)
  BY NatLessThanWellFounded, WFMin
<1>2. \A n \in S : ~(n < m)
  BY <1>1 DEF OpToRel
<1>3. \A n \in S : m <= n
  BY <1>2
<1> QED
  BY <1>3 DEF Min

(* What is in a set and no more than any of it is its least.                 *)
LEMMA LeastIs ==
    ASSUME NEW S, S \subseteq Int, NEW x \in S, \A y \in S : x <= y
    PROVE  Min(S) = x
<1>1. PICK z \in S : z = Min(S) /\ \A y \in S : z <= y
  BY DEF Min
<1>2. z <= x /\ x <= z
  BY <1>1
<1> QED
  BY <1>1, <1>2

================================================================================
