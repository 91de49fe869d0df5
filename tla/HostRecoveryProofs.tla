--------------------------- MODULE HostRecoveryProofs ---------------------------
(***************************************************************************)
(* What a host rescan guarantees for any number of pages and slots, any     *)
(* chunk and page size, and any build of Steam: the sweep loses no object   *)
(* that was there all along and makes none up, however the memory comes and *)
(* goes meanwhile, a write rests on a validation of its own, and a rescan   *)
(* writes two requests.                                                     *)
(***************************************************************************)
EXTENDS HostRecovery, InductionLemmas, SequenceTheorems, FiniteSetTheorems, FunctionTheorems

-----------------------------------------------------------------------------
(* Numbers and their digits.                                                 *)

(* A quotient and a remainder are what they are.                             *)
LEMMA DividedIs ==
    ASSUME NEW q \in Nat, NEW d \in Nat \ {0}, NEW r \in Nat, r < d
    PROVE  (d * q + r) \div d = q /\ (d * q + r) % d = r
<1> DEFINE n == d * q + r
           p == n \div d
           s == n % d
<1>1. n \in Nat /\ d * q \in Nat
  OBVIOUS
<1>2. n = d * p + s /\ p \in Nat /\ s \in Nat /\ s < d
  BY <1>1
<1> HIDE DEF p, s
<1>3. ~(p < q)
  <2> SUFFICES ASSUME p < q PROVE FALSE
    OBVIOUS
  <2>1. d * (p + 1) <= d * q
    BY <1>2
  <2>2. d * (p + 1) = d * p + d
    BY <1>2
  <2> QED
    BY <1>1, <1>2, <2>1, <2>2
<1>4. ~(q < p)
  <2> SUFFICES ASSUME q < p PROVE FALSE
    OBVIOUS
  <2>1. d * (q + 1) <= d * p
    BY <1>2
  <2>2. d * (q + 1) = d * q + d
    OBVIOUS
  <2> QED
    BY <1>1, <1>2, <2>1, <2>2
<1>5. p = q
  BY <1>2, <1>3, <1>4
<1> QED
  BY <1>2, <1>5 DEF p, s

(* The powers of two exist.                                                  *)
LEMMA Powers ==
    /\ Power \in [Nat -> Nat \ {0}]
    /\ Power[0] = 1
    /\ \A n \in Nat : Power[n + 1] = 2 * Power[n]
<1> DEFINE step == [n \in Nat |-> [v \in Nat \ {0} |-> 2 * v]]
<1>1. step \in [Nat -> [Nat \ {0} -> Nat \ {0}]]
  OBVIOUS
<1>2. PICK f \in [Nat -> Nat \ {0}] :
        f[0] = 1 /\ \A n \in Nat : f[n + 1] = step[n][f[n]]
  <2> DEFINE V == Nat \ {0}
             one == 1
  <2>1. one \in V /\ step \in [Nat -> [V -> V]]
    BY <1>1
  <2> HIDE DEF step, V, one
  <2>2. \E f : f \in Iterations(V, one, step)
    BY <2>1, Recursion
  <2> QED
    BY <2>2 DEF V, one, Iterations
<1>3. \A n \in Nat : f[n + 1] = 2 * f[n]
  BY <1>2
<1>4. f = [n \in Nat |-> IF n = 0 THEN 1 ELSE 2 * f[n - 1]]
  <2>1. \A n \in Nat : f[n] = IF n = 0 THEN 1 ELSE 2 * f[n - 1]
    <3> SUFFICES ASSUME NEW n \in Nat, n # 0 PROVE f[n] = 2 * f[n - 1]
      BY <1>2
    <3>1. n - 1 \in Nat /\ (n - 1) + 1 = n
      OBVIOUS
    <3> QED
      BY <1>3, <3>1
  <2> QED
    BY <1>2, <2>1
<1>5. Power = [n \in Nat |-> IF n = 0 THEN 1 ELSE 2 * Power[n - 1]]
  BY <1>4 DEF Power
<1>6. Power[0] = 1 /\ \A n \in Nat : Power[n + 1] = 2 * Power[n]
  BY <1>5
<1>7. \A n \in Nat : Power[n] \in Nat \ {0}
  <2> DEFINE S == {n \in Nat : Power[n] \in Nat \ {0}}
  <2>1. 0 \in S /\ \A n \in S : n + 1 \in S
    BY <1>6
  <2> HIDE DEF S
  <2> QED
    BY <2>1, Induction DEF S
<1> QED
  BY <1>5, <1>6, <1>7

LEMMA PowerOfSum ==
    ASSUME NEW m \in Nat, NEW n \in Nat
    PROVE  Power[m + n] = Power[m] * Power[n]
<1> DEFINE S == {k \in Nat : Power[m + k] = Power[m] * Power[k]}
<1>1. 0 \in S
  BY Powers
<1>2. ASSUME NEW k \in S PROVE k + 1 \in S
  <2>1. Power[m + (k + 1)] = 2 * Power[m + k]
    <3>1. m + (k + 1) = (m + k) + 1 /\ m + k \in Nat
      OBVIOUS
    <3> QED
      BY <3>1, Powers
  <2>2. Power[k + 1] = 2 * Power[k]
    BY Powers
  <2>3. Power[m] \in Nat /\ Power[k] \in Nat
    BY Powers
  <2>4. Power[m] * (2 * Power[k]) = 2 * (Power[m] * Power[k])
    BY <2>3
  <2>5. Power[m + (k + 1)] = Power[m] * Power[k + 1]
    BY <2>1, <2>2, <2>4
  <2> QED
    BY <2>5
<1> HIDE DEF S
<1> QED
  BY <1>1, <1>2, Induction DEF S

\* What a number has for digits, and its partial sums.
Fits(d, n, width) == \A k \in 1..n : d[k] \in Nat /\ d[k] < Power[width]
Sums(d, n, width) ==
    {v \in [0..n -> Nat] :
        /\ v[0] = 0
        /\ \A k \in 1..n : v[k] = v[k - 1] + d[k] * Power[width * (k - 1)]
        /\ Number(d, n, width) = v[n]}

(* A number is the last of its partial sums.                                 *)
LEMMA NumberUnfolds ==
    ASSUME NEW n \in Nat, NEW width \in Nat, NEW d, Fits(d, n, width)
    PROVE  \E v : v \in Sums(d, n, width)
<1> DEFINE weight == [k \in Nat |-> IF k < n THEN d[k + 1] * Power[width * k] ELSE 0]
           step == [k \in Nat |-> [x \in Nat |-> x + weight[k]]]
<1>1. ASSUME NEW k \in Nat PROVE weight[k] \in Nat
  <2>1. CASE k < n
    <3>1. k + 1 \in 1..n /\ width * k \in Nat
      BY <2>1
    <3>2. Power[width * k] \in Nat /\ d[k + 1] \in Nat
      BY <3>1, Powers DEF Fits
    <3> QED
      BY <2>1, <3>2
  <2>2. CASE ~(k < n)
    BY <2>2
  <2> QED
    BY <2>1, <2>2
<1>2. step \in [Nat -> [Nat -> Nat]]
  <2> HIDE DEF weight
  <2> QED
    BY <1>1
<1>3. PICK f \in [Nat -> Nat] : f[0] = 0 /\ \A k \in Nat : f[k + 1] = step[k][f[k]]
  <2> DEFINE V == Nat
             zero == 0
  <2>1. zero \in V /\ step \in [Nat -> [V -> V]]
    BY <1>2
  <2> HIDE DEF step, V, zero
  <2>2. \E f : f \in Iterations(V, zero, step)
    BY <2>1, Recursion
  <2> QED
    BY <2>2 DEF V, zero, Iterations
<1>4. \A k \in Nat : f[k + 1] = f[k] + weight[k]
  <2> HIDE DEF weight
  <2> QED
    BY <1>3
<1> DEFINE g == [k \in 0..n |-> f[k]]
<1>5. g = [k \in 0..n |-> IF k = 0 THEN 0 ELSE g[k - 1] + d[k] * Power[width * (k - 1)]]
  <2>1. ASSUME NEW k \in 0..n, k # 0
        PROVE  g[k] = g[k - 1] + d[k] * Power[width * (k - 1)]
    <3>1. k - 1 \in Nat /\ k - 1 < n /\ (k - 1) + 1 = k /\ k - 1 \in 0..n
      BY <2>1
    <3>2. f[k] = f[k - 1] + weight[k - 1]
      BY <1>4, <3>1
    <3>3. weight[k - 1] = d[k] * Power[width * (k - 1)]
      BY <3>1
    <3> HIDE DEF weight
    <3> QED
      BY <3>1, <3>2, <3>3
  <2>2. g[0] = 0
    BY <1>3
  <2> QED
    BY <2>1, <2>2
<1> HIDE DEF g
<1>6. PICK v :
        /\ v = [k \in 0..n |-> IF k = 0 THEN 0 ELSE v[k - 1] + d[k] * Power[width * (k - 1)]]
        /\ Number(d, n, width) = v[n]
  BY <1>5 DEF Number
<1>7. /\ v[0] = 0
      /\ \A k \in 1..n : v[k] = v[k - 1] + d[k] * Power[width * (k - 1)]
  <2> DEFINE to(k) == IF k = 0 THEN 0 ELSE v[k - 1] + d[k] * Power[width * (k - 1)]
  <2>1. v = [k \in 0..n |-> to(k)]
    BY <1>6
  <2> HIDE DEF to
  <2>2. \A k \in 0..n : v[k] = to(k)
    BY <2>1
  <2> QED
    BY <2>2 DEF to
<1>8. \A k \in 0..n : v[k] \in Nat
  <2> DEFINE S == {k \in Nat : k <= n => v[k] \in Nat}
  <2>1. 0 \in S
    BY <1>7
  <2>2. ASSUME NEW k \in S PROVE k + 1 \in S
    <3> SUFFICES ASSUME k + 1 <= n PROVE v[k + 1] \in Nat
      OBVIOUS
    <3>1. k + 1 \in 1..n /\ (k + 1) - 1 = k /\ width * k \in Nat
      OBVIOUS
    <3>2. v[k] \in Nat /\ d[k + 1] \in Nat /\ Power[width * k] \in Nat
      BY <3>1, Powers DEF Fits
    <3> QED
      BY <1>7, <3>1, <3>2
  <2> HIDE DEF S
  <2>3. Nat \subseteq S
    BY <2>1, <2>2, Induction DEF S
  <2> QED
    BY <2>3 DEF S
<1>9. v \in [0..n -> Nat]
  BY <1>6, <1>8
<1> QED
  BY <1>6, <1>7, <1>9 DEF Sums
(* The powers at multiples of a width.                                       *)
LEMMA PowerOfMultiple ==
    ASSUME NEW width \in Nat, NEW k \in Nat
    PROVE  /\ width * k \in Nat /\ Power[width * k] \in Nat \ {0}
           /\ Power[width * (k + 1)] = Power[width] * Power[width * k]
<1>1. width * k \in Nat /\ width * (k + 1) = width + width * k
  OBVIOUS
<1> QED
  BY <1>1, Powers, PowerOfSum

(* Each partial sum of a number is less than the power after its digits.       *)
LEMMA PartialSums ==
    ASSUME NEW n \in Nat, NEW width \in Nat, NEW d, Fits(d, n, width),
           NEW v \in Sums(d, n, width)
    PROVE  \A k \in 0..n : v[k] < Power[width * k]
<1>1. \A k \in 1..n : d[k] \in Nat /\ d[k] < Power[width]
  BY DEF Fits
<1>2. /\ v \in [0..n -> Nat] /\ v[0] = 0
      /\ \A k \in 1..n : v[k] = v[k - 1] + d[k] * Power[width * (k - 1)]
  BY DEF Sums
<1> DEFINE S == {k \in Nat : k <= n => v[k] < Power[width * k]}
<1>3. 0 \in S
  <2>1. width * 0 = 0
    OBVIOUS
  <2> QED
    BY <1>2, <2>1, Powers
<1>4. ASSUME NEW k \in S PROVE k + 1 \in S
  <2> SUFFICES ASSUME k + 1 <= n PROVE v[k + 1] < Power[width * (k + 1)]
    OBVIOUS
  <2> DEFINE p == Power[width * k]
             q == Power[width]
             e == d[k + 1]
             x == v[k]
  <2>1. k + 1 \in 1..n /\ (k + 1) - 1 = k /\ k \in 0..n
    OBVIOUS
  <2>2. x < p /\ x \in Nat /\ p \in Nat /\ e \in Nat /\ e < q /\ q \in Nat
    <3>1. x < p
      BY <2>1
    <3>2. x \in Nat /\ e \in Nat /\ e < q
      BY <1>1, <1>2, <2>1
    <3>3. p \in Nat /\ q \in Nat
      BY Powers, PowerOfMultiple
    <3> QED
      BY <3>1, <3>2, <3>3
  <2>3. v[k + 1] = x + e * p
    BY <1>2, <2>1
  <2>4. Power[width * (k + 1)] = q * p
    BY PowerOfMultiple
  <2> HIDE DEF p, q, e, x
  <2>5. (e + 1) * p <= q * p /\ (e + 1) * p = e * p + p /\ e * p \in Nat /\ q * p \in Nat
    BY <2>2
  <2>6. x + e * p < q * p
    BY <2>2, <2>5
  <2> QED
    BY <2>3, <2>4, <2>6
<1> HIDE DEF S
<1>5. Nat \subseteq S
  BY <1>3, <1>4, Induction DEF S
<1> QED
  BY <1>5 DEF S

(* A number is less than the power after its digits.                          *)
LEMMA NumberBounded ==
    ASSUME NEW n \in Nat, NEW width \in Nat, NEW d, Fits(d, n, width)
    PROVE  Number(d, n, width) \in Nat /\ Number(d, n, width) < Power[width * n]
<1>1. PICK v : v \in Sums(d, n, width)
  BY NumberUnfolds
<1>2. v[n] < Power[width * n]
  BY <1>1, PartialSums
<1> QED
  BY <1>1, <1>2 DEF Sums

(* Around any of its digits a number falls into what is below and what is above. *)
LEMMA Digits ==
    ASSUME NEW n \in Nat, NEW width \in Nat, NEW d, Fits(d, n, width), NEW i \in 1..n
    PROVE  \E low, high \in Nat :
              /\ low < Power[width * (i - 1)]
              /\ Number(d, n, width)
                    = low + Power[width * (i - 1)] * d[i] + Power[width * i] * high
<1> PICK v : v \in Sums(d, n, width)
  BY NumberUnfolds
<1>1. /\ v \in [0..n -> Nat] /\ Number(d, n, width) = v[n]
      /\ \A k \in 1..n : v[k] = v[k - 1] + d[k] * Power[width * (k - 1)]
      /\ \A k \in 1..n : d[k] \in Nat
      /\ \A k \in 0..n : v[k] < Power[width * k]
  BY PartialSums DEF Sums, Fits
<1>2. \A k \in Nat : width * k \in Nat /\ Power[width * k] \in Nat \ {0}
  BY PowerOfMultiple
<1>3. ASSUME NEW k \in Nat, k + 1 <= n
      PROVE  /\ v[k + 1] = v[k] + d[k + 1] * Power[width * k] /\ v[k] \in Nat
             /\ d[k + 1] \in Nat
  <2>1. k + 1 \in 1..n /\ (k + 1) - 1 = k /\ k \in 0..n
    BY <1>3
  <2> QED
    BY <1>1, <2>1
<1>5. \A k \in Nat : i <= k /\ k <= n => \E high \in Nat : v[k] = v[i] + Power[width * i] * high
  <2> DEFINE S == {k \in Nat : i <= k /\ k <= n =>
                     \E high \in Nat : v[k] = v[i] + Power[width * i] * high}
  <2>1. 0 \in S
    OBVIOUS
  <2>2. ASSUME NEW k \in S PROVE k + 1 \in S
    <3> SUFFICES ASSUME i <= k + 1, k + 1 <= n
                 PROVE  \E high \in Nat : v[k + 1] = v[i] + Power[width * i] * high
      OBVIOUS
    <3> DEFINE p == Power[width * i]
    <3>1. p \in Nat /\ v[i] \in Nat
      <4>1. i \in 0..n /\ i \in Nat
        OBVIOUS
      <4> QED
        BY <1>1, <1>2, <4>1
    <3>2. CASE i = k + 1
      <4>1. v[k + 1] = v[i] + p * 0
        BY <3>1, <3>2
      <4> QED
        BY <4>1
    <3>3. CASE i <= k
      <4>1. PICK high \in Nat : v[k] = v[i] + p * high
        BY <3>3
      <4> DEFINE r == Power[width * (k - i)]
                 e == d[k + 1]
      <4>2. r \in Nat /\ Power[width * k] = p * r
        <5>1. width * k = width * i + width * (k - i) /\ width * i \in Nat
              /\ width * (k - i) \in Nat
          <6>1. k - i \in Nat /\ k = i + (k - i)
            BY <3>3
          <6> DEFINE m == k - i
          <6> HIDE DEF m
          <6>2. m \in Nat /\ k = i + m
            BY <6>1 DEF m
          <6>3. width * (i + m) = width * i + width * m
            BY <6>2
          <6> QED
            BY <6>2, <6>3 DEF m
        <5> DEFINE x == width * i
                   y == width * (k - i)
        <5>2. x \in Nat /\ y \in Nat /\ width * k = x + y
          BY <5>1
        <5> HIDE DEF x, y
        <5>3. Power[x + y] = Power[x] * Power[y] /\ Power[y] \in Nat
          BY <5>2, Powers, PowerOfSum
        <5> QED
          BY <5>2, <5>3 DEF x, y
      <4>3. v[k + 1] = v[k] + e * (p * r) /\ e \in Nat
        BY <1>3, <4>2
      <4> HIDE DEF p, r, e
      <4>4. e * (p * r) = p * (e * r) /\ e * r \in Nat
        BY <3>1, <4>2, <4>3
      <4>5. p * high + p * (e * r) = p * (high + e * r)
        BY <3>1, <4>4
      <4>6. v[k + 1] = v[i] + p * (high + e * r)
        BY <3>1, <4>1, <4>3, <4>4, <4>5
      <4> QED
        BY <4>4, <4>6 DEF p
    <3> QED
      BY <3>2, <3>3
  <2> HIDE DEF S
  <2>3. Nat \subseteq S
    BY <2>1, <2>2, Induction DEF S
  <2> QED
    BY <2>3 DEF S
<1>6. PICK high \in Nat : v[n] = v[i] + Power[width * i] * high
  BY <1>5
<1>7. /\ i - 1 \in Nat /\ (i - 1) + 1 = i /\ i - 1 <= n
      /\ v[i] = v[i - 1] + d[i] * Power[width * (i - 1)]
  BY <1>1
<1>8. /\ v[i - 1] < Power[width * (i - 1)] /\ v[i - 1] \in Nat
      /\ Power[width * (i - 1)] \in Nat /\ d[i] \in Nat
  <2>1. i - 1 \in 0..n /\ i - 1 \in Nat
    BY <1>7
  <2>2. v[i - 1] < Power[width * (i - 1)] /\ v[i - 1] \in Nat /\ d[i] \in Nat
    BY <1>1, <2>1
  <2>3. Power[width * (i - 1)] \in Nat
    BY <1>2, <2>1
  <2> QED
    BY <2>2, <2>3
<1>9. d[i] * Power[width * (i - 1)] = Power[width * (i - 1)] * d[i]
  BY <1>8
<1> DEFINE low == v[i - 1]
<1>10. /\ low \in Nat /\ low < Power[width * (i - 1)]
       /\ Number(d, n, width) = low + Power[width * (i - 1)] * d[i] + Power[width * i] * high
  BY <1>1, <1>6, <1>7, <1>8, <1>9
<1> QED
  BY <1>10

-----------------------------------------------------------------------------
(* The lanes of a machine word.                                              *)

(* The bits of a number are zero or one.                                     *)
LEMMA BitIsZeroOrOne ==
    ASSUME NEW m \in Nat, NEW b \in Nat
    PROVE  Bit(m, b) \in {0, 1}
<1>1. Power[b] \in Nat \ {0}
  BY Powers
<1> DEFINE q == m \div Power[b]
<1>2. q \in Nat
  BY <1>1
<1> HIDE DEF q
<1>3. q % 2 \in {0, 1}
  BY <1>2
<1> QED
  BY <1>3 DEF Bit, q

(* The exclusive or of two bytes is a byte, and that of a byte with itself zero. *)
LEMMA XorOfBytes ==
    ASSUME NEW m \in Nat, NEW n \in Nat
    PROVE  Xor(m, n) \in Byte /\ Xor(m, m) = 0
<1>1. LaneBits \in Nat /\ Power[1] = 2
  BY Powers, LanesAssumption
<1> DEFINE digits(j) == [b \in 1..LaneBits |-> (Bit(m, b - 1) + Bit(j, b - 1)) % 2]
<1>2. ASSUME NEW j \in Nat, NEW b \in 1..LaneBits
      PROVE  digits(j)[b] \in {0, 1} /\ digits(m)[b] = 0
  <2>1. b - 1 \in Nat
    BY <1>1
  <2>2. Bit(m, b - 1) \in {0, 1} /\ Bit(j, b - 1) \in {0, 1}
    BY <2>1, BitIsZeroOrOne
  <2> DEFINE x == Bit(m, b - 1)
             y == Bit(j, b - 1)
  <2>3. digits(j)[b] = (x + y) % 2 /\ digits(m)[b] = (x + x) % 2
    OBVIOUS
  <2> HIDE DEF x, y, digits
  <2>4. (x + y) % 2 \in {0, 1} /\ (x + x) % 2 = 0
    BY <2>2 DEF x, y
  <2> QED
    BY <2>3, <2>4
<1> HIDE DEF digits
<1>3. \A j \in Nat : Fits(digits(j), LaneBits, 1)
  BY <1>1, <1>2 DEF Fits
<1>4. Xor(m, n) \in Byte
  <2>1. Number(digits(n), LaneBits, 1) \in Nat
        /\ Number(digits(n), LaneBits, 1) < Power[1 * LaneBits]
    BY <1>1, <1>3, NumberBounded
  <2>2. 1 * LaneBits = LaneBits /\ Power[LaneBits] \in Nat
    BY <1>1, Powers
  <2> QED
    BY <2>1, <2>2 DEF Xor, Byte, digits
<1>5. Xor(m, m) = 0
  <2> PICK v : v \in Sums(digits(m), LaneBits, 1)
    BY <1>1, <1>3, NumberUnfolds
  <2>1. /\ v[0] = 0
        /\ \A k \in 1..LaneBits : v[k] = v[k - 1] + digits(m)[k] * Power[1 * (k - 1)]
        /\ Number(digits(m), LaneBits, 1) = v[LaneBits]
        /\ v \in [0..LaneBits -> Nat]
    BY DEF Sums
  <2> DEFINE S == {k \in Nat : k <= LaneBits => v[k] = 0}
  <2>2. 0 \in S
    BY <2>1
  <2>3. ASSUME NEW k \in S PROVE k + 1 \in S
    <3> SUFFICES ASSUME k + 1 <= LaneBits PROVE v[k + 1] = 0
      OBVIOUS
    <3>1. k + 1 \in 1..LaneBits /\ (k + 1) - 1 = k /\ 1 * k = k /\ v[k] = 0
      BY <1>1
    <3>2. digits(m)[k + 1] = 0 /\ Power[k] \in Nat
      BY <1>2, <3>1, Powers
    <3>3. v[k + 1] = v[k] + digits(m)[k + 1] * Power[k]
      BY <2>1, <3>1
    <3> QED
      BY <3>1, <3>2, <3>3
  <2> HIDE DEF S
  <2>4. Nat \subseteq S
    BY <2>2, <2>3, Induction DEF S
  <2>5. v[LaneBits] = 0
    BY <1>1, <2>4 DEF S
  <2> QED
    BY <2>1, <2>5 DEF Xor, digits
<1> QED
  BY <1>4, <1>5

\* A word whose lane between p and twice its top bit is zero, and one whose is one.
ZeroLane(p, top, word, ones, all) ==
    /\ 2 * p <= top /\ ones < all
    /\ \E c \in Nat \ {0} : all = (2 * top) * c
    /\ \E a, h \in Nat : a < p /\ word = a + (2 * top) * h
    /\ \E b, g \in Nat : b < p /\ ones = b + p + (2 * top) * g

(* Where a lane of a word is zero, the subtraction of one from each lane turns the    *)
(* lane's top bit, whatever the lanes below it borrow.                       *)
LEMMA BorrowIsSeen ==
    ASSUME NEW p \in Nat \ {0}, NEW top \in Nat, NEW word \in Nat, NEW ones \in Nat,
           NEW all \in Nat, ZeroLane(p, top, word, ones, all)
    PROVE  /\ (((word + all - ones) % all) \div top) % 2 = 1
           /\ (word \div top) % 2 = 0
<1> 2 * p <= top /\ ones < all
  BY DEF ZeroLane
<1> PICK c \in Nat \ {0} : all = (2 * top) * c
  BY DEF ZeroLane
<1> PICK a \in Nat, h \in Nat : a < p /\ word = a + (2 * top) * h
  BY DEF ZeroLane
<1> PICK b \in Nat, g \in Nat : b < p /\ ones = b + p + (2 * top) * g
  BY DEF ZeroLane
<1> DEFINE m == 2 * top
           r == m - p + a - b
           t == h + (c - g - 1)
<1>1. m \in Nat \ {0} /\ top \in Nat \ {0}
  OBVIOUS
<1>2. r \in Nat /\ top <= r /\ r < m
  OBVIOUS
<1>3. g < c
  <2> SUFFICES ASSUME c <= g PROVE FALSE
    OBVIOUS
  <2> HIDE DEF m
  <2>1. m * c <= m * g
    BY <1>1
  <2>2. m * c \in Nat /\ m * g \in Nat
    BY <1>1
  <2>3. m * g < m * c
    BY <2>2 DEF m
  <2> QED
    BY <2>1, <2>2, <2>3
<1>4. t \in Nat
  BY <1>3
<1>5. word + all - ones = m * t + r
  <2>1. m * t = m * h + m * c - m * g - m
    <3> HIDE DEF m
    <3> QED
      BY <1>1
  <2>2. m * h \in Nat /\ m * c \in Nat /\ m * g \in Nat
    BY <1>1
  <2>3. word = a + m * h /\ all = m * c /\ ones = b + p + m * g
    OBVIOUS
  <2> DEFINE x == m * h
             y == m * c
             z == m * g
             s == m * t
  <2>4. s = x + y - z - m
    BY <2>1
  <2>5. word = a + x /\ all = y /\ ones = b + p + z
    BY <2>3
  <2> HIDE DEF x, y, z, s, t
  <2>6. x \in Nat /\ y \in Nat /\ z \in Nat
    BY <2>2 DEF x, y, z
  <2>7. word + all - ones = s + r
    BY <1>1, <2>4, <2>5, <2>6
  <2> QED
    BY <2>7 DEF s
<1> DEFINE x == t \div c
           y == t % c
<1>6. t = c * x + y /\ x \in Nat /\ y \in Nat /\ y < c
  BY <1>4
<1> HIDE DEF x, y, t
<1>7. m * t + r = (m * c) * x + (m * y + r) /\ m * y + r \in Nat /\ m * y + r < m * c
      /\ m * c \in Nat \ {0}
  <2> HIDE DEF m, r
  <2>1. m * t = m * (c * x) + m * y /\ m * (c * x) = (m * c) * x
    BY <1>1, <1>6
  <2>2. m * (y + 1) <= m * c /\ m * (y + 1) = m * y + m /\ m * y \in Nat /\ m * c \in Nat
    BY <1>1, <1>6
  <2>3. m * y + r < m * c
    BY <1>1, <1>2, <2>2
  <2>4. (m * c) * x \in Nat
    BY <1>6, <2>2
  <2> QED
    BY <1>2, <2>1, <2>2, <2>3, <2>4
<1>8. (word + all - ones) % all = m * y + r
  <2> DEFINE d == m * c
             e == m * y + r
  <2>1. all = d
    OBVIOUS
  <2>2. word + all - ones = d * x + e /\ d \in Nat \ {0} /\ e \in Nat /\ e < d
    BY <1>5, <1>7
  <2> HIDE DEF d, e, m, r
  <2>3. (d * x + e) % d = e
    BY <1>6, <2>2, DividedIs
  <2> QED
    BY <2>1, <2>2, <2>3 DEF e
<1>9. m * y + r = top * (2 * y + 1) + (r - top) /\ r - top \in Nat /\ r - top < top
  <2>1. r - top \in Nat /\ r - top < top
    BY <1>2
  <2>2. m * y = top * (2 * y)
    BY <1>6
  <2>3. top * (2 * y + 1) = top * (2 * y) + top /\ top * (2 * y) \in Nat
    BY <1>6
  <2> HIDE DEF r, m
  <2> QED
    BY <1>2, <2>1, <2>2, <2>3
<1>10. ((m * y + r) \div top) % 2 = 1
  <2> DEFINE e == r - top
             n == m * y + r
             k == 2 * y + 1
  <2>1. n = top * k + e /\ e \in Nat /\ e < top /\ k \in Nat
    BY <1>6, <1>9
  <2>2. k % 2 = 1
    BY <1>6
  <2> HIDE DEF e, n, k
  <2>3. n \div top = k
    BY <1>1, <2>1, DividedIs
  <2> QED
    BY <2>2, <2>3 DEF n
<1>11. (word \div top) % 2 = 0
  <2>1. word = top * (2 * h) + a /\ a < top
    OBVIOUS
  <2> DEFINE k == 2 * h
  <2>2. k \in Nat /\ k % 2 = 0 /\ word = top * k + a
    BY <2>1
  <2> HIDE DEF k
  <2>3. word \div top = k
    BY <1>1, <2>1, <2>2, DividedIs
  <2> QED
    BY <2>2, <2>3
<1> QED
  BY <1>8, <1>10, <1>11

(* The mask flags every lane of a machine word that holds the needle.        *)
LEMMA MatchesAreFlagged ==
    ASSUME NEW chunk, NEW needle \in Byte, \A k \in 1..Lanes : chunk[k] \in Byte,
           NEW k \in 1..Lanes, chunk[k] = needle
    PROVE  k \in Flagged(chunk, needle)
<1> DEFINE l == LaneBits
           p == Power[l * (k - 1)]
           top == Power[l * k - 1]
           lanes == [j \in 1..Lanes |-> Xor(chunk[j], needle)]
           units == [j \in 1..Lanes |-> 1]
           all == Power[l * Lanes]
           word == Number(lanes, Lanes, l)
           ones == Number(units, Lanes, l)
<1>1. l \in Nat /\ l >= 2 /\ Lanes \in Nat /\ Power[l] \in Nat
  BY LanesAssumption, Powers
<1>2. Byte \subseteq Nat
  BY <1>1 DEF Byte
<1>3. Fits(lanes, Lanes, l)
  <2>1. \A j \in 1..Lanes : Xor(chunk[j], needle) \in Byte
    BY <1>2, XorOfBytes
  <2> QED
    BY <1>1, <2>1 DEF Fits, Byte
<1>4. Fits(units, Lanes, l)
  <2>1. Power[(l - 1) + 1] = 2 * Power[l - 1] /\ Power[l - 1] \in Nat \ {0}
    BY <1>1, Powers
  <2>2. (l - 1) + 1 = l
    BY <1>1
  <2>3. 1 < Power[l]
    BY <2>1, <2>2
  <2> QED
    BY <2>3 DEF Fits
<1>5. lanes[k] = 0 /\ units[k] = 1
  BY <1>2, XorOfBytes
<1>6. /\ k - 1 \in Nat /\ (k - 1) + 1 = k
      /\ l * k - 1 \in Nat /\ (l * k - 1) + 1 = l * k
      /\ l * k = l * (k - 1) + l /\ l * (k - 1) \in Nat
  <2>1. k - 1 \in Nat /\ (k - 1) + 1 = k
    OBVIOUS
  <2> DEFINE i == k - 1
  <2>2. i \in Nat /\ k = i + 1
    BY <2>1
  <2> HIDE DEF i
  <2>3. l * (i + 1) = l * i + l /\ l * i \in Nat
    BY <1>1, <2>2
  <2> DEFINE x == l * i
  <2>4. l * k = x + l /\ x \in Nat
    BY <2>2, <2>3
  <2> HIDE DEF x
  <2>5. l * k - 1 \in Nat /\ (l * k - 1) + 1 = l * k
    BY <1>1, <2>4
  <2> QED
    BY <2>1, <2>2, <2>4, <2>5 DEF i, x
<1>7. /\ top \in Nat \ {0} /\ p \in Nat \ {0} /\ 2 * p <= top
      /\ Power[l * k] = 2 * top
  <2>1. Power[(l * k - 1) + 1] = 2 * top /\ top \in Nat \ {0} /\ p \in Nat \ {0}
    BY <1>6, Powers
  <2>2. Power[l * k - 1] = Power[l * (k - 1)] * Power[l - 1]
    <3> DEFINE x == l * (k - 1)
    <3>1. x \in Nat /\ l - 1 \in Nat /\ l * k - 1 = x + (l - 1)
      BY <1>1, <1>6
    <3> HIDE DEF x
    <3> QED
      BY <3>1, PowerOfSum DEF x
  <2>3. Power[l - 1] = 2 * Power[l - 2] /\ Power[l - 2] \in Nat \ {0}
    <3>1. l - 2 \in Nat /\ (l - 2) + 1 = l - 1
      BY <1>1
    <3> QED
      BY <3>1, Powers
  <2> DEFINE q == Power[l - 2]
  <2>4. top = p * (2 * q) /\ q \in Nat \ {0}
    BY <2>2, <2>3
  <2>5. Power[l * k] = 2 * top
    BY <1>6, <2>1
  <2> HIDE DEF q, p, top
  <2>6. p * (2 * q) >= p * 2
    BY <2>1, <2>4
  <2> QED
    BY <2>1, <2>4, <2>5, <2>6
<1>8. PICK a \in Nat, h \in Nat :
        a < p /\ word = a + p * lanes[k] + Power[l * k] * h
  <2> HIDE DEF lanes
  <2> QED
    BY <1>1, <1>3, Digits
<1>9. PICK b \in Nat, g \in Nat :
        b < p /\ ones = b + p * units[k] + Power[l * k] * g
  <2> HIDE DEF units
  <2> QED
    BY <1>1, <1>4, Digits
<1>10. PICK c \in Nat \ {0} : all = Power[l * k] * c
  <2>1. Lanes - k \in Nat /\ Lanes = k + (Lanes - k) /\ k \in Nat
    BY <1>1
  <2> DEFINE n == Lanes - k
  <2>2. n \in Nat /\ Lanes = k + n
    BY <2>1
  <2> HIDE DEF n
  <2>3. l * (k + n) = l * k + l * n /\ l * k \in Nat /\ l * n \in Nat
    BY <1>1, <2>1, <2>2
  <2> DEFINE x == l * k
             y == l * n
  <2>4. l * Lanes = x + y /\ x \in Nat /\ y \in Nat
    BY <2>2, <2>3
  <2> HIDE DEF x, y
  <2>5. Power[x + y] = Power[x] * Power[y] /\ Power[y] \in Nat \ {0}
    BY <2>4, Powers, PowerOfSum
  <2> QED
    BY <2>4, <2>5 DEF x
<1>11. ones < all
  <2> HIDE DEF units
  <2> QED
    BY <1>1, <1>4, NumberBounded
<1>12. Packed([j \in 1..Lanes |-> Xor(chunk[j], needle)]) = word
       /\ Packed([j \in 1..Lanes |-> 1]) = ones
  BY DEF Packed
<1> HIDE DEF lanes, units, p, top, all, word, ones
<1>13. word = a + (2 * top) * h /\ ones = b + p + (2 * top) * g /\ all = (2 * top) * c
  <2>1. p * lanes[k] = 0 /\ p * units[k] = p /\ (2 * top) * h \in Nat /\ (2 * top) * g \in Nat
    BY <1>5, <1>7
  <2> QED
    BY <1>5, <1>7, <1>8, <1>9, <1>10, <2>1
<1>14. /\ (((word + all - ones) % all) \div top) % 2 = 1
       /\ (word \div top) % 2 = 0
  <2>1. /\ p \in Nat \ {0} /\ top \in Nat
        /\ word \in Nat /\ ones \in Nat /\ all \in Nat
    BY <1>7, <1>8, <1>10, <1>11, <1>13
  <2>2. ZeroLane(p, top, word, ones, all)
    BY <1>7, <1>8, <1>9, <1>10, <1>11, <1>13 DEF ZeroLane
  <2> QED
    BY <2>1, <2>2, BorrowIsSeen
<1>15. Bit((word + all - ones) % all, LaneBits * k - 1) = 1
       /\ Bit(word, LaneBits * k - 1) = 0
  BY <1>14 DEF Bit, top
<1> QED
  BY <1>12, <1>15 DEF Flagged, all

(* The re-test leaves of the flagged lanes those that hold the needle, and no other. *)
LEMMA HitsAreMatches ==
    ASSUME NEW chunk, NEW needle \in Byte, \A k \in 1..Lanes : chunk[k] \in Byte
    PROVE  Hits(chunk, needle) = {k \in 1..Lanes : chunk[k] = needle}
<1>1. \A k \in 1..Lanes : chunk[k] = needle => k \in Flagged(chunk, needle)
  BY MatchesAreFlagged
<1>2. \A k \in Flagged(chunk, needle) : k \in 1..Lanes
  BY DEF Flagged
<1> QED
  BY <1>1, <1>2 DEF Hits

(* An index in front of the tail is a lane of one chunk.                     *)
LEMMA LaneOfIndex ==
    ASSUME NEW n \in Nat, NEW i \in 1..n
    PROVE  \/ i \in ((n \div Lanes) * Lanes + 1)..n
           \/ \E c \in 0..((n \div Lanes) - 1), k \in 1..Lanes : i = c * Lanes + k
<1> DEFINE chunks == n \div Lanes
<1>1. Lanes \in Nat \ {0} /\ chunks \in Nat
  BY LanesAssumption
<1> SUFFICES ASSUME i <= chunks * Lanes
             PROVE  \E c \in 0..(chunks - 1), k \in 1..Lanes : i = c * Lanes + k
  BY <1>1
<1> HIDE DEF chunks
<1> DEFINE c == (i - 1) \div Lanes
           r == (i - 1) % Lanes
<1>2. i - 1 = Lanes * c + r /\ c \in Nat /\ r \in Nat /\ r < Lanes
  BY <1>1
<1> HIDE DEF c, r
<1>3. Lanes * c = c * Lanes /\ c * Lanes \in Nat /\ Lanes * chunks = chunks * Lanes
  BY <1>1, <1>2
<1>4. c < chunks
  <2> SUFFICES ASSUME chunks <= c PROVE FALSE
    BY <1>1, <1>2
  <2>1. Lanes * chunks <= Lanes * c
    BY <1>1, <1>2
  <2>2. Lanes * chunks \in Nat
    BY <1>1
  <2> QED
    BY <1>2, <1>3, <2>1, <2>2
<1>5. i = c * Lanes + (r + 1) /\ r + 1 \in 1..Lanes /\ c \in 0..(chunks - 1)
  BY <1>1, <1>2, <1>3, <1>4
<1> QED
  BY <1>5

(* A lane of one of the whole chunks is an index in front of the tail.       *)
LEMMA IndexOfLane ==
    ASSUME NEW n \in Nat, NEW c \in 0..((n \div Lanes) - 1), NEW k \in 1..Lanes
    PROVE  /\ c * Lanes + k \in 1..n
           /\ c * Lanes \in Nat /\ (c + 1) * Lanes = c * Lanes + Lanes /\ (c + 1) * Lanes <= n
<1> DEFINE chunks == n \div Lanes
<1>1. Lanes \in Nat \ {0} /\ chunks \in Nat /\ Lanes * chunks <= n
  <2>1. Lanes \in Nat \ {0}
    BY LanesAssumption
  <2>2. n = Lanes * chunks + (n % Lanes) /\ n % Lanes \in Nat /\ chunks \in Nat
    BY <2>1
  <2> DEFINE r == n % Lanes
             x == Lanes * chunks
  <2> HIDE DEF r, x, chunks
  <2>3. x \in Nat
    BY <2>1, <2>2 DEF x
  <2>4. n = x + r /\ r \in Nat
    BY <2>2 DEF x, r
  <2>5. x <= n
    BY <2>3, <2>4
  <2> QED
    BY <2>1, <2>2, <2>5 DEF x
<1>2. c \in Nat /\ c + 1 <= chunks
  BY <1>1
<1> HIDE DEF chunks
<1>3. Lanes * (c + 1) <= Lanes * chunks /\ Lanes * chunks \in Nat
  BY <1>1, <1>2
<1>4. Lanes * (c + 1) = (c + 1) * Lanes /\ (c + 1) * Lanes = c * Lanes + Lanes
      /\ c * Lanes \in Nat
  BY <1>1, <1>2
<1> QED
  BY <1>1, <1>3, <1>4

-----------------------------------------------------------------------------
(* The search, and what it proves of an image.                               *)

\* for_each_byte visits each place of the byte, and only those, wherever they lie in a
\* machine word: a borrow between the lanes costs a re-test and never a match.
THEOREM SearchIsExact ==
    ASSUME NEW haystack \in Seq(Byte), NEW needle \in Byte
    PROVE  ForEachByte(haystack, needle) = {i \in 1..Len(haystack) : haystack[i] = needle}
<1> DEFINE n == Len(haystack)
           chunks == n \div Lanes
           chunk(c) == SubSeq(haystack, c * Lanes + 1, (c + 1) * Lanes)
           matches == UNION {{c * Lanes + k : k \in Hits(chunk(c), needle)} : c \in 0..(chunks - 1)}
           tail == {i \in (chunks * Lanes + 1)..n : haystack[i] = needle}
<1>1. n \in Nat /\ Lanes \in Nat \ {0} /\ \A i \in 1..n : haystack[i] \in Byte
  BY LanesAssumption, ElementOfSeq, LenProperties
<1>2. ASSUME NEW c \in 0..(chunks - 1)
      PROVE  /\ \A k \in 1..Lanes : c * Lanes + k \in 1..n
                  /\ chunk(c)[k] = haystack[c * Lanes + k] /\ chunk(c)[k] \in Byte
             /\ Hits(chunk(c), needle) = {k \in 1..Lanes : haystack[c * Lanes + k] = needle}
  <2>1. \A k \in 1..Lanes : c * Lanes + k \in 1..n
    BY <1>1, IndexOfLane
  <2>2. c * Lanes \in Nat /\ (c + 1) * Lanes = c * Lanes + Lanes /\ (c + 1) * Lanes <= n
    <3>1. 1 \in 1..Lanes
      BY <1>1
    <3> QED
      BY <1>1, <3>1, IndexOfLane
  <2> DEFINE from == c * Lanes + 1
             to == (c + 1) * Lanes
  <2>3. from \in Int /\ to \in Int /\ to - from + 1 = Lanes
        /\ \A k \in 1..Lanes : from + k - 1 = c * Lanes + k
        /\ \A i \in from..to : i \in 1..n
    <3> DEFINE x == c * Lanes
    <3>1. x \in Nat /\ to = x + Lanes /\ from = x + 1 /\ x + Lanes <= n
      BY <2>2
    <3> HIDE DEF x, from, to, n
    <3>2. /\ from \in Int /\ to \in Int /\ to - from + 1 = Lanes
          /\ \A k \in 1..Lanes : from + k - 1 = x + k
          /\ \A i \in from..to : i \in 1..n
      BY <1>1, <3>1
    <3> QED
      BY <3>2 DEF x
  <2>4. \A i \in from..to : haystack[i] \in Byte
    BY <1>1, <2>3
  <2> HIDE DEF from, to
  <2>5. \A k \in 1..(to - from + 1) : SubSeq(haystack, from, to)[k] = haystack[from + k - 1]
    BY <2>3, <2>4, SubSeqProperties
  <2>6. \A k \in 1..Lanes : chunk(c)[k] = haystack[c * Lanes + k]
    BY <2>3, <2>5 DEF from, to
  <2>7. \A k \in 1..Lanes : chunk(c)[k] \in Byte
    BY <1>1, <2>1, <2>6
  <2>8. Hits(chunk(c), needle) = {k \in 1..Lanes : chunk(c)[k] = needle}
    <3> HIDE DEF chunk
    <3> QED
      BY <2>7, HitsAreMatches
  <2> HIDE DEF chunk
  <2> QED
    BY <2>1, <2>6, <2>7, <2>8
<1>3. ForEachByte(haystack, needle) = matches \cup tail
  BY DEF ForEachByte
<1>4. \A i \in tail : i \in 1..n /\ haystack[i] = needle
  <2>1. chunks * Lanes \in Nat
    BY <1>1
  <2> QED
    BY <1>1, <2>1
<1> HIDE DEF chunk
<1>5. ASSUME NEW i \in matches PROVE i \in 1..n /\ haystack[i] = needle
  <2>1. PICK c \in 0..(chunks - 1) : \E k \in Hits(chunk(c), needle) : i = c * Lanes + k
    BY <1>5
  <2>3. PICK k \in Hits(chunk(c), needle) : i = c * Lanes + k
    BY <2>1
  <2>2. k \in 1..Lanes /\ haystack[c * Lanes + k] = needle
    BY <1>2
  <2> QED
    BY <1>2, <2>3, <2>2
<1>6. ASSUME NEW i \in 1..n, haystack[i] = needle PROVE i \in matches \cup tail
  <2>1. CASE i \in (chunks * Lanes + 1)..n
    BY <1>6, <2>1
  <2>2. CASE \E c \in 0..(chunks - 1), k \in 1..Lanes : i = c * Lanes + k
    <3>1. PICK c \in 0..(chunks - 1), k \in 1..Lanes : i = c * Lanes + k
      BY <2>2
    <3>2. k \in Hits(chunk(c), needle)
      BY <1>2, <1>6, <3>1
    <3> QED
      BY <3>1, <3>2
  <2> QED
    BY <1>1, <2>1, <2>2, LaneOfIndex
<1> HIDE DEF matches, tail
<1> QED
  BY <1>3, <1>4, <1>5, <1>6

(* A string is found exactly where it stands.                                *)
LEMMA OccurrencesAreExact ==
    ASSUME NEW haystack \in Seq(Byte), NEW needle \in Seq(Byte), needle # <<>>
    PROVE  Occurrences(haystack, needle) =
              {i \in 1..(Len(haystack) - Len(needle) + 1) :
                  SubSeq(haystack, i, i + Len(needle) - 1) = needle}
<1> DEFINE n == Len(haystack)
           m == Len(needle)
<1>1. /\ n \in Nat /\ m \in Nat \ {0}
      /\ \A i \in 1..n : haystack[i] \in Byte
      /\ \A j \in 1..m : needle[j] \in Byte
  BY EmptySeq, ElementOfSeq, LenProperties
<1>2. ForEachByte(haystack, needle[1]) = {i \in 1..n : haystack[i] = needle[1]}
  BY <1>1, SearchIsExact
<1>3. ASSUME NEW i \in 1..(n - m + 1)
      PROVE  SubSeq(haystack, i, i + m - 1) = needle
                <=> \A j \in 1..m : haystack[i + j - 1] = needle[j]
  <2> DEFINE to == i + m - 1
             part == SubSeq(haystack, i, to)
  <2>1. to \in Int /\ i \in Int /\ i <= to /\ to - i + 1 = m /\ \A k \in i..to : k \in 1..n
    BY <1>1
  <2>2. \A k \in i..to : haystack[k] \in Byte
    BY <1>1, <2>1
  <2> HIDE DEF to
  <2>3. /\ part \in Seq(Byte) /\ Len(part) = m
        /\ \A j \in 1..m : part[j] = haystack[i + j - 1]
    BY <2>1, <2>2, SubSeqProperties
  <2> HIDE DEF part
  <2>4. (\A j \in 1..m : part[j] = needle[j]) => part = needle
    BY <2>3, SeqEqual
  <2>5. part = needle => \A j \in 1..m : part[j] = needle[j]
    OBVIOUS
  <2> QED
    BY <2>3, <2>4, <2>5 DEF part, to
<1>4. ASSUME NEW i
      PROVE  i \in Occurrences(haystack, needle)
                <=> /\ i \in 1..(n - m + 1)
                    /\ \A j \in 1..m : haystack[i + j - 1] = needle[j]
  <2>1. i \in Occurrences(haystack, needle)
           <=> /\ i \in 1..n /\ haystack[i] = needle[1] /\ i + m - 1 <= n
               /\ \A j \in 2..m : haystack[i + j - 1] = needle[j]
    BY <1>2 DEF Occurrences
  <2>2. i \in 1..n /\ i + m - 1 <= n <=> i \in 1..(n - m + 1)
    BY <1>1
  <2>3. ASSUME i \in 1..n
        PROVE  (\A j \in 1..m : haystack[i + j - 1] = needle[j])
                  <=> /\ haystack[i] = needle[1]
                      /\ \A j \in 2..m : haystack[i + j - 1] = needle[j]
    <3>1. i + 1 - 1 = i /\ 1 \in 1..m /\ \A j \in 1..m : j = 1 \/ j \in 2..m
      BY <1>1, <2>3
    <3>2. \A j \in 2..m : j \in 1..m
      BY <1>1
    <3> QED
      BY <3>1, <3>2
  <2> QED
    BY <2>1, <2>2, <2>3
<1> QED
  BY <1>3, <1>4

\* Where a primary vtable stands: an executable entry behind a reference to a locator
\* of offset zero.
PrimaryPlaces(words) ==
    {i \in 2..Len(words) :
        /\ words[i][1] = "code" /\ words[i - 1][1] = "ref"
        /\ LET l == words[i - 1][2]
           IN l \in 1..(Len(words) - 1) /\ words[l] = <<"locator", 0>>}

(* There are as many primary vtables as places where one stands.             *)
LEMMA PrimariesArePlaces ==
    ASSUME NEW build, IsImage(build)
    PROVE  Cardinality(PrimaryPlaces(build.words))
              = Cardinality(Primaries(Vtables(build.words)))
<1> DEFINE words == build.words
           n == Len(words)
           S == PrimaryPlaces(words)
           T == Primaries(Vtables(words))
           f == [i \in S |-> [offset |-> 0, at |-> i]]
<1>1. /\ n \in Nat /\ DOMAIN words = 1..n
      /\ \A i \in 1..n : words[i] = <<words[i][1], words[i][2]>>
  BY DEF IsImage
<1> HIDE DEF words, n
<1>2. ASSUME NEW i \in S PROVE f[i] \in T
  <2> DEFINE l == words[i - 1][2]
  <2>1. /\ i \in 2..n /\ words[i][1] = "code" /\ words[i - 1][1] = "ref"
        /\ l \in 1..(n - 1) /\ words[l] = <<"locator", 0>>
    BY DEF PrimaryPlaces, n
  <2>2. i - 1 \in 1..n /\ (i - 1) + 1 = i /\ i \in 1..n
    BY <1>1, <2>1
  <2>3. words[i - 1] = <<"ref", l>>
    BY <1>1, <2>1, <2>2
  <2> HIDE DEF l
  <2>4. l \in Locators(words) /\ words[l][2] = 0
    BY <2>1 DEF Locators, n
  <2>5. IsCode(words, (i - 1) + 1)
    BY <1>1, <2>1, <2>2 DEF IsCode
  <2>6. [offset |-> words[l][2], at |-> (i - 1) + 1] \in Vtables(words)
    BY <1>1, <2>2, <2>3, <2>4, <2>5 DEF Vtables
  <2> QED
    BY <2>2, <2>4, <2>6 DEF Primaries
<1>3. ASSUME NEW v \in T PROVE v.at \in S /\ v = f[v.at]
  <2>1. v \in Vtables(words) /\ v.offset = 0
    BY DEF Primaries
  <2>2. PICK l \in Locators(words) :
          \E j \in DOMAIN words :
             /\ words[j] = <<"ref", l>> /\ IsCode(words, j + 1)
             /\ v = [offset |-> words[l][2], at |-> j + 1]
    BY <2>1 DEF Vtables
  <2>3. PICK j \in DOMAIN words :
             /\ words[j] = <<"ref", l>> /\ IsCode(words, j + 1)
             /\ v = [offset |-> words[l][2], at |-> j + 1]
    BY <2>2
  <2>4. j \in 1..n /\ j + 1 \in 1..n /\ (j + 1) - 1 = j /\ words[j + 1][1] = "code"
    BY <1>1, <2>3 DEF IsCode
  <2>5. l \in 1..(n - 1) /\ words[l][1] = "locator" /\ words[l][2] = 0 /\ v.at = j + 1
    BY <2>1, <2>3 DEF Locators, n
  <2>6. words[l] = <<"locator", 0>>
    BY <1>1, <2>5
  <2>7. words[(j + 1) - 1][1] = "ref" /\ words[(j + 1) - 1][2] = l
    BY <2>3, <2>4
  <2>8. j + 1 \in 2..n
    BY <1>1, <2>4
  <2>9. j + 1 \in S
    BY <2>4, <2>5, <2>6, <2>7, <2>8 DEF PrimaryPlaces, n
  <2>10. v = [offset |-> 0, at |-> j + 1]
    BY <2>3, <2>5
  <2> HIDE DEF S
  <2> QED
    BY <2>5, <2>9, <2>10
<1>4. f \in Bijection(S, T)
  <2> HIDE DEF S, T
  <2>1. f \in [S -> T]
    BY <1>2
  <2>2. \A i, j \in S : f[i] = f[j] => i = j
    OBVIOUS
  <2>3. \A v \in T : \E i \in S : f[i] = v
    BY <1>3
  <2> QED
    BY <2>1, <2>2, <2>3, Fun_IsBij
<1>5. IsFiniteSet(S)
  <2>1. S \subseteq 2..n /\ IsFiniteSet(2..n)
    BY <1>1, FS_Interval DEF PrimaryPlaces, n
  <2> HIDE DEF S
  <2> QED
    BY <2>1, FS_Subset
<1> HIDE DEF f, S, T
<1>6. ExistsBijection(S, T)
  BY <1>4 DEF ExistsBijection
<1> QED
  BY <1>5, <1>6, FS_Bijection DEF S, T, words

(* What resolves is proven by its bytes and words.                           *)
LEMMA ResolvedIsProven ==
    ASSUME NEW build, IsImage(build), Resolves(build)
    PROVE  /\ Cardinality({i \in 1..(Len(build.bytes) - Len(RttiName) + 1) :
                  SubSeq(build.bytes, i, i + Len(RttiName) - 1) = RttiName}) = 1
           /\ Cardinality(PrimaryPlaces(build.words)) = 1
           /\ Cardinality(SchedulerLayouts(build)) = 1
<1>1. build.bytes \in Seq(Byte)
  BY DEF IsImage
<1>2. Cardinality(Occurrences(build.bytes, RttiName)) = 1
  BY DEF Resolves, FoundUnique
<1>3. Occurrences(build.bytes, RttiName) =
         {i \in 1..(Len(build.bytes) - Len(RttiName) + 1) :
             SubSeq(build.bytes, i, i + Len(RttiName) - 1) = RttiName}
  BY <1>1, NameAssumption, OccurrencesAreExact
<1> QED
  BY <1>2, <1>3, PrimariesArePlaces DEF Resolves

-----------------------------------------------------------------------------
(* What holds throughout a rescan.                                           *)

\* Up to the sweep the host has looked at nothing of the heap, and its image is one
\* of the builds, then one of its readings.
BeforeTheSweep ==
    /\ At("list") => tries < Attempts
    /\ pc \in {"list", "snapshot"} => image \in Images
    /\ At("resolve") => \E i \in Images : image \in Readings(i)
    /\ pc \in {"list", "snapshot", "resolve", "sweep"} =>
          address = 0 /\ hits = {} /\ candidates = {}
    /\ pc \notin {"list", "snapshot", "resolve", "failed"} => layout = Secondary
    /\ At("sweep") => IsImage(image) /\ Resolves(image)

\* What the history says of a slot is true of it.
HistoryIsTrue ==
    Sweeping => /\ \A a \in throughout : Live(a)
                /\ \A a \in Slots : Paired(a) => a \in paired

\* A block is ahead of a sweep at u if nothing of it has been passed, and the region
\* that is read has it whole or not at all.
Whole(a, end) == a < end => a + Deadline + Word <= end
NothingIsPassed ==
    /\ At("query") => \A a \in throughout : a \in hits \/ a >= address
    /\ At("read") =>
          /\ address < regionEnd
          /\ \A a \in throughout : a \in hits \/ (a >= address /\ Whole(a, regionEnd))

\* The requests are counted by where the host is.
WritesFollowPlace ==
    /\ pc \in {"validate", "fields", "write"} => writes = pass - 1
    /\ At("sleep") => writes = pass
    /\ pc \in {"validate", "fields", "write", "sleep"} => mode = "rescan"
    /\ pc \notin {"validate", "fields", "write", "sleep", "done", "failed"} =>
          writes = 0 /\ pass = 1

\* A request that has validated its target has seen it live.
RequestsAreFresh ==
    /\ At("validate") /\ Live(target) => fresh
    /\ pc \in {"fields", "write"} => fresh

Inductive ==
    /\ TypeOK
    /\ BeforeTheSweep
    /\ HistoryIsTrue
    /\ SweepIsExact
    /\ NothingIsPassed
    /\ WritesFollowPlace /\ RecoveryIsTwoRequests
    /\ RequestsAreFresh

-----------------------------------------------------------------------------
(* Pages, and the least of some numbers.                                     *)

(* The end of memory is a number.                                            *)
LEMMA EndIsNatural == End \in Nat
BY MemoryAssumption DEF End

(* A unit lies between the start of its page and that of the next.           *)
LEMMA UnitOfPage ==
    ASSUME NEW u \in Nat
    PROVE  /\ PageOf(u) \in Nat
           /\ PageSize * PageOf(u) <= u /\ u < PageSize * PageOf(u) + PageSize
BY MemoryAssumption DEF PageOf

(* The units in front of a page are those of the pages in front of it.       *)
LEMMA InFrontOfPage ==
    ASSUME NEW u \in Nat, NEW p \in Nat
    PROVE  u < PageSize * p <=> PageOf(u) < p
<1> DEFINE q == PageOf(u)
<1>1. q \in Nat /\ PageSize * q <= u /\ u < PageSize * q + PageSize
  BY UnitOfPage
<1>2. PageSize \in Nat \ {0}
  BY MemoryAssumption
<1> HIDE DEF q
<1>3. ASSUME u < PageSize * p PROVE q < p
  <2>1. PageSize * q < PageSize * p
    BY <1>1, <1>2, <1>3
  <2> QED
    BY <1>1, <1>2, <2>1
<1>4. ASSUME q < p PROVE u < PageSize * p
  <2>1. PageSize * (q + 1) <= PageSize * p
    BY <1>1, <1>2, <1>4
  <2>2. PageSize * (q + 1) = PageSize * q + PageSize
    BY <1>1, <1>2
  <2> QED
    BY <1>1, <1>2, <2>1, <2>2
<1> QED
  BY <1>3, <1>4 DEF q

(* A page starts with a unit of its own.                                     *)
LEMMA PageStart ==
    ASSUME NEW p \in Nat
    PROVE  PageSize * p \in Nat /\ PageOf(PageSize * p) = p
<1>1. PageSize * p \in Nat
  BY MemoryAssumption
<1>2. PageOf(PageSize * p) \in Nat
  BY <1>1, UnitOfPage
<1>3. ~(PageOf(PageSize * p) < p)
  BY <1>1, InFrontOfPage
<1>4. PageSize * p < PageSize * (p + 1)
  BY MemoryAssumption
<1>5. PageOf(PageSize * p) < p + 1
  BY <1>1, <1>4, InFrontOfPage
<1> QED
  BY <1>1, <1>2, <1>3, <1>5

LEMMA MinOfTwo ==
    ASSUME NEW m \in Nat, NEW n \in Nat
    PROVE  Min({m, n}) = IF m <= n THEN m ELSE n
<1>1. Min({m, n}) \in {m, n} /\ Min({m, n}) <= m /\ Min({m, n}) <= n
  BY LeastExists
<1> QED
  BY <1>1

LEMMA MaxOfTwo ==
    ASSUME NEW m \in Int, NEW n \in Int
    PROVE  Max({m, n}) = IF m >= n THEN m ELSE n
<1>1. \E x \in {m, n} : \A y \in {m, n} : x >= y
  OBVIOUS
<1>2. Max({m, n}) \in {m, n} /\ \A y \in {m, n} : Max({m, n}) >= y
  BY <1>1 DEF Max
<1> QED
  BY <1>2

(* Two multiples of the word that are less than a word apart are the same.   *)
LEMMA WordsApart ==
    ASSUME NEW a \in Nat, NEW b \in Nat, a % Word = 0, b % Word = 0,
           a <= b, b < a + Word
    PROVE  a = b
<1> DEFINE m == a \div Word
           n == b \div Word
<1>1. a = Word * m /\ b = Word * n /\ m \in Nat /\ n \in Nat
  BY MemoryAssumption
<1> HIDE DEF m, n
<1>2. Word * m <= Word * n /\ Word * n < Word * (m + 1)
  BY <1>1, MemoryAssumption
<1>3. n < m + 1 /\ m <= n
  BY <1>1, <1>2, MemoryAssumption
<1>4. m = n
  BY <1>1, <1>3
<1> QED
  BY <1>1, <1>4

-----------------------------------------------------------------------------
(* The sweep's arithmetic.                                                   *)

(* All of a block is memory of its own pages.                                *)
LEMMA BlockFacts ==
    ASSUME NEW a \in Slots, NEW u \in BlockOf(a)
    PROVE  a \in Nat /\ u \in Nat /\ u < End /\ a <= u /\ u < a + Deadline + Word
           /\ PageOf(u) \in Private
BY SlotsAssumption, ClassAssumption, MemoryAssumption, EndIsNatural DEF BlockOf

(* A region is the pages of one kind from that of its first unit on.         *)
LEMMA RegionFacts ==
    ASSUME NEW u \in Nat, u < End
    PROVE  \E m \in Nat :
              /\ RegionEnd(u) = PageSize * m
              /\ PageOf(u) < m /\ m <= Pages
              /\ \A p \in Nat : PageOf(u) <= p /\ p < m => SameKind(p, PageOf(u))
              /\ m = Pages \/ ~SameKind(m, PageOf(u))
<1> DEFINE others == {p \in PageOf(u)..(Pages - 1) : ~SameKind(p, PageOf(u))}
           m == Min(others \cup {Pages})
<1>1. PageOf(u) \in Nat /\ Pages \in Nat
  BY UnitOfPage, MemoryAssumption
<1>2. m \in others \cup {Pages} /\ \A p \in others \cup {Pages} : m <= p
  <2>1. others \cup {Pages} \in SUBSET Nat /\ others \cup {Pages} # {}
    BY <1>1
  <2> HIDE DEF others
  <2> QED
    BY <2>1, LeastExists
<1>3. PageOf(u) < Pages
  BY <1>1, InFrontOfPage, MemoryAssumption DEF End
<1>4. SameKind(PageOf(u), PageOf(u))
  BY DEF SameKind
<1>5. RegionEnd(u) = PageSize * m
  BY DEF RegionEnd
<1>6. m \in Nat
  BY <1>1, <1>2
<1> HIDE DEF m
<1> WITNESS m \in Nat
<1> QED
  BY <1>1, <1>2, <1>3, <1>4, <1>5, <1>6

(* A region that begins no later than a live block and reaches it has all of  *)
(* it, and is one that the sweep reads.                                      *)
LEMMA RegionHoldsBlock ==
    ASSUME NEW u \in Nat, u < End, NEW a \in Slots, Live(a), u <= a, a < RegionEnd(u)
    PROVE  /\ page[PageOf(u)] /\ PageOf(u) \in Private
           /\ a + Deadline + Word <= RegionEnd(u)
<1>1. PICK m \in Nat :
        /\ RegionEnd(u) = PageSize * m
        /\ PageOf(u) < m /\ m <= Pages
        /\ \A p \in Nat : PageOf(u) <= p /\ p < m => SameKind(p, PageOf(u))
        /\ m = Pages \/ ~SameKind(m, PageOf(u))
  BY RegionFacts
<1>2. \A v \in BlockOf(a) : v \in Nat /\ v < End /\ page[PageOf(v)] /\ PageOf(v) \in Private
  BY BlockFacts DEF Live, Committed
<1>3. a \in Nat /\ a \in BlockOf(a)
  BY SlotsAssumption, ClassAssumption, MemoryAssumption DEF BlockOf
<1>4. PageOf(u) \in Nat /\ PageOf(a) \in Nat
  BY <1>3, UnitOfPage
<1>5. PageOf(a) < m
  BY <1>1, <1>3, InFrontOfPage
<1>6. PageOf(u) <= PageOf(a)
  <2>1. ~(a < PageSize * PageOf(u))
    BY <1>3, <1>4, UnitOfPage, MemoryAssumption
  <2> QED
    BY <1>3, <1>4, <2>1, InFrontOfPage
<1>7. SameKind(PageOf(a), PageOf(u))
  BY <1>1, <1>4, <1>5, <1>6
<1>8. page[PageOf(u)] /\ PageOf(u) \in Private
  BY <1>2, <1>3, <1>7 DEF SameKind
<1>9. ASSUME PageSize * m < a + Deadline + Word PROVE FALSE
  <2>1. PageSize * m \in Nat /\ PageOf(PageSize * m) = m
    BY PageStart
  <2>2. PageSize * m \in BlockOf(a)
    BY <1>1, <1>3, <1>9, <2>1, ClassAssumption, MemoryAssumption DEF BlockOf
  <2>3. page[m] /\ m \in Private /\ PageSize * m < End
    BY <1>2, <2>1, <2>2
  <2>4. m # Pages
    <3>1. PageSize * Pages = End
      BY MemoryAssumption DEF End
    <3> QED
      BY <2>3, <3>1, EndIsNatural
  <2>5. ~SameKind(m, PageOf(u))
    BY <1>1, <2>4
  <2> QED
    BY <1>8, <2>3, <2>5 DEF SameKind
<1>10. PageSize * m \in Nat /\ a + Deadline + Word \in Nat
  BY <1>3, PageStart, ClassAssumption, MemoryAssumption
<1> QED
  BY <1>1, <1>8, <1>9, <1>10

(* A region ends behind its first unit, and with memory at the latest.        *)
LEMMA RegionAdvances ==
    ASSUME NEW u \in Nat, u < End
    PROVE  RegionEnd(u) \in Nat /\ u < RegionEnd(u) /\ RegionEnd(u) <= End
<1>1. PICK m \in Nat : RegionEnd(u) = PageSize * m /\ PageOf(u) < m /\ m <= Pages
  BY RegionFacts
<1>2. PageSize * m <= PageSize * Pages
  BY <1>1, MemoryAssumption
<1>3. PageSize * Pages = End
  BY MemoryAssumption DEF End
<1> QED
  BY <1>1, <1>2, <1>3, PageStart, InFrontOfPage

(* A read ends at the end of its range or at a missing page.                 *)
LEMMA TransferFacts ==
    ASSUME NEW start \in Nat, NEW end \in Nat, start <= end
    PROVE  /\ Transferred(start, end) \in Nat
           /\ start + Transferred(start, end) <= end
           /\ start + Transferred(start, end) < end
                => ~Committed(start + Transferred(start, end))
<1> DEFINE missing == {u \in start..(end - 1) : ~Committed(u)}
           m == Min(missing \cup {end})
<1>1. m \in missing \cup {end} /\ m <= end
  BY LeastExists
<1>2. Transferred(start, end) = m - start
  BY DEF Transferred
<1> HIDE DEF m
<1> QED
  BY <1>1, <1>2

(* What a step of the sweep passes is a live block whose pair it has read.    *)
LEMMA NothingSkipped ==
    ASSUME layout = Secondary, NEW start \in Nat, NEW limit \in Nat, start < limit,
           limit <= End, NEW a \in Slots, Live(a), start <= a, Whole(a, limit),
           NEW end \in Nat, end = Min({start + ScanChunk, limit}),
           NEW n, n = Transferred(start, end),
           NEW next, next = NextScanStart(start, end, limit, n)
    PROVE  \/ a + Secondary + Word <= start + n
           \/ a >= (IF next = End THEN limit ELSE next)
<1>1. /\ a \in Nat /\ Secondary \in Nat /\ Deadline \in Nat /\ Word \in Nat \ {0}
      /\ ScanChunk \in Nat /\ Secondary <= Deadline /\ Secondary + Word <= ScanChunk
      /\ PageSize \in Nat \ {0}
  BY SlotsAssumption, ClassAssumption, MemoryAssumption
<1>2. end = (IF start + ScanChunk <= limit THEN start + ScanChunk ELSE limit)
      /\ start <= end /\ end <= limit
  BY <1>1, MinOfTwo
<1>3. n \in Nat /\ start + n <= end /\ (start + n < end => ~Committed(start + n))
  BY <1>2, TransferFacts
<1>4. a < limit => a + Deadline + Word <= limit
  BY DEF Whole
<1>5. CASE start + n < end
  <2> DEFINE p == PageOf(start + n)
  <2>1. p \in Nat /\ p + 1 \in Nat /\ (p + 1) * PageSize = PageSize * (p + 1)
    BY <1>1, <1>3, UnitOfPage
  <2>2. next = IF (p + 1) * PageSize < limit THEN (p + 1) * PageSize ELSE End
    BY <1>1, <1>2, <1>3, <1>5 DEF NextScanStart, PageOf
  <2>3. \A u \in BlockOf(a) : PageOf(u) # p
    BY <1>2, <1>3, <1>5, EndIsNatural DEF Live, Committed
  <2>4. CASE a < (p + 1) * PageSize
    <3>1. PageOf(a) < p + 1 /\ PageOf(a) \in Nat
      BY <1>1, <2>1, <2>4, InFrontOfPage, UnitOfPage
    <3>2. a \in BlockOf(a)
      BY <1>1 DEF BlockOf
    <3>3. PageOf(a) < p
      BY <2>1, <2>3, <3>1, <3>2
    <3>4. PageSize * p \in Nat /\ PageOf(PageSize * p) = p /\ a < PageSize * p
      BY <1>1, <2>1, <3>3, PageStart, InFrontOfPage
    <3>5. PageSize * p \notin BlockOf(a)
      BY <2>3, <3>4
    <3>6. a + Deadline + Word <= PageSize * p
      BY <1>1, <3>4, <3>5 DEF BlockOf
    <3>7. PageSize * p <= start + n
      BY <1>3, UnitOfPage
    <3> HIDE DEF p
    <3> QED
      BY <1>1, <1>3, <3>4, <3>6, <3>7
  <2>5. CASE a >= (p + 1) * PageSize
    <3>1. (p + 1) * PageSize \in Nat
      BY <1>1, <2>1
    <3> HIDE DEF p
    <3> QED
      BY <1>1, <2>2, <2>5, <3>1, EndIsNatural
  <2> QED
    BY <1>1, <2>1, <2>4, <2>5
<1>6. CASE start + n = end /\ end >= limit
  <2>1. next = End
    BY <1>1, <1>2, <1>3, <1>6, EndIsNatural DEF NextScanStart
  <2> QED
    BY <1>1, <1>2, <1>3, <1>4, <1>6, <2>1
<1>7. CASE start + n = end /\ end < limit
  <2>1. end = start + ScanChunk
    BY <1>2, <1>7
  <2>2. Max({end - Overlap, start + 1}) = end - Secondary - Word + 1
    <3> DEFINE x == end - Overlap
               y == start + 1
    <3>1. x \in Int /\ y \in Int /\ x >= y /\ x = end - Secondary - Word + 1
      BY <1>1, <2>1 DEF Overlap
    <3> HIDE DEF x, y
    <3>2. Max({x, y}) = x
      BY <3>1, MaxOfTwo
    <3> QED
      BY <3>1, <3>2 DEF x, y
  <2>3. next = end - Secondary - Word + 1
    <3>1. n = end - start /\ ~(n < end - start) /\ ~(end >= limit)
      BY <1>2, <1>3, <1>7
    <3>2. end - Secondary - Word + 1 < limit
      BY <1>1, <1>2, <1>7
    <3> QED
      BY <2>2, <3>1, <3>2 DEF NextScanStart
  <2>4. next # End
    BY <1>1, <1>7, <2>3, EndIsNatural
  <2> QED
    BY <1>1, <1>7, <2>3, <2>4
<1> QED
  BY <1>2, <1>3, <1>5, <1>6, <1>7

(* The words of a pair are those of its own slot.                            *)
LEMMA PairCells ==
    ASSUME NEW a \in Slots, Paired(a), NEW k \in 0..(Word - 1)
    PROVE  Cell(a + k) = "primary" /\ Cell(a + Secondary + k) = "secondary"
<1>1. /\ a \in Nat /\ Secondary \in Nat /\ Deadline \in Nat /\ Word \in Nat \ {0}
      /\ Word <= Secondary /\ Secondary <= Deadline /\ k \in Nat /\ k < Word
  BY SlotsAssumption, ClassAssumption, MemoryAssumption
<1>2. Cell(a + k) = "primary"
  BY <1>1 DEF Cell
<1>3. ASSUME NEW b \in Slots, a + Secondary + k \in b..(b + Word - 1) PROVE FALSE
  <2>1. b \in Nat
    BY SlotsAssumption
  <2>2. CASE b = a
    BY <1>1, <1>3, <2>2
  <2>3. CASE b # a
    <3>1. a + Secondary + k \in BlockOf(a) /\ a + Secondary + k \in BlockOf(b)
      BY <1>1, <1>3, <2>1 DEF BlockOf
    <3> QED
      BY <2>3, <3>1, SlotsAssumption
  <2> QED
    BY <2>2, <2>3
<1>4. a + Secondary + k \in (a + Secondary)..(a + Secondary + Word - 1)
  BY <1>1
<1> QED
  BY <1>2, <1>3, <1>4 DEF Cell

(* A pair that was read whole is found.                                      *)
LEMMA PairIsFound ==
    ASSUME layout = Secondary, NEW a \in Slots, Paired(a),
           NEW start \in Nat, NEW n \in Nat, start <= a, a + Secondary + Word <= start + n,
           NEW bytes, \A k \in 0..(n - 1) : bytes[k] = Cell(start + k)
    PROVE  a \in FindVtablePairs(bytes, n, start)
<1> DEFINE o == a - start
<1>1. /\ a \in Nat /\ Secondary \in Nat /\ Word \in Nat \ {0}
      /\ a % Word = 0
  BY SlotsAssumption, ClassAssumption, MemoryAssumption
<1>2. /\ o \in 0..(n - 1) /\ start + o = a /\ o + layout + Word <= n
      /\ \A k \in 0..(Word - 1) :
            /\ o + k \in 0..(n - 1) /\ start + (o + k) = a + k
            /\ o + layout + k \in 0..(n - 1) /\ start + (o + layout + k) = a + Secondary + k
  BY <1>1
<1> HIDE DEF o
<1>3. \A k \in 0..(Word - 1) :
         bytes[o + k] = "primary" /\ bytes[o + layout + k] = "secondary"
  BY <1>2, PairCells
<1> QED
  BY <1>1, <1>2, <1>3 DEF FindVtablePairs

(* What looks like a pair in what was read is one.                           *)
LEMMA FoundIsPaired ==
    ASSUME NEW start \in Nat, NEW n \in Nat,
           NEW bytes, \A k \in 0..(n - 1) : bytes[k] = Cell(start + k),
           layout \in Nat, NEW b \in FindVtablePairs(bytes, n, start)
    PROVE  b \in Slots /\ Paired(b)
<1>1. Word \in Nat \ {0} /\ 0 \in 0..(Word - 1)
  BY MemoryAssumption
<1>2. PICK o \in 0..(n - 1) : b = start + o /\ b % Word = 0 /\ bytes[o] = "primary"
  <2>1. PICK o \in 0..(n - 1) :
          /\ b = start + o /\ (start + o) % Word = 0
          /\ \A k \in 0..(Word - 1) : bytes[o + k] = "primary"
    BY DEF FindVtablePairs
  <2>2. bytes[o + 0] = "primary" /\ o + 0 = o
    BY <1>1, <2>1
  <2> QED
    BY <2>1, <2>2
<1>3. Cell(b) = "primary"
  BY <1>2
<1>4. PICK a \in Slots : Paired(a) /\ b \in a..(a + Word - 1)
  BY <1>3 DEF Cell
<1>5. a = b
  BY <1>1, <1>2, <1>4, WordsApart, SlotsAssumption
<1> QED
  BY <1>4, <1>5

(* The sweep goes on inside the region or leaves it.                         *)
LEMMA NextIsInside ==
    ASSUME layout \in Nat, NEW start \in Nat, NEW end \in Nat, NEW limit \in Nat, NEW n \in Nat
    PROVE  /\ NextScanStart(start, end, limit, n) \in Nat
           /\ \/ NextScanStart(start, end, limit, n) = End
              \/ NextScanStart(start, end, limit, n) < limit
<1> DEFINE p == (start + n) \div PageSize
           m == Max({end - Overlap, start + 1})
<1>1. (p + 1) * PageSize \in Nat
  BY UnitOfPage, MemoryAssumption DEF PageOf
<1>2. m \in Nat
  <2> DEFINE x == end - Overlap
             y == start + 1
  <2>1. x \in Int /\ y \in Int /\ y >= 0
    BY MemoryAssumption DEF Overlap
  <2> HIDE DEF x, y
  <2>2. Max({x, y}) \in Int /\ Max({x, y}) >= 0
    BY <2>1, MaxOfTwo
  <2> QED
    BY <2>2 DEF x, y
<1> HIDE DEF m
<1> QED
  BY <1>1, <1>2, EndIsNatural DEF NextScanStart, m

(* And it goes on, however little was read.                                  *)
LEMMA NextIsAhead ==
    ASSUME layout \in Nat, NEW start \in Nat, NEW end \in Nat, NEW limit \in Nat, NEW n \in Nat,
           start < limit, limit <= End
    PROVE  start < NextScanStart(start, end, limit, n)
<1> DEFINE p == PageOf(start + n)
           x == end - Overlap
           y == start + 1
<1>1. start < End
  BY EndIsNatural
<1>2. start < (p + 1) * PageSize
  <2>1. p \in Nat /\ start + n < PageSize * p + PageSize
    BY UnitOfPage
  <2>2. PageSize * p + PageSize = (p + 1) * PageSize
    BY <2>1, MemoryAssumption
  <2>3. PageSize * p \in Nat /\ PageSize \in Nat
    BY <2>1, MemoryAssumption
  <2> HIDE DEF p
  <2> QED
    BY <2>1, <2>2, <2>3
<1>3. start < Max({x, y})
  <2>1. x \in Int /\ y \in Int /\ y > start
    BY MemoryAssumption DEF Overlap
  <2> HIDE DEF x, y
  <2> QED
    BY <2>1, MaxOfTwo
<1> DEFINE next == IF n < end - start THEN (p + 1) * PageSize
                   ELSE IF end >= limit THEN End ELSE Max({x, y})
<1>4. NextScanStart(start, end, limit, n) = IF next < limit THEN next ELSE End
  BY DEF NextScanStart, PageOf
<1>5. start < next
  BY <1>1, <1>2, <1>3
<1> HIDE DEF next
<1> QED
  BY <1>1, <1>4, <1>5

-----------------------------------------------------------------------------
(* The invariant, step by step.                                              *)

(* Slots and their pairs are as good as the memory they are in.              *)
LEMMA SteamStands ==
    ASSUME UNCHANGED steamVars
    PROVE  \A a : (Live(a)' <=> Live(a)) /\ (a \in Slots => (Paired(a)' <=> Paired(a)))
BY DEF steamVars, Live, Paired, Committed

LEMMA InitInductive == Init => Inductive
<1> SUFFICES ASSUME Init PROVE Inductive
  OBVIOUS
<1>1. TypeOK
  <2>1. tries \in 0..Attempts /\ address \in 0..End /\ regionEnd \in 0..End
    BY EndIsNatural, MemoryAssumption DEF Init
  <2>2. /\ page \in [0..(Pages - 1) -> BOOLEAN]
        /\ block \in [Slots -> {"object", "copy", "torn", "none"}]
    BY DEF Init
  <2>3. DOMAIN buffer = 0..(ScanChunk - 1)
    BY DEF Init, Blank
  <2>4. /\ hits \in SUBSET (0..End) /\ candidates \in SUBSET Slots
        /\ throughout \in SUBSET Slots /\ paired \in SUBSET Slots /\ moved \in SUBSET Slots
    BY DEF Init
  <2>5. /\ mode \in {"rescan", "check"} /\ pc \in Places
        /\ target \in Slots \cup {Nowhere} /\ fresh \in BOOLEAN /\ cut \in BOOLEAN
    <3>1. /\ mode \in {"rescan", "check"} /\ pc = "list" /\ target = Nowhere
          /\ fresh = FALSE /\ cut = FALSE
      BY DEF Init
    <3> QED
      BY <3>1 DEF Places
  <2>6. layout \in Nat /\ pass \in 1..2 /\ writes \in 0..2
    <3>1. layout = 0 /\ pass = 1 /\ writes = 0
      BY DEF Init
    <3> QED
      BY <3>1
  <2> QED
    BY <2>1, <2>2, <2>3, <2>4, <2>5, <2>6 DEF TypeOK
<1>2. BeforeTheSweep /\ HistoryIsTrue /\ NothingIsPassed
  BY MemoryAssumption DEF Init, BeforeTheSweep, HistoryIsTrue, NothingIsPassed, At, Sweeping
<1>3. SweepIsExact
  BY DEF Init, SweepIsExact, NoPhantomPair, LiveThroughoutIsFound, At, Sweeping
<1>4. WritesFollowPlace /\ RecoveryIsTwoRequests /\ RequestsAreFresh
  BY DEF Init, WritesFollowPlace, RecoveryIsTwoRequests, RequestsAreFresh, At
<1> QED
  BY <1>1, <1>2, <1>3, <1>4 DEF Inductive

(* What Steam does, the host has seen to the extent its history says.        *)
LEMMA SteamKeepsInductive ==
    ASSUME Inductive, NEW fields \in SUBSET Slots, Observed(fields),
           page' \in [0..(Pages - 1) -> BOOLEAN],
           block' \in [Slots -> {"object", "copy", "torn", "none"}]
    PROVE  Inductive'
<1> USE DEF Inductive, Observed, hostVars
<1>1. TypeOK'
  <2>1. /\ throughout' \in SUBSET Slots /\ paired' \in SUBSET Slots
        /\ moved' \in SUBSET Slots
    BY DEF TypeOK
  <2>2. fresh' \in BOOLEAN
    OBVIOUS
  <2> QED
    BY <2>1, <2>2 DEF TypeOK
<1>2. throughout' \subseteq throughout /\ (Sweeping => paired \subseteq paired')
  BY DEF TypeOK
<1>3. BeforeTheSweep'
  BY DEF BeforeTheSweep, At
<1>4. HistoryIsTrue'
  BY DEF HistoryIsTrue, Sweeping, At
<1>5. SweepIsExact'
  BY <1>2 DEF SweepIsExact, NoPhantomPair, LiveThroughoutIsFound, Sweeping, At
<1>6. NothingIsPassed'
  BY <1>2 DEF NothingIsPassed, At, Whole
<1>7. WritesFollowPlace' /\ RecoveryIsTwoRequests'
  BY DEF WritesFollowPlace, RecoveryIsTwoRequests, At
<1>8. RequestsAreFresh'
  BY DEF RequestsAreFresh, At
<1> QED
  BY <1>1, <1>3, <1>4, <1>5, <1>6, <1>7, <1>8

LEMMA SteamSteps ==
    ASSUME Inductive, Steam
    PROVE  Inductive'
<1>1. /\ page \in [0..(Pages - 1) -> BOOLEAN]
      /\ block \in [Slots -> {"object", "copy", "torn", "none"}]
  BY DEF Inductive, TypeOK
<1>2. ASSUME NEW a \in Slots,
             BuildThread(a) \/ DestroyThread(a) \/ ReuseBlock(a) \/ Reschedule(a)
      PROVE  Inductive'
  <2>1. /\ page' = page
        /\ block' \in [Slots -> {"object", "copy", "torn", "none"}]
    BY <1>1, <1>2 DEF BuildThread, DestroyThread, ReuseBlock, Reschedule, steamVars
  <2>2. Observed({a}) \/ Observed({})
    BY <1>2 DEF BuildThread, DestroyThread, ReuseBlock, Reschedule
  <2> QED
    BY <1>1, <2>1, <2>2, SteamKeepsInductive
<1>3. ASSUME NEW p \in Volatile, Decommit(p) PROVE Inductive'
  <2>1. /\ page' \in [0..(Pages - 1) -> BOOLEAN]
        /\ block' \in [Slots -> {"object", "copy", "torn", "none"}]
    BY <1>1, <1>3 DEF Decommit
  <2> QED
    BY <1>3, <2>1, SteamKeepsInductive DEF Decommit
<1>4. ASSUME NEW p \in Volatile, Commit(p) PROVE Inductive'
  <2>1. /\ page' \in [0..(Pages - 1) -> BOOLEAN]
        /\ block' \in [Slots -> {"object", "copy", "torn", "none"}]
    BY <1>1, <1>4 DEF Commit
  <2> QED
    BY <1>4, <2>1, SteamKeepsInductive DEF Commit
<1> QED
  BY <1>2, <1>3, <1>4 DEF Steam

(* Of what a snapshot could not read it has zeros, and it is an image all the same. *)
LEMMA ReadingsAreImages ==
    ASSUME NEW i \in Images, NEW read \in Readings(i)
    PROVE  IsImage(read)
<1> DEFINE zeroBytes == [k \in DOMAIN i.bytes |-> 0]
           zeroWords == [k \in DOMAIN i.words |-> <<"data", 0>>]
<1>1. /\ i = [bytes |-> i.bytes, words |-> i.words, bodies |-> i.bodies]
      /\ i.bytes \in Seq(Byte)
      /\ Len(i.words) \in Nat /\ DOMAIN i.words = 1..Len(i.words)
      /\ \A k \in DOMAIN i.words : i.words[k] = <<i.words[k][1], i.words[k][2]>>
  BY ImagesAssumption DEF IsImage
<1>2. PICK bytes \in {i.bytes, zeroBytes}, words \in {i.words, zeroWords} :
        read = [i EXCEPT !.bytes = bytes, !.words = words]
  BY DEF Readings
<1>3. bytes \in Seq(Byte)
  <2>1. 0 \in Byte
    BY LanesAssumption, Powers DEF Byte
  <2>2. Len(i.bytes) \in Nat /\ DOMAIN i.bytes = 1..Len(i.bytes)
    BY <1>1, LenProperties
  <2> QED
    BY <1>1, <2>1, <2>2
<1>4. /\ Len(words) \in Nat /\ DOMAIN words = 1..Len(words)
      /\ \A k \in DOMAIN words : words[k] = <<words[k][1], words[k][2]>>
  <2>1. /\ Len(zeroWords) \in Nat /\ DOMAIN zeroWords = 1..Len(zeroWords)
        /\ \A k \in DOMAIN zeroWords :
              zeroWords[k] = <<zeroWords[k][1], zeroWords[k][2]>>
    BY <1>1
  <2> HIDE DEF zeroWords
  <2> QED
    BY <1>1, <2>1
<1>5. read = [bytes |-> bytes, words |-> words, bodies |-> i.bodies]
  BY <1>1, <1>2
<1> HIDE DEF zeroBytes, zeroWords
<1> QED
  BY <1>3, <1>4, <1>5 DEF IsImage

(* The module is found, read and resolved: the layout that comes of it is that *)
(* of the class.                                                              *)
LEMMA ResolvingSteps ==
    ASSUME Inductive, Resolving
    PROVE  Inductive'
<1> USE DEF Inductive
<1>1. UNCHANGED <<mode, address, regionEnd, buffer, hits, candidates, cut, target, pass,
                  writes, steamVars, historyVars>>
  BY DEF Resolving, ListChanges, Unavailable, Locate, Snapshot, ResolveLayout, resolveLeaves
<1>2. /\ pc \in {"list", "snapshot", "resolve"}
      /\ pc' \in {"list", "snapshot", "resolve", "sweep", "failed"}
  BY DEF Resolving, ListChanges, Unavailable, Locate, Snapshot, ResolveLayout, At, Goto
<1>3. /\ tries' \in 0..Attempts
      /\ pc' = "list" => tries' < Attempts
      /\ pc' \in {"list", "snapshot"} => image' \in Images
      /\ pc' = "resolve" => \E i \in Images : image' \in Readings(i)
      /\ layout' \in Nat
      /\ pc' = "sweep" => layout' = Secondary /\ IsImage(image') /\ Resolves(image')
  <2>1. tries \in 0..Attempts /\ layout \in Nat
    BY DEF TypeOK
  <2>2. CASE ListChanges
    BY <2>1, <2>2, MemoryAssumption
       DEF ListChanges, BeforeTheSweep, At, Goto, resolveLeaves
  <2>3. CASE Unavailable \/ Locate
    BY <2>1, <2>3 DEF Unavailable, Locate, BeforeTheSweep, At, Goto, resolveLeaves
  <2>4. CASE Snapshot
    BY <2>1, <2>4 DEF Snapshot, BeforeTheSweep, At, Goto, resolveLeaves
  <2>5. CASE ResolveLayout
    <3>1. PICK i \in Images : image \in Readings(i)
      BY <2>5 DEF ResolveLayout, BeforeTheSweep
    <3>2. Resolves(image) => Resolved(image).offset = Secondary
      BY <3>1, ImagesAssumption
    <3>3. CASE Resolves(image)
      <4>1. layout' = Secondary /\ pc' = "sweep" /\ tries' = tries /\ image' = image
        BY <2>5, <3>2, <3>3 DEF ResolveLayout, Goto
      <4> QED
        BY <2>1, <3>1, <3>3, <4>1, ClassAssumption, ReadingsAreImages
    <3>4. CASE ~Resolves(image)
      BY <2>1, <2>5, <3>4 DEF ResolveLayout, Goto
    <3> QED
      BY <3>3, <3>4
  <2> QED
    BY <2>2, <2>3, <2>4, <2>5 DEF Resolving
<1>4. TypeOK'
  BY <1>1, <1>2, <1>3 DEF TypeOK, Places, steamVars, historyVars
<1>5. BeforeTheSweep'
  BY <1>1, <1>2, <1>3 DEF BeforeTheSweep, At
<1>6. HistoryIsTrue' /\ SweepIsExact' /\ NothingIsPassed'
  BY <1>2 DEF HistoryIsTrue, SweepIsExact, NoPhantomPair, LiveThroughoutIsFound,
              NothingIsPassed, Sweeping, At
<1>7. WritesFollowPlace' /\ RecoveryIsTwoRequests' /\ RequestsAreFresh'
  BY <1>1, <1>2 DEF WritesFollowPlace, RecoveryIsTwoRequests, RequestsAreFresh, At
<1> QED
  BY <1>4, <1>5, <1>6, <1>7

(* The sweep begins with a history that is true of the heap it is to read.    *)
LEMMA BeginSweepStep ==
    ASSUME Inductive, BeginSweep
    PROVE  Inductive'
<1> USE DEF Inductive
<1>1. /\ pc = "sweep" /\ pc' = "query"
      /\ UNCHANGED <<mode, tries, layout, address, regionEnd, buffer, hits, candidates, cut,
                     target, pass, writes, moved, fresh>>
      /\ throughout' = {a \in Slots : Live(a)'} /\ paired' = {a \in Slots : Paired(a)'}
  BY DEF BeginSweep, At, Goto
<1>2. /\ page' \in [0..(Pages - 1) -> BOOLEAN]
      /\ block' \in [Slots -> {"object", "copy", "torn", "none"}]
  BY DEF BeginSweep
<1>3. TypeOK'
  BY <1>1, <1>2 DEF TypeOK, Places
<1>4. address = 0 /\ hits = {} /\ candidates = {} /\ layout = Secondary
  BY <1>1 DEF BeforeTheSweep
<1>5. BeforeTheSweep'
  BY <1>1, <1>4 DEF BeforeTheSweep, At
<1>6. HistoryIsTrue' /\ SweepIsExact'
  BY <1>1, <1>4 DEF HistoryIsTrue, SweepIsExact, NoPhantomPair, LiveThroughoutIsFound, At
<1>7. NothingIsPassed'
  <2>1. \A a \in Slots : a >= 0
    BY SlotsAssumption
  <2> QED
    BY <1>1, <1>4, <2>1 DEF NothingIsPassed, At
<1>8. WritesFollowPlace' /\ RecoveryIsTwoRequests' /\ RequestsAreFresh'
  BY <1>1 DEF WritesFollowPlace, RecoveryIsTwoRequests, RequestsAreFresh, At
<1> QED
  BY <1>3, <1>5, <1>6, <1>7, <1>8

(* While the sweep reads, what it does not touch keeps what it says.          *)
LEMMA SweepLeavesAlone ==
    ASSUME Inductive, Sweeping, Sweeping', UNCHANGED <<throughout, paired>>,
           UNCHANGED sweepLeaves
    PROVE  /\ BeforeTheSweep' /\ HistoryIsTrue'
           /\ WritesFollowPlace' /\ RecoveryIsTwoRequests' /\ RequestsAreFresh'
<1> USE DEF Inductive, Sweeping, sweepLeaves
<1>1. pc \in {"query", "read", "retain"} /\ pc' \in {"query", "read", "retain"}
  OBVIOUS
<1>2. BeforeTheSweep'
  BY <1>1 DEF BeforeTheSweep, At
<1>3. HistoryIsTrue'
  <2>1. /\ \A a \in throughout : Live(a)
        /\ \A a \in Slots : Paired(a) => a \in paired
    BY DEF HistoryIsTrue
  <2> QED
    BY <2>1, SteamStands DEF HistoryIsTrue, TypeOK
<1>4. WritesFollowPlace' /\ RecoveryIsTwoRequests' /\ RequestsAreFresh'
  BY <1>1 DEF WritesFollowPlace, RecoveryIsTwoRequests, RequestsAreFresh, At
<1> QED
  BY <1>2, <1>3, <1>4

(* Asking for the next region passes no live block.                          *)
LEMMA QueryStep ==
    ASSUME Inductive, QueryRegion
    PROVE  Inductive'
<1> USE DEF Inductive
<1>1. /\ pc = "query" /\ pc' \in {"query", "read", "retain"}
      /\ UNCHANGED <<hits, candidates, throughout, paired, sweepLeaves>>
  BY DEF QueryRegion, At, Goto
<1>2. /\ address \in Nat /\ address <= End /\ End \in Nat /\ throughout \subseteq Slots
      /\ \A a \in throughout : a \in hits \/ a >= address
      /\ \A a \in throughout : Live(a)
      /\ hits \subseteq paired
  BY <1>1, EndIsNatural
     DEF TypeOK, NothingIsPassed, HistoryIsTrue, SweepIsExact, NoPhantomPair, Sweeping, At
<1>3. \A a \in Slots : a \in Nat /\ a < End /\ a + Deadline + Word <= End
  BY SlotsAssumption, ClassAssumption, MemoryAssumption, EndIsNatural
<1>4. /\ BeforeTheSweep' /\ HistoryIsTrue'
      /\ WritesFollowPlace' /\ RecoveryIsTwoRequests' /\ RequestsAreFresh'
  BY <1>1, SweepLeavesAlone DEF Sweeping
<1> DEFINE Ends == /\ pc' = "retain" /\ cut' = (address < End) /\ buffer' = Blank
                   /\ UNCHANGED <<address, regionEnd>>
           Goes == /\ address < End /\ regionEnd' = RegionEnd(address)
                   /\ IF page[PageOf(address)] /\ PageOf(address) \in Private
                      THEN pc' = "read" /\ UNCHANGED address
                      ELSE pc' = "query" /\ address' = regionEnd'
                   /\ UNCHANGED <<buffer, cut>>
<1>5. CASE Ends
  <2>1. /\ pc' = "retain" /\ buffer' = Blank /\ UNCHANGED <<address, regionEnd>>
        /\ cut' = (address < End)
    BY <1>5
  <2>2. TypeOK'
    <3>1. cut' \in BOOLEAN
      BY <2>1
    <3>2. DOMAIN buffer' = 0..(ScanChunk - 1)
      BY <2>1 DEF Blank
    <3> QED
      BY <1>1, <2>1, <3>1, <3>2 DEF TypeOK, Places, sweepLeaves, steamVars
  <2>3. \A a \in throughout : a \in hits \/ (cut' /\ a >= address')
    <3>1. CASE address < End
      <4>1. cut'
        BY <2>1, <3>1
      <4> QED
        BY <1>2, <2>1, <4>1
    <3>2. CASE ~(address < End)
      BY <1>2, <1>3, <3>2
    <3> QED
      BY <3>1, <3>2
  <2>4. SweepIsExact' /\ NothingIsPassed'
    BY <1>1, <1>2, <2>1, <2>3
       DEF SweepIsExact, NoPhantomPair, LiveThroughoutIsFound, NothingIsPassed, Sweeping, At
  <2> QED
    BY <1>4, <2>2, <2>4
<1>6. CASE Goes
  <2>1. address < End /\ regionEnd' = RegionEnd(address) /\ UNCHANGED <<buffer, cut>>
    BY <1>6
  <2>2. regionEnd' \in Nat /\ address < regionEnd' /\ regionEnd' <= End
    BY <1>2, <2>1, RegionAdvances
  <2>3. \A a \in throughout : a \in hits \/ (a >= address /\
           (a < regionEnd' => /\ page[PageOf(address)] /\ PageOf(address) \in Private
                              /\ a + Deadline + Word <= regionEnd'))
    BY <1>2, <1>3, <2>1, RegionHoldsBlock
  <2>4. CASE page[PageOf(address)] /\ PageOf(address) \in Private
    <3>1. pc' = "read" /\ UNCHANGED address
      BY <1>6, <2>4
    <3>2. TypeOK'
      BY <1>1, <1>2, <2>1, <2>2, <3>1 DEF TypeOK, Places, sweepLeaves, steamVars
    <3>3. SweepIsExact'
      BY <1>1, <1>2, <3>1 DEF SweepIsExact, NoPhantomPair, LiveThroughoutIsFound, Sweeping, At
    <3>4. NothingIsPassed'
      BY <1>1, <2>2, <2>3, <3>1 DEF NothingIsPassed, Whole, At
    <3> QED
      BY <1>4, <3>2, <3>3, <3>4
  <2>5. CASE ~(page[PageOf(address)] /\ PageOf(address) \in Private)
    <3>1. pc' = "query" /\ address' = regionEnd'
      BY <1>6, <2>5
    <3>2. TypeOK'
      BY <1>1, <1>2, <2>1, <2>2, <3>1 DEF TypeOK, Places, sweepLeaves, steamVars
    <3>3. SweepIsExact'
      BY <1>1, <1>2, <3>1 DEF SweepIsExact, NoPhantomPair, LiveThroughoutIsFound, Sweeping, At
    <3>4. \A a \in throughout : a \in hits \/ a >= regionEnd'
      BY <1>2, <1>3, <2>2, <2>3, <2>5
    <3>5. NothingIsPassed'
      BY <1>1, <3>1, <3>4 DEF NothingIsPassed, At
    <3> QED
      BY <1>4, <3>2, <3>3, <3>5
  <2> QED
    BY <2>4, <2>5
<1>7. Ends \/ Goes
  BY DEF QueryRegion, Goto
<1> QED
  BY <1>5, <1>6, <1>7

(* Nor does reading a chunk; and what it finds is there.                      *)
LEMMA ReadStep ==
    ASSUME Inductive, ReadChunk
    PROVE  Inductive'
<1> USE DEF Inductive
<1> DEFINE end == Min({address + ScanChunk, regionEnd})
           n == Transferred(address, end)
           next == NextScanStart(address, end, regionEnd, n)
           found == FindVtablePairs(buffer', n, address)
<1>1. /\ pc = "read"
      /\ UNCHANGED <<regionEnd, candidates, cut, throughout, paired, sweepLeaves>>
      /\ buffer' = [k \in DOMAIN buffer |-> IF k < n THEN Cell(address + k) ELSE buffer[k]]
      /\ hits' = hits \cup found
      /\ IF next = End THEN pc' = "query" /\ address' = regionEnd
         ELSE pc' = "read" /\ address' = next
  BY DEF ReadChunk, At, Goto, Delivered
<1>2. /\ address \in Nat /\ regionEnd \in Nat /\ address < regionEnd /\ regionEnd <= End
      /\ End \in Nat /\ throughout \subseteq Slots /\ hits \subseteq 0..End
      /\ \A a \in throughout : a \in hits \/ (a >= address /\ Whole(a, regionEnd))
      /\ \A a \in throughout : Live(a)
      /\ \A a \in Slots : Paired(a) => a \in paired
      /\ hits \subseteq paired /\ layout = Secondary
  BY <1>1, EndIsNatural
     DEF TypeOK, NothingIsPassed, HistoryIsTrue, SweepIsExact, NoPhantomPair, Sweeping, At,
         BeforeTheSweep
<1>3. Secondary \in Nat /\ ScanChunk \in Nat
  BY ClassAssumption
<1>4. end \in Nat /\ address <= end /\ end <= address + ScanChunk
  BY <1>2, <1>3, MinOfTwo
<1> HIDE DEF end
<1>5. n \in Nat /\ address + n <= end
  BY <1>2, <1>4, TransferFacts
<1> HIDE DEF n
<1>6. next \in Nat /\ (next = End \/ next < regionEnd)
  BY <1>2, <1>3, <1>4, <1>5, NextIsInside
<1>7. \A k \in 0..(n - 1) : buffer'[k] = Cell(address + k)
  BY <1>1, <1>2, <1>3, <1>4, <1>5 DEF TypeOK
<1>8. found \subseteq paired /\ found \subseteq 0..End
  <2>1. \A b \in found : b \in Slots /\ Paired(b)
    BY <1>2, <1>3, <1>5, <1>7, FoundIsPaired
  <2>2. Slots \subseteq 0..End
    BY <1>2, SlotsAssumption, ClassAssumption, MemoryAssumption
  <2> QED
    BY <1>2, <2>1, <2>2
<1>9. \A a \in throughout :
         a \in hits' \/ (Whole(a, regionEnd) /\ a >= (IF next = End THEN regionEnd ELSE next))
  <2> SUFFICES ASSUME NEW a \in throughout, a \notin hits, a \notin found
               PROVE  /\ Whole(a, regionEnd)
                      /\ a >= (IF next = End THEN regionEnd ELSE next)
    BY <1>1
  <2>1. a \in Slots /\ a \in Nat /\ a >= address /\ Whole(a, regionEnd) /\ Live(a)
    BY <1>2, SlotsAssumption
  <2>2. Paired(a)
    BY <2>1 DEF Live, Paired
  <2>3. ~(a + Secondary + Word <= address + n)
    BY <1>2, <1>5, <1>7, <2>1, <2>2, PairIsFound
  <2>4. a >= (IF next = End THEN regionEnd ELSE next)
    BY <1>2, <1>4, <2>1, <2>3, NothingSkipped DEF end, n
  <2> QED
    BY <2>1, <2>4
<1> HIDE DEF next, found
<1>10. pc' \in {"query", "read"} /\ address' \in 0..End
  BY <1>1, <1>2, <1>6
<1>11. TypeOK'
  <2>1. hits' \subseteq 0..End
    BY <1>1, <1>2, <1>8
  <2>2. DOMAIN buffer' = 0..(ScanChunk - 1)
    BY <1>1 DEF TypeOK
  <2> QED
    BY <1>1, <1>10, <2>1, <2>2 DEF TypeOK, Places, sweepLeaves, steamVars
<1>12. SweepIsExact'
  BY <1>1, <1>2, <1>8, <1>10
     DEF SweepIsExact, NoPhantomPair, LiveThroughoutIsFound, Sweeping, At
<1>13. NothingIsPassed'
  BY <1>1, <1>2, <1>6, <1>9, <1>10 DEF NothingIsPassed, Whole, At
<1> QED
  BY <1>1, <1>10, <1>11, <1>12, <1>13, SweepLeavesAlone DEF Sweeping

(* Validating a pair moves it from the one set to the other, or drops it: then  *)
(* it was not live throughout.                                               *)
LEMMA RetainStep ==
    ASSUME Inductive, Retain
    PROVE  Inductive'
<1> USE DEF Inductive
<1> DEFINE a == Min(hits)
<1>1. /\ pc = "retain" /\ pc' = "retain" /\ hits # {}
      /\ candidates' = IF Live(a) THEN candidates \cup {a} ELSE candidates
      /\ hits' = hits \ {a}
      /\ UNCHANGED <<pc, address, regionEnd, buffer, cut, throughout, paired, sweepLeaves>>
  BY DEF Retain, At
<1> HIDE DEF a
<1>2. /\ \A b \in throughout : b \in hits \cup candidates \/ (cut /\ b >= address)
      /\ hits \subseteq paired
      /\ \A b \in throughout : Live(b)
  BY <1>1 DEF SweepIsExact, NoPhantomPair, LiveThroughoutIsFound, HistoryIsTrue, Sweeping, At
<1>3. TypeOK'
  BY <1>1 DEF TypeOK, sweepLeaves, steamVars, Live
<1>4. SweepIsExact'
  BY <1>1, <1>2 DEF SweepIsExact, NoPhantomPair, LiveThroughoutIsFound, Sweeping, At
<1>5. NothingIsPassed'
  BY <1>1 DEF NothingIsPassed, At
<1> QED
  BY <1>1, <1>3, <1>4, <1>5, SweepLeavesAlone DEF Sweeping

(* Once the sweep is over, a target is a slot, and what it says of the requests *)
(* is all there is to say.                                                   *)
LEMMA AfterTheSweep ==
    ASSUME TypeOK', pc' \notin {"list", "snapshot", "resolve", "sweep", "query", "read", "retain"},
           pc' # "failed" => layout' = Secondary,
           WritesFollowPlace', RecoveryIsTwoRequests', RequestsAreFresh'
    PROVE  Inductive'
BY DEF Inductive, BeforeTheSweep, HistoryIsTrue, SweepIsExact, NoPhantomPair,
       LiveThroughoutIsFound, NothingIsPassed, Sweeping, At

(* The choice writes nothing, and a request begins with what is seen of its     *)
(* target.                                                                   *)
LEMMA ChooseStep ==
    ASSUME Inductive, Choose
    PROVE  Inductive'
<1> USE DEF Inductive
<1>1. /\ pc = "retain"
      /\ UNCHANGED <<mode, tries, image, layout, regionEnd, buffer, hits, pass, writes,
                     steamVars, candidates>>
      /\ address' = 0 /\ cut' = FALSE /\ throughout' = {} /\ paired' = {} /\ moved' = {}
  BY DEF Choose, At
<1>2. writes = 0 /\ pass = 1 /\ layout = Secondary
  BY <1>1 DEF WritesFollowPlace, BeforeTheSweep
<1>3. \/ pc' \in {"failed", "watch"} /\ UNCHANGED <<target, fresh>>
      \/ /\ target' \in Slots
         /\ \/ mode = "check" /\ pc' = "done" /\ UNCHANGED fresh
            \/ mode # "check" /\ pc' = "validate" /\ fresh' = Live(target')
  BY DEF Choose, Goto
<1>4. fresh' \in BOOLEAN
  BY <1>3 DEF TypeOK, Live
<1>5. TypeOK'
  <2>1. cut' \in BOOLEAN
    BY <1>1, Zenon
  <2>2. address' \in 0..End
    BY <1>1, EndIsNatural
  <2> QED
    BY <1>1, <1>3, <1>4, <2>1, <2>2 DEF TypeOK, Places, steamVars
<1>6. RequestsAreFresh'
  <2>1. pc' = "validate" => fresh' = Live(target')
    BY <1>3
  <2>2. Live(target') => Live(target)'
    BY <1>1 DEF steamVars, Live, Committed
  <2>3. Live(target)' => Live(target')
    BY <1>1 DEF steamVars, Live, Committed
  <2> QED
    BY <1>3, <2>1, <2>2, <2>3 DEF RequestsAreFresh, At
<1>7. WritesFollowPlace' /\ RecoveryIsTwoRequests'
  BY <1>1, <1>2, <1>3 DEF WritesFollowPlace, RecoveryIsTwoRequests, TypeOK, At
<1> QED
  BY <1>1, <1>2, <1>3, <1>5, <1>6, <1>7, AfterTheSweep

(* So does the election among look-alikes.                                    *)
LEMMA ElectSteps ==
    ASSUME Inductive, Elect
    PROVE  Inductive'
<1> USE DEF Inductive
<1>1. pc = "watch" /\ UNCHANGED electLeaves
  BY DEF Elect, Sample, WindowCloses, At
<1>2. writes = 0 /\ pass = 1 /\ layout = Secondary
  BY <1>1 DEF WritesFollowPlace, BeforeTheSweep
<1>3. \/ pc' = "failed" /\ UNCHANGED <<target, fresh, moved>>
      \/ /\ target' \in Slots /\ moved' = {}
         /\ \/ mode = "check" /\ pc' = "done" /\ UNCHANGED fresh
            \/ mode # "check" /\ pc' = "validate" /\ fresh' = Live(target')
  <2>1. CASE WindowCloses
    BY <2>1 DEF WindowCloses, Goto
  <2>2. CASE Sample /\ (\E a \in candidates : ~FieldsReadable(a))
    BY <2>2 DEF Sample, Goto
  <2>3. CASE Sample /\ ~(\E a \in candidates : ~FieldsReadable(a))
    <3> DEFINE ours == moved \cap candidates
    <3>1. /\ Cardinality(ours) = 1
          /\ target' = CHOOSE a \in ours : TRUE
          /\ moved' = {}
          /\ IF mode = "check" THEN pc' = "done" /\ UNCHANGED fresh
             ELSE pc' = "validate" /\ fresh' = Live(target')
      BY <2>3 DEF Sample, Goto
    <3>2. ours # {}
      BY <3>1, FS_EmptySet
    <3>3. ours \subseteq Slots
      BY DEF TypeOK
    <3>4. target' \in Slots
      BY <3>1, <3>2, <3>3
    <3> QED
      BY <3>1, <3>4
  <2> QED
    BY <2>1, <2>2, <2>3 DEF Elect
<1>4. fresh' \in BOOLEAN
  BY <1>3 DEF TypeOK, Live
<1>5. TypeOK'
  BY <1>1, <1>3, <1>4 DEF TypeOK, Places, steamVars, electLeaves
<1>6. RequestsAreFresh'
  <2>1. pc' = "validate" => fresh' = Live(target')
    BY <1>3
  <2>2. Live(target') <=> Live(target)'
    BY <1>1 DEF steamVars, electLeaves, Live, Committed
  <2> QED
    BY <1>3, <2>1, <2>2 DEF RequestsAreFresh, At
<1>7. WritesFollowPlace' /\ RecoveryIsTwoRequests'
  BY <1>1, <1>2, <1>3 DEF WritesFollowPlace, RecoveryIsTwoRequests, TypeOK, electLeaves, At
<1> QED
  BY <1>1, <1>2, <1>3, <1>5, <1>6, <1>7, AfterTheSweep DEF electLeaves

(* A request is written by a host that has validated its target for this pass. *)
LEMMA RequestSteps ==
    ASSUME Inductive, Request
    PROVE  Inductive'
<1> USE DEF Inductive
<1>1. UNCHANGED requestLeaves /\ pc \in {"validate", "fields", "write", "sleep"}
  BY DEF Request, Validate, ReadFields, WriteDeadline, Wake, At
<1>2. /\ mode = "rescan" /\ layout = Secondary /\ target \in Slots \cup {Nowhere}
      /\ pass \in 1..2 /\ fresh \in BOOLEAN
      /\ writes = IF pc = "sleep" THEN pass ELSE pass - 1
  BY <1>1 DEF WritesFollowPlace, BeforeTheSweep, TypeOK, At
<1>3. Live(target)' <=> Live(target)
  BY <1>1, SteamStands DEF requestLeaves, steamVars, Live, Committed
<1>4. /\ pc' \in {"validate", "fields", "write", "sleep", "done", "failed"}
      /\ pass' \in 1..2 /\ fresh' \in BOOLEAN
      /\ pc' = "validate" => writes' = pass' - 1 /\ (Live(target)' => fresh')
      /\ pc' \in {"fields", "write"} => writes' = pass' - 1 /\ fresh'
      /\ pc' = "sleep" => writes' = pass'
      /\ pc' = "done" => writes' = 2
      /\ pc' = "failed" => writes' < 2
      /\ writes' \in 0..2
  <2>1. CASE Validate
    <3>1. /\ pc = "validate" /\ UNCHANGED <<pass, writes, fresh>>
          /\ pc' = IF Live(target) THEN "fields" ELSE "failed"
      BY <2>1 DEF Validate, Revalidated, At, Goto
    <3> QED
      BY <1>2, <1>3, <3>1 DEF RequestsAreFresh, At
  <2>2. CASE ReadFields
    <3>1. /\ pc = "fields" /\ UNCHANGED <<pass, writes, fresh>>
          /\ pc' \in {"write", "failed"}
      BY <2>2 DEF ReadFields, At, Goto
    <3> QED
      BY <1>2, <3>1 DEF RequestsAreFresh, At
  <2>3. CASE WriteDeadline
    <3>1. /\ pc = "write" /\ UNCHANGED <<pass, fresh>>
          /\ \/ writes' = writes + 1 /\ pc' = "sleep"
             \/ writes' = writes /\ pc' = "failed"
      BY <2>3 DEF WriteDeadline, At, Goto
    <3> QED
      BY <1>2, <3>1
  <2>4. CASE Wake
    <3>1. CASE pass = 2
      <4>1. pc = "sleep" /\ pc' = "done" /\ UNCHANGED <<pass, fresh, writes>>
        BY <2>4, <3>1 DEF Wake, At, Goto
      <4> QED
        BY <1>2, <3>1, <4>1
    <3>2. CASE pass # 2
      <4>1. /\ pc = "sleep" /\ pc' = "validate" /\ pass' = 2 /\ fresh' = Live(target)
            /\ UNCHANGED writes
        BY <2>4, <3>2 DEF Wake, At, Goto
      <4>2. fresh' \in BOOLEAN
        BY <4>1 DEF Live
      <4> QED
        BY <1>2, <1>3, <3>2, <4>1, <4>2
    <3> QED
      BY <3>1, <3>2
  <2> QED
    BY <2>1, <2>2, <2>3, <2>4 DEF Request
<1>5. TypeOK'
  BY <1>1, <1>4 DEF TypeOK, Places, steamVars, requestLeaves
<1>6. WritesFollowPlace' /\ RecoveryIsTwoRequests'
  BY <1>1, <1>2, <1>4 DEF WritesFollowPlace, RecoveryIsTwoRequests, requestLeaves, At
<1>7. RequestsAreFresh'
  BY <1>4 DEF RequestsAreFresh, At
<1> QED
  BY <1>1, <1>2, <1>4, <1>5, <1>6, <1>7, AfterTheSweep DEF requestLeaves

LEMMA StepInductive ==
    ASSUME Inductive, [Next]_vars
    PROVE  Inductive'
<1>1. CASE Host
  BY <1>1, ResolvingSteps, BeginSweepStep, QueryStep, ReadStep, RetainStep, ChooseStep,
     ElectSteps, RequestSteps DEF Host, Sweep
<1>2. CASE Steam
  BY <1>2, SteamSteps
<1>3. CASE UNCHANGED vars
  <2>1. \A a : (Live(a)' <=> Live(a)) /\ (a \in Slots => (Paired(a)' <=> Paired(a)))
    BY <1>3, SteamStands DEF vars
  <2>2. TypeOK' /\ BeforeTheSweep' /\ WritesFollowPlace' /\ RecoveryIsTwoRequests'
    BY <1>3 DEF Inductive, TypeOK, BeforeTheSweep, WritesFollowPlace, RecoveryIsTwoRequests,
                vars, hostVars, steamVars, historyVars, At
  <2>3. HistoryIsTrue'
    BY <1>3, <2>1 DEF Inductive, HistoryIsTrue, TypeOK, Sweeping, vars, hostVars, historyVars
  <2>4. SweepIsExact' /\ NothingIsPassed'
    BY <1>3 DEF Inductive, SweepIsExact, NoPhantomPair, LiveThroughoutIsFound,
                NothingIsPassed, Whole, Sweeping, At, vars, hostVars, historyVars
  <2>5. RequestsAreFresh'
    <3>1. Live(target)' <=> Live(target)
      BY <1>3 DEF vars, hostVars, steamVars, Live, Committed
    <3> QED
      BY <1>3, <3>1 DEF Inductive, RequestsAreFresh, At, vars, hostVars, historyVars
  <2> QED
    BY <2>2, <2>3, <2>4, <2>5 DEF Inductive
<1> QED
  BY <1>1, <1>2, <1>3 DEF Next

LEMMA InductiveHolds == Spec => []Inductive
BY InitInductive, StepInductive, PTL DEF Spec

-----------------------------------------------------------------------------
(* What a rescan guarantees.                                                 *)

(* Every variable has its type, and the sweep reads inside the address space:   *)
(* next_scan_start never leaves a region, whatever the memory turns into.      *)
THEOREM TypeCorrect == Spec => []TypeOK
BY InductiveHolds, PTL DEF Inductive

(* resolve_recovery_layout: what the host goes on with is proven by its snapshot. *)
(* The class name stands there once, one vtable of it is the primary, and one    *)
(* method has the scheduler's semantics.                                       *)
THEOREM LayoutsAreProven == Spec => []LayoutIsProven
<1>1. Inductive => LayoutIsProven
  <2> SUFFICES ASSUME Inductive, At("sweep") PROVE LayoutIsProven
    BY DEF LayoutIsProven
  <2>1. IsImage(image) /\ Resolves(image)
    BY DEF Inductive, BeforeTheSweep
  <2> QED
    BY <2>1, ResolvedIsProven DEF LayoutIsProven, PrimaryPlaces
<1> QED
  BY <1>1, InductiveHolds, PTL

(* find_live_hid_threads: of chunks of any length, over regions cut anywhere,   *)
(* the sweep finds every object that passes for live throughout and lies in    *)
(* front of the region a query failed for, if one did, and no pair that never  *)
(* stood there.                                                              *)
THEOREM SweepsAreExact == Spec => []SweepIsExact
BY InductiveHolds, PTL DEF Inductive

(* request_internal_scan: a rescan that succeeds has written its two requests,   *)
(* one that fails at most one, and a dry run none.                            *)
THEOREM RescanWritesTwoRequests == Spec => []RecoveryIsTwoRequests
BY InductiveHolds, PTL DEF Inductive

(* request_internal_scan: the address written to passed for the object at some   *)
(* time since the very request was begun.                                     *)
THEOREM WritesAreFresh == Spec => WriteIsFresh
<1>1. ASSUME Inductive, [Next]_vars PROVE [writes' # writes => fresh]_vars
  <2> SUFFICES ASSUME Next, writes' # writes PROVE fresh
    BY <1>1
  <2>1. At("write")
    <3>1. CASE Resolving
      BY <3>1 DEF Resolving, ListChanges, Unavailable, Locate, Snapshot, ResolveLayout,
                  resolveLeaves
    <3>2. CASE Sweep
      BY <3>2 DEF Sweep, BeginSweep, QueryRegion, ReadChunk, Retain, Choose, sweepLeaves
    <3>3. CASE Elect
      BY <3>3 DEF Elect, Sample, WindowCloses, electLeaves
    <3>4. CASE Request
      BY <3>4 DEF Request, Validate, ReadFields, WriteDeadline, Wake
    <3>5. CASE Steam
      BY <3>5 DEF Steam, BuildThread, DestroyThread, ReuseBlock, Reschedule, Decommit,
                  Commit, Observed, hostVars
    <3> QED
      BY <3>1, <3>2, <3>3, <3>4, <3>5 DEF Next, Host
  <2> QED
    BY <1>1, <2>1 DEF Inductive, RequestsAreFresh, At
<1> QED
  BY <1>1, InductiveHolds, PTL DEF Spec, WriteIsFresh

(* next_scan_start, find_live_hid_threads: no read leaves the sweep where it was, *)
(* also one that delivers nothing, so that it ends after as many steps as there  *)
(* are addresses, twice at most.                                              *)
THEOREM SweepsAdvance == Spec => SweepAdvances
<1>1. ASSUME Inductive, QueryRegion
      PROVE  address' > address \/ pc' \in {"read", "retain"}
  <2>1. address \in Nat /\ End \in Nat
    BY <1>1, EndIsNatural DEF Inductive, TypeOK
  <2>2. CASE pc' = "retain"
    BY <2>2
  <2>3. CASE pc' # "retain"
    <3>1. address < End /\ (pc' = "read" \/ address' = RegionEnd(address))
      BY <1>1, <2>3 DEF QueryRegion, Goto
    <3>2. RegionEnd(address) \in Nat /\ address < RegionEnd(address)
      BY <2>1, <3>1, RegionAdvances
    <3> QED
      BY <2>1, <3>1, <3>2
  <2> QED
    BY <2>2, <2>3
<1>2. ASSUME Inductive, ReadChunk
      PROVE  address' > address
  <2> DEFINE end == Min({address + ScanChunk, regionEnd})
             n == Transferred(address, end)
             next == NextScanStart(address, end, regionEnd, n)
  <2>1. /\ address \in Nat /\ regionEnd \in Nat /\ address < regionEnd /\ regionEnd <= End
        /\ layout \in Nat /\ ScanChunk \in Nat
    BY <1>2, EndIsNatural, ClassAssumption DEF Inductive, TypeOK, NothingIsPassed, ReadChunk
  <2>2. end \in Nat /\ address <= end
    BY <2>1, MinOfTwo
  <2>3. address' = IF next = End THEN regionEnd ELSE next
    BY <1>2 DEF ReadChunk
  <2> HIDE DEF end
  <2>4. n \in Nat
    BY <2>1, <2>2, TransferFacts
  <2> HIDE DEF n
  <2>5. address < next
    BY <2>1, <2>2, <2>4, NextIsAhead
  <2> HIDE DEF next
  <2> QED
    BY <2>1, <2>3, <2>5
<1> QED
  BY <1>1, <1>2, InductiveHolds, PTL DEF Spec, SweepAdvances

================================================================================
