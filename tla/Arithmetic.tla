----------------------------- MODULE Arithmetic -----------------------------
(***************************************************************************)
(* Facts about numbers that several proofs need: induction, stated over    *)
(* sets so that the provers can instantiate it, and functions defined by   *)
(* recursion.                                                              *)
(***************************************************************************)
EXTENDS Powers, WellFoundedInduction, TLAPS

\* Induction, with the set of the numbers that have the property.
LEMMA SetInduction ==
  ASSUME NEW S, 0 \in S, \A n \in Nat : n \in S => n + 1 \in S
  PROVE  Nat \subseteq S
<1> DEFINE T == Nat \ S
           R == OpToRel(<, Nat)
<1> SUFFICES ASSUME T # {} PROVE FALSE
  OBVIOUS
<1>1. IsWellFoundedOn(R, Nat)
  BY NatLessThanWellFounded
<1>2. PICK x \in T : \A y \in T : ~ (<<y, x>> \in R)
  <2>1. T \subseteq Nat
    OBVIOUS
  <2> HIDE DEF R, T
  <2> QED
    BY <1>1, <2>1, WFMin
<1>3. x - 1 \in T /\ x - 1 < x
  OBVIOUS
<1>4. <<x - 1, x>> \in R
  BY <1>3 DEF OpToRel
<1> QED
  BY <1>2, <1>3, <1>4

\* The least and the greatest of a set of numbers.
LEMMA LeastExists ==
  ASSUME NEW S, S \subseteq Nat, S # {}
  PROVE  \E m \in S : \A y \in S : m <= y
<1> DEFINE T == {n \in Nat : \A y \in S : n <= y}
<1> SUFFICES ASSUME \A m \in S : \E y \in S : ~ (m <= y) PROVE FALSE
  OBVIOUS
<1>1. 0 \in T
  OBVIOUS
<1>2. ASSUME NEW n \in Nat, n \in T PROVE n + 1 \in T
  <2>1. n \notin S
    BY <1>2
  <2> QED
    BY <1>2, <2>1
<1>3. Nat \subseteq T
  <2> HIDE DEF T
  <2> QED
    BY <1>1, <1>2, SetInduction
<1>4. PICK s \in S : s \in Nat
  OBVIOUS
<1>5. s + 1 \in T
  BY <1>3, <1>4
<1> QED
  BY <1>4, <1>5

LEMMA GreatestExists ==
  ASSUME NEW n \in Nat, NEW S, S \subseteq 0 .. n, S # {}
  PROVE  \E m \in S : \A y \in S : m >= y
<1> DEFINE T == {n - y : y \in S}
<1>1. T \subseteq Nat /\ T # {}
  <2>1. ASSUME NEW y \in S PROVE n - y \in Nat
    BY SMT
  <2>2. PICK y : y \in S
    OBVIOUS
  <2>3. n - y \in T
    BY <2>2
  <2> QED
    BY <2>1, <2>3
<1>2. PICK k \in T : \A y \in T : k <= y
  <2> HIDE DEF T
  <2> QED
    BY <1>1, LeastExists
<1>3. PICK m \in S : k = n - m
  BY <1>2
<1>4. ASSUME NEW y \in S PROVE m >= y
  <2>1. n - y \in T
    OBVIOUS
  <2>2. n - m <= n - y
    BY <1>2, <1>3, <2>1
  <2> QED
    BY <2>2
<1> QED
  BY <1>4

\* Primitive recursion: there is one function that begins with a and goes on
\* by step.
IsRecursive(f, a, step, n) ==
  f[0] = a /\ \A i \in 0 .. n - 1 : f[i + 1] = step[<<i, f[i]>>]

LEMMA RecursionUnique ==
  ASSUME NEW a, NEW step, NEW n \in Nat, NEW m \in Nat, NEW f, NEW g,
         IsRecursive(f, a, step, n), IsRecursive(g, a, step, m)
  PROVE  \A i \in 0 .. n : i <= m => f[i] = g[i]
<1> DEFINE S == {i \in Nat : i <= n /\ i <= m => f[i] = g[i]}
<1>1. 0 \in S
  BY DEF IsRecursive
<1>2. ASSUME NEW i \in Nat, i \in S PROVE i + 1 \in S
  <2> SUFFICES ASSUME i + 1 <= n, i + 1 <= m PROVE f[i + 1] = g[i + 1]
    OBVIOUS
  <2>1. f[i] = g[i] /\ i \in 0 .. n - 1 /\ i \in 0 .. m - 1
    BY <1>2
  <2> QED
    BY <2>1 DEF IsRecursive
<1>3. Nat \subseteq S
  <2> HIDE DEF S
  <2> QED
    BY <1>1, <1>2, SetInduction
<1> QED
  BY <1>3

LEMMA RecursionExists ==
  ASSUME NEW V, NEW a \in V, NEW step \in [Nat \X V -> V], NEW n \in Nat
  PROVE  \E f \in [0 .. n -> V] : IsRecursive(f, a, step, n)
<1> DEFINE S == {i \in Nat : \E f \in [0 .. i -> V] : IsRecursive(f, a, step, i)}
<1>1. 0 \in S
  <2>1. [i \in 0 .. 0 |-> a] \in [0 .. 0 -> V]
    OBVIOUS
  <2>2. IsRecursive([i \in 0 .. 0 |-> a], a, step, 0)
    BY DEF IsRecursive
  <2> QED
    BY <2>1, <2>2
<1>2. ASSUME NEW i \in Nat, i \in S PROVE i + 1 \in S
  <2>1. PICK f \in [0 .. i -> V] : IsRecursive(f, a, step, i)
    BY <1>2
  <2> DEFINE g == [j \in 0 .. i + 1 |-> IF j <= i THEN f[j] ELSE step[<<i, f[i]>>]]
  <2>2. g \in [0 .. i + 1 -> V]
    <3>1. i \in 0 .. i /\ f[i] \in V
      BY <2>1
    <3>2. step[<<i, f[i]>>] \in V
      BY <3>1
    <3> QED
      BY <2>1, <3>2
  <2>3. IsRecursive(g, a, step, i + 1)
    <3>1. g[0] = a
      BY <2>1 DEF IsRecursive
    <3>2. ASSUME NEW j \in 0 .. i PROVE g[j + 1] = step[<<j, g[j]>>]
      <4>1. CASE j = i
        BY <4>1
      <4>2. CASE j # i
        BY <2>1, <4>2 DEF IsRecursive
      <4> QED
        BY <4>1, <4>2
    <3>3. i + 1 - 1 = i
      OBVIOUS
    <3> HIDE DEF g
    <3> QED
      BY <3>1, <3>2, <3>3 DEF IsRecursive
  <2> HIDE DEF g
  <2> QED
    BY <2>2, <2>3
<1>3. Nat \subseteq S
  <2> HIDE DEF S
  <2> QED
    BY <1>1, <1>2, SetInduction
<1> QED
  BY <1>3

\* As TLA+ has it: a function on the naturals, or on those up to a bound, that
\* is chosen to fulfil its recursive definition does so.
PrimitiveRecursive(f, V, a, step) ==
  f \in [Nat -> V] /\ f[0] = a /\ \A n \in Nat : f[n + 1] = step[<<n, f[n]>>]

LEMMA RecursiveOnNat ==
  ASSUME NEW V, NEW a \in V, NEW step \in [Nat \X V -> V]
  PROVE  \E f : PrimitiveRecursive(f, V, a, step)
<1> DEFINE F(n) == CHOOSE f : f \in [0 .. n -> V] /\ IsRecursive(f, a, step, n)
           g == [n \in Nat |-> F(n)[n]]
<1>1. ASSUME NEW n \in Nat PROVE F(n) \in [0 .. n -> V] /\ IsRecursive(F(n), a, step, n)
  BY RecursionExists, Zenon
<1> HIDE DEF F
<1>2. g \in [Nat -> V]
  <2>1. ASSUME NEW n \in Nat PROVE F(n)[n] \in V
    BY <1>1
  <2> QED
    BY <2>1
<1>3. g[0] = a
  BY <1>1 DEF IsRecursive
<1>4. ASSUME NEW n \in Nat PROVE g[n + 1] = step[<<n, g[n]>>]
  <2>1. F(n + 1)[n + 1] = step[<<n, F(n + 1)[n]>>]
    <3>1. n + 1 \in Nat /\ n \in 0 .. n + 1 - 1
      OBVIOUS
    <3>2. IsRecursive(F(n + 1), a, step, n + 1)
      BY <1>1, <3>1
    <3> QED
      BY <3>1, <3>2 DEF IsRecursive
  <2>2. F(n + 1)[n] = F(n)[n]
    <3>1. n + 1 \in Nat /\ n \in 0 .. n /\ n <= n + 1
      OBVIOUS
    <3>2. IsRecursive(F(n), a, step, n) /\ IsRecursive(F(n + 1), a, step, n + 1)
      BY <1>1, <3>1
    <3> QED
      BY <3>1, <3>2, RecursionUnique
  <2> QED
    BY <2>1, <2>2
<1> HIDE DEF g
<1> QED
  BY <1>2, <1>3, <1>4 DEF PrimitiveRecursive

\* The same for a function up to a bound, in the form in which it is defined.
RecursiveUpTo(f, n, a, step) ==
  f = [i \in 0 .. n |-> IF i = 0 THEN a ELSE step[<<i - 1, f[i - 1]>>]]

LEMMA FiniteRecursion ==
  ASSUME NEW V, NEW a \in V, NEW step \in [Nat \X V -> V], NEW n \in Nat
  PROVE  \E f \in [0 .. n -> V] : RecursiveUpTo(f, n, a, step)
<1>1. PICK f \in [0 .. n -> V] : IsRecursive(f, a, step, n)
  BY RecursionExists, Zenon
<1>2. ASSUME NEW i \in 0 .. n, i # 0 PROVE f[i] = step[<<i - 1, f[i - 1]>>]
  <2>1. i - 1 \in 0 .. n - 1 /\ i - 1 + 1 = i
    BY <1>2
  <2> QED
    BY <1>1, <2>1 DEF IsRecursive
<1>3. f[0] = a
  BY <1>1 DEF IsRecursive
<1>4. RecursiveUpTo(f, n, a, step)
  BY <1>2, <1>3 DEF RecursiveUpTo
<1> QED
  BY <1>4

LEMMA Pow2Def == /\ Pow2 \in [Nat -> Nat]
                 /\ Pow2[0] = 1
                 /\ \A n \in Nat : Pow2[n + 1] = 2 * Pow2[n]
<1> DEFINE D(f) == [n \in Nat |-> IF n = 0 THEN 1 ELSE 2 * f[n - 1]]
<1>1. PICK g \in [Nat -> Nat] : g[0] = 1 /\ \A n \in Nat : g[n + 1] = 2 * g[n]
  <2>1. PICK next \in [Nat \X Nat -> Nat] : \A n, v \in Nat : next[<<n, v>>] = 2 * v
    <3>1. [p \in Nat \X Nat |-> 2 * p[2]] \in [Nat \X Nat -> Nat]
      OBVIOUS
    <3> QED
      BY <3>1
  <2>2. 1 \in Nat
    OBVIOUS
  <2>3. PICK g : PrimitiveRecursive(g, Nat, 1, next)
    BY <2>1, <2>2, RecursiveOnNat, Zenon
  <2> QED
    BY <2>1, <2>3 DEF PrimitiveRecursive
<1>2. g = D(g)
  <2>1. ASSUME NEW n \in Nat, n # 0 PROVE g[n] = 2 * g[n - 1]
    <3>1. n - 1 \in Nat /\ n - 1 + 1 = n
      BY <2>1
    <3> QED
      BY <1>1, <3>1
  <2> QED
    BY <1>1, <2>1
<1>3. Pow2 = D(Pow2)
  <2>1. Pow2 = CHOOSE f : f = D(f)
    BY DEF Pow2
  <2> HIDE DEF D
  <2> QED
    BY <1>2, <2>1, Zenon
<1>4. \A n \in Nat : Pow2[n] = IF n = 0 THEN 1 ELSE 2 * Pow2[n - 1]
  <2> HIDE DEF D
  <2>1. \A n \in Nat : D(Pow2)[n] = IF n = 0 THEN 1 ELSE 2 * Pow2[n - 1]
    BY DEF D
  <2> QED
    BY <1>3, <2>1, Zenon
<1>5. \A n \in Nat : Pow2[n + 1] = 2 * Pow2[n]
  BY <1>4
<1>6. \A n \in Nat : Pow2[n] \in Nat
  <2> DEFINE S == {n \in Nat : Pow2[n] \in Nat}
  <2>1. 0 \in S
    BY <1>4
  <2>2. \A n \in Nat : n \in S => n + 1 \in S
    BY <1>5
  <2>3. Nat \subseteq S
    <3> HIDE DEF S
    <3> QED
      BY <2>1, <2>2, SetInduction
  <2> QED
    BY <2>3
<1> QED
  <2>1. Pow2 = [n \in Nat |-> Pow2[n]]
    BY <1>3
  <2> QED
    BY <1>4, <1>5, <1>6, <2>1

LEMMA Pow2Positive == \A n \in Nat : Pow2[n] \in Nat \ {0}
<1> DEFINE S == {n \in Nat : Pow2[n] \in Nat \ {0}}
<1>1. 0 \in S
  BY Pow2Def
<1>2. \A n \in Nat : n \in S => n + 1 \in S
  BY Pow2Def
<1>3. Nat \subseteq S
  <2> HIDE DEF S
  <2> QED
    BY <1>1, <1>2, SetInduction
<1> QED
  BY <1>3
-----------------------------------------------------------------------------
LEMMA DivUnique ==
  ASSUME NEW n \in Nat, NEW q \in Nat, NEW r \in Nat, r < n
  PROVE  (q * n + r) \div n = q /\ (q * n + r) % n = r
BY SMTT(30)

LEMMA DivPositive ==
  ASSUME NEW n \in Nat, NEW a \in Nat, n > 0, a >= n
  PROVE  a \div n \in Nat \ {0}
BY SMTT(30)

LEMMA QuotientRemainder ==
  ASSUME NEW n \in Nat, NEW a \in Nat, n > 0
  PROVE  \E q \in Nat : \E r \in 0 .. n - 1 : a = q * n + r
<1>1. a \div n \in Nat
  BY SMTT(30)
<1>2. n * (a \div n) <= a /\ a < n * (a \div n) + n
  BY SMTT(30)
<1>3. PICK q \in Nat : q = a \div n
  BY <1>1
<1>4. PICK m \in Nat : m = q * n /\ m = n * q
  OBVIOUS
<1>5. a - m \in 0 .. n - 1 /\ a = m + (a - m)
  BY <1>2, <1>3, <1>4
<1> QED
  BY <1>4, <1>5

LEMMA NextMultiple ==
  ASSUME NEW n \in Nat, NEW q \in Nat
  PROVE  (q + 1) * n = q * n + n
BY SMTT(30)

LEMMA ModNext ==
  ASSUME NEW n \in Nat, NEW a \in Nat, n > 0
  PROVE  ((a % n) + 1) % n = (a + 1) % n
<1>1. PICK q \in Nat, r \in 0 .. n - 1 : a = q * n + r
  BY QuotientRemainder
<1>2. a % n = r
  BY <1>1, DivUnique
<1>3. CASE r + 1 < n
  <2>1. a + 1 = q * n + (r + 1) /\ r + 1 = 0 * n + (r + 1)
    BY <1>1
  <2>2. (q * n + (r + 1)) % n = r + 1 /\ (0 * n + (r + 1)) % n = r + 1
    BY <1>3, DivUnique
  <2> QED
    BY <1>2, <2>1, <2>2
<1>4. CASE r + 1 = n
  <2>1. q * n \in Nat
    OBVIOUS
  <2>2. a + 1 = (q + 1) * n + 0 /\ n = 1 * n + 0
    BY <1>1, <1>4, <2>1, NextMultiple
  <2>3. ((q + 1) * n + 0) % n = 0 /\ (1 * n + 0) % n = 0
    BY DivUnique
  <2> QED
    BY <1>2, <1>4, <2>2, <2>3
<1> QED
  BY <1>3, <1>4

\* Rows of a width, one after the other: within the area, and each place once.
LEMMA PlaceInArea ==
  ASSUME NEW w \in Nat, NEW h \in Nat, NEW x \in 0 .. w - 1, NEW y \in 0 .. h - 1
  PROVE  y * w + x \in 0 .. w * h - 1
BY SMTT(30)

LEMMA PlaceOnce ==
  ASSUME NEW w \in Nat, NEW x \in 0 .. w - 1, NEW y \in Nat,
         NEW u \in 0 .. w - 1, NEW v \in Nat, y * w + x = v * w + u
  PROVE  x = u /\ y = v
BY SMTT(30)
-----------------------------------------------------------------------------
(***************************************************************************)
(* Numbers in a base: digits are split off and put behind by division and  *)
(* multiplication.                                                         *)
(***************************************************************************)
\* Products and sums of products: the provers do not find these on their own
\* among other facts.
LEMMA TimesTimes ==
  \A a, b, c \in Nat : (a * b) * c = a * (b * c) /\ a * b = b * a /\ a * b \in Nat
BY SMTT(30)

LEMMA TimesSum ==
  \A a, b, c \in Nat : (a + b) * c = a * c + b * c
BY SMTT(30)

\* 2^(m + n).
LEMMA Pow2Sum == \A m, n \in Nat : Pow2[m + n] = Pow2[m] * Pow2[n]
<1> SUFFICES ASSUME NEW m \in Nat PROVE \A n \in Nat : Pow2[m + n] = Pow2[m] * Pow2[n]
  OBVIOUS
<1> DEFINE S == {n \in Nat : Pow2[m + n] = Pow2[m] * Pow2[n]}
<1>0. \A n \in Nat : Pow2[n] \in Nat
  BY Pow2Def
<1>1. 0 \in S
  BY <1>0, Pow2Def
<1>2. ASSUME NEW n \in Nat, n \in S PROVE n + 1 \in S
  <2>1. Pow2[(m + n) + 1] = 2 * Pow2[m + n] /\ Pow2[n + 1] = 2 * Pow2[n]
    BY Pow2Def
  <2>2. Pow2[m + n] = Pow2[m] * Pow2[n]
    BY <1>2
  <2>3. 2 * (Pow2[m] * Pow2[n]) = Pow2[m] * (2 * Pow2[n])
    <3> DEFINE a == Pow2[m]
               b == Pow2[n]
    <3>1. a \in Nat /\ b \in Nat
      BY <1>0
    <3> HIDE DEF a, b
    <3>2. 2 * (a * b) = a * (2 * b)
      BY <3>1, SMTT(30)
    <3> QED
      BY <3>2 DEF a, b
  <2>4. m + (n + 1) = (m + n) + 1
    OBVIOUS
  <2> QED
    BY <2>1, <2>2, <2>3, <2>4
<1>3. Nat \subseteq S
  <2> HIDE DEF S
  <2> QED
    BY <1>1, <1>2, SetInduction
<1> QED
  BY <1>3

\* Division by a product, digit by digit.
LEMMA DivScaled ==
  ASSUME NEW M \in Nat, NEW Q \in Nat, NEW a \in Nat, NEW b \in Nat, b < M, 0 < Q
  PROVE  /\ (a * M + b) \div (Q * M) = a \div Q
         /\ (a * M + b) % (Q * M) = (a % Q) * M + b
<1>1. PICK q \in Nat, r \in 0 .. Q - 1 : a = q * Q + r
  BY QuotientRemainder
<1>2. a \div Q = q /\ a % Q = r
  BY <1>1, DivUnique
<1>3. a * M + b = q * (Q * M) + (r * M + b)
  <2>1. (q * Q + r) * M = (q * Q) * M + r * M
    BY TimesSum, TimesTimes
  <2>2. (q * Q) * M = q * (Q * M)
    BY TimesTimes
  <2>3. r * M \in Nat /\ q * (Q * M) \in Nat
    BY TimesTimes
  <2> QED
    BY <1>1, <2>1, <2>2, <2>3
<1>4. r * M + b < Q * M
  <2>1. (r + 1) * M = r * M + M
    BY NextMultiple
  <2>2. (r + 1) * M <= Q * M
    BY SMTT(30)
  <2>3. r * M \in Nat /\ Q * M \in Nat
    BY TimesTimes
  <2> QED
    BY <2>1, <2>2, <2>3
<1> DEFINE n == Q * M
           s == r * M + b
<1>5. n \in Nat /\ s \in Nat /\ s < n
  BY <1>4, TimesTimes
<1> HIDE DEF n, s
<1>6. (q * n + s) \div n = q /\ (q * n + s) % n = s
  BY <1>5, DivUnique
<1> QED
  BY <1>2, <1>3, <1>6 DEF n, s

\* The same of a multiple.
LEMMA DivScaledExact ==
  ASSUME NEW M \in Nat, NEW Q \in Nat, NEW a \in Nat, 0 < M, 0 < Q
  PROVE  (a * M) \div (Q * M) = a \div Q /\ (a * M) % (Q * M) = (a % Q) * M
<1>1. ASSUME NEW b \in Nat, b = 0
      PROVE  (a * M) \div (Q * M) = a \div Q /\ (a * M) % (Q * M) = (a % Q) * M
  <2>1. b < M
    BY <1>1
  <2>2. (a * M + b) \div (Q * M) = a \div Q /\ (a * M + b) % (Q * M) = (a % Q) * M + b
    BY <2>1, DivScaled
  <2>3. a * M \in Nat /\ (a % Q) * M \in Nat
    BY SMTT(30)
  <2>4. a * M + b = a * M /\ (a % Q) * M + b = (a % Q) * M
    BY <1>1, <2>3
  <2> QED
    BY <2>2, <2>4
<1> QED
  BY <1>1

\* The remainder of a remainder.
LEMMA ModMod ==
  ASSUME NEW M \in Nat \ {0}, NEW Q \in Nat \ {0}, NEW a \in Nat
  PROVE  (a % (Q * M)) % M = a % M
<1>0. M \in Nat /\ 0 < M /\ Q \in Nat /\ 0 < Q
  OBVIOUS
<1>1. PICK x \in Nat, b \in 0 .. M - 1 : a = x * M + b
  BY <1>0, QuotientRemainder
<1>2. a % (Q * M) = (x % Q) * M + b
  <2>1. b \in Nat /\ b < M
    BY <1>0
  <2>2. (x * M + b) % (Q * M) = (x % Q) * M + b
    BY <1>0, <2>1, DivScaled
  <2> QED
    BY <1>1, <2>2
<1>3. x % Q \in Nat
  BY SMTT(30)
<1>4. ((x % Q) * M + b) % M = b /\ (x * M + b) % M = b
  BY <1>3, DivUnique
<1> QED
  BY <1>1, <1>2, <1>4

\* Quotients and remainders are numbers.
LEMMA DivModNat ==
  \A a \in Nat, n \in Nat \ {0} : a % n \in 0 .. n - 1 /\ a \div n \in Nat
BY SMTT(30)

\* The quotient of a number below a product.
LEMMA DivBelow ==
  ASSUME NEW M \in Nat \ {0}, NEW Q \in Nat \ {0}, NEW a \in 0 .. Q * M - 1
  PROVE  a \div M \in 0 .. Q - 1
<1>0. M \in Nat /\ 0 < M /\ Q \in Nat /\ 0 < Q
  OBVIOUS
<1>1. PICK x \in Nat, b \in 0 .. M - 1 : a = x * M + b
  <2>1. a \in Nat
    BY <1>0, TimesTimes
  <2> QED
    BY <1>0, <2>1, QuotientRemainder
<1>2. a \div M = x
  BY <1>1, DivUnique
<1>3. x < Q
  <2> SUFFICES ASSUME x >= Q PROVE FALSE
    BY <1>1
  <2>1. x * M >= Q * M
    BY SMTT(30)
  <2>2. x * M \in Nat /\ Q * M \in Nat
    BY TimesTimes
  <2> QED
    BY <1>1, <2>1, <2>2
<1> QED
  BY <1>2, <1>3

\* Powers of two can be divided by.
LEMMA PowNat == \A n \in Nat : Pow2[n] \in Nat \ {0} /\ Pow2[n] \in Nat /\ 0 < Pow2[n]
BY Pow2Positive

\* A multiple of the divisor added.
LEMMA DivOver ==
  ASSUME NEW Q \in Nat, 0 < Q, NEW a \in Nat, NEW x \in Nat
  PROVE  (a * Q + x) \div Q = a + x \div Q /\ x \div Q \in Nat
<1>1. PICK y \in Nat, z \in 0 .. Q - 1 : x = y * Q + z
  BY QuotientRemainder
<1>2. x \div Q = y
  BY <1>1, DivUnique
<1>3. a * Q + x = (a + y) * Q + z
  <2>1. (a + y) * Q = a * Q + y * Q /\ a * Q \in Nat /\ y * Q \in Nat
    BY TimesSum, TimesTimes
  <2> QED
    BY <1>1, <2>1
<1>4. ((a + y) * Q + z) \div Q = a + y
  <2> DEFINE b == a + y
  <2>1. b \in Nat /\ z \in Nat /\ z < Q
    OBVIOUS
  <2> HIDE DEF b
  <2>2. (b * Q + z) \div Q = b
    BY <2>1, DivUnique
  <2> QED
    BY <2>2 DEF b
<1> QED
  BY <1>2, <1>3, <1>4

\* Two divisions in turn.
LEMMA DivTwice ==
  ASSUME NEW P \in Nat, NEW Q \in Nat, 0 < P, 0 < Q, NEW x \in Nat
  PROVE  (x \div P) \div Q = x \div (Q * P)
<1>1. PICK a \in Nat, b \in 0 .. P - 1 : x = a * P + b
  BY QuotientRemainder
<1>2. b \in Nat /\ b < P
  OBVIOUS
<1>3. x \div P = a
  BY <1>1, <1>2, DivUnique
<1>4. (a * P + b) \div (Q * P) = a \div Q
  BY <1>2, DivScaled
<1> QED
  BY <1>1, <1>3, <1>4
=============================================================================
