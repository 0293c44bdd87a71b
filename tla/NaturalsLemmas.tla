--------------------------- MODULE NaturalsLemmas ---------------------------
(***************************************************************************)
(* Facts about numbers that the proofs of several components need: the     *)
(* least number principle and, from it, induction over a set of naturals;  *)
(* rounding up to whole blocks.                                            *)
(***************************************************************************)
EXTENDS Integers, WellFoundedInduction, TLAPS

\* A non-empty set of naturals has a least element.
LEMMA LeastNumber ==
    ASSUME NEW T \in SUBSET Nat, T # {}
    PROVE  \E x \in T : \A y \in T : x <= y
<1>1. \E x \in T : \A y \in T : ~(<<y, x>> \in OpToRel(<, Nat))
  BY NatLessThanWellFounded, WFMin, Zenon
<1>2. PICK x \in T : \A y \in T : ~(<<y, x>> \in OpToRel(<, Nat))
  BY <1>1
<1>3. \A y \in T : ~(y < x)
  BY <1>2, Zenon DEF OpToRel
<1> QED
  BY <1>3

\* A non-empty set of naturals with an upper bound has a greatest element.
LEMMA GreatestNumber ==
    ASSUME NEW T \in SUBSET Nat, T # {}, NEW n \in Nat, \A x \in T : x <= n
    PROVE  \E x \in T : \A y \in T : y <= x
<1> DEFINE U == {n - x : x \in T}
<1>1. U \in SUBSET Nat
  OBVIOUS
<1>2. U # {}
  <2>1. PICK x \in T : TRUE
    OBVIOUS
  <2>2. n - x \in U
    BY <2>1
  <2> QED
    BY <2>2
<1>3. PICK u \in U : \A v \in U : u <= v
  BY <1>1, <1>2, LeastNumber
<1>4. PICK x \in T : u = n - x
  OBVIOUS
<1>5. \A y \in T : n - x <= n - y
  BY <1>3, <1>4
<1> QED
  BY <1>5

\* A set of naturals that has 0 and, with a number, its successor, has all.
LEMMA Induction ==
    ASSUME NEW S \in SUBSET Nat, 0 \in S, \A n \in S : n + 1 \in S
    PROVE  S = Nat
<1> SUFFICES ASSUME Nat \ S # {} PROVE FALSE
  OBVIOUS
<1>1. PICK x \in Nat \ S : \A y \in Nat \ S : x <= y
  BY LeastNumber
<1>2. x # 0 /\ x - 1 \in Nat /\ x - 1 \notin Nat \ S
  BY <1>1
<1> QED
  BY <1>2

\* The blocks of size B that n things need, and no block more.
LEMMA RoundUp ==
    ASSUME NEW B \in Nat \ {0}, NEW n \in Nat
    PROVE  /\ (n + B - 1) \div B \in Nat
           /\ ((n + B - 1) \div B) * B \in n..(n + B - 1)
OBVIOUS

\* Induction from 0 up to n.
LEMMA IntervalInduction ==
    ASSUME NEW n \in Nat, NEW S \in SUBSET (0..n), 0 \in S,
           \A i \in 1..n : i - 1 \in S => i \in S
    PROVE  S = 0..n
<1> DEFINE U == {i \in Nat : i <= n => i \in S}
<1>1. U \in SUBSET Nat /\ 0 \in U
  OBVIOUS
<1>2. ASSUME NEW i \in U PROVE i + 1 \in U
  <2>1. CASE i + 1 <= n
    <3>1. i \in S /\ i + 1 \in 1..n /\ (i + 1) - 1 = i
      BY <2>1
    <3> QED
      BY <3>1
  <2>2. CASE ~(i + 1 <= n)
    BY <2>2
  <2> QED
    BY <2>1, <2>2
<1> HIDE DEF U
<1>3. U = Nat
  BY <1>1, <1>2, Induction
<1>4. \A i \in 0..n : i \in U
  BY <1>3
<1>5. \A i \in 0..n : i \in S
  BY <1>4 DEF U
<1> QED
  BY <1>5

\* f starts with v0 and goes on with step.
IsRecursion(f, V, v0, n, step) ==
    /\ f \in [0..n -> V]
    /\ f[0] = v0 /\ \A i \in 1..n : f[i] = step[i][f[i - 1]]

\* Such a function exists: the recursive definitions of the models can be
\* unfolded because of it.
LEMMA RecursionExists ==
    ASSUME NEW V, NEW v0 \in V, NEW n \in Nat, NEW step \in [1..n -> [V -> V]]
    PROVE  \E f : IsRecursion(f, V, v0, n, step)
<1> DEFINE upto(f, k) == f[0] = v0 /\ \A i \in 1..k : f[i] = step[i][f[i - 1]]
           S == {k \in 0..n : \E f \in [0..k -> V] : upto(f, k)}
<1>1. 0 \in S
  <2> DEFINE f == [i \in 0..0 |-> v0]
  <2>1. f \in [0..0 -> V] /\ upto(f, 0)
    OBVIOUS
  <2>2. \E g \in [0..0 -> V] : upto(g, 0)
    BY <2>1, Zenon
  <2> QED
    BY <2>2
<1>2. ASSUME NEW k \in 1..n, k - 1 \in S PROVE k \in S
  <2>1. PICK f \in [0..(k - 1) -> V] : upto(f, k - 1)
    BY <1>2
  <2> DEFINE g == [i \in 0..k |-> IF i = k THEN step[k][f[k - 1]] ELSE f[i]]
  <2>2. f[k - 1] \in V /\ step[k] \in [V -> V]
    OBVIOUS
  <2>3. g \in [0..k -> V]
    BY <2>2
  <2>4. g[0] = v0 /\ \A i \in 1..(k - 1) : g[i] = step[i][g[i - 1]]
    BY <2>1
  <2>5. g[k] = step[k][g[k - 1]]
    OBVIOUS
  <2> HIDE DEF g
  <2>6. upto(g, k)
    BY <2>4, <2>5
  <2>7. \E e \in [0..k -> V] : upto(e, k)
    BY <2>3, <2>6, Zenon
  <2>8. k \in 0..n
    OBVIOUS
  <2> QED
    BY <2>7, <2>8, Zenon
<1>3. S = 0..n
  <2>1. S \in SUBSET (0..n)
    OBVIOUS
  <2> HIDE DEF S
  <2> QED
    BY <1>1, <1>2, <2>1, IntervalInduction
<1>4. n \in S
  BY <1>3, SMTT(30)
<1>5. PICK f \in [0..n -> V] : upto(f, n)
  BY <1>4
<1>6. IsRecursion(f, V, v0, n, step)
  BY <1>5 DEF IsRecursion
<1> QED
  BY <1>6
\* Counting modulo s: one further, or back to 0.
LEMMA ModStep ==
    ASSUME NEW c \in Nat, NEW s \in Nat, s > 0
    PROVE  /\ c % s \in 0..(s - 1)
           /\ (c + 1) % s = IF (c % s) + 1 = s THEN 0 ELSE (c % s) + 1
<1>1. c % s \in 0..(s - 1) /\ (c + 1) % s \in 0..(s - 1)
  OBVIOUS
<1>2. /\ c = s * (c \div s) + (c % s) /\ c + 1 = s * ((c + 1) \div s) + ((c + 1) % s)
      /\ c \div s \in Int /\ (c + 1) \div s \in Int
  OBVIOUS
<1>3. ASSUME NEW q \in Int, NEW r \in Int, NEW a \in 0..(s - 1), NEW b \in 0..(s - 1),
             s * r + b = s * q + a + 1
      PROVE  b = IF a + 1 = s THEN 0 ELSE a + 1
  <2>1. s * (r - q) = a + 1 - b
    BY <1>3
  <2>2. ~(r - q >= 2)
    <3> SUFFICES ASSUME r - q >= 2 PROVE FALSE
      OBVIOUS
    <3>1. s * (r - q) >= s * 2
      OBVIOUS
    <3> QED
      BY <2>1, <3>1
  <2>3. ~(r - q <= -1)
    <3> SUFFICES ASSUME r - q <= -1 PROVE FALSE
      OBVIOUS
    <3>1. s * (r - q) <= s * (-1)
      OBVIOUS
    <3> QED
      BY <2>1, <3>1
  <2>4. r - q = 0 \/ r - q = 1
    BY <2>2, <2>3
  <2>5. s * 0 = 0 /\ s * 1 = s
    OBVIOUS
  <2>6. CASE r - q = 0
    <3>1. a + 1 - b = 0
      BY <2>1, <2>5, <2>6
    <3> QED
      BY <3>1
  <2>7. CASE r - q = 1
    <3>1. a + 1 - b = s
      BY <2>1, <2>5, <2>7
    <3> QED
      BY <3>1
  <2> QED
    BY <2>4, <2>6, <2>7
<1> DEFINE a == c % s
           b == (c + 1) % s
           q == c \div s
           r == (c + 1) \div s
<1>4. /\ a \in 0..(s - 1) /\ b \in 0..(s - 1) /\ q \in Int /\ r \in Int
      /\ c = s * q + a /\ c + 1 = s * r + b
  BY <1>1, <1>2
<1> HIDE DEF a, b, q, r
<1>5. s * r + b = s * q + a + 1
  BY <1>4
<1>6. b = IF a + 1 = s THEN 0 ELSE a + 1
  BY <1>3, <1>4, <1>5
<1> QED
  BY <1>4, <1>6 DEF a, b

\* Quotients are unique.
LEMMA DivUnique ==
    ASSUME NEW d \in Nat, NEW q \in Nat, NEW r \in Nat, r < d
    PROVE  (d * q + r) \div d = q
<1>1. PICK a \in Nat : a = d * q + r
  OBVIOUS
<1>2. PICK p \in Nat : p = a \div d
  OBVIOUS
<1>3. PICK s \in Nat : s = a % d /\ s < d /\ a = d * p + s
  BY <1>2
<1>4. ~(p < q)
  <2>1. SUFFICES ASSUME p < q PROVE FALSE
    OBVIOUS
  <2>2. PICK e \in Nat : q = p + 1 + e
    <3>1. q - p - 1 \in Nat /\ q = p + 1 + (q - p - 1)
      BY <2>1
    <3> QED
      BY <3>1
  <2>3. d * q = d * p + d + d * e /\ d * e \in Nat
    BY <2>2
  <2> QED
    BY <1>1, <1>3, <2>3
<1>5. ~(p > q)
  <2>1. SUFFICES ASSUME p > q PROVE FALSE
    OBVIOUS
  <2>2. PICK e \in Nat : p = q + 1 + e
    <3>1. p - q - 1 \in Nat /\ p = q + 1 + (p - q - 1)
      BY <2>1
    <3> QED
      BY <3>1
  <2>3. d * p = d * q + d + d * e /\ d * e \in Nat
    BY <2>2
  <2> QED
    BY <1>1, <1>3, <2>3
<1> QED
  BY <1>1, <1>2, <1>4, <1>5
=============================================================================
