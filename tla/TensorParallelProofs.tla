------------------------ MODULE TensorParallelProofs ------------------------
(***************************************************************************)
(* Proofs about TensorParallel, for every architecture and all weights,    *)
(* any number of GPUs and every order in which their queues run.           *)
(*                                                                         *)
(* First the arithmetic of cut matrices, then what the shards of a device  *)
(* hold, then an invariant that says of every GPU what its buffers will be *)
(* when it has run what is queued.                                         *)
(***************************************************************************)
EXTENDS InferenceProofs

-----------------------------------------------------------------------------
(***************************************************************************)
(* Sums of numbers modulo P.                                               *)
(***************************************************************************)

LEMMA ModUnique ==
    ASSUME NEW d \in Nat, NEW q \in Nat, NEW r \in Nat, r < d
    PROVE  (d * q + r) % d = r
<1>1. PICK a \in Nat : a = d * q + r
  OBVIOUS
<1>2. a \div d = q
  BY <1>1, DivUnique
<1>3. a = d * (a \div d) + (a % d) /\ a % d \in Nat
  OBVIOUS
<1> QED
  BY <1>1, <1>2, <1>3

LEMMA ModAdd ==
    ASSUME NEW d \in Nat \ {0}, NEW a \in Nat, NEW b \in Nat
    PROVE  ((a % d) + b) % d = (a + b) % d /\ (b + (a % d)) % d = (b + a) % d
<1>1. PICK q \in Nat, r \in Nat : q = a \div d /\ r = a % d /\ a = d * q + r
  OBVIOUS
<1>2. PICK p \in Nat, s \in Nat : p = (r + b) \div d /\ s = (r + b) % d /\ s < d /\ r + b = d * p + s
  OBVIOUS
<1>3. a + b = d * (q + p) + s
  <2>1. PICK x \in Nat, y \in Nat : x = d * q /\ y = d * p
    OBVIOUS
  <2>2. d * (q + p) = x + y
    BY <2>1
  <2>3. a = x + r /\ r + b = y + s
    BY <1>1, <1>2, <2>1
  <2>4. a + b = (x + y) + s
    BY <2>3
  <2> QED
    BY <2>2, <2>4
<1>4. PICK e \in Nat : e = q + p
  OBVIOUS
<1>5. (d * e + s) % d = s
  BY <1>2, ModUnique
<1>6. (a + b) % d = s
  BY <1>3, <1>4, <1>5
<1> QED
  BY <1>1, <1>2, <1>6

\* Vectors of numbers.
Vec(n) == [1..n -> Nat]

Sums(s, v, n) == s[0] = 0 /\ \A i \in 1..n : s[i] = (s[i - 1] + v[i]) % P

LEMMA SumsOf ==
    ASSUME NEW n \in Nat, NEW v \in Vec(n)
    PROVE  \E s : s \in [0..n -> Nat] /\ Sums(s, v, n) /\ Total(v) = s[n]
<1> DEFINE sum == CHOOSE sum : sum =
                      [i \in 0..Len(v) |-> IF i = 0 THEN 0 ELSE (sum[i - 1] + v[i]) % P]
<1>1. Total(v) = sum[Len(v)]
  BY Zenon DEF Total
<1>2. Len(v) = n /\ \A i \in 1..n : v[i] \in Nat
  <2>1. v \in Seq(Nat)
    BY SeqDef DEF Vec
  <2> QED
    BY <2>1, LenProperties DEF Vec
<1>3. P \in Nat /\ P > 0
  BY PrimeAssumption
<1>4. PICK step : step = [i \in 1..n |-> [x \in Nat |-> (x + v[i]) % P]]
  OBVIOUS
<1>5. step \in [1..n -> [Nat -> Nat]]
  <2>1. ASSUME NEW i \in 1..n PROVE [x \in Nat |-> (x + v[i]) % P] \in [Nat -> Nat]
    <3>1. PICK d \in Nat : d = v[i]
      BY <1>2
    <3>2. [x \in Nat |-> (x + d) % P] \in [Nat -> Nat]
      BY <1>3
    <3> QED
      BY <3>1, <3>2
  <2> QED
    BY <1>4, <2>1
<1>6. PICK g : IsRecursion(g, Nat, 0, n, step)
  BY <1>5, RecursionExists
<1>7. /\ g \in [0..n -> Nat] /\ g[0] = 0 /\ \A i \in 1..n : g[i] = (g[i - 1] + v[i]) % P
  <2>1. g \in [0..n -> Nat] /\ g[0] = 0
    BY <1>6 DEF IsRecursion
  <2>2. ASSUME NEW i \in 1..n PROVE g[i] = (g[i - 1] + v[i]) % P
    <3>1. g[i] = step[i][g[i - 1]] /\ g[i - 1] \in Nat
      BY <1>6, <2>1 DEF IsRecursion
    <3>2. step[i] = [x \in Nat |-> (x + v[i]) % P]
      BY <1>4
    <3> QED
      BY <3>1, <3>2
  <2> QED
    BY <2>1, <2>2
<1>8. g = [i \in 0..Len(v) |-> IF i = 0 THEN 0 ELSE (g[i - 1] + v[i]) % P]
  BY <1>2, <1>7
<1>9. sum = [i \in 0..Len(v) |-> IF i = 0 THEN 0 ELSE (sum[i - 1] + v[i]) % P]
  BY <1>8, Zenon
<1> HIDE DEF sum
<1>10. sum[0] = 0 /\ \A i \in 1..n : sum[i] = (sum[i - 1] + v[i]) % P
  <2>1. sum[0] = 0
    BY <1>2, <1>9
  <2>2. ASSUME NEW i \in 1..n PROVE sum[i] = (sum[i - 1] + v[i]) % P
    <3>1. i \in 0..Len(v) /\ i # 0
      BY <1>2
    <3> QED
      BY <1>9, <3>1, Zenon
  <2> QED
    BY <2>1, <2>2
<1>11. \A i \in 0..n : sum[i] \in Nat
  <2> DEFINE S == {i \in 0..n : sum[i] \in Nat}
  <2>1. S \in SUBSET (0..n) /\ 0 \in S
    BY <1>10
  <2>2. ASSUME NEW i \in 1..n, i - 1 \in S PROVE i \in S
    BY <1>2, <1>3, <1>10, <2>2
  <2> HIDE DEF S
  <2>3. S = 0..n
    BY <2>1, <2>2, IntervalInduction
  <2> QED
    BY <2>3 DEF S
<1>12. sum \in [0..n -> Nat]
  <2>1. sum = [i \in 0..n |-> sum[i]]
    <3>1. DOMAIN sum = 0..n /\ sum = [i \in DOMAIN sum |-> sum[i]]
      BY <1>2, <1>9
    <3> QED
      BY <3>1
  <2> QED
    BY <1>11, <2>1
<1> QED
  BY <1>1, <1>2, <1>10, <1>12 DEF Sums

\* Any such s ends in the sum.
LEMMA TotalIs ==
    ASSUME NEW n \in Nat, NEW v \in Vec(n), NEW s, Sums(s, v, n)
    PROVE  Total(v) = s[n]
<1>1. PICK t : t \in [0..n -> Nat] /\ Sums(t, v, n) /\ Total(v) = t[n]
  BY SumsOf
<1> DEFINE S == {i \in 0..n : s[i] = t[i]}
<1>2. S \in SUBSET (0..n) /\ 0 \in S
  BY <1>1 DEF Sums
<1>3. ASSUME NEW i \in 1..n, i - 1 \in S PROVE i \in S
  <2>1. s[i - 1] = t[i - 1]
    BY <1>3
  <2>2. s[i] = (s[i - 1] + v[i]) % P /\ t[i] = (t[i - 1] + v[i]) % P
    BY <1>1 DEF Sums
  <2>3. s[i] = t[i]
    BY <2>1, <2>2, Zenon
  <2> QED
    BY <2>3
<1> HIDE DEF S
<1>4. S = 0..n
  BY <1>2, <1>3, IntervalInduction
<1>5. n \in S
  BY <1>4, SMTT(30)
<1> QED
  BY <1>1, <1>5 DEF S

LEMMA TotalRange ==
    ASSUME NEW n \in Nat, NEW v \in Vec(n)
    PROVE  Total(v) \in 0..(P - 1)
<1>1. PICK t : t \in [0..n -> Nat] /\ Sums(t, v, n) /\ Total(v) = t[n]
  BY SumsOf
<1>2. P \in Nat /\ P > 0
  BY PrimeAssumption
<1>3. CASE n = 0
  BY <1>1, <1>2, <1>3 DEF Sums
<1>4. CASE n # 0
  <2>1. n \in 1..n /\ t[n - 1] \in Nat /\ v[n] \in Nat
    BY <1>1, <1>4 DEF Vec
  <2>2. t[n] = (t[n - 1] + v[n]) % P
    BY <1>1, <2>1 DEF Sums
  <2> QED
    BY <1>1, <1>2, <2>1, <2>2
<1> QED
  BY <1>3, <1>4

\* The piece r of length k of a vector.
Piece(v, r, k) == [c \in 1..k |-> v[r * k + c]]

LEMMA PieceIndex ==
    ASSUME NEW tp \in Nat, NEW k \in Nat, NEW r \in 0..(tp - 1), NEW c \in 1..k
    PROVE  r * k + c \in 1..(tp * k) /\ r * k \in 0..(tp * k) /\ r * k + k \in 0..(tp * k)
<1>1. PICK e \in Nat : tp = r + 1 + e
  <2>1. tp - r - 1 \in Nat /\ tp = r + 1 + (tp - r - 1)
    OBVIOUS
  <2> QED
    BY <2>1
<1>2. tp * k = r * k + k + e * k /\ e * k \in Nat /\ r * k \in Nat
  BY <1>1
<1> QED
  BY <1>2

LEMMA PieceOf ==
    ASSUME NEW tp \in Nat, NEW k \in Nat, NEW v \in Vec(tp * k), NEW r \in 0..(tp - 1)
    PROVE  Piece(v, r, k) \in Vec(k)
<1>1. ASSUME NEW c \in 1..k PROVE v[r * k + c] \in Nat
  BY PieceIndex DEF Vec
<1> QED
  BY <1>1 DEF Piece, Vec

\* The sum is the sum of the sums of the pieces.
LEMMA TotalSplit ==
    ASSUME NEW tp \in Nat, NEW k \in Nat, NEW v \in Vec(tp * k)
    PROVE  Total(v) = Total([r \in 1..tp |-> Total(Piece(v, r - 1, k))])
<1>1. PICK n \in Nat : n = tp * k
  OBVIOUS
<1>2. PICK s : s \in [0..n -> Nat] /\ Sums(s, v, n) /\ Total(v) = s[n]
  BY <1>1, SumsOf
<1>3. PICK w : w = [r \in 1..tp |-> Total(Piece(v, r - 1, k))]
  OBVIOUS
<1>4. ASSUME NEW r \in 1..tp PROVE Piece(v, r - 1, k) \in Vec(k) /\ w[r] = Total(Piece(v, r - 1, k))
  <2>1. r - 1 \in 0..(tp - 1)
    OBVIOUS
  <2> QED
    BY <1>3, <2>1, PieceOf
<1>5. w \in Vec(tp)
  <2>1. ASSUME NEW r \in 1..tp PROVE Total(Piece(v, r - 1, k)) \in Nat
    BY <1>4, TotalRange
  <2> QED
    BY <1>3, <2>1 DEF Vec
<1>6. PICK u : u = [r \in 0..tp |-> s[r * k]]
  OBVIOUS
<1>7. P \in Nat \ {0}
  BY PrimeAssumption
<1>8. u[0] = 0
  <2>1. 0 * k = 0
    OBVIOUS
  <2> QED
    BY <1>2, <1>6, <2>1 DEF Sums
<1>9. ASSUME NEW r \in 1..tp PROVE u[r] = (u[r - 1] + w[r]) % P
  <2>1. PICK q \in 0..(tp - 1) : q = r - 1 /\ q + 1 = r
    OBVIOUS
  <2>2. PICK p \in Vec(k) : p = Piece(v, q, k) /\ w[r] = Total(p)
    BY <1>4, <2>1
  <2>3. PICK t : t \in [0..k -> Nat] /\ Sums(t, p, k) /\ Total(p) = t[k]
    BY SumsOf
  <2>4. PICK a \in Nat : a = q * k
    OBVIOUS
  <2>5. \A c \in 1..k : a + c \in 1..n
    BY <1>1, <2>4, PieceIndex
  <2>6. r * k = a + k /\ s[a] \in Nat
    <3>1. r * k = q * k + k
      BY <2>1
    <3>2. a \in 0..n
      <4>1. CASE k = 0
        BY <2>4, <4>1
      <4>2. CASE k # 0
        <5>1. a + 1 \in 1..n
          BY <2>5, <4>2
        <5> QED
          BY <5>1
      <4> QED
        BY <4>1, <4>2
    <3> QED
      BY <1>2, <2>4, <3>1, <3>2
  <2> DEFINE S == {c \in 0..k : (s[a + c]) % P = (s[a] + t[c]) % P}
  <2>7. S \in SUBSET (0..k) /\ 0 \in S
    <3>1. t[0] = 0 /\ s[a + 0] = s[a]
      BY <2>3, <2>4 DEF Sums
    <3> QED
      BY <2>6, <3>1
  <2>8. ASSUME NEW c \in 1..k, c - 1 \in S PROVE c \in S
    <3>1. PICK i \in 1..n : i = a + c
      BY <2>5
    <3>2. PICK b \in Nat, d \in Nat, x \in Nat, y \in Nat :
            b = s[i - 1] /\ d = t[c - 1] /\ x = v[i] /\ y = s[a]
      <4>1. i - 1 \in 0..n /\ c - 1 \in 0..k /\ i \in 1..(tp * k)
        BY <1>1
      <4>2. s[i - 1] \in Nat /\ t[c - 1] \in Nat /\ v[i] \in Nat
        BY <1>2, <2>3, <4>1 DEF Vec
      <4> QED
        BY <2>6, <4>2
    <3>3. p[c] = x
      BY <2>2, <2>4, <3>1, <3>2 DEF Piece
    <3>4. s[i] = (b + x) % P /\ t[c] = (d + x) % P
      BY <1>2, <2>3, <3>2, <3>3 DEF Sums
    <3>5. b % P = (y + d) % P
      <4>1. a + (c - 1) = i - 1
        BY <3>1, <2>4
      <4> QED
        BY <2>8, <3>2, <4>1
    <3>6. s[i] % P = (y + t[c]) % P
      <4>1. ((b % P) + x) % P = (b + x) % P
        BY <1>7, ModAdd
      <4>2. (((y + d) % P) + x) % P = ((y + d) + x) % P
        <5>1. PICK z \in Nat : z = y + d
          OBVIOUS
        <5>2. ((z % P) + x) % P = (z + x) % P
          BY <1>7, ModAdd
        <5> QED
          BY <5>1, <5>2
      <4>3. (y + ((d + x) % P)) % P = (y + (d + x)) % P
        <5>1. PICK z \in Nat : z = d + x
          OBVIOUS
        <5>2. (y + (z % P)) % P = (y + z) % P
          BY <1>7, ModAdd
        <5> QED
          BY <5>1, <5>2
      <4>4. ((b + x) % P) % P = (b + x) % P
        <5>1. PICK e \in Nat : e = (b + x) % P /\ e < P
          BY <1>7
        <5> QED
          BY <1>7, <5>1
      <4>5. (y + d) + x = y + (d + x)
        OBVIOUS
      <4> QED
        BY <3>4, <3>5, <4>1, <4>2, <4>3, <4>4, <4>5
    <3> QED
      BY <3>1, <3>2, <3>6
  <2> HIDE DEF S
  <2>9. S = 0..k
    BY <2>7, <2>8, IntervalInduction
  <2>10. s[a + k] % P = (s[a] + t[k]) % P
    <3>1. k \in S
      BY <2>9, SMTT(30)
    <3> QED
      BY <3>1 DEF S
  <2>11. s[a + k] \in 0..(P - 1)
    <3>1. PICK i \in 0..n : i = a + k
      <4>1. CASE k = 0
        <5>1. PICK b \in Nat : b = r * k
          OBVIOUS
        <5> QED
          BY <2>4, <4>1
      <4>2. CASE k # 0
        <5>1. k \in 1..k
          BY <4>2
        <5> QED
          BY <2>5, <5>1
      <4> QED
        BY <4>1, <4>2
    <3>2. CASE i = 0
      BY <1>2, <1>7, <3>1, <3>2 DEF Sums
    <3>3. CASE i # 0
      <4>1. i \in 1..n /\ s[i - 1] \in Nat /\ v[i] \in Nat
        BY <1>1, <1>2, <3>3 DEF Vec
      <4>2. s[i] = (s[i - 1] + v[i]) % P
        BY <1>2, <4>1 DEF Sums
      <4> QED
        BY <1>7, <3>1, <4>1, <4>2
    <3> QED
      BY <3>2, <3>3
  <2>12. s[a + k] = (s[a] + t[k]) % P
    <3>1. PICK e \in Nat : e = s[a + k] /\ e < P
      BY <1>7, <2>11
    <3>2. e % P = e
      BY <1>7, <3>1
    <3> QED
      BY <2>10, <3>1, <3>2
  <2>13. u[r] = s[a + k] /\ u[r - 1] = s[a]
    <3>1. r \in 0..tp /\ r - 1 \in 0..tp
      OBVIOUS
    <3>2. u[r] = s[r * k] /\ u[r - 1] = s[(r - 1) * k]
      BY <1>6, <3>1
    <3> QED
      BY <2>1, <2>4, <2>6, <3>2
  <2> QED
    BY <2>2, <2>3, <2>12, <2>13
<1>10. Sums(u, w, tp)
  BY <1>8, <1>9 DEF Sums
<1>11. Total(w) = u[tp]
  BY <1>5, <1>10, TotalIs
<1>12. u[tp] = s[n]
  BY <1>1, <1>6
<1> QED
  BY <1>2, <1>3, <1>11, <1>12

-----------------------------------------------------------------------------
(***************************************************************************)
(* Pieces of vectors.                                                      *)
(***************************************************************************)

\* A place of a vector is a place of a piece.
LEMMA PlaceOf ==
    ASSUME NEW tp \in Nat, NEW k \in Nat, NEW i \in 1..(tp * k)
    PROVE  \E r \in 0..(tp - 1), c \in 1..k : i = r * k + c
<1>1. PICK n \in Nat : n = tp * k
  OBVIOUS
<1>2. k > 0
  <2>1. k = 0 => tp * k = 0
    OBVIOUS
  <2> QED
    BY <2>1
<1>3. PICK j \in Nat : j = i - 1
  BY <1>1
<1>4. PICK q \in Nat, d \in Nat : q = j \div k /\ d = j % k /\ d < k /\ j = k * q + d
  BY <1>2
<1>5. q < tp
  <2>1. SUFFICES ASSUME q >= tp PROVE FALSE
    OBVIOUS
  <2>2. PICK e \in Nat : q = tp + e
    <3>1. q - tp \in Nat /\ q = tp + (q - tp)
      BY <2>1
    <3> QED
      BY <3>1
  <2>3. k * q = tp * k + k * e /\ k * e \in Nat
    BY <2>2
  <2>4. j < n
    BY <1>1, <1>3
  <2> QED
    BY <1>1, <1>4, <2>3, <2>4
<1>6. q \in 0..(tp - 1) /\ d + 1 \in 1..k /\ i = q * k + (d + 1)
  <2>1. k * q = q * k
    OBVIOUS
  <2> QED
    BY <1>3, <1>4, <1>5, <2>1
<1> QED
  BY <1>6

\* The pieces make up the vector.
LEMMA PiecesDetermine ==
    ASSUME NEW tp \in Nat, NEW k \in Nat, NEW u \in Vec(tp * k), NEW v \in Vec(tp * k),
           \A r \in 0..(tp - 1) : Piece(u, r, k) = Piece(v, r, k)
    PROVE  u = v
<1>1. ASSUME NEW i \in 1..(tp * k) PROVE u[i] = v[i]
  <2>1. PICK r \in 0..(tp - 1), c \in 1..k : i = r * k + c
    BY PlaceOf
  <2>2. Piece(u, r, k)[c] = Piece(v, r, k)[c]
    OBVIOUS
  <2> QED
    BY <2>1, <2>2 DEF Piece
<1> QED
  BY <1>1 DEF Vec

\* Pieces of pieces.
InPiece(v, r, h, n, k, c) == Piece(v, r, n * k)[h * k + c]
InWhole(v, r, h, n, k, c) == v[(r * n + h) * k + c]

LEMMA PieceAt ==
    ASSUME NEW v, NEW r \in Nat, NEW h \in Nat, NEW n \in Nat, NEW k \in Nat, h < n,
           NEW c \in 1..k
    PROVE  InPiece(v, r, h, n, k, c) = InWhole(v, r, h, n, k, c)
<1>1. h * k + c \in 1..(n * k)
  <2>1. h \in 0..(n - 1)
    OBVIOUS
  <2> QED
    BY <2>1, PieceIndex
<1>2. r * (n * k) + (h * k + c) = (r * n + h) * k + c
  <2>1. PICK a \in Nat : a = r * n
    OBVIOUS
  <2>2. (a + h) * k = a * k + h * k /\ a * k = r * (n * k)
    BY <2>1
  <2>3. PICK x \in Nat, y \in Nat : x = r * (n * k) /\ y = h * k
    OBVIOUS
  <2>4. (r * n + h) * k = x + y
    BY <2>1, <2>2, <2>3
  <2> QED
    BY <2>3, <2>4
<1>3. Piece(v, r, n * k)[h * k + c] = v[r * (n * k) + (h * k + c)]
  BY <1>1, Zenon DEF Piece
<1> QED
  BY <1>2, <1>3, Zenon DEF InPiece, InWhole

PieceIn(v, r, h, n, k) == Piece(Piece(v, r, n * k), h, k)

LEMMA PieceOfPiece ==
    ASSUME NEW v, NEW r \in Nat, NEW h \in Nat, NEW n \in Nat, NEW k \in Nat, h < n
    PROVE  PieceIn(v, r, h, n, k) = Piece(v, r * n + h, k)
<1>1. ASSUME NEW c \in 1..k PROVE Piece(v, r, n * k)[h * k + c] = v[(r * n + h) * k + c]
  <2>1. InPiece(v, r, h, n, k, c) = InWhole(v, r, h, n, k, c)
    BY PieceAt
  <2> QED
    BY <2>1, Zenon DEF InPiece, InWhole
<1>2. PICK p : p = Piece(v, r, n * k)
  OBVIOUS
<1>3. Piece(p, h, k) = Piece(v, r * n + h, k)
  BY <1>1, <1>2, Zenon DEF Piece
<1> QED
  BY <1>2, <1>3, Zenon DEF PieceIn

LEMMA VecIsSeq ==
    ASSUME NEW n \in Nat, NEW v \in Vec(n)
    PROVE  v \in Seq(Nat) /\ Len(v) = n /\ DOMAIN v = 1..n /\ v = [i \in 1..n |-> v[i]]
<1>1. v \in Seq(Nat)
  BY SeqDef DEF Vec
<1> QED
  BY <1>1, LenProperties DEF Vec

LEMMA SeqIsVec ==
    ASSUME NEW n \in Nat, NEW v \in Seq(Nat), Len(v) = n
    PROVE  v \in Vec(n)
BY LenProperties DEF Vec

\* A range of a vector.
LEMMA RangeOf ==
    ASSUME NEW n \in Nat, NEW v \in Vec(n), NEW a \in Nat, NEW k \in Nat, a + k <= n
    PROVE  SubSeq(v, a + 1, a + k) = [c \in 1..k |-> v[a + c]] /\ SubSeq(v, a + 1, a + k) \in Vec(k)
<1>1. \A i \in (a + 1)..(a + k) : v[i] \in Nat
  BY DEF Vec
<1>2. PICK lo \in Int, hi \in Int : lo = a + 1 /\ hi = a + k
  OBVIOUS
<1>3. PICK s : s = SubSeq(v, lo, hi)
  OBVIOUS
<1>4. /\ s \in Seq(Nat) /\ Len(s) = IF lo <= hi THEN hi - lo + 1 ELSE 0
      /\ \A i \in 1..(hi - lo + 1) : s[i] = v[lo + i - 1]
  BY <1>1, <1>2, <1>3, SubSeqProperties
<1>5. Len(s) = k /\ hi - lo + 1 = k
  BY <1>2, <1>4
<1>6. s \in Vec(k)
  BY <1>4, <1>5, SeqIsVec
<1>7. ASSUME NEW c \in 1..k PROVE s[c] = v[a + c]
  <2>1. lo + c - 1 = a + c
    BY <1>2
  <2>2. s[c] = v[lo + c - 1]
    BY <1>4, <1>5
  <2> QED
    BY <2>1, <2>2
<1>8. s = [c \in 1..k |-> v[a + c]]
  BY <1>6, <1>7 DEF Vec
<1> QED
  BY <1>2, <1>3, <1>6, <1>8

\* A range that is a piece.
LEMMA RangePiece ==
    ASSUME NEW tp \in Nat, NEW k \in Nat, NEW v \in Vec(tp * k), NEW r \in 0..(tp - 1)
    PROVE  SubSeq(v, r * k + 1, (r + 1) * k) = Piece(v, r, k)
<1>1. PICK n \in Nat, a \in Nat : n = tp * k /\ a = r * k
  OBVIOUS
<1>2. a + k <= n /\ (r + 1) * k = a + k
  <2>1. r * k + k \in 0..(tp * k)
    <3>1. CASE k = 0
      BY <3>1
    <3>2. CASE k # 0
      <4>1. k \in 1..k
        BY <3>2
      <4> QED
        BY <4>1, PieceIndex
    <3> QED
      BY <3>1, <3>2
  <2>2. (r + 1) * k = r * k + k
    OBVIOUS
  <2> QED
    BY <1>1, <2>1, <2>2
<1>3. SubSeq(v, a + 1, a + k) = [c \in 1..k |-> v[a + c]]
  BY <1>1, <1>2, RangeOf
<1> QED
  BY <1>1, <1>2, <1>3 DEF Piece

\* Vectors one after the other.
LEMMA FlattenExists ==
    ASSUME NEW m \in Nat \ {0}, NEW k \in Nat, NEW seqs \in [1..m -> Vec(k)]
    PROVE  \E f : /\ FlattenSeq(seqs) = f[m] /\ f[1] = seqs[1]
                  /\ \A i \in 2..m : f[i] = f[i - 1] \o seqs[i]
<1> DEFINE flatten == CHOOSE flatten : flatten =
                          [i \in 1..Len(seqs) |-> IF i = 1 THEN seqs[i] ELSE flatten[i - 1] \o seqs[i]]
<1>1. Len(seqs) = m /\ \A i \in 1..m : seqs[i] \in Seq(Nat)
  <2>1. seqs \in Seq(Vec(k))
    BY SeqDef
  <2> QED
    BY <2>1, LenProperties, VecIsSeq
<1>2. FlattenSeq(seqs) = flatten[m]
  <2>1. Len(seqs) # 0
    BY <1>1
  <2>2. FlattenSeq(seqs) = flatten[Len(seqs)]
    BY <2>1, Zenon DEF FlattenSeq
  <2> QED
    BY <1>1, <2>2
<1>3. PICK n \in Nat : n = m - 1
  OBVIOUS
<1>4. PICK step : step = [i \in 1..n |-> [s \in Seq(Nat) |-> s \o seqs[i + 1]]]
  OBVIOUS
<1>5. step \in [1..n -> [Seq(Nat) -> Seq(Nat)]]
  <2>1. ASSUME NEW i \in 1..n PROVE [s \in Seq(Nat) |-> s \o seqs[i + 1]] \in [Seq(Nat) -> Seq(Nat)]
    <3>1. PICK t \in Seq(Nat) : t = seqs[i + 1]
      BY <1>1, <1>3
    <3>2. \A s \in Seq(Nat) : s \o t \in Seq(Nat)
      BY ConcatProperties
    <3>3. [s \in Seq(Nat) |-> s \o t] \in [Seq(Nat) -> Seq(Nat)]
      BY <3>2, Zenon
    <3> QED
      BY <3>1, <3>3
  <2> QED
    BY <1>4, <2>1, Zenon
<1>6. PICK g : IsRecursion(g, Seq(Nat), seqs[1], n, step)
  <2>1. seqs[1] \in Seq(Nat)
    BY <1>1
  <2> QED
    BY <1>5, <2>1, RecursionExists
<1>7. /\ g[0] = seqs[1] /\ \A i \in 1..n : g[i] = g[i - 1] \o seqs[i + 1]
  <2>1. g \in [0..n -> Seq(Nat)] /\ g[0] = seqs[1]
    BY <1>6 DEF IsRecursion
  <2>2. ASSUME NEW i \in 1..n PROVE g[i] = g[i - 1] \o seqs[i + 1]
    <3>1. g[i] = step[i][g[i - 1]] /\ g[i - 1] \in Seq(Nat)
      BY <1>6, <2>1 DEF IsRecursion
    <3>2. step[i] = [s \in Seq(Nat) |-> s \o seqs[i + 1]]
      BY <1>4
    <3> QED
      BY <3>1, <3>2
  <2> QED
    BY <2>1, <2>2
<1>8. PICK f : f = [i \in 1..m |-> g[i - 1]]
  OBVIOUS
<1>9. f[1] = seqs[1] /\ \A i \in 2..m : f[i] = f[i - 1] \o seqs[i]
  <2>1. f[1] = seqs[1]
    BY <1>7, <1>8
  <2>2. ASSUME NEW i \in 2..m PROVE f[i] = f[i - 1] \o seqs[i]
    <3>1. PICK j \in 1..n : j = i - 1 /\ j + 1 = i
      BY <1>3
    <3>2. g[j] = g[j - 1] \o seqs[j + 1]
      BY <1>7
    <3>3. f[i] = g[j] /\ f[i - 1] = g[j - 1]
      BY <1>3, <1>8, <3>1
    <3> QED
      BY <3>1, <3>2, <3>3
  <2> QED
    BY <2>1, <2>2
<1>10. f = [i \in 1..Len(seqs) |-> IF i = 1 THEN seqs[i] ELSE f[i - 1] \o seqs[i]]
  <2>1. \A i \in 1..m : f[i] = IF i = 1 THEN seqs[i] ELSE f[i - 1] \o seqs[i]
    <3>1. \A i \in 1..m : i = 1 \/ i \in 2..m
      OBVIOUS
    <3> QED
      BY <1>9, <3>1, Zenon
  <2>2. f = [i \in 1..m |-> f[i]]
    BY <1>8
  <2>3. 1..Len(seqs) = 1..m
    BY <1>1
  <2> QED
    BY <2>1, <2>2, <2>3, Zenon
<1>11. flatten = [i \in 1..Len(seqs) |-> IF i = 1 THEN seqs[i] ELSE flatten[i - 1] \o seqs[i]]
  BY <1>10, Zenon
<1> HIDE DEF flatten
<1>12. \A i \in 1..m : flatten[i] = IF i = 1 THEN seqs[i] ELSE flatten[i - 1] \o seqs[i]
  <2>1. 1..Len(seqs) = 1..m
    BY <1>1
  <2> QED
    BY <1>11, <2>1, Zenon
<1>13. flatten[1] = seqs[1] /\ \A i \in 2..m : flatten[i] = flatten[i - 1] \o seqs[i]
  <2>1. 1 \in 1..m /\ \A i \in 2..m : i \in 1..m /\ i # 1
    OBVIOUS
  <2> QED
    BY <1>12, <2>1, Zenon
<1> QED
  BY <1>2, <1>13

LEMMA FlattenOf ==
    ASSUME NEW m \in Nat \ {0}, NEW k \in Nat, NEW seqs \in [1..m -> Vec(k)]
    PROVE  /\ FlattenSeq(seqs) \in Vec(m * k)
           /\ \A r \in 0..(m - 1) : Piece(FlattenSeq(seqs), r, k) = seqs[r + 1]
<1>1. PICK f : /\ FlattenSeq(seqs) = f[m] /\ f[1] = seqs[1]
               /\ \A i \in 2..m : f[i] = f[i - 1] \o seqs[i]
  BY FlattenExists
<1> DEFINE ok(i) == f[i] \in Vec(i * k) /\ \A r \in 0..(i - 1) : Piece(f[i], r, k) = seqs[r + 1]
           S == {j \in 0..(m - 1) : ok(j + 1)}
<1>2. ok(1)
  <2>1. f[1] \in Vec(k) /\ 1 * k = k
    BY <1>1
  <2>2. Piece(f[1], 0, k) = f[1]
    <3>1. \A c \in 1..k : 0 * k + c = c
      OBVIOUS
    <3>2. f[1] = [c \in 1..k |-> f[1][c]]
      BY <2>1, VecIsSeq
    <3> QED
      BY <3>1, <3>2 DEF Piece
  <2>3. \A r \in 0..(1 - 1) : r = 0
    OBVIOUS
  <2> QED
    BY <1>1, <2>1, <2>2, <2>3
<1>3. ASSUME NEW i \in 2..m, ok(i - 1) PROVE ok(i)
  <2>1. PICK j \in Nat : j = i - 1 /\ i = j + 1 /\ j > 0 /\ j < m
    OBVIOUS
  <2>2. PICK a \in Nat : a = j * k
    OBVIOUS
  <2>3. PICK u, v, x : u = f[j] /\ v = seqs[i] /\ x = f[i]
    OBVIOUS
  <2>4. u \in Vec(a) /\ v \in Vec(k) /\ x = u \o v
    <3>1. i - 1 = j
      BY <2>1
    <3>2. f[j] \in Vec(j * k)
      BY <1>3, <3>1, Zenon
    <3>3. f[i] = f[j] \o seqs[i] /\ seqs[i] \in Vec(k)
      <4>1. f[i] = f[i - 1] \o seqs[i]
        BY <1>1
      <4>2. i \in 1..m
        OBVIOUS
      <4> QED
        BY <3>1, <4>1, <4>2, Zenon
    <3> QED
      BY <2>2, <2>3, <3>2, <3>3, Zenon
  <2>5. u \in Seq(Nat) /\ v \in Seq(Nat) /\ Len(u) = a /\ Len(v) = k
    BY <2>4, VecIsSeq
  <2>6. /\ x \in Seq(Nat) /\ Len(x) = a + k
        /\ \A l \in 1..(a + k) : x[l] = IF l <= a THEN u[l] ELSE v[l - a]
    BY <2>4, <2>5, ConcatProperties
  <2>7. i * k = a + k
    BY <2>1, <2>2
  <2>8. x \in Vec(i * k)
    <3>1. x \in Vec(a + k)
      BY <2>6, SeqIsVec
    <3> QED
      BY <2>7, <3>1
  <2>9. ASSUME NEW r \in 0..(i - 1) PROVE Piece(x, r, k) = seqs[r + 1]
    <3>1. CASE r < j
      <4>1. r \in 0..(j - 1)
        BY <2>1, <3>1
      <4>2. Piece(u, r, k) = seqs[r + 1]
        BY <1>3, <2>1, <2>3, <4>1
      <4>3. ASSUME NEW c \in 1..k PROVE x[r * k + c] = u[r * k + c]
        <5>1. PICK l \in 1..a : l = r * k + c
          BY <2>2, <4>1, PieceIndex
        <5>2. l \in 1..(a + k) /\ l <= a
          OBVIOUS
        <5> QED
          BY <2>6, <5>1, <5>2
      <4> QED
        BY <4>2, <4>3 DEF Piece
    <3>2. CASE ~(r < j)
      <4>1. r = j /\ r + 1 = i
        BY <2>1, <3>2
      <4>2. ASSUME NEW c \in 1..k PROVE x[r * k + c] = v[c]
        <5>1. a + c \in 1..(a + k) /\ ~(a + c <= a) /\ (a + c) - a = c
          OBVIOUS
        <5>2. x[a + c] = v[c]
          BY <2>6, <5>1
        <5> QED
          BY <2>2, <4>1, <5>2
      <4>3. v = [c \in 1..k |-> v[c]]
        BY <2>4, VecIsSeq
      <4> QED
        BY <2>3, <4>1, <4>2, <4>3 DEF Piece
    <3> QED
      BY <3>1, <3>2
  <2> QED
    BY <2>3, <2>8, <2>9
<1> HIDE DEF ok
<1>4. S = 0..(m - 1)
  <2>1. S \in SUBSET (0..(m - 1)) /\ 0 \in S
    BY <1>2
  <2>2. ASSUME NEW j \in 1..(m - 1), j - 1 \in S PROVE j \in S
    <3>1. (j - 1) + 1 = j /\ j + 1 \in 2..m /\ (j + 1) - 1 = j
      OBVIOUS
    <3>2. ok((j - 1) + 1)
      BY <2>2
    <3>3. ok((j + 1) - 1)
      BY <3>1, <3>2
    <3>4. ok(j + 1)
      BY <1>3, <3>1, <3>3
    <3> QED
      BY <3>4
  <2>3. m - 1 \in Nat
    OBVIOUS
  <2> HIDE DEF S
  <2> QED
    BY <2>1, <2>2, <2>3, IntervalInduction
<1>5. ok(m)
  <2>1. m - 1 \in S
    <3>1. m - 1 \in 0..(m - 1)
      OBVIOUS
    <3> QED
      BY <1>4, <3>1, Zenon
  <2>2. (m - 1) + 1 = m
    OBVIOUS
  <2> QED
    BY <2>1, <2>2
<1> QED
  BY <1>1, <1>5 DEF ok

-----------------------------------------------------------------------------
(***************************************************************************)
(* The arithmetic of the forward passes.                                   *)
(***************************************************************************)

\* Vectors of numbers modulo P.
Res(n) == [1..n -> 0..(P - 1)]

LEMMA ResIsVec == \A n \in Nat : \A v \in Res(n) : v \in Vec(n)
<1>1. 0..(P - 1) \subseteq Nat
  BY PrimeAssumption
<1> QED
  BY <1>1 DEF Res, Vec

\* What a row is multiplied to.
Product(w, x, r, cols) == [c \in 1..cols |-> w[(r - 1) * cols + c] * x[c]]

LEMMA MatVecOf ==
    ASSUME NEW w, NEW x, NEW rows \in Nat, NEW cols \in Nat
    PROVE  MatVec(w, x, rows, cols) = [r \in 1..rows |-> Total(Product(w, x, r, cols))]
<1> DEFINE product(r) == [c \in 1..cols |-> w[(r - 1) * cols + c] * x[c]]
<1>1. MatVec(w, x, rows, cols) =
         SubSeq([r \in 1..rows |-> Total(SubSeq(product(r), 1, cols))], 1, rows)
  BY Zenon DEF MatVec, Vector, SumTo
<1>2. \A r : product(r) = Product(w, x, r, cols)
  BY Zenon DEF Product
<1>3. ASSUME NEW r PROVE SubSeq(product(r), 1, cols) = Product(w, x, r, cols)
  <2>1. PICK p : p = product(r)
    OBVIOUS
  <2>2. p = [c \in 1..cols |-> p[c]]
    BY <2>1
  <2>3. SubSeq(p, 1, cols) = p
    BY <2>2, VectorOf
  <2> QED
    BY <1>2, <2>1, <2>3, Zenon
<1> HIDE DEF product
<1>4. PICK g : g = [r \in 1..rows |-> Total(Product(w, x, r, cols))]
  OBVIOUS
<1>5. [r \in 1..rows |-> Total(SubSeq(product(r), 1, cols))] = g
  BY <1>3, <1>4, Zenon
<1>6. SubSeq(g, 1, rows) = g
  <2>1. g = [r \in 1..rows |-> g[r]]
    BY <1>4
  <2> QED
    BY <2>1, VectorOf
<1> QED
  BY <1>1, <1>4, <1>5, <1>6, Zenon

LEMMA ProductOf ==
    ASSUME NEW rows \in Nat, NEW cols \in Nat, NEW w \in Vec(rows * cols), NEW x \in Vec(cols),
           NEW r \in 1..rows
    PROVE  Product(w, x, r, cols) \in Vec(cols)
<1>1. ASSUME NEW c \in 1..cols PROVE w[(r - 1) * cols + c] * x[c] \in Nat
  <2>1. r - 1 \in 0..(rows - 1)
    OBVIOUS
  <2>2. PICK i \in 1..(rows * cols) : i = (r - 1) * cols + c
    BY <2>1, PieceIndex
  <2>3. w[i] \in Nat /\ x[c] \in Nat
    BY DEF Vec
  <2> QED
    BY <2>2, <2>3
<1> QED
  BY <1>1 DEF Product, Vec

LEMMA MatVecIs ==
    ASSUME NEW rows \in Nat, NEW cols \in Nat, NEW w \in Vec(rows * cols), NEW x \in Vec(cols)
    PROVE  MatVec(w, x, rows, cols) \in Res(rows)
<1>1. ASSUME NEW r \in 1..rows PROVE Total(Product(w, x, r, cols)) \in 0..(P - 1)
  BY ProductOf, TotalRange
<1>2. MatVec(w, x, rows, cols) = [r \in 1..rows |-> Total(Product(w, x, r, cols))]
  BY MatVecOf
<1> QED
  BY <1>1, <1>2 DEF Res

LEMMA AddOf ==
    ASSUME NEW n \in Nat, NEW x \in Vec(n), NEW y \in Vec(n)
    PROVE  Add(x, y) \in Vec(n)
<1>1. Len(x) = n
  BY VecIsSeq
<1>2. PICK g : g = [i \in 1..n |-> (x[i] + y[i]) % P]
  OBVIOUS
<1>3. Add(x, y) = SubSeq(g, 1, n)
  BY <1>1, <1>2, Zenon DEF Add, Vector
<1>4. g \in Vec(n)
  <2>1. \A i \in 1..n : (x[i] + y[i]) % P \in Nat
    BY PrimeAssumption DEF Vec
  <2> QED
    BY <1>2, <2>1 DEF Vec
<1>5. SubSeq(g, 1, n) = g
  BY <1>4, VecIsSeq, VectorOf
<1> QED
  BY <1>3, <1>4, <1>5

LEMMA FunctionsReturnNumbers == \A s \in 0..(P - 1) : NormScale(s) \in Nat /\ Silu(s) \in Nat
BY TpAssumption DEF TpAssumption

LEMMA SiluMulOf ==
    ASSUME NEW n \in Nat, NEW gate \in Res(n), NEW up \in Vec(n)
    PROVE  /\ SiluMul(gate, up) = [i \in 1..n |-> (Silu(gate[i]) * up[i]) % P]
           /\ SiluMul(gate, up) \in Vec(n)
<1>1. Len(gate) = n
  BY ResIsVec, VecIsSeq
<1>2. PICK g : g = [i \in 1..n |-> (Silu(gate[i]) * up[i]) % P]
  OBVIOUS
<1>3. SiluMul(gate, up) = SubSeq(g, 1, n)
  BY <1>1, <1>2, Zenon DEF SiluMul, Vector
<1>4. g \in Vec(n)
  <2>1. ASSUME NEW i \in 1..n PROVE (Silu(gate[i]) * up[i]) % P \in Nat
    <3>1. gate[i] \in 0..(P - 1)
      BY DEF Res
    <3>2. PICK a \in Nat, b \in Nat : a = Silu(gate[i]) /\ b = up[i]
      BY <3>1, FunctionsReturnNumbers DEF Vec
    <3>3. PICK e \in Nat : e = a * b
      OBVIOUS
    <3> QED
      BY <3>2, <3>3, PrimeAssumption
  <2> QED
    BY <1>2, <2>1 DEF Vec
<1>5. SubSeq(g, 1, n) = g
  BY <1>4, VecIsSeq, VectorOf
<1> QED
  BY <1>2, <1>3, <1>4, <1>5

LEMMA RmsNormOf ==
    ASSUME NEW n \in Nat, NEW x \in Vec(n), NEW w \in Vec(n)
    PROVE  RmsNorm(x, w) \in Vec(n)
<1>1. Len(x) = n
  BY VecIsSeq
<1>2. PICK sq : sq = [i \in 1..n |-> x[i] * x[i]]
  OBVIOUS
<1>3. sq \in Vec(n)
  <2>1. ASSUME NEW i \in 1..n PROVE x[i] * x[i] \in Nat
    <3>1. PICK a \in Nat : a = x[i]
      BY DEF Vec
    <3> QED
      BY <3>1
  <2> QED
    BY <1>2, <2>1 DEF Vec
<1>4. SubSeq(sq, 1, n) = sq
  BY <1>3, VecIsSeq, VectorOf
<1>5. PICK scale \in Nat : scale = NormScale(Total(sq))
  BY <1>3, TotalRange, FunctionsReturnNumbers
<1>6. PICK g : g = [i \in 1..n |-> (x[i] * scale * w[i]) % P]
  OBVIOUS
<1>7. RmsNorm(x, w) = SubSeq(g, 1, n)
  BY <1>1, <1>2, <1>4, <1>5, <1>6, Zenon DEF RmsNorm, Vector, SumTo
<1>8. g \in Vec(n)
  <2>1. ASSUME NEW i \in 1..n PROVE (x[i] * scale * w[i]) % P \in Nat
    <3>1. PICK a \in Nat, b \in Nat : a = x[i] /\ b = w[i]
      BY DEF Vec
    <3>2. PICK d \in Nat : d = a * scale
      OBVIOUS
    <3>3. PICK e \in Nat : e = d * b
      OBVIOUS
    <3> QED
      BY <3>1, <3>2, <3>3, PrimeAssumption
  <2> QED
    BY <1>6, <2>1 DEF Vec
<1>9. SubSeq(g, 1, n) = g
  BY <1>8, VecIsSeq, VectorOf
<1> QED
  BY <1>7, <1>8, <1>9

-----------------------------------------------------------------------------
(***************************************************************************)
(* Matrices that are split.                                                *)
(***************************************************************************)

\* Equal rows of two matrices.
SameRow(w, i, u, j, cols) ==
    \A c \in 1..cols : w[(i - 1) * cols + c] = u[(j - 1) * cols + c]

LEMMA SameProducts ==
    ASSUME NEW w, NEW i, NEW u, NEW j, NEW x, NEW cols, SameRow(w, i, u, j, cols)
    PROVE  Product(w, x, i, cols) = Product(u, x, j, cols)
BY Zenon DEF Product, SameRow

\* Split by rows: every rank has a piece of the product.
LEMMA ColumnParallel ==
    ASSUME NEW tp \in Nat, NEW k \in Nat, NEW cols \in Nat, NEW w, NEW x, NEW r \in 0..(tp - 1)
    PROVE  MatVec(Piece(w, r, k * cols), x, k, cols) = Piece(MatVec(w, x, tp * k, cols), r, k)
<1>1. PICK n, p : n \in Nat /\ n = tp * k /\ p = Piece(w, r, k * cols)
  OBVIOUS
<1>2. ASSUME NEW i \in 1..k PROVE Product(p, x, i, cols) = Product(w, x, r * k + i, cols)
  <2>1. ASSUME NEW c \in 1..cols PROVE p[(i - 1) * cols + c] = w[(r * k + i - 1) * cols + c]
    <3>1. i - 1 \in 0..(k - 1)
      OBVIOUS
    <3>2. PICK j \in 1..(k * cols) : j = (i - 1) * cols + c
      BY <3>1, PieceIndex
    <3>3. p[j] = w[r * (k * cols) + j]
      BY <1>1 DEF Piece
    <3>4. r * (k * cols) + j = (r * k + i - 1) * cols + c
      <4>1. PICK a \in Nat, b \in Nat : a = r * k /\ b = i - 1
        OBVIOUS
      <4>2. (a + b) * cols = a * cols + b * cols /\ a * cols = r * (k * cols)
        BY <4>1
      <4>3. PICK y \in Nat, z \in Nat : y = r * (k * cols) /\ z = b * cols
        OBVIOUS
      <4>4. r * k + i - 1 = a + b
        BY <4>1
      <4>5. (a + b) * cols = y + z
        BY <4>2, <4>3
      <4>6. j = z + c
        BY <3>2, <4>1, <4>3
      <4> QED
        BY <4>3, <4>4, <4>5, <4>6
    <3> QED
      BY <3>2, <3>3, <3>4
  <2> QED
    <3>1. PICK j : j = r * k + i
      OBVIOUS
    <3>2. SameRow(p, i, w, j, cols)
      BY <2>1, <3>1 DEF SameRow
    <3>3. Product(p, x, i, cols) = Product(w, x, j, cols)
      BY <3>2, SameProducts
    <3> QED
      BY <3>1, <3>3, Zenon
<1>3. PICK full : full = MatVec(w, x, n, cols)
  OBVIOUS
<1>4. full = [i \in 1..n |-> Total(Product(w, x, i, cols))]
  BY <1>1, <1>3, MatVecOf
<1>5. MatVec(p, x, k, cols) = [i \in 1..k |-> Total(Product(p, x, i, cols))]
  BY MatVecOf
<1>6. ASSUME NEW i \in 1..k PROVE full[r * k + i] = Total(Product(p, x, i, cols))
  <2>1. PICK j \in 1..n : j = r * k + i
    BY <1>1, PieceIndex
  <2>2. full[j] = Total(Product(w, x, j, cols))
    BY <1>4
  <2> QED
    BY <1>2, <2>1, <2>2
<1>7. MatVec(p, x, k, cols) = Piece(full, r, k)
  BY <1>5, <1>6 DEF Piece
<1> QED
  BY <1>1, <1>3, <1>7

\* Split by columns: p has the columns of rank r.
Columns(p, w, r, rows, tp, k) ==
    \A i \in 1..rows : \A c \in 1..k : p[(i - 1) * k + c] = w[(i - 1) * (tp * k) + (r * k + c)]

IsProduct(w, x, rows, tp, k) == w \in Vec(rows * (tp * k)) /\ x \in Vec(tp * k)

RowShares(ws, x, rows, tp, k, i) ==
    [r \in 1..tp |-> MatVec(ws[r - 1], Piece(x, r - 1, k), rows, k)[i]]

\* The sum of the ranks' products is the product.
LEMMA RowParallel ==
    ASSUME NEW tp \in Nat, NEW k \in Nat, NEW rows \in Nat,
           NEW w, NEW x, IsProduct(w, x, rows, tp, k), NEW ws,
           \A r \in 0..(tp - 1) : Columns(ws[r], w, r, rows, tp, k),
           NEW i \in 1..rows
    PROVE  Total(RowShares(ws, x, rows, tp, k, i)) = MatVec(w, x, rows, tp * k)[i]
<1>0. w \in Vec(rows * (tp * k)) /\ x \in Vec(tp * k)
  BY DEF IsProduct
<1>1. PICK n, full : n \in Nat /\ n = tp * k /\ full = Product(w, x, i, n)
  OBVIOUS
<1>2. full \in Vec(n)
  BY <1>0, <1>1, ProductOf
<1>3. ASSUME NEW r \in 0..(tp - 1)
      PROVE  MatVec(ws[r], Piece(x, r, k), rows, k)[i] = Total(Piece(full, r, k))
  <2>1. PICK p, y : p = ws[r] /\ y = Piece(x, r, k)
    OBVIOUS
  <2>2. ASSUME NEW c \in 1..k PROVE p[(i - 1) * k + c] * y[c] = full[r * k + c]
    <3>1. PICK j \in 1..n : j = r * k + c
      BY <1>1, PieceIndex
    <3>2. y[c] = x[j]
      BY <2>1, <3>1 DEF Piece
    <3>3. p[(i - 1) * k + c] = w[(i - 1) * n + j]
      BY <1>1, <2>1, <3>1 DEF Columns
    <3>4. full[j] = w[(i - 1) * n + j] * x[j]
      BY <1>1 DEF Product
    <3> QED
      BY <3>1, <3>2, <3>3, <3>4
  <2>3. Product(p, y, i, k) = Piece(full, r, k)
    BY <2>2 DEF Product, Piece
  <2>4. MatVec(p, y, rows, k) = [q \in 1..rows |-> Total(Product(p, y, q, k))]
    BY MatVecOf
  <2>5. MatVec(p, y, rows, k)[i] = Total(Product(p, y, i, k))
    BY <2>4
  <2> QED
    BY <2>1, <2>3, <2>5
<1>4. ASSUME NEW r \in 1..tp
      PROVE  MatVec(ws[r - 1], Piece(x, r - 1, k), rows, k)[i] = Total(Piece(full, r - 1, k))
  <2>1. r - 1 \in 0..(tp - 1)
    OBVIOUS
  <2> QED
    BY <1>3, <2>1, Zenon
<1>5. RowShares(ws, x, rows, tp, k, i) = [r \in 1..tp |-> Total(Piece(full, r - 1, k))]
  BY <1>4, Zenon DEF RowShares
<1>6. Total(full) = Total([r \in 1..tp |-> Total(Piece(full, r - 1, k))])
  BY <1>1, <1>2, TotalSplit
<1>7. MatVec(w, x, rows, n)[i] = Total(full)
  <2>1. MatVec(w, x, rows, n) = [q \in 1..rows |-> Total(Product(w, x, q, n))]
    BY <1>1, MatVecOf
  <2> QED
    BY <1>1, <2>1
<1> QED
  BY <1>1, <1>5, <1>6, <1>7, Zenon

-----------------------------------------------------------------------------
(***************************************************************************)
(* Attention, head by head.                                                *)
(***************************************************************************)

Score(q, cache, t, h, hd, g) == [d \in 1..hd |-> q[h * hd + d] * cache[t - 1].k[g * hd + d]]

Scores(q, cache, pos, h, hd, g) == [t \in 1..(pos + 1) |-> Total(Score(q, cache, t, h, hd, g))]

Mix(w, cache, pos, d, hd, g) == [t \in 1..(pos + 1) |-> w[t] * cache[t - 1].v[g * hd + d]]

\* The head h of q with the key-value head g.
HeadOf(q, cache, pos, h, hd, g) ==
    [d \in 1..hd |-> Total(Mix(Softmax(Scores(q, cache, pos, h, hd, g)), cache, pos, d, hd, g))]

HeadsOf(q, cache, pos, n_head, hd, kv) ==
    [h \in 1..n_head |-> HeadOf(q, cache, pos, h - 1, hd, kv[h - 1])]

LEMMA AttendOf ==
    ASSUME NEW q, NEW cache, NEW pos \in Nat, NEW n_head \in Nat, NEW hd \in Nat, NEW kv
    PROVE  Attend(q, cache, pos, n_head, hd, kv) = FlattenSeq(HeadsOf(q, cache, pos, n_head, hd, kv))
<1>p. PICK len \in Nat : len = pos + 1
  OBVIOUS
<1> DEFINE score(h, t) == [d \in 1..hd |-> q[h * hd + d] * cache[t - 1].k[kv[h] * hd + d]]
           scores(h) == [t \in 1..(pos + 1) |-> Total(SubSeq(score(h, t), 1, hd))]
           mix(h, d) == [t \in 1..(pos + 1) |-> Softmax(SubSeq(scores(h), 1, pos + 1))[t]
                                                  * cache[t - 1].v[kv[h] * hd + d]]
           head(h) == [d \in 1..hd |-> Total(SubSeq(mix(h, d), 1, pos + 1))]
<1>1. Attend(q, cache, pos, n_head, hd, kv)
         = FlattenSeq(SubSeq([h \in 1..n_head |-> SubSeq(head(h - 1), 1, hd)], 1, n_head))
  BY Zenon DEF Attend, Vector, SumTo
<1>2. ASSUME NEW h PROVE SubSeq(head(h), 1, hd) = HeadOf(q, cache, pos, h, hd, kv[h])
  <2>1. ASSUME NEW t PROVE SubSeq(score(h, t), 1, hd) = Score(q, cache, t, h, hd, kv[h])
    <3>1. PICK p : p = score(h, t)
      OBVIOUS
    <3>2. p = [d \in 1..hd |-> p[d]]
      BY <3>1
    <3>3. SubSeq(p, 1, hd) = p
      BY <3>2, VectorOf
    <3> QED
      BY <3>1, <3>3, Zenon DEF Score
  <2> HIDE DEF score
  <2>2. scores(h) = Scores(q, cache, pos, h, hd, kv[h])
    BY <2>1, Zenon DEF Scores
  <2>3. SubSeq(scores(h), 1, pos + 1) = Scores(q, cache, pos, h, hd, kv[h])
    <3>1. PICK p : p = scores(h)
      OBVIOUS
    <3>2. p = [d \in 1..len |-> p[d]]
      BY <1>p, <3>1
    <3>3. SubSeq(p, 1, len) = p
      BY <3>2, VectorOf
    <3> QED
      BY <1>p, <2>2, <3>1, <3>3, Zenon
  <2> HIDE DEF scores
  <2>4. ASSUME NEW d
        PROVE  SubSeq(mix(h, d), 1, pos + 1)
                  = Mix(Softmax(Scores(q, cache, pos, h, hd, kv[h])), cache, pos, d, hd, kv[h])
    <3>1. PICK p : p = mix(h, d)
      OBVIOUS
    <3>2. p = [t \in 1..len |-> p[t]]
      BY <1>p, <3>1
    <3>3. SubSeq(p, 1, len) = p
      BY <3>2, VectorOf
    <3>4. p = Mix(Softmax(Scores(q, cache, pos, h, hd, kv[h])), cache, pos, d, hd, kv[h])
      BY <2>3, <3>1, Zenon DEF Mix
    <3> QED
      BY <1>p, <3>1, <3>3, <3>4, Zenon
  <2> HIDE DEF mix
  <2>5. PICK p : p = head(h)
    OBVIOUS
  <2>6. p = [d \in 1..hd |-> p[d]]
    BY <2>5
  <2>7. SubSeq(p, 1, hd) = p
    BY <2>6, VectorOf
  <2>8. p = HeadOf(q, cache, pos, h, hd, kv[h])
    BY <2>4, <2>5, Zenon DEF HeadOf
  <2> QED
    BY <2>5, <2>7, <2>8, Zenon
<1> HIDE DEF score, scores, mix, head
<1>3. PICK g : g = [h \in 1..n_head |-> HeadOf(q, cache, pos, h - 1, hd, kv[h - 1])]
  OBVIOUS
<1>4. [h \in 1..n_head |-> SubSeq(head(h - 1), 1, hd)] = g
  BY <1>2, <1>3, Zenon
<1>5. SubSeq(g, 1, n_head) = g
  <2>1. g = [h \in 1..n_head |-> g[h]]
    BY <1>3
  <2> QED
    BY <2>1, VectorOf
<1> QED
  BY <1>1, <1>3, <1>4, <1>5, Zenon DEF HeadsOf

\* Numbers, where a head looks.
HeadReady(q, cache, pos, h, hd, g) ==
    /\ \A d \in 1..hd : q[h * hd + d] \in Nat
    /\ \A t \in 0..pos : \A d \in 1..hd :
          cache[t].k[g * hd + d] \in Nat /\ cache[t].v[g * hd + d] \in Nat

LEMMA SoftmaxReturnsNumbers ==
    ASSUME NEW pos \in 0..MaxPos, NEW s \in Res(pos + 1)
    PROVE  Softmax(s) \in Vec(pos + 1)
<1>1. MaxPos \in Nat /\ pos + 1 \in 1..(MaxPos + 1)
  BY TpAssumption DEF TpAssumption
<1>2. \A n \in 1..(MaxPos + 1) : \A x \in [1..n -> 0..(P - 1)] : Softmax(x) \in [1..n -> Nat]
  BY TpAssumption DEF TpAssumption
<1> QED
  BY <1>1, <1>2 DEF Res, Vec

LEMMA HeadIs ==
    ASSUME NEW q, NEW cache, NEW pos \in 0..MaxPos, NEW h, NEW hd \in Nat, NEW g,
           HeadReady(q, cache, pos, h, hd, g)
    PROVE  HeadOf(q, cache, pos, h, hd, g) \in Vec(hd)
<1>1. pos \in Nat
  BY TpAssumption DEF TpAssumption
<1>2. ASSUME NEW t \in 1..(pos + 1) PROVE Total(Score(q, cache, t, h, hd, g)) \in 0..(P - 1)
  <2>1. t - 1 \in 0..pos
    BY <1>1
  <2>2. ASSUME NEW d \in 1..hd PROVE q[h * hd + d] * cache[t - 1].k[g * hd + d] \in Nat
    <3>1. PICK a \in Nat, b \in Nat : a = q[h * hd + d] /\ b = cache[t - 1].k[g * hd + d]
      BY <2>1 DEF HeadReady
    <3> QED
      BY <3>1
  <2>3. Score(q, cache, t, h, hd, g) \in Vec(hd)
    BY <2>2 DEF Score, Vec
  <2> QED
    BY <2>3, TotalRange
<1>3. Scores(q, cache, pos, h, hd, g) \in Res(pos + 1)
  BY <1>2 DEF Scores, Res
<1>4. PICK w \in Vec(pos + 1) : w = Softmax(Scores(q, cache, pos, h, hd, g))
  BY <1>3, SoftmaxReturnsNumbers
<1>5. ASSUME NEW d \in 1..hd PROVE Total(Mix(w, cache, pos, d, hd, g)) \in Nat
  <2>1. ASSUME NEW t \in 1..(pos + 1) PROVE w[t] * cache[t - 1].v[g * hd + d] \in Nat
    <3>1. t - 1 \in 0..pos
      BY <1>1
    <3>2. PICK a \in Nat, b \in Nat : a = w[t] /\ b = cache[t - 1].v[g * hd + d]
      BY <3>1 DEF HeadReady, Vec
    <3> QED
      BY <3>2
  <2>2. Mix(w, cache, pos, d, hd, g) \in Vec(pos + 1)
    BY <2>1 DEF Mix, Vec
  <2>3. pos + 1 \in Nat /\ 0..(P - 1) \subseteq Nat
    BY <1>1, PrimeAssumption
  <2> QED
    BY <2>2, <2>3, TotalRange
<1>6. HeadOf(q, cache, pos, h, hd, g) = [d \in 1..hd |-> Total(Mix(w, cache, pos, d, hd, g))]
  BY <1>4, Zenon DEF HeadOf
<1> QED
  BY <1>5, <1>6 DEF Vec

\* Heads that look at the same numbers.
SameHead(q, cache, h, g, other, others, i, j, pos, hd) ==
    /\ \A d \in 1..hd : q[h * hd + d] = other[i * hd + d]
    /\ \A t \in 0..pos : \A d \in 1..hd :
          /\ cache[t].k[g * hd + d] = others[t].k[j * hd + d]
          /\ cache[t].v[g * hd + d] = others[t].v[j * hd + d]

LEMMA SameHeadOf ==
    ASSUME NEW q, NEW cache, NEW h, NEW g, NEW other, NEW others, NEW i, NEW j,
           NEW pos \in Nat, NEW hd \in Nat, SameHead(q, cache, h, g, other, others, i, j, pos, hd)
    PROVE  HeadOf(q, cache, pos, h, hd, g) = HeadOf(other, others, pos, i, hd, j)
<1>0. \A t \in 1..(pos + 1) : t - 1 \in 0..pos
  OBVIOUS
<1>1. ASSUME NEW t \in 1..(pos + 1)
      PROVE  Score(q, cache, t, h, hd, g) = Score(other, others, t, i, hd, j)
  <2>1. \A d \in 1..hd : /\ q[h * hd + d] = other[i * hd + d]
                         /\ cache[t - 1].k[g * hd + d] = others[t - 1].k[j * hd + d]
    BY <1>0, Zenon DEF SameHead
  <2> QED
    BY <2>1, Zenon DEF Score
<1>2. Scores(q, cache, pos, h, hd, g) = Scores(other, others, pos, i, hd, j)
  BY <1>1, Zenon DEF Scores
<1>3. PICK w : w = Softmax(Scores(q, cache, pos, h, hd, g))
  OBVIOUS
<1>4. ASSUME NEW d \in 1..hd PROVE Mix(w, cache, pos, d, hd, g) = Mix(w, others, pos, d, hd, j)
  <2>1. \A t \in 1..(pos + 1) : cache[t - 1].v[g * hd + d] = others[t - 1].v[j * hd + d]
    BY <1>0, Zenon DEF SameHead
  <2> QED
    BY <2>1, Zenon DEF Mix
<1> QED
  BY <1>2, <1>3, <1>4, Zenon DEF HeadOf

\* Attention split over the ranks.
Served(n_head, g) == [h \in 0..(n_head - 1) |-> h \div g]

IsEntries(cache, pos, n) == \A t \in 0..pos : cache[t].k \in Vec(n) /\ cache[t].v \in Vec(n)

PieceEntries(cache, pos, r, n) ==
    [t \in 0..pos |-> [k |-> Piece(cache[t].k, r, n), v |-> Piece(cache[t].v, r, n)]]

\* n groups of g.
Grouped(total, n, g) == total = n * g

\* What attention is given.
AttendReady(q, cache, pos, n_head, kvs, hd, g) ==
    Grouped(n_head, kvs, g) /\ q \in Vec(n_head * hd) /\ IsEntries(cache, pos, kvs * hd)

\* Every head gives numbers.
LEMMA HeadsAre ==
    ASSUME NEW kvs \in Nat, NEW g \in Nat \ {0}, NEW hd \in Nat, NEW pos \in 0..MaxPos,
           NEW n_head \in Nat, NEW q, NEW cache, AttendReady(q, cache, pos, n_head, kvs, hd, g),
           NEW h \in 0..(n_head - 1)
    PROVE  HeadOf(q, cache, pos, h, hd, h \div g) \in Vec(hd)
<1>0. n_head = kvs * g /\ q \in Vec(n_head * hd) /\ IsEntries(cache, pos, kvs * hd)
  BY DEF AttendReady, Grouped
<1>1. PICK j \in 0..(kvs - 1) : j = h \div g
  <2>1. PICK j \in Nat, e \in Nat : j = h \div g /\ e < g /\ h = g * j + e
    <3>1. h \div g \in Nat /\ h % g \in Nat /\ h % g < g /\ h = g * (h \div g) + (h % g)
      OBVIOUS
    <3> QED
      BY <3>1
  <2>2. j < kvs
    <3>1. SUFFICES ASSUME j >= kvs PROVE FALSE
      BY <2>1
    <3>2. PICK d \in Nat : j = kvs + d
      <4>1. j - kvs \in Nat /\ j = kvs + (j - kvs)
        BY <3>1
      <4> QED
        BY <4>1
    <3>3. g * j = kvs * g + g * d /\ g * d \in Nat
      BY <3>2
    <3>4. h < kvs * g
      BY <1>0
    <3> QED
      BY <2>1, <3>3, <3>4
  <2>3. j \in 0..(kvs - 1)
    BY <2>1, <2>2
  <2> QED
    BY <2>1, <2>3, Zenon
<1>2. ASSUME NEW d \in 1..hd PROVE q[h * hd + d] \in Nat
  <2>1. h * hd + d \in 1..(n_head * hd)
    BY PieceIndex
  <2> QED
    BY <1>0, <2>1 DEF Vec
<1>3. ASSUME NEW t \in 0..pos, NEW d \in 1..hd
      PROVE  cache[t].k[j * hd + d] \in Nat /\ cache[t].v[j * hd + d] \in Nat
  <2>1. PICK i \in 1..(kvs * hd) : i = j * hd + d
    BY PieceIndex
  <2>2. cache[t].k \in Vec(kvs * hd) /\ cache[t].v \in Vec(kvs * hd)
    BY <1>0 DEF IsEntries
  <2>3. cache[t].k[i] \in Nat /\ cache[t].v[i] \in Nat
    BY <2>2 DEF Vec
  <2> QED
    BY <2>1, <2>3
<1>4. HeadReady(q, cache, pos, h, hd, j)
  BY <1>2, <1>3 DEF HeadReady
<1> QED
  BY <1>1, <1>4, HeadIs

LEMMA AttendIs ==
    ASSUME NEW kvs \in Nat \ {0}, NEW g \in Nat \ {0}, NEW hd \in Nat, NEW pos \in 0..MaxPos,
           NEW n_head \in Nat, NEW q, NEW cache, AttendReady(q, cache, pos, n_head, kvs, hd, g)
    PROVE  /\ Attend(q, cache, pos, n_head, hd, Served(n_head, g)) \in Vec(n_head * hd)
           /\ \A h \in 0..(n_head - 1) :
                 Piece(Attend(q, cache, pos, n_head, hd, Served(n_head, g)), h, hd)
                    = HeadOf(q, cache, pos, h, hd, h \div g)
<1>1. pos \in Nat
  BY TpAssumption DEF TpAssumption
<1>2. PICK kv : kv = Served(n_head, g)
  OBVIOUS
<1>3. PICK seqs : seqs = HeadsOf(q, cache, pos, n_head, hd, kv)
  OBVIOUS
<1>4. Attend(q, cache, pos, n_head, hd, kv) = FlattenSeq(seqs)
  BY <1>1, <1>3, AttendOf
<1>5. ASSUME NEW h \in 0..(n_head - 1)
      PROVE  /\ seqs[h + 1] = HeadOf(q, cache, pos, h, hd, h \div g)
             /\ HeadOf(q, cache, pos, h, hd, h \div g) \in Vec(hd)
  <2>1. kv[h] = h \div g
    BY <1>2 DEF Served
  <2>2. h + 1 \in 1..n_head /\ (h + 1) - 1 = h
    OBVIOUS
  <2>3. seqs[h + 1] = HeadOf(q, cache, pos, (h + 1) - 1, hd, kv[(h + 1) - 1])
    BY <1>3, <2>2, Zenon DEF HeadsOf
  <2>4. seqs[h + 1] = HeadOf(q, cache, pos, h, hd, h \div g)
    BY <2>1, <2>2, <2>3, Zenon
  <2> QED
    BY <2>4, HeadsAre
<1>6. n_head # 0
  <2>1. n_head = kvs * g
    BY DEF AttendReady, Grouped
  <2> QED
    BY <2>1
<1>7. seqs \in [1..n_head -> Vec(hd)]
  <2>1. ASSUME NEW i \in 1..n_head PROVE seqs[i] \in Vec(hd)
    <3>1. PICK h \in 0..(n_head - 1) : h + 1 = i
      <4>1. i - 1 \in 0..(n_head - 1) /\ (i - 1) + 1 = i
        OBVIOUS
      <4> QED
        BY <4>1
    <3> QED
      BY <1>5, <3>1
  <2>2. seqs = [i \in 1..n_head |-> seqs[i]]
    BY <1>3, Zenon DEF HeadsOf
  <2> QED
    BY <2>1, <2>2
<1>8. /\ FlattenSeq(seqs) \in Vec(n_head * hd)
      /\ \A h \in 0..(n_head - 1) : Piece(FlattenSeq(seqs), h, hd) = seqs[h + 1]
  BY <1>6, <1>7, FlattenOf
<1>9. \A h \in 0..(n_head - 1) :
         Piece(FlattenSeq(seqs), h, hd) = HeadOf(q, cache, pos, h, hd, h \div g)
  BY <1>5, <1>8, Zenon
<1> QED
  BY <1>2, <1>4, <1>8, <1>9, Zenon

\* What attention is given before it is split.
SplitReady(q, cache, pos, tp, nh, kvs, hd, g) ==
    /\ nh = kvs * g
    /\ q \in Vec((tp * nh) * hd) /\ IsEntries(cache, pos, (tp * kvs) * hd)

\* What a rank attends to is its piece of all.
LEMMA AttendSplit ==
    ASSUME NEW tp \in Nat \ {0}, NEW kvs \in Nat \ {0}, NEW g \in Nat \ {0}, NEW hd \in Nat,
           NEW pos \in 0..MaxPos, NEW nh \in Nat, NEW q, NEW cache,
           SplitReady(q, cache, pos, tp, nh, kvs, hd, g), NEW r \in 0..(tp - 1)
    PROVE  Attend(Piece(q, r, nh * hd), PieceEntries(cache, pos, r, kvs * hd), pos, nh, hd,
                  Served(nh, g))
              = Piece(Attend(q, cache, pos, tp * nh, hd, Served(tp * nh, g)), r, nh * hd)
<1>0. pos \in Nat /\ nh = kvs * g
  BY TpAssumption DEF TpAssumption, SplitReady
<1>i. q \in Vec((tp * nh) * hd) /\ IsEntries(cache, pos, (tp * kvs) * hd)
  BY DEF SplitReady
<1>1. PICK part, entries : part = Piece(q, r, nh * hd) /\ entries = PieceEntries(cache, pos, r, kvs * hd)
  OBVIOUS
<1>2. PICK n \in Nat : n = tp * nh
  OBVIOUS
<1>3. (tp * nh) * hd = tp * (nh * hd) /\ (tp * kvs) * hd = tp * (kvs * hd) /\ n = (tp * kvs) * g
  BY <1>0, <1>2
<1>4. part \in Vec(nh * hd)
  BY <1>1, <1>3, <1>i, PieceOf
<1>5. ASSUME NEW t \in 0..pos
      PROVE  /\ entries[t].k = Piece(cache[t].k, r, kvs * hd)
             /\ entries[t].v = Piece(cache[t].v, r, kvs * hd)
  <2>1. entries[t] = [k |-> Piece(cache[t].k, r, kvs * hd), v |-> Piece(cache[t].v, r, kvs * hd)]
    BY <1>1 DEF PieceEntries
  <2> QED
    BY <2>1
<1>6. IsEntries(entries, pos, kvs * hd)
  <2>1. ASSUME NEW t \in 0..pos PROVE entries[t].k \in Vec(kvs * hd) /\ entries[t].v \in Vec(kvs * hd)
    <3>1. PICK key, value : key = cache[t].k /\ value = cache[t].v
      OBVIOUS
    <3>2. key \in Vec(tp * (kvs * hd)) /\ value \in Vec(tp * (kvs * hd))
      BY <1>3, <1>i, <3>1 DEF IsEntries
    <3>3. Piece(key, r, kvs * hd) \in Vec(kvs * hd) /\ Piece(value, r, kvs * hd) \in Vec(kvs * hd)
      BY <3>2, PieceOf
    <3> QED
      BY <1>5, <3>1, <3>3
  <2> QED
    BY <2>1 DEF IsEntries
<1>7. PICK a, b : /\ a = Attend(part, entries, pos, nh, hd, Served(nh, g))
                  /\ b = Attend(q, cache, pos, n, hd, Served(n, g))
  OBVIOUS
<1>8. /\ a \in Vec(nh * hd)
      /\ \A h \in 0..(nh - 1) : Piece(a, h, hd) = HeadOf(part, entries, pos, h, hd, h \div g)
  <2>1. AttendReady(part, entries, pos, nh, kvs, hd, g)
    BY <1>0, <1>4, <1>6 DEF AttendReady, Grouped
  <2> QED
    BY <1>7, <2>1, AttendIs
<1>9. /\ b \in Vec(n * hd)
      /\ \A h \in 0..(n - 1) : Piece(b, h, hd) = HeadOf(q, cache, pos, h, hd, h \div g)
  <2>1. tp * kvs \in Nat \ {0}
    OBVIOUS
  <2>2. PICK all \in Nat \ {0} : all = tp * kvs
    BY <2>1
  <2>3. AttendReady(q, cache, pos, n, all, hd, g)
    <3>1. n = all * g
      BY <1>3, <2>2
    <3>2. q \in Vec(n * hd)
      BY <1>2, <1>i
    <3>3. IsEntries(cache, pos, all * hd)
      BY <1>i, <2>2
    <3> QED
      BY <3>1, <3>2, <3>3 DEF AttendReady, Grouped
  <2>4. /\ Attend(q, cache, pos, n, hd, Served(n, g)) \in Vec(n * hd)
        /\ \A h \in 0..(n - 1) :
              Piece(Attend(q, cache, pos, n, hd, Served(n, g)), h, hd)
                 = HeadOf(q, cache, pos, h, hd, h \div g)
    BY <2>2, <2>3, AttendIs
  <2> QED
    BY <1>7, <2>4, Zenon
<1>10. ASSUME NEW h \in 0..(nh - 1)
       PROVE  Piece(Piece(b, r, nh * hd), h, hd) = Piece(a, h, hd)
  <2>1. Piece(Piece(b, r, nh * hd), h, hd) = Piece(b, r * nh + h, hd)
    <3>1. r \in Nat /\ h \in Nat /\ h < nh
      OBVIOUS
    <3>2. PieceIn(b, r, h, nh, hd) = Piece(b, r * nh + h, hd)
      BY <3>1, PieceOfPiece
    <3> QED
      BY <3>2, Zenon DEF PieceIn
  <2>2. PICK i \in 0..(n - 1) : i = r * nh + h
    <3>1. h + 1 \in 1..nh
      OBVIOUS
    <3>2. r * nh + (h + 1) \in 1..(tp * nh)
      BY <3>1, PieceIndex
    <3>3. r * nh \in Nat
      OBVIOUS
    <3>4. r * nh + h \in 0..(n - 1)
      BY <1>2, <3>2, <3>3
    <3> QED
      BY <3>4
  <2>3. PICK j \in Nat : j = h \div g /\ j < kvs /\ i \div g = r * kvs + j
    <3>1. PICK j \in Nat, e \in Nat : j = h \div g /\ e < g /\ h = g * j + e
      <4>1. h \div g \in Nat /\ h % g \in Nat /\ h % g < g /\ h = g * (h \div g) + (h % g)
        OBVIOUS
      <4> QED
        BY <4>1
    <3>2. j < kvs
      <4>1. SUFFICES ASSUME j >= kvs PROVE FALSE
        BY <3>1
      <4>2. PICK d \in Nat : j = kvs + d
        <5>1. j - kvs \in Nat /\ j = kvs + (j - kvs)
          BY <4>1
        <5> QED
          BY <5>1
      <4>3. g * j = kvs * g + g * d /\ g * d \in Nat
        BY <4>2
      <4>4. h < kvs * g
        BY <1>0
      <4> QED
        BY <3>1, <4>3, <4>4
    <3>3. PICK s \in Nat : s = r * kvs + j
      OBVIOUS
    <3>4. i = g * s + e
      <4>1. PICK x \in Nat : x = r * kvs
        OBVIOUS
      <4>2. g * (x + j) = g * x + g * j /\ g * x = r * nh
        BY <1>0, <4>1
      <4>3. PICK y \in Nat, z \in Nat : y = g * x /\ z = g * j
        BY <4>1
      <4> QED
        BY <2>2, <3>1, <3>3, <4>1, <4>2, <4>3
    <3>5. (g * s + e) \div g = s
      BY <3>1, DivUnique
    <3> QED
      BY <3>1, <3>2, <3>3, <3>4, <3>5
  <2>4. SameHead(part, entries, h, j, q, cache, i, r * kvs + j, pos, hd)
    <3>1. ASSUME NEW d \in 1..hd PROVE part[h * hd + d] = q[i * hd + d]
      <4>1. Piece(q, r, nh * hd)[h * hd + d] = q[(r * nh + h) * hd + d]
        <5>1. r \in Nat /\ h \in Nat /\ h < nh
          OBVIOUS
        <5>2. InPiece(q, r, h, nh, hd, d) = InWhole(q, r, h, nh, hd, d)
          BY <5>1, PieceAt
        <5> QED
          BY <5>2, Zenon DEF InPiece, InWhole
      <4> QED
        BY <1>1, <2>2, <4>1
    <3>2. ASSUME NEW t \in 0..pos, NEW d \in 1..hd
          PROVE  /\ entries[t].k[j * hd + d] = cache[t].k[(r * kvs + j) * hd + d]
                 /\ entries[t].v[j * hd + d] = cache[t].v[(r * kvs + j) * hd + d]
      <4>1. PICK key, value : key = cache[t].k /\ value = cache[t].v
        OBVIOUS
      <4>2. /\ Piece(key, r, kvs * hd)[j * hd + d] = key[(r * kvs + j) * hd + d]
            /\ Piece(value, r, kvs * hd)[j * hd + d] = value[(r * kvs + j) * hd + d]
        <5>1. r \in Nat /\ j \in Nat /\ j < kvs
          BY <2>3
        <5>2. \A v \in {key, value} : InPiece(v, r, j, kvs, hd, d) = InWhole(v, r, j, kvs, hd, d)
          BY <5>1, PieceAt
        <5> QED
          BY <5>2, Zenon DEF InPiece, InWhole
      <4> QED
        BY <1>5, <4>1, <4>2, Zenon
    <3> QED
      BY <3>1, <3>2 DEF SameHead
  <2>5. HeadOf(part, entries, pos, h, hd, j) = HeadOf(q, cache, pos, i, hd, r * kvs + j)
    BY <1>0, <2>4, SameHeadOf
  <2>6. Piece(b, i, hd) = HeadOf(q, cache, pos, i, hd, i \div g)
    BY <1>9
  <2>7. Piece(a, h, hd) = HeadOf(part, entries, pos, h, hd, j)
    BY <1>8, <2>3
  <2> QED
    BY <2>1, <2>2, <2>3, <2>5, <2>6, <2>7
<1>11. Piece(b, r, nh * hd) \in Vec(nh * hd)
  <2>1. PICK k \in Nat : k = nh * hd
    OBVIOUS
  <2>2. n * hd = tp * k
    BY <1>2, <1>3, <2>1
  <2>3. b \in Vec(tp * k)
    BY <1>9, <2>2
  <2>4. Piece(b, r, k) \in Vec(k)
    BY <2>3, PieceOf
  <2> QED
    BY <2>1, <2>4
<1>12. Piece(b, r, nh * hd) = a
  BY <1>8, <1>10, <1>11, PiecesDetermine
<1> QED
  BY <1>1, <1>2, <1>7, <1>12, Zenon
-----------------------------------------------------------------------------
(***************************************************************************)
(* Blocks that are split.                                                  *)
(***************************************************************************)

\* The attention block on a normalised state.
AttnWith(wq, wo, x, cache, pos, n_head, g, hd, n_embd) ==
    MatVec(wo, Attend(MatVec(wq, x, n_head * hd, n_embd), cache, pos, n_head, hd, Served(n_head, g)),
           n_embd, n_head * hd)

LEMMA AttnWithIs ==
    ASSUME NEW kvs \in Nat \ {0}, NEW g \in Nat \ {0}, NEW hd \in Nat, NEW pos \in 0..MaxPos,
           NEW n \in Nat, Grouped(n, kvs, g), NEW n_embd \in Nat,
           NEW wq \in Vec((n * hd) * n_embd), NEW wo \in Vec(n_embd * (n * hd)), NEW x \in Vec(n_embd),
           NEW cache, IsEntries(cache, pos, kvs * hd)
    PROVE  AttnWith(wq, wo, x, cache, pos, n, g, hd, n_embd) \in Res(n_embd)
<1>1. PICK size \in Nat : size = n * hd
  OBVIOUS
<1>2. PICK q \in Vec(size) : q = MatVec(wq, x, size, n_embd)
  BY <1>1, MatVecIs, ResIsVec
<1>3. AttendReady(q, cache, pos, n, kvs, hd, g)
  BY <1>1 DEF AttendReady
<1>4. PICK a : a = Attend(q, cache, pos, n, hd, Served(n, g))
  OBVIOUS
<1>5. a \in Vec(n * hd)
  BY <1>3, <1>4, AttendIs
<1>6. MatVec(wo, a, n_embd, size) \in Res(n_embd)
  BY <1>1, <1>5, MatVecIs
<1> QED
  BY <1>1, <1>2, <1>4, <1>6, Zenon DEF AttnWith

\* What rank r has of an attention block.
AttnShare(wq, wos, x, cache, pos, tp, kvs, g, hd, n_embd, r) ==
    AttnWith(Piece(wq, r, (kvs * g * hd) * n_embd), wos[r], x, PieceEntries(cache, pos, r, kvs * hd),
             pos, kvs * g, g, hd, n_embd)

AttnShares(wq, wos, x, cache, pos, tp, kvs, g, hd, n_embd, i) ==
    [r \in 1..tp |-> AttnShare(wq, wos, x, cache, pos, tp, kvs, g, hd, n_embd, r - 1)[i]]

\* Weights of a block, and their shards by columns.
SplitWeights(wq, wo, wos, tp, k, n_embd) ==
    /\ wq \in Vec((tp * k) * n_embd) /\ wo \in Vec(n_embd * (tp * k))
    /\ \A r \in 0..(tp - 1) : Columns(wos[r], wo, r, n_embd, tp, k)

BlockReady(wq, wo, wos, cache, pos, tp, kvs, g, hd, n_embd) ==
    /\ SplitWeights(wq, wo, wos, tp, kvs * g * hd, n_embd)
    /\ IsEntries(cache, pos, (tp * kvs) * hd)

AttnAddsUp(wq, wo, wos, x, cache, pos, tp, kvs, g, hd, n_embd) ==
    \A i \in 1..n_embd :
        Total(AttnShares(wq, wos, x, cache, pos, tp, kvs, g, hd, n_embd, i))
           = AttnWith(wq, wo, x, cache, pos, tp * (kvs * g), g, hd, n_embd)[i]

\* The shares add up to the block.
LEMMA AttnSplit ==
    ASSUME NEW tp \in Nat \ {0}, NEW kvs \in Nat \ {0}, NEW g \in Nat \ {0}, NEW hd \in Nat,
           NEW pos \in 0..MaxPos, NEW n_embd \in Nat,
           NEW wq, NEW wo, NEW wos, NEW x \in Vec(n_embd), NEW cache,
           BlockReady(wq, wo, wos, cache, pos, tp, kvs, g, hd, n_embd)
    PROVE  AttnAddsUp(wq, wo, wos, x, cache, pos, tp, kvs, g, hd, n_embd)
<1> SUFFICES ASSUME NEW i \in 1..n_embd
             PROVE  Total(AttnShares(wq, wos, x, cache, pos, tp, kvs, g, hd, n_embd, i))
                       = AttnWith(wq, wo, x, cache, pos, tp * (kvs * g), g, hd, n_embd)[i]
  BY Zenon DEF AttnAddsUp
<1>1. PICK nh \in Nat : nh = kvs * g
  OBVIOUS
<1>2. PICK k \in Nat : k = nh * hd
  OBVIOUS
<1>3. PICK n \in Nat : n = tp * nh
  OBVIOUS
<1>4. kvs * g * hd = k /\ n * hd = tp * k
  BY <1>1, <1>2, <1>3
<1>5. PICK size \in Nat : size = tp * k
  OBVIOUS
<1>6. /\ wq \in Vec(size * n_embd) /\ wo \in Vec(n_embd * (tp * k))
      /\ \A r \in 0..(tp - 1) : Columns(wos[r], wo, r, n_embd, tp, k)
  BY <1>4, <1>5, Zenon DEF SplitWeights, BlockReady
<1>e. IsEntries(cache, pos, (tp * kvs) * hd)
  BY DEF BlockReady
<1>7. PICK q \in Vec(size) : q = MatVec(wq, x, size, n_embd)
  BY <1>6, MatVecIs, ResIsVec
<1>8. PICK a : a = Attend(q, cache, pos, n, hd, Served(n, g))
  OBVIOUS
<1>9. a \in Vec(tp * k)
  <2>1. PICK all \in Nat \ {0} : all = tp * kvs
    OBVIOUS
  <2>2. Grouped(n, all, g)
    BY <1>1, <1>3, <2>1 DEF Grouped
  <2>3. AttendReady(q, cache, pos, n, all, hd, g)
    <3>1. n * hd = size
      BY <1>4, <1>5
    <3> QED
      BY <1>e, <2>1, <2>2, <3>1 DEF AttendReady
  <2>4. a \in Vec(n * hd)
    BY <1>8, <2>3, AttendIs
  <2> QED
    BY <1>4, <2>4
<1>10. ASSUME NEW r \in 0..(tp - 1)
       PROVE  AttnShare(wq, wos, x, cache, pos, tp, kvs, g, hd, n_embd, r)
                 = MatVec(wos[r], Piece(a, r, k), n_embd, k)
  <2>1. MatVec(Piece(wq, r, k * n_embd), x, k, n_embd) = Piece(q, r, k)
    BY <1>5, <1>7, ColumnParallel
  <2>2. Attend(Piece(q, r, k), PieceEntries(cache, pos, r, kvs * hd), pos, nh, hd, Served(nh, g))
           = Piece(a, r, k)
    <3>1. SplitReady(q, cache, pos, tp, nh, kvs, hd, g)
      BY <1>1, <1>3, <1>4, <1>5, <1>e DEF SplitReady
    <3>2. Attend(Piece(q, r, nh * hd), PieceEntries(cache, pos, r, kvs * hd), pos, nh, hd, Served(nh, g))
             = Piece(Attend(q, cache, pos, tp * nh, hd, Served(tp * nh, g)), r, nh * hd)
      BY <3>1, AttendSplit
    <3> QED
      BY <1>2, <1>3, <1>8, <3>2, Zenon
  <2> QED
    BY <1>1, <1>2, <1>4, <2>1, <2>2, Zenon DEF AttnShare, AttnWith
<1>11. AttnShares(wq, wos, x, cache, pos, tp, kvs, g, hd, n_embd, i)
          = RowShares(wos, a, n_embd, tp, k, i)
  <2>1. \A r \in 1..tp : r - 1 \in 0..(tp - 1)
    OBVIOUS
  <2> QED
    BY <1>10, <2>1, Zenon DEF AttnShares, RowShares
<1>12. Total(RowShares(wos, a, n_embd, tp, k, i))
          = MatVec(wo, a, n_embd, tp * k)[i]
  <2>1. \A r \in 0..(tp - 1) : Columns(wos[r], wo, r, n_embd, tp, k)
    BY <1>6
  <2>2. IsProduct(wo, a, n_embd, tp, k)
    BY <1>6, <1>9 DEF IsProduct
  <2> QED
    BY <2>1, <2>2, RowParallel
<1>13. AttnWith(wq, wo, x, cache, pos, n, g, hd, n_embd) = MatVec(wo, a, n_embd, tp * k)
  BY <1>4, <1>5, <1>7, <1>8, Zenon DEF AttnWith
<1> QED
  BY <1>1, <1>3, <1>11, <1>12, <1>13, Zenon

\* What rank r has of a feed-forward block.
MlpShare(w1, w2s, w3, x, n_embd, k, r) ==
    FeedForward(Piece(w1, r, k * n_embd), w2s[r], Piece(w3, r, k * n_embd), x, n_embd, k)

MlpShares(w1, w2s, w3, x, n_embd, tp, k, i) ==
    [r \in 1..tp |-> MlpShare(w1, w2s, w3, x, n_embd, k, r - 1)[i]]

LEMMA FeedForwardIs ==
    ASSUME NEW n_embd \in Nat, NEW n_ff \in Nat, NEW w1 \in Vec(n_ff * n_embd),
           NEW w2 \in Vec(n_embd * n_ff), NEW w3 \in Vec(n_ff * n_embd), NEW x \in Vec(n_embd)
    PROVE  FeedForward(w1, w2, w3, x, n_embd, n_ff) \in Res(n_embd)
<1>1. PICK gate, up : gate = MatVec(w1, x, n_ff, n_embd) /\ up = MatVec(w3, x, n_ff, n_embd)
  OBVIOUS
<1>2. gate \in Res(n_ff) /\ up \in Vec(n_ff)
  BY <1>1, MatVecIs, ResIsVec
<1>3. SiluMul(gate, up) \in Vec(n_ff)
  BY <1>2, SiluMulOf
<1>4. MatVec(w2, SiluMul(gate, up), n_embd, n_ff) \in Res(n_embd)
  BY <1>3, MatVecIs
<1> QED
  BY <1>1, <1>4, Zenon DEF FeedForward

MlpAddsUp(w1, w2, w2s, w3, x, n_embd, tp, k) ==
    \A i \in 1..n_embd :
        Total(MlpShares(w1, w2s, w3, x, n_embd, tp, k, i))
           = FeedForward(w1, w2, w3, x, n_embd, tp * k)[i]

LEMMA MlpSplit ==
    ASSUME NEW tp \in Nat \ {0}, NEW k \in Nat, NEW n_embd \in Nat,
           NEW w1, NEW w2, NEW w2s, NEW w3, NEW x \in Vec(n_embd),
           SplitWeights(w1, w2, w2s, tp, k, n_embd), SplitWeights(w3, w2, w2s, tp, k, n_embd)
    PROVE  MlpAddsUp(w1, w2, w2s, w3, x, n_embd, tp, k)
<1> SUFFICES ASSUME NEW i \in 1..n_embd
             PROVE  Total(MlpShares(w1, w2s, w3, x, n_embd, tp, k, i))
                       = FeedForward(w1, w2, w3, x, n_embd, tp * k)[i]
  BY Zenon DEF MlpAddsUp
<1>0. /\ w1 \in Vec((tp * k) * n_embd) /\ w3 \in Vec((tp * k) * n_embd)
      /\ w2 \in Vec(n_embd * (tp * k))
      /\ \A r \in 0..(tp - 1) : Columns(w2s[r], w2, r, n_embd, tp, k)
  BY DEF SplitWeights
<1>1. PICK size \in Nat : size = tp * k
  OBVIOUS
<1>2. PICK gate, up : gate = MatVec(w1, x, size, n_embd) /\ up = MatVec(w3, x, size, n_embd)
  OBVIOUS
<1>3. gate \in Res(size) /\ up \in Vec(size)
  BY <1>0, <1>1, <1>2, MatVecIs, ResIsVec
<1>4. PICK h : h = SiluMul(gate, up)
  OBVIOUS
<1>5. h \in Vec(size) /\ h = [c \in 1..size |-> (Silu(gate[c]) * up[c]) % P]
  BY <1>3, <1>4, SiluMulOf
<1>6. ASSUME NEW r \in 0..(tp - 1)
      PROVE  MlpShare(w1, w2s, w3, x, n_embd, k, r) = MatVec(w2s[r], Piece(h, r, k), n_embd, k)
  <2>1. /\ MatVec(Piece(w1, r, k * n_embd), x, k, n_embd) = Piece(gate, r, k)
        /\ MatVec(Piece(w3, r, k * n_embd), x, k, n_embd) = Piece(up, r, k)
    BY <1>1, <1>2, ColumnParallel
  <2>2. PICK a, b : a = Piece(gate, r, k) /\ b = Piece(up, r, k)
    OBVIOUS
  <2>3. a \in Res(k) /\ b \in Vec(k)
    <3>1. ASSUME NEW c \in 1..k PROVE gate[r * k + c] \in 0..(P - 1)
      <4>1. r * k + c \in 1..size
        BY <1>1, PieceIndex
      <4> QED
        BY <1>3, <4>1 DEF Res
    <3>2. Piece(gate, r, k) \in Res(k)
      BY <3>1 DEF Piece, Res
    <3>3. Piece(up, r, k) \in Vec(k)
      BY <1>1, <1>3, PieceOf
    <3> QED
      BY <2>2, <3>2, <3>3
  <2>4. SiluMul(a, b) = [c \in 1..k |-> (Silu(a[c]) * b[c]) % P]
    BY <2>3, SiluMulOf
  <2>5. ASSUME NEW c \in 1..k PROVE (Silu(a[c]) * b[c]) % P = h[r * k + c]
    <3>1. PICK j \in 1..size : j = r * k + c
      BY <1>1, PieceIndex
    <3>2. a[c] = gate[j] /\ b[c] = up[j]
      BY <2>2, <3>1 DEF Piece
    <3>3. h[j] = (Silu(gate[j]) * up[j]) % P
      BY <1>5
    <3> QED
      BY <3>1, <3>2, <3>3, Zenon
  <2>6. SiluMul(a, b) = Piece(h, r, k)
    BY <2>4, <2>5, Zenon DEF Piece
  <2> QED
    BY <2>1, <2>2, <2>6, Zenon DEF MlpShare, FeedForward
<1>7. MlpShares(w1, w2s, w3, x, n_embd, tp, k, i)
         = RowShares(w2s, h, n_embd, tp, k, i)
  <2>1. \A r \in 1..tp : r - 1 \in 0..(tp - 1)
    OBVIOUS
  <2> QED
    BY <1>6, <2>1, Zenon DEF MlpShares, RowShares
<1>8. Total(RowShares(w2s, h, n_embd, tp, k, i))
         = MatVec(w2, h, n_embd, tp * k)[i]
  <2>1. IsProduct(w2, h, n_embd, tp, k)
    BY <1>0, <1>1, <1>5 DEF IsProduct
  <2> QED
    BY <1>0, <2>1, RowParallel
<1>9. FeedForward(w1, w2, w3, x, n_embd, tp * k) = MatVec(w2, h, n_embd, tp * k)
  BY <1>1, <1>2, <1>4, Zenon DEF FeedForward
<1> QED
  BY <1>7, <1>8, <1>9, Zenon
-----------------------------------------------------------------------------
(***************************************************************************)
(* The shards of a model.                                                  *)
(***************************************************************************)

IsMatrix(t, rows, cols) == t.shape = <<cols, rows>> /\ t.data \in Vec(rows * cols)

LEMMA MatrixRows ==
    ASSUME NEW rows \in Nat \ {0}, NEW cols \in Nat, NEW t, IsMatrix(t, rows, cols)
    PROVE  /\ t.shape[Len(t.shape)] = rows /\ t.shape[1] = cols
           /\ Len(t.data) = rows * cols /\ Len(t.data) \div rows = cols
<1>1. t.shape = <<cols, rows>>
  BY DEF IsMatrix
<1>2. Len(<<cols, rows>>) = 2 /\ <<cols, rows>>[2] = rows /\ <<cols, rows>>[1] = cols
  OBVIOUS
<1>3. PICK n \in Nat : n = rows * cols
  OBVIOUS
<1>4. Len(t.data) = n
  <2>1. t.data \in Vec(n)
    BY <1>3 DEF IsMatrix
  <2> QED
    BY <2>1, VecIsSeq
<1>5. n \div rows = cols
  <2>1. n = rows * cols + 0
    BY <1>3
  <2>2. (rows * cols + 0) \div rows = cols
    BY DivUnique
  <2> QED
    BY <2>1, <2>2
<1> QED
  BY <1>1, <1>2, <1>3, <1>4, <1>5

LEMMA Quotient ==
    ASSUME NEW n \in Nat, NEW d \in Nat \ {0}, n % d = 0
    PROVE  n \div d \in Nat /\ n = d * (n \div d)
<1>1. n = d * (n \div d) + (n % d) /\ n \div d \in Nat
  OBVIOUS
<1> QED
  BY <1>1

LEMMA OnePiece ==
    ASSUME NEW n \in Nat, NEW v \in Vec(n)
    PROVE  Piece(v, 0, n) = v
<1>1. \A c \in 1..n : 0 * n + c = c
  OBVIOUS
<1>2. v = [c \in 1..n |-> v[c]]
  BY VecIsSeq
<1> QED
  BY <1>1, <1>2 DEF Piece

\* A shard by rows.
LEMMA ColumnShard ==
    ASSUME NEW tp \in Nat \ {0}, NEW k \in Nat, NEW rows \in Nat \ {0}, Grouped(rows, tp, k),
           NEW cols \in Nat, NEW t, IsMatrix(t, rows, cols),
           NEW part, ShardStrategy(part) = "Column", NEW r \in 0..(tp - 1)
    PROVE  Shard(part, t, tp, r) = Piece(t.data, r, k * cols)
<1>1. /\ t.shape[Len(t.shape)] = rows /\ Len(t.data) \div rows = cols
  BY MatrixRows, Zenon
<1>2. rows \div tp = k
  <2>1. (tp * k + 0) \div tp = k
    BY DivUnique
  <2>2. tp * k + 0 = rows
    BY DEF Grouped
  <2> QED
    BY <2>1, <2>2
<1>3. PICK n \in Nat : n = k * cols
  OBVIOUS
<1>4. rows * cols = tp * n
  BY <1>3 DEF Grouped
<1>5. t.data \in Vec(tp * n)
  BY <1>4 DEF IsMatrix
<1>6. CASE tp <= 1
  <2>1. tp = 1 /\ r = 0 /\ tp * n = n
    BY <1>6
  <2>2. Shard(part, t, tp, r) = t.data
    BY <1>6 DEF Shard
  <2>3. t.data \in Vec(n)
    BY <1>5, <2>1
  <2>4. Piece(t.data, 0, n) = t.data
    BY <2>3, OnePiece
  <2> QED
    BY <1>3, <2>1, <2>2, <2>4
<1>7. CASE ~(tp <= 1)
  <2>1. "Column" # "Replicated"
    OBVIOUS
  <2>2. Shard(part, t, tp, r)
           = SubSeq(t.data, r * (rows \div tp) * (Len(t.data) \div rows) + 1,
                            (r + 1) * (rows \div tp) * (Len(t.data) \div rows))
    BY <1>1, <1>7, <2>1, Zenon DEF Shard
  <2>3. r * k * cols = r * n /\ (r + 1) * k * cols = (r + 1) * n
    BY <1>3
  <2>4. Shard(part, t, tp, r) = SubSeq(t.data, r * n + 1, (r + 1) * n)
    BY <1>1, <1>2, <2>2, <2>3
  <2>5. SubSeq(t.data, r * n + 1, (r + 1) * n) = Piece(t.data, r, n)
    BY <1>5, RangePiece
  <2> QED
    BY <1>3, <2>4, <2>5
<1> QED
  BY <1>6, <1>7

\* A shard by columns.
LEMMA RowShard ==
    ASSUME NEW tp \in Nat \ {0}, NEW k \in Nat, NEW rows \in Nat \ {0}, NEW cols \in Nat,
           Grouped(cols, tp, k), NEW t, IsMatrix(t, rows, cols),
           NEW part, ShardStrategy(part) = "Row", NEW r \in 0..(tp - 1)
    PROVE  Columns(Shard(part, t, tp, r), t.data, r, rows, tp, k)
<1>1. /\ t.shape[Len(t.shape)] = rows /\ Len(t.data) \div rows = cols
  BY MatrixRows, Zenon
<1>2. cols \div tp = k
  <2>1. (tp * k + 0) \div tp = k
    BY DivUnique
  <2>2. tp * k + 0 = cols
    BY DEF Grouped
  <2> QED
    BY <2>1, <2>2
<1>3. PICK data : data = t.data
  OBVIOUS
<1>4. PICK size \in Nat : size = rows * cols
  OBVIOUS
<1>5. data \in Vec(size)
  BY <1>3, <1>4 DEF IsMatrix
<1>6. CASE tp <= 1
  <2>1. tp = 1 /\ r = 0
    BY <1>6
  <2>2. Shard(part, t, tp, r) = data
    BY <1>3, <1>6 DEF Shard
  <2>3. ASSUME NEW i \in 1..rows, NEW c \in 1..k
        PROVE  data[(i - 1) * k + c] = data[(i - 1) * (tp * k) + (r * k + c)]
    BY <2>1
  <2> QED
    BY <1>3, <2>2, <2>3, Zenon DEF Columns
<1>7. CASE ~(tp <= 1)
  <2>1. "Row" # "Replicated" /\ "Row" # "Column"
    OBVIOUS
  <2> DEFINE rng(q) == SubSeq(data, (q - 1) * cols + r * k + 1, (q - 1) * cols + (r + 1) * k)
  <2>2. Shard(part, t, tp, r) = FlattenSeq(SubSeq([q \in 1..rows |-> rng(q)], 1, rows))
    BY <1>1, <1>2, <1>3, <1>7, <2>1, Zenon DEF Shard, Vector
  <2>3. ASSUME NEW q \in 1..rows
        PROVE  /\ rng(q) \in Vec(k)
               /\ \A c \in 1..k : rng(q)[c] = data[(q - 1) * cols + (r * k + c)]
    <3>1. PICK a \in Nat, b \in Nat : a = (q - 1) * cols /\ b = r * k
      OBVIOUS
    <3>2. a + cols <= size
      <4>1. q - 1 \in 0..(rows - 1)
        OBVIOUS
      <4>2. (q - 1) * cols + cols \in 0..(rows * cols)
        <5>1. CASE cols = 0
          BY <5>1
        <5>2. CASE cols # 0
          <6>1. cols \in 1..cols
            BY <5>2
          <6> QED
            BY <4>1, <6>1, PieceIndex
        <5> QED
          BY <5>1, <5>2
      <4> QED
        BY <1>4, <3>1, <4>2
    <3>3. b + k <= cols
      <4>1. CASE k = 0
        <5>1. b = 0
          BY <3>1, <4>1
        <5>2. cols \in Nat
          OBVIOUS
        <5> QED
          BY <4>1, <5>1, <5>2
      <4>2. CASE k # 0
        <5>1. k \in 1..k
          BY <4>2
        <5>2. r * k + k \in 0..(tp * k)
          BY <5>1, PieceIndex
        <5> QED
          BY <3>1, <5>2 DEF Grouped
      <4> QED
        BY <4>1, <4>2
    <3>4. PICK e \in Nat : e = a + b
      OBVIOUS
    <3>5. e + k <= size
      BY <3>1, <3>2, <3>3, <3>4
    <3>6. rng(q) = SubSeq(data, e + 1, e + k)
      <4>1. (q - 1) * cols + r * k + 1 = e + 1
        BY <3>1, <3>4
      <4>2. (q - 1) * cols + (r + 1) * k = e + k
        <5>1. (r + 1) * k = r * k + k
          OBVIOUS
        <5> QED
          BY <3>1, <3>4, <5>1
      <4> QED
        BY <4>1, <4>2, Zenon
    <3>7. SubSeq(data, e + 1, e + k) = [c \in 1..k |-> data[e + c]] /\ SubSeq(data, e + 1, e + k) \in Vec(k)
      BY <1>5, <3>5, RangeOf
    <3>8. ASSUME NEW c \in 1..k PROVE rng(q)[c] = data[(q - 1) * cols + (r * k + c)]
      <4>1. e + c = (q - 1) * cols + (r * k + c)
        BY <3>1, <3>4
      <4>2. rng(q)[c] = data[e + c]
        BY <3>6, <3>7, Zenon
      <4> QED
        BY <4>1, <4>2, Zenon
    <3> HIDE DEF rng
    <3> QED
      BY <3>6, <3>7, <3>8, Zenon
  <2> HIDE DEF rng
  <2>4. PICK seqs : seqs = [q \in 1..rows |-> rng(q)]
    OBVIOUS
  <2>5. SubSeq(seqs, 1, rows) = seqs
    <3>1. seqs = [q \in 1..rows |-> seqs[q]]
      BY <2>4
    <3> QED
      BY <3>1, VectorOf
  <2>6. seqs \in [1..rows -> Vec(k)]
    BY <2>3, <2>4
  <2>7. PICK f : f = FlattenSeq(seqs)
    OBVIOUS
  <2>8. \A q \in 0..(rows - 1) : Piece(f, q, k) = seqs[q + 1]
    BY <2>6, <2>7, FlattenOf
  <2>9. ASSUME NEW i \in 1..rows, NEW c \in 1..k
        PROVE  f[(i - 1) * k + c] = data[(i - 1) * (tp * k) + (r * k + c)]
    <3>1. PICK q \in 0..(rows - 1) : q = i - 1 /\ q + 1 = i
      OBVIOUS
    <3>2. Piece(f, q, k)[c] = f[q * k + c]
      BY DEF Piece
    <3>3. seqs[i] = rng(i)
      BY <2>4
    <3>4. rng(i)[c] = data[(i - 1) * cols + (r * k + c)]
      BY <2>3
    <3>5. f[q * k + c] = data[q * cols + (r * k + c)]
      BY <2>8, <3>1, <3>2, <3>3, <3>4, Zenon
    <3>6. tp * k = cols
      BY DEF Grouped
    <3> QED
      BY <3>1, <3>5, <3>6, Zenon
  <2>10. Shard(part, t, tp, r) = f
    BY <2>2, <2>4, <2>5, <2>7, Zenon
  <2>11. Columns(f, data, r, rows, tp, k)
    BY <2>9, Zenon DEF Columns
  <2> QED
    BY <1>3, <2>10, <2>11, Zenon
<1> QED
  BY <1>6, <1>7
-----------------------------------------------------------------------------
\* The tensors of a model, by their shapes.
HasMatrix(tensors, n, rows, cols) == n \in DOMAIN tensors /\ IsMatrix(tensors[n], rows, cols)

HasNorm(tensors, n, size) == n \in DOMAIN tensors /\ tensors[n].data \in Vec(size)

HasLayer(m, tensors, l) ==
    /\ HasNorm(tensors, <<"attention_norm", l>>, m.n_embd)
    /\ HasMatrix(tensors, <<"wq", l>>, m.n_embd, m.n_embd)
    /\ HasMatrix(tensors, <<"wo", l>>, m.n_embd, m.n_embd)
    /\ HasNorm(tensors, <<"ffn_norm", l>>, m.n_embd)
    /\ HasMatrix(tensors, <<"w1", l>>, m.n_ff, m.n_embd)
    /\ HasMatrix(tensors, <<"w2", l>>, m.n_embd, m.n_ff)
    /\ HasMatrix(tensors, <<"w3", l>>, m.n_ff, m.n_embd)

HasTensors(m, tensors) ==
    /\ HasMatrix(tensors, <<"token_embd", 0>>, m.n_vocab, m.n_embd)
    /\ HasNorm(tensors, <<"output_norm", 0>>, m.n_embd)
    /\ HasMatrix(tensors, <<"output", 0>>, m.n_vocab, m.n_embd)
    /\ \A l \in 1..m.n_layer : HasLayer(m, tensors, l)

\* What TpAssumption says of a size.
IsTpMeta(m) ==
    /\ m.n_vocab \in Nat \ {0} /\ m.n_embd \in Nat \ {0} /\ m.n_head \in Nat \ {0}
    /\ m.n_head_kv \in Nat \ {0} /\ m.head_dim \in Nat \ {0} /\ m.n_ff \in Nat \ {0}
    /\ m.n_layer \in Nat

LEMMA TpMetaOf == \A name \in DOMAIN TpModels : IsTpMeta(TpModels[name].meta)
BY TpAssumption DEF TpAssumption, IsTpMeta

LEMMA TensorHere ==
    ASSUME NEW name \in DOMAIN TpModels, NEW n, NEW shape,
           Demands(TpModels[name].meta, <<n, shape>>)
    PROVE  /\ n \in DOMAIN TpModels[name].tensors
           /\ TpModels[name].tensors[n].shape = shape
           /\ TpModels[name].tensors[n].data \in Seq(Nat)
           /\ Len(TpModels[name].tensors[n].data) = NElements(shape)
<1>1. PICK m, tensors : m = TpModels[name].meta /\ tensors = TpModels[name].tensors
  OBVIOUS
<1>2. m.n_layer \in Nat
  BY <1>1, TpMetaOf DEF IsTpMeta
<1>3. ValidateError(m, tensors) = "none" /\ \A x \in DOMAIN tensors : Len(tensors[x].data) = NElements(tensors[x].shape)
  BY <1>1, StoreAssumption DEF StoreAssumption
<1>4. Demands(m, <<n, shape>>)
  BY <1>1
<1>5. n \in DOMAIN tensors /\ tensors[n].shape = shape
  BY <1>2, <1>3, <1>4, Validated
<1>6. \A x \in DOMAIN tensors : tensors[x].data \in Seq(Nat)
  BY <1>1, TpAssumption DEF TpAssumption
<1> QED
  BY <1>1, <1>3, <1>5, <1>6

LEMMA MatrixHere ==
    ASSUME NEW name \in DOMAIN TpModels, NEW n, NEW rows \in Nat, NEW cols \in Nat,
           Demands(TpModels[name].meta, <<n, <<cols, rows>>>>)
    PROVE  HasMatrix(TpModels[name].tensors, n, rows, cols)
<1>1. PICK shape : shape = <<cols, rows>> /\ shape \in Seq(Nat)
  <2>1. <<cols, rows>> \in Seq(Nat)
    OBVIOUS
  <2> QED
    BY <2>1
<1>2. PICK tensors, t : tensors = TpModels[name].tensors /\ t = tensors[n]
  OBVIOUS
<1>3. n \in DOMAIN tensors /\ t.shape = shape /\ t.data \in Seq(Nat) /\ Len(t.data) = NElements(shape)
  BY <1>1, <1>2, TensorHere
<1>4. NElements(shape) = cols * rows
  BY <1>1, Elements
<1>5. PICK size \in Nat : size = rows * cols
  OBVIOUS
<1>6. t.data \in Vec(size)
  <2>1. Len(t.data) = size
    BY <1>3, <1>4, <1>5
  <2> QED
    BY <1>3, <2>1, SeqIsVec
<1> QED
  BY <1>1, <1>2, <1>3, <1>5, <1>6, Zenon DEF HasMatrix, IsMatrix

LEMMA NormHere ==
    ASSUME NEW name \in DOMAIN TpModels, NEW n, NEW size \in Nat,
           Demands(TpModels[name].meta, <<n, <<size>>>>)
    PROVE  HasNorm(TpModels[name].tensors, n, size)
<1>1. PICK shape : shape = <<size>> /\ shape \in Seq(Nat)
  OBVIOUS
<1>2. PICK tensors, t : tensors = TpModels[name].tensors /\ t = tensors[n]
  OBVIOUS
<1>3. n \in DOMAIN tensors /\ t.data \in Seq(Nat) /\ Len(t.data) = NElements(shape)
  BY <1>1, <1>2, TensorHere
<1>4. NElements(shape) = size
  BY <1>1, Elements
<1>5. t.data \in Vec(size)
  BY <1>3, <1>4, SeqIsVec
<1> QED
  BY <1>2, <1>3, <1>5, Zenon DEF HasNorm

LEMMA ModelHere ==
    ASSUME NEW name \in DOMAIN TpModels
    PROVE  HasTensors(TpModels[name].meta, TpModels[name].tensors)
<1>1. PICK m, tensors : m = TpModels[name].meta /\ tensors = TpModels[name].tensors
  OBVIOUS
<1>2. IsTpMeta(m)
  BY <1>1, TpMetaOf
<1>3. m.n_vocab \in Nat /\ m.n_embd \in Nat /\ m.n_ff \in Nat /\ m.n_layer \in Nat
  BY <1>2 DEF IsTpMeta
<1>4. /\ Demands(m, <<<<"token_embd", 0>>, <<m.n_embd, m.n_vocab>>>>)
      /\ Demands(m, <<<<"output_norm", 0>>, <<m.n_embd>>>>)
      /\ Demands(m, <<<<"output", 0>>, <<m.n_embd, m.n_vocab>>>>)
      /\ \A l \in 1..m.n_layer : \A j \in 1..9 : Demands(m, LayerList(m, l)[j])
  BY <1>3, ExpectedEntries
<1>5. /\ HasMatrix(tensors, <<"token_embd", 0>>, m.n_vocab, m.n_embd)
      /\ HasMatrix(tensors, <<"output", 0>>, m.n_vocab, m.n_embd)
  BY <1>1, <1>3, <1>4, MatrixHere
<1>6. HasNorm(tensors, <<"output_norm", 0>>, m.n_embd)
  BY <1>1, <1>3, <1>4, NormHere
<1>7. ASSUME NEW l \in 1..m.n_layer PROVE HasLayer(m, tensors, l)
  <2>1. /\ LayerList(m, l)[1] = <<<<"attention_norm", l>>, <<m.n_embd>>>>
        /\ LayerList(m, l)[2] = <<<<"wq", l>>, <<m.n_embd, m.n_embd>>>>
        /\ LayerList(m, l)[5] = <<<<"wo", l>>, <<m.n_embd, m.n_embd>>>>
        /\ LayerList(m, l)[6] = <<<<"ffn_norm", l>>, <<m.n_embd>>>>
        /\ LayerList(m, l)[7] = <<<<"w1", l>>, <<m.n_embd, m.n_ff>>>>
        /\ LayerList(m, l)[8] = <<<<"w2", l>>, <<m.n_ff, m.n_embd>>>>
        /\ LayerList(m, l)[9] = <<<<"w3", l>>, <<m.n_embd, m.n_ff>>>>
    BY SMTT(30) DEF LayerList
  <2>2. {1, 2, 5, 6, 7, 8, 9} \subseteq 1..9
    OBVIOUS
  <2>3. /\ Demands(m, <<<<"attention_norm", l>>, <<m.n_embd>>>>)
        /\ Demands(m, <<<<"wq", l>>, <<m.n_embd, m.n_embd>>>>)
        /\ Demands(m, <<<<"wo", l>>, <<m.n_embd, m.n_embd>>>>)
        /\ Demands(m, <<<<"ffn_norm", l>>, <<m.n_embd>>>>)
        /\ Demands(m, <<<<"w1", l>>, <<m.n_embd, m.n_ff>>>>)
        /\ Demands(m, <<<<"w2", l>>, <<m.n_ff, m.n_embd>>>>)
        /\ Demands(m, <<<<"w3", l>>, <<m.n_embd, m.n_ff>>>>)
    <3>1. \A j \in {1, 2, 5, 6, 7, 8, 9} : Demands(m, LayerList(m, l)[j])
      BY <1>4, <2>2
    <3> QED
      BY <2>1, <3>1
  <2>4. /\ HasNorm(tensors, <<"attention_norm", l>>, m.n_embd)
        /\ HasNorm(tensors, <<"ffn_norm", l>>, m.n_embd)
    BY <1>1, <1>3, <2>3, NormHere
  <2>5. /\ HasMatrix(tensors, <<"wq", l>>, m.n_embd, m.n_embd)
        /\ HasMatrix(tensors, <<"wo", l>>, m.n_embd, m.n_embd)
        /\ HasMatrix(tensors, <<"w1", l>>, m.n_ff, m.n_embd)
        /\ HasMatrix(tensors, <<"w2", l>>, m.n_embd, m.n_ff)
        /\ HasMatrix(tensors, <<"w3", l>>, m.n_ff, m.n_embd)
    BY <1>1, <1>3, <2>3, MatrixHere
  <2> QED
    BY <2>4, <2>5 DEF HasLayer
<1> QED
  BY <1>1, <1>5, <1>6, <1>7 DEF HasTensors
-----------------------------------------------------------------------------
\* No tensor has an error with this degree.
Shardable(tensors, quantization, tp) ==
    \A n \in DOMAIN tensors : ShardError(n[1], tensors[n].shape, quantization, tp) = "none"

\* The elements of every tensor.
DataOf(tensors) == [n \in DOMAIN tensors |-> tensors[n].data]

LEMMA DivisibleRows ==
    ASSUME NEW tp \in Nat \ {0}, NEW rows \in Nat \ {0}, NEW cols \in Nat, NEW t,
           IsMatrix(t, rows, cols), NEW part, ShardStrategy(part) = "Column", NEW quantization,
           ShardError(part, t.shape, quantization, tp) = "none"
    PROVE  rows % tp = 0
<1>1. t.shape[Len(t.shape)] = rows
  BY MatrixRows
<1>2. CASE tp <= 1
  BY <1>2
<1>3. CASE ~(tp <= 1)
  <2>1. t.shape[Len(t.shape)] % tp = 0
    BY <1>3, Zenon DEF ShardError
  <2> QED
    BY <1>1, <2>1
<1> QED
  BY <1>2, <1>3

LEMMA DivisibleColumns ==
    ASSUME NEW tp \in Nat \ {0}, NEW rows \in Nat \ {0}, NEW cols \in Nat, NEW t,
           IsMatrix(t, rows, cols), NEW part, ShardStrategy(part) = "Row", NEW quantization,
           ShardError(part, t.shape, quantization, tp) = "none"
    PROVE  cols % tp = 0
<1>1. t.shape[1] = cols
  BY MatrixRows
<1>2. CASE tp <= 1
  BY <1>2
<1>3. CASE ~(tp <= 1)
  <2>1. t.shape[1] % tp = 0
    BY <1>3, Zenon DEF ShardError
  <2> QED
    BY <1>1, <2>1
<1> QED
  BY <1>2, <1>3

\* What a rank has of a tensor.
RankTensor(tensors, tp, r, n) == Sharded(tensors, tp)[r][n]

LEMMA ShardedOf ==
    ASSUME NEW tensors, NEW tp \in Nat \ {0}, NEW r \in 0..(tp - 1), NEW n \in DOMAIN tensors
    PROVE  RankTensor(tensors, tp, r, n) = Shard(n[1], tensors[n], tp, r)
BY Zenon DEF Sharded, RankTensor

\* Split by rows, split by columns, or not at all.
HasRows(ws, w, n, r, size) == ws[n] = Piece(w[n], r, size)

HasColumns(ws, w, n, r, rows, tp, k) == Columns(ws[n], w[n], r, rows, tp, k)

HasAll(ws, w, n) == ws[n] = w[n]

LEMMA RankRows ==
    ASSUME NEW tensors, NEW tp \in Nat \ {0}, NEW quantization, Shardable(tensors, quantization, tp),
           NEW rows \in Nat \ {0}, NEW cols \in Nat, NEW n, HasMatrix(tensors, n, rows, cols),
           ShardStrategy(n[1]) = "Column", NEW r \in 0..(tp - 1)
    PROVE  /\ rows % tp = 0
           /\ HasRows(Sharded(tensors, tp)[r], DataOf(tensors), n, r, (rows \div tp) * cols)
<1>1. PICK t : t = tensors[n]
  OBVIOUS
<1>2. n \in DOMAIN tensors /\ IsMatrix(t, rows, cols)
  BY <1>1 DEF HasMatrix
<1>3. ShardError(n[1], t.shape, quantization, tp) = "none"
  BY <1>1, <1>2 DEF Shardable
<1>4. rows % tp = 0
  BY <1>2, <1>3, DivisibleRows
<1>5. PICK k \in Nat : k = rows \div tp /\ rows = tp * k
  BY <1>4, Quotient
<1>6. Grouped(rows, tp, k)
  BY <1>5 DEF Grouped
<1>7. Shard(n[1], t, tp, r) = Piece(t.data, r, k * cols)
  BY <1>2, <1>6, ColumnShard
<1>8. RankTensor(tensors, tp, r, n) = Shard(n[1], t, tp, r)
  BY <1>1, <1>2, ShardedOf
<1>9. DataOf(tensors)[n] = t.data
  BY <1>1, <1>2 DEF DataOf
<1> QED
  BY <1>4, <1>5, <1>7, <1>8, <1>9, Zenon DEF HasRows, RankTensor

LEMMA RankColumns ==
    ASSUME NEW tensors, NEW tp \in Nat \ {0}, NEW quantization, Shardable(tensors, quantization, tp),
           NEW rows \in Nat \ {0}, NEW cols \in Nat, NEW n, HasMatrix(tensors, n, rows, cols),
           ShardStrategy(n[1]) = "Row", NEW r \in 0..(tp - 1)
    PROVE  /\ cols % tp = 0
           /\ HasColumns(Sharded(tensors, tp)[r], DataOf(tensors), n, r, rows, tp, cols \div tp)
<1>1. PICK t : t = tensors[n]
  OBVIOUS
<1>2. n \in DOMAIN tensors /\ IsMatrix(t, rows, cols)
  BY <1>1 DEF HasMatrix
<1>3. ShardError(n[1], t.shape, quantization, tp) = "none"
  BY <1>1, <1>2 DEF Shardable
<1>4. cols % tp = 0
  BY <1>2, <1>3, DivisibleColumns
<1>5. PICK k \in Nat : k = cols \div tp /\ cols = tp * k
  BY <1>4, Quotient
<1>6. Grouped(cols, tp, k)
  BY <1>5 DEF Grouped
<1>7. Columns(Shard(n[1], t, tp, r), t.data, r, rows, tp, k)
  BY <1>2, <1>6, RowShard
<1>8. RankTensor(tensors, tp, r, n) = Shard(n[1], t, tp, r)
  BY <1>1, <1>2, ShardedOf
<1>9. DataOf(tensors)[n] = t.data
  BY <1>1, <1>2 DEF DataOf
<1> QED
  BY <1>4, <1>5, <1>7, <1>8, <1>9, Zenon DEF HasColumns, RankTensor

LEMMA RankAll ==
    ASSUME NEW tensors, NEW tp \in Nat \ {0}, NEW n \in DOMAIN tensors,
           ShardStrategy(n[1]) = "Replicated", NEW r \in 0..(tp - 1)
    PROVE  HasAll(Sharded(tensors, tp)[r], DataOf(tensors), n)
<1>1. Shard(n[1], tensors[n], tp, r) = tensors[n].data
  BY Zenon DEF Shard
<1>2. RankTensor(tensors, tp, r, n) = Shard(n[1], tensors[n], tp, r)
  BY ShardedOf
<1>3. DataOf(tensors)[n] = tensors[n].data
  BY DEF DataOf
<1> QED
  BY <1>1, <1>2, <1>3, Zenon DEF HasAll, RankTensor

\* What a rank has of the weights of a layer, and of the others.
SplitLayer(m, tp, w, ws, r, l) ==
    /\ HasAll(ws, w, <<"attention_norm", l>>) /\ HasAll(ws, w, <<"ffn_norm", l>>)
    /\ HasRows(ws, w, <<"wq", l>>, r, (m.n_embd \div tp) * m.n_embd)
    /\ HasColumns(ws, w, <<"wo", l>>, r, m.n_embd, tp, m.n_embd \div tp)
    /\ HasRows(ws, w, <<"w1", l>>, r, (m.n_ff \div tp) * m.n_embd)
    /\ HasRows(ws, w, <<"w3", l>>, r, (m.n_ff \div tp) * m.n_embd)
    /\ HasColumns(ws, w, <<"w2", l>>, r, m.n_embd, tp, m.n_ff \div tp)
    /\ m.n_ff % tp = 0

SplitModel(m, tp, w, ws, r) ==
    /\ HasAll(ws, w, <<"token_embd", 0>>) /\ HasAll(ws, w, <<"output_norm", 0>>)
    /\ HasRows(ws, w, <<"output", 0>>, r, (m.n_vocab \div tp) * m.n_embd)
    /\ m.n_vocab % tp = 0
    /\ \A l \in 1..m.n_layer : SplitLayer(m, tp, w, ws, r, l)

LEMMA ShardsSplit ==
    ASSUME NEW m, IsTpMeta(m), NEW tensors, HasTensors(m, tensors), NEW tp \in Nat \ {0},
           NEW quantization, Shardable(tensors, quantization, tp), NEW r \in 0..(tp - 1)
    PROVE  SplitModel(m, tp, DataOf(tensors), Sharded(tensors, tp)[r], r)
<1>1. PICK w, ws : w = DataOf(tensors) /\ ws = Sharded(tensors, tp)[r]
  OBVIOUS
<1>2. m.n_vocab \in Nat \ {0} /\ m.n_embd \in Nat \ {0} /\ m.n_ff \in Nat \ {0}
  BY DEF IsTpMeta
<1>3. /\ HasMatrix(tensors, <<"token_embd", 0>>, m.n_vocab, m.n_embd)
      /\ HasNorm(tensors, <<"output_norm", 0>>, m.n_embd)
      /\ HasMatrix(tensors, <<"output", 0>>, m.n_vocab, m.n_embd)
      /\ \A l \in 1..m.n_layer : HasLayer(m, tensors, l)
  BY DEF HasTensors
<1>4. \A part, l : <<part, l>>[1] = part
  OBVIOUS
<1>5. /\ \A part \in {"wq", "w1", "w3", "output"} : ShardStrategy(part) = "Column"
      /\ \A part \in {"wo", "w2"} : ShardStrategy(part) = "Row"
      /\ \A part \in {"token_embd", "output_norm", "attention_norm", "ffn_norm"} :
            ShardStrategy(part) = "Replicated"
  BY DEF ShardStrategy
<1>6. /\ \A n : \A rows \in Nat \ {0}, cols \in Nat :
            HasMatrix(tensors, n, rows, cols) /\ ShardStrategy(n[1]) = "Column"
               => rows % tp = 0 /\ HasRows(ws, w, n, r, (rows \div tp) * cols)
      /\ \A n : \A rows \in Nat \ {0}, cols \in Nat :
            HasMatrix(tensors, n, rows, cols) /\ ShardStrategy(n[1]) = "Row"
               => cols % tp = 0 /\ HasColumns(ws, w, n, r, rows, tp, cols \div tp)
      /\ \A n \in DOMAIN tensors : ShardStrategy(n[1]) = "Replicated" => HasAll(ws, w, n)
  BY <1>1, RankRows, RankColumns, RankAll
<1>7. /\ HasAll(ws, w, <<"token_embd", 0>>) /\ HasAll(ws, w, <<"output_norm", 0>>)
      /\ HasRows(ws, w, <<"output", 0>>, r, (m.n_vocab \div tp) * m.n_embd)
      /\ m.n_vocab % tp = 0
  <2>1. <<"token_embd", 0>> \in DOMAIN tensors /\ <<"output_norm", 0>> \in DOMAIN tensors
    BY <1>3 DEF HasMatrix, HasNorm
  <2>2. /\ ShardStrategy(<<"token_embd", 0>>[1]) = "Replicated"
        /\ ShardStrategy(<<"output_norm", 0>>[1]) = "Replicated"
        /\ ShardStrategy(<<"output", 0>>[1]) = "Column"
    BY <1>4, <1>5
  <2>3. HasAll(ws, w, <<"token_embd", 0>>) /\ HasAll(ws, w, <<"output_norm", 0>>)
    BY <1>6, <2>1, <2>2, Zenon
  <2>4. /\ m.n_vocab % tp = 0
        /\ HasRows(ws, w, <<"output", 0>>, r, (m.n_vocab \div tp) * m.n_embd)
    <3>1. m.n_embd \in Nat
      BY <1>2
    <3> QED
      BY <1>2, <1>3, <1>6, <2>2, <3>1, Zenon
  <2> QED
    BY <2>3, <2>4
<1>8. ASSUME NEW l \in 1..m.n_layer PROVE SplitLayer(m, tp, w, ws, r, l)
  <2>1. HasLayer(m, tensors, l)
    BY <1>3
  <2>2. /\ \A part \in {"wq", "w1", "w3"} : ShardStrategy(<<part, l>>[1]) = "Column"
        /\ \A part \in {"wo", "w2"} : ShardStrategy(<<part, l>>[1]) = "Row"
        /\ \A part \in {"attention_norm", "ffn_norm"} : ShardStrategy(<<part, l>>[1]) = "Replicated"
    BY <1>4, <1>5
  <2>3. /\ <<"attention_norm", l>> \in DOMAIN tensors /\ <<"ffn_norm", l>> \in DOMAIN tensors
    BY <2>1 DEF HasLayer, HasNorm
  <2>4. HasAll(ws, w, <<"attention_norm", l>>) /\ HasAll(ws, w, <<"ffn_norm", l>>)
    BY <1>6, <2>2, <2>3
  <2>5. m.n_embd \in Nat /\ m.n_ff \in Nat
    BY <1>2
  <2>6. HasRows(ws, w, <<"wq", l>>, r, (m.n_embd \div tp) * m.n_embd)
    <3>1. HasMatrix(tensors, <<"wq", l>>, m.n_embd, m.n_embd)
      BY <2>1 DEF HasLayer
    <3> QED
      BY <1>2, <1>6, <2>2, <2>5, <3>1, Zenon
  <2>7. HasColumns(ws, w, <<"wo", l>>, r, m.n_embd, tp, m.n_embd \div tp)
    <3>1. HasMatrix(tensors, <<"wo", l>>, m.n_embd, m.n_embd)
      BY <2>1 DEF HasLayer
    <3> QED
      BY <1>2, <1>6, <2>2, <2>5, <3>1, Zenon
  <2>8. /\ HasRows(ws, w, <<"w1", l>>, r, (m.n_ff \div tp) * m.n_embd)
        /\ m.n_ff % tp = 0
    <3>1. HasMatrix(tensors, <<"w1", l>>, m.n_ff, m.n_embd)
      BY <2>1 DEF HasLayer
    <3> QED
      BY <1>2, <1>6, <2>2, <2>5, <3>1, Zenon
  <2>9. HasRows(ws, w, <<"w3", l>>, r, (m.n_ff \div tp) * m.n_embd)
    <3>1. HasMatrix(tensors, <<"w3", l>>, m.n_ff, m.n_embd)
      BY <2>1 DEF HasLayer
    <3> QED
      BY <1>2, <1>6, <2>2, <2>5, <3>1, Zenon
  <2>10. HasColumns(ws, w, <<"w2", l>>, r, m.n_embd, tp, m.n_ff \div tp)
    <3>1. HasMatrix(tensors, <<"w2", l>>, m.n_embd, m.n_ff)
      BY <2>1 DEF HasLayer
    <3> QED
      BY <1>2, <1>6, <2>2, <2>5, <3>1, Zenon
  <2> QED
    BY <2>4, <2>6, <2>7, <2>8, <2>9, <2>10 DEF SplitLayer
<1> QED
  BY <1>1, <1>7, <1>8 DEF SplitModel
-----------------------------------------------------------------------------
(***************************************************************************)
(* What the ranks compute and what one device computes.                    *)
(***************************************************************************)

Dev(m, w, tp, r, pos) == [meta |-> m, w |-> w, tp |-> tp, rank |-> r, pos |-> pos]

LEMMA DevParts ==
    ASSUME NEW m, NEW w, NEW tp, NEW r, NEW pos
    PROVE  /\ Dev(m, w, tp, r, pos).meta = m /\ Dev(m, w, tp, r, pos).w = w
           /\ Dev(m, w, tp, r, pos).tp = tp /\ Dev(m, w, tp, r, pos).rank = r
           /\ Dev(m, w, tp, r, pos).pos = pos
BY DEF Dev

RankDevice(name, tp, r, pos) ==
    Dev(TpModels[name].meta, Sharded(TpModels[name].tensors, tp)[r], tp, r, pos)

WholeDevice(name, pos) == Dev(TpModels[name].meta, DataOf(TpModels[name].tensors), 1, 0, pos)

\* A model that can be split.
TpReady(name, tp, pos) ==
    /\ name \in DOMAIN TpModels /\ tp \in Nat \ {0} /\ pos \in 0..MaxPos
    /\ Divides(tp, TpModels[name].meta)
    /\ Shardable(TpModels[name].tensors, TpModels[name].meta.quantization, tp)

\* Sizes that a rank has, and how many ranks have them.
TpSizes(m, tp, kvs, g, k) ==
    /\ kvs \in Nat \ {0} /\ g \in Nat \ {0} /\ k = kvs * g * m.head_dim
    /\ m.n_head_kv = tp * kvs /\ m.n_head_kv \div tp = kvs
    /\ m.n_head = tp * (kvs * g) /\ m.n_head \div tp = kvs * g
    /\ (kvs * g) \div kvs = g
    /\ m.n_embd = tp * k /\ m.n_embd \div tp = k

LEMMA Multiples ==
    ASSUME NEW a \in Nat \ {0}, NEW b \in Nat
    PROVE  (a * b) \div a = b /\ (b * a) \div a = b
<1>1. (a * b + 0) \div a = b
  BY DivUnique
<1>2. a * b + 0 = a * b /\ b * a = a * b
  OBVIOUS
<1> QED
  BY <1>1, <1>2

LEMMA SizesOf ==
    ASSUME NEW m, IsTpMeta(m), NEW tp \in Nat \ {0}, Divides(tp, m)
    PROVE  \E kvs, g, k : TpSizes(m, tp, kvs, g, k)
<1>1. PICK heads \in Nat \ {0}, kv \in Nat \ {0}, hd \in Nat \ {0}, n_embd \in Nat \ {0} :
         heads = m.n_head /\ kv = m.n_head_kv /\ hd = m.head_dim /\ n_embd = m.n_embd
  BY DEF IsTpMeta
<1>2. kv % tp = 0 /\ heads % tp = 0 /\ heads % kv = 0 /\ heads * hd = n_embd
  BY <1>1 DEF Divides, Shared
<1>3. PICK kvs \in Nat : kvs = kv \div tp /\ kv = tp * kvs
  BY <1>2, Quotient
<1>4. PICK g \in Nat : heads = kv * g
  BY <1>2, Quotient
<1>5. PICK x \in Nat : x = kvs * g
  OBVIOUS
<1>6. heads = tp * x
  BY <1>3, <1>4, <1>5
<1>7. kvs # 0 /\ g # 0
  <2>1. kvs # 0
    BY <1>3
  <2>2. g # 0
    BY <1>4
  <2> QED
    BY <2>1, <2>2
<1>8. heads \div tp = x
  BY <1>6, Multiples
<1>9. x \div kvs = g
  BY <1>5, <1>7, Multiples
<1>10. PICK k \in Nat : k = x * hd
  OBVIOUS
<1>11. n_embd = tp * k
  BY <1>2, <1>6, <1>10
<1>12. n_embd \div tp = k
  BY <1>11, Multiples
<1>13. k = kvs * g * hd
  BY <1>5, <1>10
<1> QED
  BY <1>1, <1>3, <1>5, <1>6, <1>7, <1>8, <1>9, <1>11, <1>12, <1>13 DEF TpSizes

\* The degree 1 divides whatever a degree divides.
LEMMA SizesOfOne ==
    ASSUME NEW m, IsTpMeta(m), NEW tp \in Nat \ {0}, NEW kvs, NEW g, NEW k, TpSizes(m, tp, kvs, g, k)
    PROVE  /\ m.n_head \div 1 = tp * (kvs * g) /\ m.n_head_kv \div 1 = tp * kvs
           /\ (m.n_head \div 1) \div (m.n_head_kv \div 1) = g
           /\ (m.n_head \div tp) \div (m.n_head_kv \div tp) = g
<1>1. /\ kvs \in Nat \ {0} /\ g \in Nat \ {0} /\ m.n_head_kv = tp * kvs /\ m.n_head = tp * (kvs * g)
      /\ (kvs * g) \div kvs = g /\ m.n_head \div tp = kvs * g /\ m.n_head_kv \div tp = kvs
  BY DEF TpSizes
<1>2. PICK a \in Nat \ {0} : a = tp * kvs
  BY <1>1
<1>3. m.n_head = a * g /\ m.n_head_kv = a
  BY <1>1, <1>2
<1>4. PICK n \in Nat : n = a * g /\ n = m.n_head
  BY <1>1, <1>3
<1>5. n \div 1 = n /\ a \div 1 = a
  OBVIOUS
<1>6. n \div a = g
  BY <1>1, <1>4, Multiples
<1> QED
  BY <1>1, <1>2, <1>3, <1>4, <1>5, <1>6

-----------------------------------------------------------------------------
\* The keys and values of all heads.
AllEntries(m, pos) == [t \in 0..pos |-> KvEntry(m, t)]

LEMMA EntriesAre ==
    ASSUME NEW name \in DOMAIN TpModels, NEW pos \in 0..MaxPos, NEW t \in 0..pos
    PROVE  /\ KvEntry(TpModels[name].meta, t).k
                 \in Vec(TpModels[name].meta.n_head_kv * TpModels[name].meta.head_dim)
           /\ KvEntry(TpModels[name].meta, t).v
                 \in Vec(TpModels[name].meta.n_head_kv * TpModels[name].meta.head_dim)
           /\ KvEntry(TpModels[name].meta, t) = [k |-> KvEntry(TpModels[name].meta, t).k,
                                                 v |-> KvEntry(TpModels[name].meta, t).v]
<1>1. PICK m, size, e : /\ m = TpModels[name].meta /\ size = m.n_head_kv * m.head_dim
                        /\ e = KvEntry(m, t)
  OBVIOUS
<1>2. t \in 0..MaxPos
  BY TpAssumption DEF TpAssumption
<1>3. \A s \in 0..MaxPos : KvEntry(m, s) \in [k : [1..size -> Nat], v : [1..size -> Nat]]
  BY <1>1, TpAssumption DEF TpAssumption
<1>4. e \in [k : [1..size -> Nat], v : [1..size -> Nat]]
  BY <1>1, <1>2, <1>3
<1>5. e.k \in [1..size -> Nat] /\ e.v \in [1..size -> Nat] /\ e = [k |-> e.k, v |-> e.v]
  BY <1>4
<1> QED
  BY <1>1, <1>5, Zenon DEF Vec

LEMMA AllEntriesAre ==
    ASSUME NEW name \in DOMAIN TpModels, NEW pos \in 0..MaxPos
    PROVE  IsEntries(AllEntries(TpModels[name].meta, pos), pos,
                     TpModels[name].meta.n_head_kv * TpModels[name].meta.head_dim)
<1>1. PICK m, size : m = TpModels[name].meta /\ size = m.n_head_kv * m.head_dim
  OBVIOUS
<1>2. ASSUME NEW t \in 0..pos
      PROVE  AllEntries(m, pos)[t].k \in Vec(size) /\ AllEntries(m, pos)[t].v \in Vec(size)
  <2>1. AllEntries(m, pos)[t] = KvEntry(m, t)
    BY DEF AllEntries
  <2> QED
    BY <1>1, <2>1, EntriesAre
<1> QED
  BY <1>1, <1>2, Zenon DEF IsEntries

\* The pools of a rank.
Pools(d, pos) == [t \in 0..pos |-> PoolEntry(d, t)]

LEMMA PoolsAre ==
    ASSUME NEW name \in DOMAIN TpModels, NEW pos \in 0..MaxPos, NEW tp \in Nat \ {0},
           NEW kvs \in Nat, Grouped(TpModels[name].meta.n_head_kv, tp, kvs),
           NEW r \in 0..(tp - 1), NEW w
    PROVE  Pools(Dev(TpModels[name].meta, w, tp, r, pos), pos)
              = PieceEntries(AllEntries(TpModels[name].meta, pos), pos, r,
                             kvs * TpModels[name].meta.head_dim)
<1>1. PICK m : m = TpModels[name].meta
  OBVIOUS
<1>2. PICK d : d = Dev(m, w, tp, r, pos)
  OBVIOUS
<1>3. d.meta = m /\ d.tp = tp /\ d.rank = r
  BY <1>2, DevParts
<1>0. m.n_head_kv = tp * kvs /\ m.n_head_kv \div tp = kvs
  <2>1. m.n_head_kv = tp * kvs
    BY <1>1 DEF Grouped
  <2>2. (tp * kvs) \div tp = kvs
    BY Multiples
  <2> QED
    BY <2>1, <2>2
<1>4. PICK n \in Nat : n = kvs * m.head_dim
  BY <1>1, TpMetaOf DEF IsTpMeta
<1>5. m.n_head_kv * m.head_dim = tp * n
  <2>1. m.head_dim \in Nat
    BY <1>1, TpMetaOf DEF IsTpMeta
  <2> QED
    BY <1>0, <1>4, <2>1
<1>6. ASSUME NEW t \in 0..pos
      PROVE  PoolEntry(d, t) = [k |-> Piece(AllEntries(m, pos)[t].k, r, n),
                                v |-> Piece(AllEntries(m, pos)[t].v, r, n)]
  <2>1. PICK e : e = KvEntry(m, t) /\ e = AllEntries(m, pos)[t]
    BY DEF AllEntries
  <2>2. e.k \in Vec(tp * n) /\ e.v \in Vec(tp * n)
    BY <1>1, <1>5, <2>1, EntriesAre
  <2>3. /\ SubSeq(e.k, r * n + 1, (r + 1) * n) = Piece(e.k, r, n)
        /\ SubSeq(e.v, r * n + 1, (r + 1) * n) = Piece(e.v, r, n)
    BY <2>2, RangePiece
  <2>4. (d.meta.n_head_kv \div d.tp) * d.meta.head_dim = n
    BY <1>0, <1>3, <1>4
  <2>5. PoolEntry(d, t) = [k |-> SubSeq(e.k, r * n + 1, (r + 1) * n),
                           v |-> SubSeq(e.v, r * n + 1, (r + 1) * n)]
    BY <1>3, <2>1, <2>4, Zenon DEF PoolEntry
  <2> QED
    BY <2>1, <2>3, <2>5, Zenon
<1>7. Pools(d, pos) = PieceEntries(AllEntries(m, pos), pos, r, n)
  BY <1>6, Zenon DEF Pools, PieceEntries
<1> QED
  BY <1>1, <1>2, <1>4, <1>7, Zenon

\* On one device they have everything.
LEMMA PoolsOfOne ==
    ASSUME NEW name \in DOMAIN TpModels, NEW pos \in 0..MaxPos, NEW w
    PROVE  Pools(Dev(TpModels[name].meta, w, 1, 0, pos), pos) = AllEntries(TpModels[name].meta, pos)
<1>1. PICK m : m = TpModels[name].meta
  OBVIOUS
<1>2. PICK kvs \in Nat, hd \in Nat : kvs = m.n_head_kv /\ hd = m.head_dim
  BY <1>1, TpMetaOf DEF IsTpMeta
<1>3. PICK n \in Nat : n = kvs * hd
  OBVIOUS
<1>4. Pools(Dev(m, w, 1, 0, pos), pos) = PieceEntries(AllEntries(m, pos), pos, 0, n)
  <2>1. 1 \in Nat \ {0} /\ 0 \in 0..(1 - 1) /\ kvs = 1 * kvs /\ kvs \div 1 = kvs
    OBVIOUS
  <2>2. m.n_head_kv = 1 * kvs /\ m.n_head_kv \div 1 = kvs
    BY <1>2, <2>1
  <2>3. Pools(Dev(TpModels[name].meta, w, 1, 0, pos), pos)
           = PieceEntries(AllEntries(TpModels[name].meta, pos), pos, 0,
                          kvs * TpModels[name].meta.head_dim)
    <3>1. PICK tp \in Nat \ {0} : tp = 1
      BY <2>1
    <3>2. Grouped(TpModels[name].meta.n_head_kv, tp, kvs) /\ 0 \in 0..(tp - 1)
      BY <1>1, <2>1, <2>2, <3>1 DEF Grouped
    <3>3. PICK r \in 0..(tp - 1) : r = 0
      BY <3>2
    <3>4. Pools(Dev(TpModels[name].meta, w, tp, r, pos), pos)
             = PieceEntries(AllEntries(TpModels[name].meta, pos), pos, r,
                            kvs * TpModels[name].meta.head_dim)
      BY <3>2, PoolsAre
    <3> QED
      BY <3>1, <3>3, <3>4, Zenon
  <2> QED
    BY <1>1, <1>2, <1>3, <2>3, Zenon
<1>5. ASSUME NEW t \in 0..pos
      PROVE  [k |-> Piece(AllEntries(m, pos)[t].k, 0, n), v |-> Piece(AllEntries(m, pos)[t].v, 0, n)]
                = KvEntry(m, t)
  <2>1. PICK e : e = KvEntry(m, t) /\ e = AllEntries(m, pos)[t]
    BY DEF AllEntries
  <2>2. e.k \in Vec(n) /\ e.v \in Vec(n) /\ e = [k |-> e.k, v |-> e.v]
    BY <1>1, <1>2, <1>3, <2>1, EntriesAre
  <2>3. Piece(e.k, 0, n) = e.k /\ Piece(e.v, 0, n) = e.v
    BY <2>2, OnePiece
  <2> QED
    BY <2>1, <2>2, <2>3, Zenon
<1>6. PieceEntries(AllEntries(m, pos), pos, 0, n) = AllEntries(m, pos)
  BY <1>5, Zenon DEF PieceEntries, AllEntries
<1> QED
  BY <1>1, <1>4, <1>6, Zenon
-----------------------------------------------------------------------------
LEMMA AttnForm ==
    ASSUME NEW m, NEW w, NEW tp, NEW r, NEW pos, NEW x, NEW l
    PROVE  AttnPartial(Dev(m, w, tp, r, pos), x, l)
              = AttnWith(w[<<"wq", l>>], w[<<"wo", l>>], RmsNorm(x, w[<<"attention_norm", l>>]),
                         Pools(Dev(m, w, tp, r, pos), pos), pos, m.n_head \div tp,
                         (m.n_head \div tp) \div (m.n_head_kv \div tp), m.head_dim, m.n_embd)
<1>1. PICK d : d = Dev(m, w, tp, r, pos)
  OBVIOUS
<1>2. d.meta = m /\ d.w = w /\ d.tp = tp /\ d.pos = pos
  BY <1>1, DevParts
<1> QED
  BY <1>1, <1>2, Zenon DEF AttnPartial, AttnWith, Pools, Served

LEMMA MlpForm ==
    ASSUME NEW m, NEW w, NEW tp, NEW r, NEW pos, NEW x, NEW l
    PROVE  MlpPartial(Dev(m, w, tp, r, pos), x, l)
              = FeedForward(w[<<"w1", l>>], w[<<"w2", l>>], w[<<"w3", l>>],
                            RmsNorm(x, w[<<"ffn_norm", l>>]), m.n_embd, m.n_ff \div tp)
<1>1. PICK d : d = Dev(m, w, tp, r, pos)
  OBVIOUS
<1>2. d.meta = m /\ d.w = w /\ d.tp = tp /\ d.pos = pos
  BY <1>1, DevParts
<1> QED
  BY <1>1, <1>2, Zenon DEF MlpPartial

\* The weights of a layer on one device.
LayerWeights(m, w, l) ==
    /\ w[<<"attention_norm", l>>] \in Vec(m.n_embd) /\ w[<<"ffn_norm", l>>] \in Vec(m.n_embd)
    /\ w[<<"wq", l>>] \in Vec(m.n_embd * m.n_embd) /\ w[<<"wo", l>>] \in Vec(m.n_embd * m.n_embd)
    /\ w[<<"w1", l>>] \in Vec(m.n_ff * m.n_embd) /\ w[<<"w3", l>>] \in Vec(m.n_ff * m.n_embd)
    /\ w[<<"w2", l>>] \in Vec(m.n_embd * m.n_ff)

OtherWeights(m, w) ==
    /\ w[<<"token_embd", 0>>] \in Vec(m.n_vocab * m.n_embd)
    /\ w[<<"output_norm", 0>>] \in Vec(m.n_embd)
    /\ w[<<"output", 0>>] \in Vec(m.n_vocab * m.n_embd)

LEMMA WeightsAre ==
    ASSUME NEW m, NEW tensors, HasTensors(m, tensors)
    PROVE  /\ OtherWeights(m, DataOf(tensors))
           /\ \A l \in 1..m.n_layer : LayerWeights(m, DataOf(tensors), l)
<1>1. PICK w : w = DataOf(tensors) /\ \A n \in DOMAIN tensors : w[n] = tensors[n].data
  <2>1. \A n \in DOMAIN tensors : DataOf(tensors)[n] = tensors[n].data
    BY Zenon DEF DataOf
  <2> QED
    BY <2>1, Zenon
<1>2. \A n, rows, cols : HasMatrix(tensors, n, rows, cols) => w[n] \in Vec(rows * cols)
  BY <1>1, Zenon DEF HasMatrix, IsMatrix
<1>3. \A n, size : HasNorm(tensors, n, size) => w[n] \in Vec(size)
  BY <1>1, Zenon DEF HasNorm
<1>4. OtherWeights(m, w)
  BY <1>2, <1>3, Zenon DEF OtherWeights, HasTensors
<1>5. ASSUME NEW l \in 1..m.n_layer PROVE LayerWeights(m, w, l)
  <2>1. HasLayer(m, tensors, l)
    BY DEF HasTensors
  <2> QED
    BY <1>2, <1>3, <2>1, Zenon DEF LayerWeights, HasLayer
<1> QED
  BY <1>1, <1>4, <1>5

\* What a model that can be split comes with.
LEMMA ReadyFacts ==
    ASSUME NEW name, NEW tp, NEW pos, TpReady(name, tp, pos)
    PROVE  /\ name \in DOMAIN TpModels /\ tp \in Nat \ {0} /\ pos \in 0..MaxPos /\ pos \in Nat
           /\ IsTpMeta(TpModels[name].meta)
           /\ HasTensors(TpModels[name].meta, TpModels[name].tensors)
           /\ \E kvs, g, k : TpSizes(TpModels[name].meta, tp, kvs, g, k)
           /\ \A r \in 0..(tp - 1) :
                 SplitModel(TpModels[name].meta, tp, DataOf(TpModels[name].tensors),
                            Sharded(TpModels[name].tensors, tp)[r], r)
<1>1. PICK m, tensors : m = TpModels[name].meta /\ tensors = TpModels[name].tensors
  OBVIOUS
<1>2. /\ name \in DOMAIN TpModels /\ tp \in Nat \ {0} /\ pos \in 0..MaxPos
      /\ Divides(tp, m) /\ Shardable(tensors, m.quantization, tp)
  BY <1>1 DEF TpReady
<1>3. IsTpMeta(m) /\ HasTensors(m, tensors)
  BY <1>1, <1>2, TpMetaOf, ModelHere
<1>4. \E kvs, g, k : TpSizes(m, tp, kvs, g, k)
  BY <1>2, <1>3, SizesOf
<1>5. \A r \in 0..(tp - 1) : SplitModel(m, tp, DataOf(tensors), Sharded(tensors, tp)[r], r)
  BY <1>2, <1>3, ShardsSplit
<1>6. pos \in Nat
  BY <1>2, TpAssumption DEF TpAssumption
<1> QED
  BY <1>1, <1>2, <1>3, <1>4, <1>5, <1>6, Zenon

Layers(name) == 1..TpModels[name].meta.n_layer
States(name) == Vec(TpModels[name].meta.n_embd)

AttnParts(name, tp, pos, x, l, i) ==
    [r \in 1..tp |-> AttnPartial(RankDevice(name, tp, r - 1, pos), x, l)[i]]

MlpParts(name, tp, pos, x, l, i) ==
    [r \in 1..tp |-> MlpPartial(RankDevice(name, tp, r - 1, pos), x, l)[i]]

\* The ranks' attention outputs add up to that of one device.
LEMMA AttnSum ==
    ASSUME NEW name, NEW tp, NEW pos, TpReady(name, tp, pos), NEW x \in States(name),
           NEW l \in Layers(name), NEW i \in 1..TpModels[name].meta.n_embd
    PROVE  Total(AttnParts(name, tp, pos, x, l, i)) = AttnPartial(WholeDevice(name, pos), x, l)[i]
<1>1. PICK m, tensors : m = TpModels[name].meta /\ tensors = TpModels[name].tensors
  OBVIOUS
<1>2. /\ name \in DOMAIN TpModels /\ tp \in Nat \ {0} /\ pos \in 0..MaxPos /\ IsTpMeta(m)
      /\ HasTensors(m, tensors) /\ \E kvs, g, k : TpSizes(m, tp, kvs, g, k)
      /\ \A r \in 0..(tp - 1) : SplitModel(m, tp, DataOf(tensors), Sharded(tensors, tp)[r], r)
  BY <1>1, ReadyFacts
<1>3. PICK kvs, g, k : TpSizes(m, tp, kvs, g, k)
  BY <1>2
<1>4. PICK hd \in Nat \ {0}, n_embd \in Nat \ {0} : hd = m.head_dim /\ n_embd = m.n_embd
  BY <1>2 DEF IsTpMeta
<1>5. /\ kvs \in Nat \ {0} /\ g \in Nat \ {0} /\ k = kvs * g * hd /\ k \in Nat
      /\ n_embd = tp * k /\ n_embd \div tp = k
      /\ m.n_head_kv = tp * kvs
      /\ m.n_head \div tp = kvs * g
  <2>1. kvs \in Nat /\ g \in Nat /\ k = kvs * g * hd
    BY <1>3, <1>4 DEF TpSizes
  <2>2. k \in Nat
    BY <2>1
  <2> QED
    BY <1>3, <1>4, <2>1, <2>2 DEF TpSizes
<1>6. /\ m.n_head \div 1 = tp * (kvs * g) /\ (m.n_head \div 1) \div (m.n_head_kv \div 1) = g
      /\ (m.n_head \div tp) \div (m.n_head_kv \div tp) = g
  BY <1>2, <1>3, SizesOfOne
<1>7. PICK w : w = DataOf(tensors)
  OBVIOUS
<1>8. l \in 1..m.n_layer /\ x \in Vec(n_embd) /\ i \in 1..n_embd
  BY <1>1, <1>4 DEF Layers, States
<1>9. LayerWeights(m, w, l)
  BY <1>2, <1>7, <1>8, WeightsAre
<1>10. PICK wq, wo, xn : /\ wq = w[<<"wq", l>>] /\ wo = w[<<"wo", l>>]
                         /\ xn = RmsNorm(x, w[<<"attention_norm", l>>])
  OBVIOUS
<1>11. wq \in Vec(n_embd * n_embd) /\ wo \in Vec(n_embd * n_embd) /\ xn \in Vec(n_embd)
  <2>1. w[<<"attention_norm", l>>] \in Vec(n_embd)
    BY <1>4, <1>9 DEF LayerWeights
  <2>2. xn \in Vec(n_embd)
    BY <1>8, <1>10, <2>1, RmsNormOf
  <2> QED
    BY <1>4, <1>9, <1>10, <2>2 DEF LayerWeights
<1>12. PICK cache : cache = AllEntries(m, pos)
  OBVIOUS
<1>13. IsEntries(cache, pos, (tp * kvs) * hd)
  <2>1. IsEntries(cache, pos, m.n_head_kv * m.head_dim)
    BY <1>1, <1>2, <1>12, AllEntriesAre
  <2> QED
    BY <1>4, <1>5, <2>1, Zenon
<1>14. PICK wos : wos = [r \in 0..(tp - 1) |-> Sharded(tensors, tp)[r][<<"wo", l>>]]
  OBVIOUS
<1>15. ASSUME NEW r \in 0..(tp - 1)
       PROVE  /\ Columns(wos[r], wo, r, n_embd, tp, k)
              /\ AttnPartial(RankDevice(name, tp, r, pos), x, l)
                    = AttnShare(wq, wos, xn, cache, pos, tp, kvs, g, hd, n_embd, r)
  <2>1. PICK ws : ws = Sharded(tensors, tp)[r] /\ wos[r] = ws[<<"wo", l>>]
    BY <1>14
  <2>2. SplitLayer(m, tp, w, ws, r, l)
    BY <1>2, <1>7, <1>8, <2>1 DEF SplitModel
  <2>3. /\ ws[<<"attention_norm", l>>] = w[<<"attention_norm", l>>]
        /\ ws[<<"wq", l>>] = Piece(wq, r, (m.n_embd \div tp) * m.n_embd)
        /\ Columns(ws[<<"wo", l>>], wo, r, m.n_embd, tp, m.n_embd \div tp)
    BY <1>10, <2>2, Zenon DEF SplitLayer, HasAll, HasRows, HasColumns
  <2>4. PICK d : d = Dev(m, ws, tp, r, pos) /\ d = RankDevice(name, tp, r, pos)
    BY <1>1, <2>1 DEF RankDevice
  <2>5. Pools(d, pos) = PieceEntries(cache, pos, r, kvs * hd)
    <3>1. Grouped(m.n_head_kv, tp, kvs) /\ kvs \in Nat
      BY <1>5 DEF Grouped
    <3>2. Pools(Dev(TpModels[name].meta, ws, tp, r, pos), pos)
             = PieceEntries(AllEntries(TpModels[name].meta, pos), pos, r,
                            kvs * TpModels[name].meta.head_dim)
      BY <1>1, <1>2, <3>1, PoolsAre
    <3> QED
      BY <1>1, <1>4, <1>12, <2>4, <3>2, Zenon
  <2>6. AttnPartial(d, x, l)
           = AttnWith(ws[<<"wq", l>>], ws[<<"wo", l>>], RmsNorm(x, ws[<<"attention_norm", l>>]),
                      Pools(d, pos), pos, m.n_head \div tp,
                      (m.n_head \div tp) \div (m.n_head_kv \div tp), m.head_dim, m.n_embd)
    <3>1. AttnPartial(Dev(m, ws, tp, r, pos), x, l)
             = AttnWith(ws[<<"wq", l>>], ws[<<"wo", l>>], RmsNorm(x, ws[<<"attention_norm", l>>]),
                        Pools(Dev(m, ws, tp, r, pos), pos), pos, m.n_head \div tp,
                        (m.n_head \div tp) \div (m.n_head_kv \div tp), m.head_dim, m.n_embd)
      BY AttnForm
    <3> QED
      BY <2>4, <3>1, Zenon
  <2>7. AttnPartial(d, x, l)
           = AttnWith(Piece(wq, r, k * n_embd), wos[r], xn, PieceEntries(cache, pos, r, kvs * hd),
                      pos, kvs * g, g, hd, n_embd)
    BY <1>4, <1>5, <1>6, <1>10, <2>1, <2>3, <2>5, <2>6, Zenon
  <2>8. AttnShare(wq, wos, xn, cache, pos, tp, kvs, g, hd, n_embd, r)
           = AttnWith(Piece(wq, r, k * n_embd), wos[r], xn, PieceEntries(cache, pos, r, kvs * hd),
                      pos, kvs * g, g, hd, n_embd)
    BY <1>5, Zenon DEF AttnShare
  <2>9. Columns(wos[r], wo, r, n_embd, tp, k)
    BY <1>4, <1>5, <2>1, <2>3, Zenon
  <2> QED
    BY <2>4, <2>7, <2>8, <2>9, Zenon
<1>16. AttnParts(name, tp, pos, x, l, i)
          = AttnShares(wq, wos, xn, cache, pos, tp, kvs, g, hd, n_embd, i)
  <2>1. \A r \in 1..tp : r - 1 \in 0..(tp - 1)
    BY <1>2
  <2> QED
    BY <1>15, <2>1, Zenon DEF AttnParts, AttnShares
<1>17. Total(AttnShares(wq, wos, xn, cache, pos, tp, kvs, g, hd, n_embd, i))
          = AttnWith(wq, wo, xn, cache, pos, tp * (kvs * g), g, hd, n_embd)[i]
  <2>1. PICK size : size = kvs * g * hd /\ size = k
    BY <1>5
  <2>2. BlockReady(wq, wo, wos, cache, pos, tp, kvs, g, hd, n_embd)
    <3>1. wq \in Vec((tp * k) * n_embd) /\ wo \in Vec(n_embd * (tp * k))
      BY <1>5, <1>11
    <3>2. SplitWeights(wq, wo, wos, tp, k, n_embd)
      BY <1>15, <3>1, Zenon DEF SplitWeights
    <3> QED
      BY <1>13, <2>1, <3>2, Zenon DEF BlockReady
  <2>3. /\ hd \in Nat /\ n_embd \in Nat /\ kvs \in Nat \ {0} /\ g \in Nat \ {0}
        /\ tp \in Nat \ {0} /\ pos \in 0..MaxPos /\ i \in 1..n_embd
    BY <1>2, <1>5, <1>8
  <2>4. xn \in Vec(n_embd)
    BY <1>11
  <2>5. AttnAddsUp(wq, wo, wos, xn, cache, pos, tp, kvs, g, hd, n_embd)
    BY <2>2, <2>3, <2>4, AttnSplit
  <2> QED
    BY <2>3, <2>5, Zenon DEF AttnAddsUp
<1>18. AttnPartial(WholeDevice(name, pos), x, l)
          = AttnWith(wq, wo, xn, cache, pos, tp * (kvs * g), g, hd, n_embd)
  <2>1. PICK d : d = Dev(m, w, 1, 0, pos) /\ d = WholeDevice(name, pos)
    BY <1>1, <1>7 DEF WholeDevice
  <2>2. Pools(d, pos) = cache
    BY <1>1, <1>2, <1>12, <2>1, PoolsOfOne
  <2>3. AttnPartial(d, x, l)
           = AttnWith(w[<<"wq", l>>], w[<<"wo", l>>], RmsNorm(x, w[<<"attention_norm", l>>]),
                      Pools(d, pos), pos, m.n_head \div 1,
                      (m.n_head \div 1) \div (m.n_head_kv \div 1), m.head_dim, m.n_embd)
    <3>1. AttnPartial(Dev(m, w, 1, 0, pos), x, l)
             = AttnWith(w[<<"wq", l>>], w[<<"wo", l>>], RmsNorm(x, w[<<"attention_norm", l>>]),
                        Pools(Dev(m, w, 1, 0, pos), pos), pos, m.n_head \div 1,
                        (m.n_head \div 1) \div (m.n_head_kv \div 1), m.head_dim, m.n_embd)
      BY AttnForm
    <3> QED
      BY <2>1, <3>1, Zenon
  <2> QED
    BY <1>4, <1>6, <1>10, <2>1, <2>2, <2>3, Zenon
<1> QED
  BY <1>16, <1>17, <1>18, Zenon

\* The ranks' feed-forward outputs add up to that of one device.
LEMMA MlpSum ==
    ASSUME NEW name, NEW tp, NEW pos, TpReady(name, tp, pos), NEW x \in States(name),
           NEW l \in Layers(name), NEW i \in 1..TpModels[name].meta.n_embd
    PROVE  Total(MlpParts(name, tp, pos, x, l, i)) = MlpPartial(WholeDevice(name, pos), x, l)[i]
<1>1. PICK m, tensors : m = TpModels[name].meta /\ tensors = TpModels[name].tensors
  OBVIOUS
<1>2. /\ name \in DOMAIN TpModels /\ tp \in Nat \ {0} /\ pos \in 0..MaxPos /\ IsTpMeta(m)
      /\ HasTensors(m, tensors)
      /\ \A r \in 0..(tp - 1) : SplitModel(m, tp, DataOf(tensors), Sharded(tensors, tp)[r], r)
  BY <1>1, ReadyFacts
<1>3. PICK n_ff \in Nat \ {0}, n_embd \in Nat \ {0} : n_ff = m.n_ff /\ n_embd = m.n_embd
  BY <1>2 DEF IsTpMeta
<1>4. PICK w : w = DataOf(tensors)
  OBVIOUS
<1>5. l \in 1..m.n_layer /\ x \in Vec(n_embd) /\ i \in 1..n_embd
  BY <1>1, <1>3 DEF Layers, States
<1>6. LayerWeights(m, w, l)
  BY <1>2, <1>4, <1>5, WeightsAre
<1>7. PICK w1, w2, w3, xn : /\ w1 = w[<<"w1", l>>] /\ w2 = w[<<"w2", l>>] /\ w3 = w[<<"w3", l>>]
                            /\ xn = RmsNorm(x, w[<<"ffn_norm", l>>])
  OBVIOUS
<1>8. /\ w1 \in Vec(n_ff * n_embd) /\ w3 \in Vec(n_ff * n_embd) /\ w2 \in Vec(n_embd * n_ff)
      /\ xn \in Vec(n_embd)
  <2>1. w[<<"ffn_norm", l>>] \in Vec(n_embd)
    BY <1>3, <1>6 DEF LayerWeights
  <2>2. xn \in Vec(n_embd)
    BY <1>5, <1>7, <2>1, RmsNormOf
  <2> QED
    BY <1>3, <1>6, <1>7, <2>2 DEF LayerWeights
<1>9. n_ff % tp = 0
  <2>1. 0 \in 0..(tp - 1)
    BY <1>2
  <2>2. SplitLayer(m, tp, w, Sharded(tensors, tp)[0], 0, l)
    BY <1>2, <1>4, <1>5, <2>1 DEF SplitModel
  <2> QED
    BY <1>3, <2>2 DEF SplitLayer
<1>10. PICK k \in Nat : k = n_ff \div tp /\ n_ff = tp * k
  BY <1>2, <1>9, Quotient
<1>11. PICK w2s : w2s = [r \in 0..(tp - 1) |-> Sharded(tensors, tp)[r][<<"w2", l>>]]
  OBVIOUS
<1>12. ASSUME NEW r \in 0..(tp - 1)
       PROVE  /\ Columns(w2s[r], w2, r, n_embd, tp, k)
              /\ MlpPartial(RankDevice(name, tp, r, pos), x, l)
                    = MlpShare(w1, w2s, w3, xn, n_embd, k, r)
  <2>1. PICK ws : ws = Sharded(tensors, tp)[r] /\ w2s[r] = ws[<<"w2", l>>]
    BY <1>11
  <2>2. SplitLayer(m, tp, w, ws, r, l)
    BY <1>2, <1>4, <1>5, <2>1 DEF SplitModel
  <2>3. /\ ws[<<"ffn_norm", l>>] = w[<<"ffn_norm", l>>]
        /\ ws[<<"w1", l>>] = Piece(w1, r, (m.n_ff \div tp) * m.n_embd)
        /\ ws[<<"w3", l>>] = Piece(w3, r, (m.n_ff \div tp) * m.n_embd)
        /\ Columns(ws[<<"w2", l>>], w2, r, m.n_embd, tp, m.n_ff \div tp)
    BY <1>7, <2>2, Zenon DEF SplitLayer, HasAll, HasRows, HasColumns
  <2>4. PICK d : d = Dev(m, ws, tp, r, pos) /\ d = RankDevice(name, tp, r, pos)
    BY <1>1, <2>1 DEF RankDevice
  <2>5. MlpPartial(Dev(m, ws, tp, r, pos), x, l)
           = FeedForward(ws[<<"w1", l>>], ws[<<"w2", l>>], ws[<<"w3", l>>],
                         RmsNorm(x, ws[<<"ffn_norm", l>>]), m.n_embd, m.n_ff \div tp)
    BY MlpForm
  <2>6. MlpPartial(d, x, l)
           = FeedForward(Piece(w1, r, k * n_embd), w2s[r], Piece(w3, r, k * n_embd), xn, n_embd, k)
    BY <1>3, <1>7, <1>10, <2>1, <2>3, <2>4, <2>5, Zenon
  <2>7. Columns(w2s[r], w2, r, n_embd, tp, k)
    BY <1>3, <1>10, <2>1, <2>3, Zenon
  <2> QED
    BY <2>4, <2>6, <2>7, Zenon DEF MlpShare
<1>13. MlpParts(name, tp, pos, x, l, i) = MlpShares(w1, w2s, w3, xn, n_embd, tp, k, i)
  <2>1. \A r \in 1..tp : r - 1 \in 0..(tp - 1)
    BY <1>2
  <2> QED
    BY <1>12, <2>1, Zenon DEF MlpParts, MlpShares
<1>14. Total(MlpShares(w1, w2s, w3, xn, n_embd, tp, k, i))
          = FeedForward(w1, w2, w3, xn, n_embd, n_ff)[i]
  <2>1. SplitWeights(w1, w2, w2s, tp, k, n_embd) /\ SplitWeights(w3, w2, w2s, tp, k, n_embd)
    <3>1. /\ w1 \in Vec((tp * k) * n_embd) /\ w3 \in Vec((tp * k) * n_embd)
          /\ w2 \in Vec(n_embd * (tp * k))
      BY <1>8, <1>10, Zenon
    <3> QED
      BY <1>12, <3>1, Zenon DEF SplitWeights
  <2>2. /\ n_embd \in Nat /\ k \in Nat /\ tp \in Nat \ {0} /\ xn \in Vec(n_embd)
    BY <1>2, <1>8
  <2>3. MlpAddsUp(w1, w2, w2s, w3, xn, n_embd, tp, k)
    BY <2>1, <2>2, MlpSplit
  <2> QED
    BY <1>5, <1>10, <2>3, Zenon DEF MlpAddsUp
<1>15. MlpPartial(WholeDevice(name, pos), x, l) = FeedForward(w1, w2, w3, xn, n_embd, n_ff)
  <2>1. PICK d : d = Dev(m, w, 1, 0, pos) /\ d = WholeDevice(name, pos)
    BY <1>1, <1>4 DEF WholeDevice
  <2>2. MlpPartial(Dev(m, w, 1, 0, pos), x, l)
           = FeedForward(w[<<"w1", l>>], w[<<"w2", l>>], w[<<"w3", l>>],
                         RmsNorm(x, w[<<"ffn_norm", l>>]), m.n_embd, m.n_ff \div 1)
    BY MlpForm
  <2>3. n_ff \div 1 = n_ff
    OBVIOUS
  <2> QED
    BY <1>3, <1>7, <2>1, <2>2, <2>3, Zenon
<1> QED
  BY <1>13, <1>14, <1>15, Zenon

\* Blocks on one device give numbers.
LEMMA PartialsAre ==
    ASSUME NEW name, NEW tp, NEW pos, TpReady(name, tp, pos), NEW x \in States(name),
           NEW l \in Layers(name)
    PROVE  /\ AttnPartial(WholeDevice(name, pos), x, l) \in States(name)
           /\ MlpPartial(WholeDevice(name, pos), x, l) \in States(name)
<1>1. PICK m, tensors : m = TpModels[name].meta /\ tensors = TpModels[name].tensors
  OBVIOUS
<1>2. /\ name \in DOMAIN TpModels /\ tp \in Nat \ {0} /\ pos \in 0..MaxPos /\ IsTpMeta(m)
      /\ HasTensors(m, tensors) /\ \E kvs, g, k : TpSizes(m, tp, kvs, g, k)
  BY <1>1, ReadyFacts
<1>3. PICK n_ff \in Nat \ {0}, n_embd \in Nat \ {0}, hd \in Nat \ {0} :
         n_ff = m.n_ff /\ n_embd = m.n_embd /\ hd = m.head_dim
  BY <1>2 DEF IsTpMeta
<1>4. PICK w : w = DataOf(tensors)
  OBVIOUS
<1>5. l \in 1..m.n_layer /\ x \in Vec(n_embd)
  BY <1>1, <1>3 DEF Layers, States
<1>6. LayerWeights(m, w, l)
  BY <1>2, <1>4, <1>5, WeightsAre
<1>7. PICK d : d = Dev(m, w, 1, 0, pos) /\ d = WholeDevice(name, pos)
  BY <1>1, <1>4 DEF WholeDevice
<1>8. MlpPartial(d, x, l) \in Vec(n_embd)
  <2>1. MlpPartial(Dev(m, w, 1, 0, pos), x, l)
           = FeedForward(w[<<"w1", l>>], w[<<"w2", l>>], w[<<"w3", l>>],
                         RmsNorm(x, w[<<"ffn_norm", l>>]), m.n_embd, m.n_ff \div 1)
    BY MlpForm
  <2>2. n_ff \div 1 = n_ff
    OBVIOUS
  <2>3. /\ w[<<"w1", l>>] \in Vec(n_ff * n_embd) /\ w[<<"w3", l>>] \in Vec(n_ff * n_embd)
        /\ w[<<"w2", l>>] \in Vec(n_embd * n_ff) /\ w[<<"ffn_norm", l>>] \in Vec(n_embd)
    BY <1>3, <1>6 DEF LayerWeights
  <2>4. PICK xn \in Vec(n_embd) : xn = RmsNorm(x, w[<<"ffn_norm", l>>])
    BY <1>5, <2>3, RmsNormOf
  <2>5. FeedForward(w[<<"w1", l>>], w[<<"w2", l>>], w[<<"w3", l>>], xn, n_embd, n_ff) \in Res(n_embd)
    BY <2>3, FeedForwardIs
  <2>6. MlpPartial(d, x, l) \in Res(n_embd)
    BY <1>3, <1>7, <2>1, <2>2, <2>4, <2>5, Zenon
  <2> QED
    BY <2>6, ResIsVec
<1>9. AttnPartial(d, x, l) \in Vec(n_embd)
  <2>1. PICK kvs, g, k : TpSizes(m, tp, kvs, g, k)
    BY <1>2
  <2>2. /\ m.n_head \div 1 = tp * (kvs * g) /\ (m.n_head \div 1) \div (m.n_head_kv \div 1) = g
    BY <1>2, <2>1, SizesOfOne
  <2>3. /\ kvs \in Nat \ {0} /\ g \in Nat \ {0} /\ m.n_head_kv = tp * kvs /\ m.n_embd = tp * k
        /\ k = kvs * g * m.head_dim
    BY <2>1 DEF TpSizes
  <2>4. PICK n \in Nat, all \in Nat \ {0} : n = tp * (kvs * g) /\ all = tp * kvs
    BY <1>2, <2>3
  <2>5. Grouped(n, all, g)
    BY <1>2, <2>3, <2>4 DEF Grouped
  <2>6. n * hd = n_embd
    BY <1>2, <1>3, <2>3, <2>4
  <2>7. AttnPartial(Dev(m, w, 1, 0, pos), x, l)
           = AttnWith(w[<<"wq", l>>], w[<<"wo", l>>], RmsNorm(x, w[<<"attention_norm", l>>]),
                      Pools(Dev(m, w, 1, 0, pos), pos), pos, m.n_head \div 1,
                      (m.n_head \div 1) \div (m.n_head_kv \div 1), m.head_dim, m.n_embd)
    BY AttnForm
  <2>8. PICK cache : cache = AllEntries(m, pos)
    OBVIOUS
  <2>9. Pools(d, pos) = cache
    BY <1>1, <1>2, <1>7, <2>8, PoolsOfOne
  <2>10. IsEntries(cache, pos, all * hd)
    <3>1. IsEntries(cache, pos, m.n_head_kv * m.head_dim)
      BY <1>1, <1>2, <2>8, AllEntriesAre
    <3> QED
      BY <1>3, <2>3, <2>4, <3>1, Zenon
  <2>11. /\ w[<<"wq", l>>] \in Vec(n_embd * n_embd) /\ w[<<"wo", l>>] \in Vec(n_embd * n_embd)
         /\ w[<<"attention_norm", l>>] \in Vec(n_embd)
    BY <1>3, <1>6 DEF LayerWeights
  <2>12. PICK xn \in Vec(n_embd) : xn = RmsNorm(x, w[<<"attention_norm", l>>])
    BY <1>5, <2>11, RmsNormOf
  <2>13. w[<<"wq", l>>] \in Vec((n * hd) * n_embd) /\ w[<<"wo", l>>] \in Vec(n_embd * (n * hd))
    BY <2>6, <2>11, Zenon
  <2>14. AttnWith(w[<<"wq", l>>], w[<<"wo", l>>], xn, cache, pos, n, g, hd, n_embd) \in Res(n_embd)
    BY <1>2, <2>3, <2>5, <2>10, <2>13, AttnWithIs
  <2>15. AttnPartial(d, x, l) \in Res(n_embd)
    BY <1>3, <1>7, <2>2, <2>4, <2>7, <2>9, <2>12, <2>14, Zenon
  <2> QED
    BY <2>15, ResIsVec
<1> QED
  BY <1>1, <1>3, <1>7, <1>8, <1>9, Zenon DEF States
-----------------------------------------------------------------------------
LEMMA OneShard ==
    ASSUME NEW name, NEW pos
    PROVE  RankDevice(name, 1, 0, pos) = WholeDevice(name, pos)
<1>1. PICK tensors : tensors = TpModels[name].tensors
  OBVIOUS
<1>2. 0 \in 0..(1 - 1) /\ 1 <= 1
  OBVIOUS
<1>3. \A n \in DOMAIN tensors : Shard(n[1], tensors[n], 1, 0) = tensors[n].data
  BY <1>2, Zenon DEF Shard
<1>4. Sharded(tensors, 1)[0] = [n \in DOMAIN tensors |-> Shard(n[1], tensors[n], 1, 0)]
  BY <1>2, Zenon DEF Sharded
<1>5. Sharded(tensors, 1)[0] = DataOf(tensors)
  BY <1>3, <1>4, Zenon DEF DataOf
<1> QED
  BY <1>1, <1>5, Zenon DEF RankDevice, WholeDevice

\* The embedding and the last norm are the same on every rank.
LEMMA SameEnds ==
    ASSUME NEW name, NEW tp, NEW pos, TpReady(name, tp, pos), NEW r \in 0..(tp - 1), NEW x, NEW token
    PROVE  /\ Embedded(RankDevice(name, tp, r, pos), x, token) = Embedded(WholeDevice(name, pos), x, token)
           /\ FinalNorm(RankDevice(name, tp, r, pos), x) = FinalNorm(WholeDevice(name, pos), x)
<1>1. PICK m, tensors, w, ws : /\ m = TpModels[name].meta /\ tensors = TpModels[name].tensors
                               /\ w = DataOf(tensors) /\ ws = Sharded(tensors, tp)[r]
  OBVIOUS
<1>2. SplitModel(m, tp, w, ws, r)
  BY <1>1, ReadyFacts
<1>3. ws[<<"token_embd", 0>>] = w[<<"token_embd", 0>>] /\ ws[<<"output_norm", 0>>] = w[<<"output_norm", 0>>]
  BY <1>2, Zenon DEF SplitModel, HasAll
<1>4. PICK d, e : d = RankDevice(name, tp, r, pos) /\ e = WholeDevice(name, pos)
  OBVIOUS
<1>5. d.meta = m /\ d.w = ws /\ e.meta = m /\ e.w = w
  BY <1>1, <1>4, DevParts DEF RankDevice, WholeDevice
<1>6. Embedded(d, x, token) = Embedded(e, x, token)
  BY <1>3, <1>5, Zenon DEF Embedded
<1>7. FinalNorm(d, x) = FinalNorm(e, x)
  BY <1>3, <1>5, Zenon DEF FinalNorm
<1> QED
  BY <1>4, <1>6, <1>7, Zenon

\* They give numbers.
LEMMA EndsAre ==
    ASSUME NEW name, NEW tp, NEW pos, TpReady(name, tp, pos), NEW x \in States(name),
           NEW token \in 0..(TpModels[name].meta.n_vocab - 1)
    PROVE  /\ Embedded(WholeDevice(name, pos), x, token) \in States(name)
           /\ FinalNorm(WholeDevice(name, pos), x) \in States(name)
<1>1. PICK m, tensors, w : m = TpModels[name].meta /\ tensors = TpModels[name].tensors /\ w = DataOf(tensors)
  OBVIOUS
<1>2. IsTpMeta(m) /\ HasTensors(m, tensors)
  BY <1>1, ReadyFacts
<1>3. PICK n_vocab \in Nat \ {0}, n_embd \in Nat \ {0} : n_vocab = m.n_vocab /\ n_embd = m.n_embd
  BY <1>2 DEF IsTpMeta
<1>4. OtherWeights(m, w)
  BY <1>1, <1>2, WeightsAre
<1>5. PICK table, norm : table = w[<<"token_embd", 0>>] /\ norm = w[<<"output_norm", 0>>]
  OBVIOUS
<1>6. table \in Vec(n_vocab * n_embd) /\ norm \in Vec(n_embd)
  BY <1>3, <1>4, <1>5 DEF OtherWeights
<1>7. PICK d : d = WholeDevice(name, pos) /\ d.meta = m /\ d.w = w
  BY <1>1, DevParts DEF WholeDevice
<1>8. x \in Vec(n_embd) /\ token \in 0..(n_vocab - 1)
  BY <1>1, <1>3 DEF States
<1>9. PICK row : row = EmbeddingRow(table, token, n_embd)
  OBVIOUS
<1>10. row = Piece(table, token, n_embd) /\ row \in Vec(n_embd)
  <2>1. row = Piece(table, token, n_embd)
    BY <1>6, <1>8, <1>9, RangePiece DEF EmbeddingRow
  <2>2. Piece(table, token, n_embd) \in Vec(n_embd)
    BY <1>6, <1>8, PieceOf
  <2> QED
    BY <2>1, <2>2
<1>11. PICK a \in Nat : a = row[1]
  <2>1. 1 \in 1..n_embd
    OBVIOUS
  <2> QED
    BY <1>10, <2>1 DEF Vec
<1>12. Embedded(d, x, token) = [x EXCEPT ![1] = a]
  BY <1>3, <1>5, <1>7, <1>9, <1>11, Zenon DEF Embedded
<1>13. [x EXCEPT ![1] = a] \in Vec(n_embd)
  BY <1>8 DEF Vec
<1>14. FinalNorm(d, x) = RmsNorm(x, norm)
  BY <1>5, <1>7, Zenon DEF FinalNorm
<1>15. RmsNorm(x, norm) \in Vec(n_embd)
  BY <1>6, <1>8, RmsNormOf
<1> QED
  BY <1>1, <1>3, <1>7, <1>12, <1>13, <1>14, <1>15, Zenon DEF States

\* A rank has a piece of the logits.
HasLogits(name, tp, pos, r, x) ==
    OutputShard(RankDevice(name, tp, r, pos), x)
       = Piece(OutputShard(WholeDevice(name, pos), x), r, TpModels[name].meta.n_vocab \div tp)

LEMMA LogitsAre ==
    ASSUME NEW name, NEW tp, NEW pos, TpReady(name, tp, pos), NEW x \in States(name)
    PROVE  /\ TpModels[name].meta.n_vocab % tp = 0
           /\ OutputShard(WholeDevice(name, pos), x) \in Vec(TpModels[name].meta.n_vocab)
           /\ \A r \in 0..(tp - 1) : HasLogits(name, tp, pos, r, x)
<1>1. PICK m, tensors, w : m = TpModels[name].meta /\ tensors = TpModels[name].tensors /\ w = DataOf(tensors)
  OBVIOUS
<1>2. /\ IsTpMeta(m) /\ HasTensors(m, tensors) /\ tp \in Nat \ {0}
      /\ \A r \in 0..(tp - 1) : SplitModel(m, tp, w, Sharded(tensors, tp)[r], r)
  BY <1>1, ReadyFacts
<1>3. PICK n_vocab \in Nat \ {0}, n_embd \in Nat \ {0} : n_vocab = m.n_vocab /\ n_embd = m.n_embd
  BY <1>2 DEF IsTpMeta
<1>4. n_vocab % tp = 0
  <2>1. 0 \in 0..(tp - 1)
    BY <1>2
  <2>2. SplitModel(m, tp, w, Sharded(tensors, tp)[0], 0)
    BY <1>2, <2>1
  <2> QED
    BY <1>3, <2>2 DEF SplitModel
<1>5. PICK k \in Nat : k = n_vocab \div tp /\ n_vocab = tp * k
  BY <1>2, <1>4, Quotient
<1>6. PICK table : table = w[<<"output", 0>>]
  OBVIOUS
<1>7. table \in Vec(n_vocab * n_embd)
  BY <1>1, <1>2, <1>3, <1>6, WeightsAre DEF OtherWeights
<1>8. x \in Vec(n_embd)
  BY <1>1, <1>3 DEF States
<1>9. PICK d : d = WholeDevice(name, pos) /\ d.meta = m /\ d.w = w /\ d.tp = 1
  BY <1>1, DevParts DEF WholeDevice
<1>10. OutputShard(d, x) = MatVec(table, x, n_vocab, n_embd)
  <2>1. n_vocab \div 1 = n_vocab
    OBVIOUS
  <2> QED
    BY <1>3, <1>6, <1>9, <2>1, Zenon DEF OutputShard
<1>11. MatVec(table, x, n_vocab, n_embd) \in Vec(n_vocab)
  BY <1>7, <1>8, MatVecIs, ResIsVec
<1>12. ASSUME NEW r \in 0..(tp - 1) PROVE HasLogits(name, tp, pos, r, x)
  <2>1. PICK ws, e : /\ ws = Sharded(tensors, tp)[r] /\ e = RankDevice(name, tp, r, pos)
                     /\ e.meta = m /\ e.w = ws /\ e.tp = tp
    BY <1>1, DevParts DEF RankDevice
  <2>2. ws[<<"output", 0>>] = Piece(table, r, k * n_embd)
    BY <1>2, <1>3, <1>5, <1>6, <2>1, Zenon DEF SplitModel, HasRows
  <2>3. OutputShard(e, x) = MatVec(Piece(table, r, k * n_embd), x, k, n_embd)
    BY <1>3, <1>5, <2>1, <2>2, Zenon DEF OutputShard
  <2>4. MatVec(Piece(table, r, k * n_embd), x, k, n_embd) = Piece(MatVec(table, x, tp * k, n_embd), r, k)
    BY <1>2, ColumnParallel
  <2>5. OutputShard(e, x) = Piece(OutputShard(d, x), r, k)
    BY <1>5, <1>10, <2>3, <2>4, Zenon
  <2> QED
    BY <1>1, <1>3, <1>5, <1>9, <2>1, <2>5, Zenon DEF HasLogits
<1> QED
  BY <1>1, <1>3, <1>4, <1>9, <1>10, <1>11, <1>12, Zenon

\* The pieces of the logits one after the other.
AllLogits(tp, f) == FlattenSeq(Vector(tp, LAMBDA r : f[r - 1]))

LEMMA Gathered ==
    ASSUME NEW name, NEW tp, NEW pos, TpReady(name, tp, pos), NEW x \in States(name),
           NEW f, \A r \in 0..(tp - 1) : f[r] = OutputShard(RankDevice(name, tp, r, pos), x)
    PROVE  AllLogits(tp, f) = OutputShard(WholeDevice(name, pos), x)
<1>1. PICK n_vocab, full : /\ n_vocab = TpModels[name].meta.n_vocab /\ n_vocab \in Nat \ {0}
                           /\ full = OutputShard(WholeDevice(name, pos), x)
  BY ReadyFacts DEF IsTpMeta
<1>2. tp \in Nat \ {0}
  BY ReadyFacts
<1>3. /\ n_vocab % tp = 0 /\ full \in Vec(n_vocab)
      /\ \A r \in 0..(tp - 1) : HasLogits(name, tp, pos, r, x)
  BY <1>1, LogitsAre
<1>4. PICK k \in Nat : k = n_vocab \div tp /\ n_vocab = tp * k
  BY <1>1, <1>2, <1>3, Quotient
<1>5. full \in Vec(tp * k)
  BY <1>3, <1>4, Zenon
<1>6. \A r \in 0..(tp - 1) : f[r] = Piece(full, r, k)
  BY <1>1, <1>3, <1>4, Zenon DEF HasLogits
<1>7. PICK seqs : seqs = [r \in 1..tp |-> f[r - 1]]
  OBVIOUS
<1>8. AllLogits(tp, f) = FlattenSeq(seqs)
  <2>1. Vector(tp, LAMBDA r : f[r - 1]) = SubSeq(seqs, 1, tp)
    BY <1>7, Zenon DEF Vector
  <2>2. SubSeq(seqs, 1, tp) = seqs
    <3>1. seqs = [r \in 1..tp |-> seqs[r]]
      BY <1>7
    <3> QED
      BY <1>2, <3>1, VectorOf
  <2> QED
    BY <2>1, <2>2, Zenon DEF AllLogits
<1>9. seqs \in [1..tp -> Vec(k)]
  <2>1. ASSUME NEW r \in 1..tp PROVE f[r - 1] \in Vec(k)
    <3>1. PICK q \in 0..(tp - 1) : q = r - 1
      BY <1>2
    <3>2. Piece(full, q, k) \in Vec(k)
      BY <1>2, <1>5, PieceOf
    <3> QED
      BY <1>6, <3>1, <3>2
  <2> QED
    BY <1>7, <2>1
<1>10. PICK flat : flat = FlattenSeq(seqs)
  OBVIOUS
<1>11. flat \in Vec(tp * k) /\ \A r \in 0..(tp - 1) : Piece(flat, r, k) = seqs[r + 1]
  BY <1>2, <1>9, <1>10, FlattenOf
<1>12. ASSUME NEW r \in 0..(tp - 1) PROVE Piece(flat, r, k) = Piece(full, r, k)
  <2>1. r + 1 \in 1..tp /\ (r + 1) - 1 = r
    BY <1>2
  <2>2. seqs[r + 1] = f[r]
    BY <1>7, <2>1
  <2> QED
    BY <1>6, <1>11, <2>2
<1>13. flat = full
  BY <1>2, <1>5, <1>11, <1>12, PiecesDetermine
<1> QED
  BY <1>1, <1>8, <1>10, <1>13, Zenon

-----------------------------------------------------------------------------
\* The hidden states of a pass on one device, layer by layer.
IsPass(X, name, pos, hidden, token) ==
    /\ X \in [0..TpModels[name].meta.n_layer -> States(name)]
    /\ X[0] = Embedded(WholeDevice(name, pos), hidden, token)
    /\ \A l \in Layers(name) : X[l] = LayerOn(WholeDevice(name, pos), X[l - 1], l)

LEMMA LayerOnIs ==
    ASSUME NEW name, NEW tp, NEW pos, TpReady(name, tp, pos), NEW x \in States(name),
           NEW l \in Layers(name)
    PROVE  LayerOn(WholeDevice(name, pos), x, l) \in States(name)
<1>1. PICK n \in Nat \ {0} : n = TpModels[name].meta.n_embd
  BY ReadyFacts DEF IsTpMeta
<1>2. PICK a, b : /\ a = AttnPartial(WholeDevice(name, pos), x, l)
                  /\ b = MlpPartial(WholeDevice(name, pos), x, l)
  OBVIOUS
<1>3. x \in Vec(n) /\ a \in Vec(n) /\ b \in Vec(n)
  BY <1>1, <1>2, PartialsAre DEF States
<1>4. Add(x, a) \in Vec(n)
  BY <1>3, AddOf
<1>5. Add(Add(x, a), b) \in Vec(n)
  BY <1>3, <1>4, AddOf
<1> QED
  BY <1>1, <1>2, <1>5, Zenon DEF LayerOn, States

LEMMA PassExists ==
    ASSUME NEW name, NEW tp, NEW pos, TpReady(name, tp, pos), NEW hidden \in States(name),
           NEW token \in 0..(TpModels[name].meta.n_vocab - 1)
    PROVE  \E X : /\ IsPass(X, name, pos, hidden, token)
                  /\ FinalState(WholeDevice(name, pos), hidden, token)
                        = FinalNorm(WholeDevice(name, pos), X[TpModels[name].meta.n_layer])
<1>1. PICK d, start, V : /\ d = WholeDevice(name, pos) /\ start = Embedded(d, hidden, token)
                         /\ V = States(name)
  OBVIOUS
<1>2. PICK n \in Nat : n = TpModels[name].meta.n_layer
  BY ReadyFacts DEF IsTpMeta
<1>3. d.meta.n_layer = n
  BY <1>1, <1>2, DevParts DEF WholeDevice
<1>4. start \in V
  BY <1>1, EndsAre
<1>5. PICK step : step = [l \in 1..n |-> [x \in V |-> LayerOn(d, x, l)]]
  OBVIOUS
<1>6. step \in [1..n -> [V -> V]]
  <2>1. ASSUME NEW l \in 1..n PROVE [x \in V |-> LayerOn(d, x, l)] \in [V -> V]
    <3>1. ASSUME NEW x \in V PROVE LayerOn(d, x, l) \in V
      <4>1. l \in Layers(name) /\ x \in States(name)
        BY <1>1, <1>2 DEF Layers
      <4>2. LayerOn(WholeDevice(name, pos), x, l) \in States(name)
        BY <4>1, LayerOnIs
      <4> QED
        BY <1>1, <4>2
    <3> QED
      BY <3>1
  <2> QED
    BY <1>5, <2>1
<1>7. PICK g : IsRecursion(g, V, start, n, step)
  BY <1>4, <1>6, RecursionExists
<1>8. /\ g \in [0..n -> V] /\ g[0] = start /\ \A l \in 1..n : g[l] = LayerOn(d, g[l - 1], l)
  <2>1. g \in [0..n -> V] /\ g[0] = start
    BY <1>7 DEF IsRecursion
  <2>2. ASSUME NEW l \in 1..n PROVE g[l] = LayerOn(d, g[l - 1], l)
    <3>1. l - 1 \in 0..n
      OBVIOUS
    <3>2. g[l] = step[l][g[l - 1]] /\ g[l - 1] \in V
      BY <1>7, <2>1, <3>1 DEF IsRecursion
    <3>3. step[l] = [x \in V |-> LayerOn(d, x, l)]
      BY <1>5
    <3> QED
      BY <3>2, <3>3
  <2> QED
    BY <2>1, <2>2
<1> DEFINE x == CHOOSE x : x = [l \in 0..d.meta.n_layer |->
                    IF l = 0 THEN Embedded(d, hidden, token) ELSE LayerOn(d, x[l - 1], l)]
<1>9. FinalState(d, hidden, token) = FinalNorm(d, x[d.meta.n_layer])
  BY Zenon DEF FinalState
<1>10. g = [l \in 0..n |-> IF l = 0 THEN start ELSE LayerOn(d, g[l - 1], l)]
  <2>1. ASSUME NEW l \in 0..n PROVE g[l] = IF l = 0 THEN start ELSE LayerOn(d, g[l - 1], l)
    <3>1. l = 0 \/ l \in 1..n
      OBVIOUS
    <3> QED
      BY <1>8, <3>1, Zenon
  <2>2. g = [l \in 0..n |-> g[l]]
    BY <1>8
  <2> QED
    BY <2>1, <2>2, Zenon
<1>11. g = [l \in 0..d.meta.n_layer |->
               IF l = 0 THEN Embedded(d, hidden, token) ELSE LayerOn(d, g[l - 1], l)]
  BY <1>1, <1>3, <1>10, Zenon
<1>12. x = [l \in 0..d.meta.n_layer |->
               IF l = 0 THEN Embedded(d, hidden, token) ELSE LayerOn(d, x[l - 1], l)]
  BY <1>11, Zenon
<1> HIDE DEF x
<1>13. x = [l \in 0..n |-> IF l = 0 THEN start ELSE LayerOn(d, x[l - 1], l)]
  BY <1>1, <1>3, <1>12, Zenon
<1>14. x[0] = start /\ \A l \in 1..n : x[l] = LayerOn(d, x[l - 1], l)
  <2>1. 0 \in 0..n /\ \A l \in 1..n : l \in 0..n /\ l # 0
    OBVIOUS
  <2> QED
    BY <1>13, <2>1, Zenon
<1> DEFINE S == {l \in 0..n : x[l] = g[l]}
<1>15. S \in SUBSET (0..n) /\ 0 \in S
  BY <1>8, <1>14
<1>16. ASSUME NEW l \in 1..n, l - 1 \in S PROVE l \in S
  <2>1. x[l - 1] = g[l - 1]
    BY <1>16
  <2>2. x[l] = g[l]
    BY <1>8, <1>14, <2>1, Zenon
  <2> QED
    BY <2>2
<1> HIDE DEF S
<1>17. S = 0..n
  BY <1>15, <1>16, IntervalInduction
<1>18. \A l \in 0..n : x[l] = g[l]
  BY <1>17, Zenon DEF S
<1>19. IsPass(g, name, pos, hidden, token)
  <2>1. \A l \in Layers(name) : g[l] = LayerOn(d, g[l - 1], l)
    BY <1>2, <1>8, Zenon DEF Layers
  <2> QED
    BY <1>1, <1>2, <1>8, <2>1, Zenon DEF IsPass
<1>20. FinalState(d, hidden, token) = FinalNorm(d, g[n])
  <2>1. n \in 0..n
    OBVIOUS
  <2> QED
    BY <1>3, <1>9, <1>18, <2>1, Zenon
<1> QED
  BY <1>1, <1>2, <1>19, <1>20, Zenon

LEMMA PassStates ==
    ASSUME NEW name, NEW tp, NEW pos, TpReady(name, tp, pos), NEW X, NEW hidden, NEW token,
           IsPass(X, name, pos, hidden, token)
    PROVE  \A l \in 0..TpModels[name].meta.n_layer : X[l] \in States(name)
BY DEF IsPass

\* There is one pass.
LEMMA SamePass ==
    ASSUME NEW name, NEW tp, NEW pos, TpReady(name, tp, pos), NEW hidden, NEW token,
           NEW X, IsPass(X, name, pos, hidden, token), NEW Y, IsPass(Y, name, pos, hidden, token)
    PROVE  X[TpModels[name].meta.n_layer] = Y[TpModels[name].meta.n_layer]
<1>1. PICK n : n \in Nat /\ n = TpModels[name].meta.n_layer
  BY ReadyFacts DEF IsTpMeta
<1> DEFINE S == {l \in 0..n : X[l] = Y[l]}
<1>2. S \in SUBSET (0..n) /\ 0 \in S
  <2>1. X[0] = Y[0]
    BY Zenon DEF IsPass
  <2> QED
    BY <1>1, <2>1
<1>3. ASSUME NEW l \in 1..n, l - 1 \in S PROVE l \in S
  <2>1. X[l - 1] = Y[l - 1]
    BY <1>3
  <2>2. X[l] = Y[l]
    BY <1>1, <2>1, Zenon DEF IsPass, Layers
  <2> QED
    BY <1>1, <2>2
<1> HIDE DEF S
<1>4. S = 0..n
  BY <1>1, <1>2, <1>3, IntervalInduction
<1>5. n \in S
  BY <1>1, <1>4
<1> QED
  BY <1>1, <1>5, Zenon DEF S
-----------------------------------------------------------------------------
(***************************************************************************)
(* Kernels that have not run yet.                                          *)
(***************************************************************************)

LEMMA InSeq ==
    ASSUME NEW s, IsList(s), NEW t, IsList(t), NEW u, IsList(u)
    PROVE  \E V : s \in Seq(V) /\ t \in Seq(V) /\ u \in Seq(V)
<1>1. PICK n \in Nat, k \in Nat, h \in Nat : n = Len(s) /\ k = Len(t) /\ h = Len(u)
  BY DEF IsList
<1>2. s = [i \in 1..n |-> s[i]] /\ t = [i \in 1..k |-> t[i]] /\ u = [i \in 1..h |-> u[i]]
  BY <1>1, Zenon DEF IsList
<1> DEFINE V == {s[i] : i \in 1..n} \cup {t[i] : i \in 1..k} \cup {u[i] : i \in 1..h}
<1>3. /\ \A i \in 1..n : s[i] \in V
      /\ \A i \in 1..k : t[i] \in V
      /\ \A i \in 1..h : u[i] \in V
  OBVIOUS
<1> HIDE DEF V
<1>4. s \in [1..n -> V] /\ t \in [1..k -> V] /\ u \in [1..h -> V]
  BY <1>2, <1>3
<1>5. s \in Seq(V) /\ t \in Seq(V) /\ u \in Seq(V)
  BY <1>4, SeqDef
<1> QED
  BY <1>5

LEMMA SeqIsList ==
    ASSUME NEW V, NEW s \in Seq(V)
    PROVE  IsList(s)
BY LenProperties DEF IsList

LEMMA EmptyList ==
    /\ IsList(<< >>) /\ Len(<< >>) = 0
    /\ \A s : IsList(s) => s \o << >> = s /\ << >> \o s = s
<1>1. << >> \in Seq({}) /\ Len(<< >>) = 0
  BY EmptySeq
<1>2. ASSUME NEW s, IsList(s) PROVE s \o << >> = s /\ << >> \o s = s
  <2>1. PICK V : s \in Seq(V)
    BY <1>2, InSeq
  <2> QED
    BY <2>1, ConcatEmptySeq
<1> QED
  BY <1>1, <1>2, SeqIsList

LEMMA JoinLists ==
    ASSUME NEW s, IsList(s), NEW t, IsList(t), NEW u, IsList(u)
    PROVE  (s \o t) \o u = s \o (t \o u)
<1>1. PICK V : s \in Seq(V) /\ t \in Seq(V) /\ u \in Seq(V)
  BY InSeq
<1> QED
  BY <1>1, ConcatAssociative

LEMMA TailList ==
    ASSUME NEW q, IsList(q), q # << >>, NEW e, IsList(e)
    PROVE  /\ IsList(Tail(q))
           /\ Head(q) = (q \o e)[1]
           /\ Len(q \o e) = Len(Tail(q) \o e) + 1
           /\ \A i \in 1..Len(Tail(q) \o e) : (Tail(q) \o e)[i] = (q \o e)[i + 1]
<1>1. PICK V : q \in Seq(V) /\ e \in Seq(V)
  BY InSeq
<1>2. PICK t, h, s, c : t = Tail(q) /\ h = Head(q) /\ s = t \o e /\ c = q \o e
  OBVIOUS
<1>3. PICK n \in Nat, k \in Nat : Len(q) = n + 1 /\ Len(e) = k
  <2>1. Len(q) \in Nat \ {0} /\ Len(e) \in Nat
    BY <1>1, EmptySeq, LenProperties
  <2>2. PICK size \in Nat \ {0} : size = Len(q)
    BY <2>1
  <2>3. PICK n \in Nat : n = size - 1 /\ size = n + 1
    OBVIOUS
  <2> QED
    BY <2>1, <2>2, <2>3
<1>4. /\ t \in Seq(V) /\ Len(t) = n /\ h = q[1]
      /\ \A i \in 1..n : t[i] = q[i + 1]
  <2>1. /\ Tail(q) \in Seq(V) /\ Len(Tail(q)) = Len(q) - 1
        /\ \A i \in 1..Len(Tail(q)) : Tail(q)[i] = q[i + 1]
    BY <1>1, HeadTailProperties
  <2>2. Head(q) = q[1]
    BY <1>1
  <2> QED
    BY <1>2, <1>3, <2>1, <2>2
<1>5. /\ Len(s) = n + k
      /\ \A i \in 1..(n + k) : s[i] = IF i <= n THEN t[i] ELSE e[i - n]
  <2>1. /\ Len(t \o e) = Len(t) + Len(e)
        /\ \A i \in 1..(Len(t) + Len(e)) : (t \o e)[i] = IF i <= Len(t) THEN t[i] ELSE e[i - Len(t)]
    BY <1>1, <1>4, ConcatProperties
  <2> QED
    BY <1>2, <1>3, <1>4, <2>1, Zenon
<1>6. /\ Len(c) = (n + 1) + k
      /\ \A i \in 1..((n + 1) + k) : c[i] = IF i <= n + 1 THEN q[i] ELSE e[i - (n + 1)]
  <2>1. /\ Len(q \o e) = Len(q) + Len(e)
        /\ \A i \in 1..(Len(q) + Len(e)) : (q \o e)[i] = IF i <= Len(q) THEN q[i] ELSE e[i - Len(q)]
    BY <1>1, ConcatProperties
  <2> QED
    BY <1>2, <1>3, <2>1, Zenon
<1>7. h = c[1]
  BY <1>4, <1>6
<1>8. Len(c) = Len(s) + 1
  BY <1>5, <1>6
<1>9. ASSUME NEW i \in 1..Len(s) PROVE s[i] = c[i + 1]
  <2>1. i \in 1..(n + k) /\ i + 1 \in 1..((n + 1) + k) /\ (i + 1) - (n + 1) = i - n /\ (i <= n <=> i + 1 <= n + 1)
    BY <1>5
  <2>2. CASE i <= n
    <3>1. s[i] = t[i] /\ c[i + 1] = q[i + 1] /\ i \in 1..n
      BY <1>5, <1>6, <2>1, <2>2
    <3> QED
      BY <1>4, <3>1
  <2>3. CASE ~(i <= n)
    <3>1. s[i] = e[i - n] /\ c[i + 1] = e[(i + 1) - (n + 1)]
      BY <1>5, <1>6, <2>1, <2>3
    <3> QED
      BY <2>1, <3>1
  <2> QED
    BY <2>2, <2>3
<1>10. IsList(t)
  BY <1>4, SeqIsList
<1> QED
  BY <1>2, <1>7, <1>8, <1>9, <1>10

\* The buffers b of a device become c when it runs ops.
IsRun(f, ops, b, d, c) ==
    /\ f[0] = b /\ f[Len(ops)] = c
    /\ \A i \in 1..Len(ops) : f[i] = Kernel(d, ops[i], f[i - 1])

Outcome(ops, b, d, c) == \E f : IsRun(f, ops, b, d, c)

LEMMA OutcomeOfNone ==
    ASSUME NEW b, NEW d, NEW c
    PROVE  Outcome(<< >>, b, d, c) <=> c = b
<1>1. Len(<< >>) = 0 /\ 1..0 = {}
  BY EmptyList
<1>2. ASSUME Outcome(<< >>, b, d, c) PROVE c = b
  <2>1. PICK f : IsRun(f, << >>, b, d, c)
    BY <1>2, Zenon DEF Outcome
  <2> QED
    BY <1>1, <2>1, Zenon DEF IsRun
<1>3. ASSUME c = b PROVE Outcome(<< >>, b, d, c)
  <2>1. PICK f : f = [i \in {0} |-> b]
    OBVIOUS
  <2>2. f[0] = b
    BY <2>1
  <2>3. IsRun(f, << >>, b, d, c)
    BY <1>1, <1>3, <2>2, Zenon DEF IsRun
  <2> QED
    BY <2>3, Zenon DEF Outcome
<1> QED
  BY <1>2, <1>3

LEMMA OutcomeOfTail ==
    ASSUME NEW ops, IsList(ops), NEW rest, IsList(rest), Len(ops) = Len(rest) + 1,
           \A i \in 1..Len(rest) : rest[i] = ops[i + 1],
           NEW b, NEW d, NEW c, Outcome(ops, b, d, c)
    PROVE  Outcome(rest, Kernel(d, ops[1], b), d, c)
<1>1. PICK f : IsRun(f, ops, b, d, c)
  BY Zenon DEF Outcome
<1>2. PICK n \in Nat : Len(rest) = n /\ Len(ops) = n + 1
  BY DEF IsList
<1>3. /\ f[0] = b /\ f[n + 1] = c
      /\ \A i \in 1..(n + 1) : f[i] = Kernel(d, ops[i], f[i - 1])
  BY <1>1, <1>2, Zenon DEF IsRun
<1>4. PICK g : g = [i \in 0..n |-> f[i + 1]]
  OBVIOUS
<1>5. g[0] = Kernel(d, ops[1], b)
  <2>1. 0 \in 0..n /\ 0 + 1 = 1 /\ 1 - 1 = 0 /\ 1 \in 1..(n + 1)
    OBVIOUS
  <2>2. g[0] = f[1]
    BY <1>4, <2>1
  <2> QED
    BY <1>3, <2>1, <2>2, Zenon
<1>6. g[n] = c
  BY <1>3, <1>4
<1>7. ASSUME NEW i \in 1..n PROVE g[i] = Kernel(d, rest[i], g[i - 1])
  <2>1. i + 1 \in 1..(n + 1) /\ (i + 1) - 1 = i
    OBVIOUS
  <2>2. f[i + 1] = Kernel(d, ops[i + 1], f[(i + 1) - 1])
    BY <1>3, <2>1, Zenon
  <2>3. g[i] = f[i + 1] /\ g[i - 1] = f[i]
    BY <1>4
  <2>4. rest[i] = ops[i + 1]
    BY <1>2
  <2> QED
    BY <2>1, <2>2, <2>3, <2>4, Zenon
<1>8. IsRun(g, rest, Kernel(d, ops[1], b), d, c)
  BY <1>2, <1>5, <1>6, <1>7, Zenon DEF IsRun
<1> QED
  BY <1>8, Zenon DEF Outcome

LEMMA OutcomeOfMore ==
    ASSUME NEW ops, IsList(ops), NEW op, NEW b, NEW d, NEW c, Outcome(ops, b, d, c)
    PROVE  Outcome(ops \o <<op>>, b, d, Kernel(d, op, c))
<1>1. PICK f : IsRun(f, ops, b, d, c)
  BY Zenon DEF Outcome
<1>2. PICK n \in Nat : Len(ops) = n
  BY DEF IsList
<1>3. PICK all : all = ops \o <<op>>
  OBVIOUS
<1>4. Len(all) = n + 1 /\ all[n + 1] = op /\ \A i \in 1..n : all[i] = ops[i]
  <2>1. IsList(<<op>>) /\ Len(<<op>>) = 1 /\ <<op>>[1] = op
    BY Single
  <2>2. /\ Len(ops \o <<op>>) = Len(ops) + Len(<<op>>)
        /\ \A i \in 1..Len(ops) : (ops \o <<op>>)[i] = ops[i]
        /\ \A i \in 1..Len(<<op>>) : (ops \o <<op>>)[Len(ops) + i] = <<op>>[i]
    BY <2>1, ConcatLists
  <2>3. 1 \in 1..1
    OBVIOUS
  <2>4. Len(all) = n + 1 /\ \A i \in 1..n : all[i] = ops[i]
    BY <1>2, <1>3, <2>1, <2>2, Zenon
  <2>5. all[n + 1] = op
    BY <1>2, <1>3, <2>1, <2>2, <2>3, Zenon
  <2> QED
    BY <2>4, <2>5
<1>5. f[0] = b /\ f[n] = c /\ \A i \in 1..n : f[i] = Kernel(d, ops[i], f[i - 1])
  BY <1>1, <1>2, Zenon DEF IsRun
<1>6. PICK z : z = Kernel(d, op, c)
  OBVIOUS
<1>7. PICK g : g = [i \in 0..(n + 1) |-> IF i = n + 1 THEN z ELSE f[i]]
  OBVIOUS
<1>8. g[n + 1] = z /\ \A i \in 0..n : g[i] = f[i]
  <2>1. n + 1 \in 0..(n + 1) /\ \A i \in 0..n : i \in 0..(n + 1) /\ i # n + 1
    OBVIOUS
  <2> QED
    BY <1>7, <2>1, Zenon
<1>9. ASSUME NEW i \in 1..(n + 1) PROVE g[i] = Kernel(d, all[i], g[i - 1])
  <2>1. CASE i = n + 1
    <3>1. i - 1 = n /\ n \in 0..n
      BY <2>1
    <3>2. g[i - 1] = c
      BY <1>5, <1>8, <3>1, Zenon
    <3> QED
      BY <1>4, <1>6, <1>8, <2>1, <3>2, Zenon
  <2>2. CASE i # n + 1
    <3>1. i \in 1..n /\ i \in 0..n /\ i - 1 \in 0..n
      BY <2>2
    <3>2. g[i] = f[i] /\ g[i - 1] = f[i - 1] /\ all[i] = ops[i]
      BY <1>4, <1>8, <3>1, Zenon
    <3> QED
      BY <1>5, <3>1, <3>2, Zenon
  <2> QED
    BY <2>1, <2>2
<1>10. g[0] = b
  <2>1. 0 \in 0..n
    OBVIOUS
  <2> QED
    BY <1>5, <1>8, <2>1, Zenon
<1>11. IsRun(g, all, b, d, z)
  BY <1>4, <1>8, <1>9, <1>10, Zenon DEF IsRun
<1> QED
  BY <1>3, <1>6, <1>11, Zenon DEF Outcome
-----------------------------------------------------------------------------
\* When the device d has run what is in its queue q, and what is encoded in e,
\* its buffers g will be c.
Reaches(q, e, g, d, c) == IsList(q) /\ IsList(e) /\ Outcome(q \o e, g, d, c)

LEMMA ReachesStep ==
    ASSUME NEW q, NEW e, NEW g, NEW d, NEW c, Reaches(q, e, g, d, c), q # << >>
    PROVE  Reaches(Tail(q), e, Kernel(d, Head(q), g), d, c)
<1>1. IsList(q) /\ IsList(e) /\ Outcome(q \o e, g, d, c)
  BY Zenon DEF Reaches
<1>2. PICK ops, rest : ops = q \o e /\ rest = Tail(q) \o e
  OBVIOUS
<1>3. /\ IsList(Tail(q)) /\ Head(q) = ops[1] /\ Len(ops) = Len(rest) + 1
      /\ \A i \in 1..Len(rest) : rest[i] = ops[i + 1]
  <2>1. /\ IsList(Tail(q)) /\ Head(q) = (q \o e)[1] /\ Len(q \o e) = Len(Tail(q) \o e) + 1
        /\ \A i \in 1..Len(Tail(q) \o e) : (Tail(q) \o e)[i] = (q \o e)[i + 1]
    BY <1>1, TailList
  <2> QED
    BY <1>2, <2>1, Zenon
<1>4. IsList(ops) /\ IsList(rest)
  BY <1>1, <1>2, <1>3, ConcatLists
<1>5. Outcome(ops, g, d, c)
  BY <1>1, <1>2, Zenon
<1>6. Outcome(rest, Kernel(d, ops[1], g), d, c)
  BY <1>3, <1>4, <1>5, OutcomeOfTail
<1> QED
  BY <1>1, <1>2, <1>3, <1>6, Zenon DEF Reaches

\* Another kernel is encoded.
LEMMA ReachesMore ==
    ASSUME NEW q, NEW e, NEW g, NEW d, NEW c, Reaches(q, e, g, d, c), NEW op
    PROVE  Reaches(q, e \o <<op>>, g, d, Kernel(d, op, c))
<1>1. IsList(q) /\ IsList(e) /\ Outcome(q \o e, g, d, c)
  BY Zenon DEF Reaches
<1>2. IsList(q \o e) /\ IsList(<<op>>) /\ IsList(e \o <<op>>)
  BY <1>1, ConcatLists, Single
<1>3. Outcome((q \o e) \o <<op>>, g, d, Kernel(d, op, c))
  BY <1>1, <1>2, OutcomeOfMore
<1>4. (q \o e) \o <<op>> = q \o (e \o <<op>>)
  BY <1>1, <1>2, JoinLists
<1> QED
  BY <1>1, <1>2, <1>3, <1>4, Zenon DEF Reaches

\* What is encoded is committed after another kernel.
LEMMA ReachesCommit ==
    ASSUME NEW q, NEW e, NEW g, NEW d, NEW c, Reaches(q, e, g, d, c), NEW op
    PROVE  Reaches(q \o e \o <<op>>, << >>, g, d, Kernel(d, op, c))
<1>1. IsList(q) /\ IsList(e) /\ Outcome(q \o e, g, d, c)
  BY Zenon DEF Reaches
<1>2. IsList(q \o e) /\ IsList(<<op>>)
  BY <1>1, ConcatLists, Single
<1>3. Outcome((q \o e) \o <<op>>, g, d, Kernel(d, op, c))
  BY <1>1, <1>2, OutcomeOfMore
<1>4. IsList((q \o e) \o <<op>>)
  BY <1>2, ConcatLists
<1>5. ((q \o e) \o <<op>>) \o << >> = (q \o e) \o <<op>> /\ IsList(<< >>)
  BY <1>4, EmptyList
<1> QED
  BY <1>3, <1>4, <1>5, Zenon DEF Reaches

\* Nothing is left to run.
LEMMA ReachesHere ==
    ASSUME NEW g, NEW d, NEW c
    PROVE  Reaches(<< >>, << >>, g, d, c) <=> c = g
<1>1. IsList(<< >>) /\ << >> \o << >> = << >>
  BY EmptyList
<1> QED
  BY <1>1, OutcomeOfNone, Zenon DEF Reaches

LEMMA ReachesFirst ==
    ASSUME NEW g, NEW d, NEW op
    PROVE  Reaches(<< >>, <<op>>, g, d, Kernel(d, op, g))
<1>1. Reaches(<< >>, << >>, g, d, g)
  BY ReachesHere
<1>2. Reaches(<< >>, << >> \o <<op>>, g, d, Kernel(d, op, g))
  BY <1>1, ReachesMore
<1>3. << >> \o <<op>> = <<op>>
  BY Single, EmptyList
<1> QED
  BY <1>2, <1>3, Zenon

LEMMA ReachesThree ==
    ASSUME NEW q, NEW e, NEW g, NEW d, NEW c, Reaches(q, e, g, d, c), NEW a, NEW b, NEW o
    PROVE  Reaches(q, e \o <<a, b, o>>, g, d, Kernel(d, o, Kernel(d, b, Kernel(d, a, c))))
<1>1. PICK x, y, z : x = Kernel(d, a, c) /\ y = Kernel(d, b, x) /\ z = Kernel(d, o, y)
  OBVIOUS
<1>2. Reaches(q, e \o <<a>>, g, d, x)
  BY <1>1, ReachesMore
<1>3. Reaches(q, (e \o <<a>>) \o <<b>>, g, d, y)
  BY <1>1, <1>2, ReachesMore
<1>4. Reaches(q, ((e \o <<a>>) \o <<b>>) \o <<o>>, g, d, z)
  BY <1>1, <1>3, ReachesMore
<1>5. IsList(e) /\ IsList(<<a>>) /\ IsList(<<b>>) /\ IsList(<<o>>)
  BY Single, Zenon DEF Reaches
<1>6. IsList(e \o <<a>>) /\ IsList(<<b>> \o <<o>>)
  BY <1>5, ConcatLists
<1>7. ((e \o <<a>>) \o <<b>>) \o <<o>> = (e \o <<a>>) \o (<<b>> \o <<o>>)
  BY <1>5, <1>6, JoinLists
<1>8. (e \o <<a>>) \o (<<b>> \o <<o>>) = e \o (<<a>> \o (<<b>> \o <<o>>))
  BY <1>5, <1>6, JoinLists
<1>9. <<a>> \o (<<b>> \o <<o>>) = <<a, b, o>>
  <2>1. PICK two : two = <<b>> \o <<o>>
    OBVIOUS
  <2>2. IsList(two) /\ Len(two) = 2 /\ two[1] = b /\ two[2] = o
    <3>1. /\ IsList(two) /\ Len(two) = Len(<<b>>) + Len(<<o>>)
          /\ (\A i \in 1..Len(<<b>>) : two[i] = <<b>>[i])
          /\ (\A i \in 1..Len(<<o>>) : two[Len(<<b>>) + i] = <<o>>[i])
      BY <1>5, <2>1, ConcatLists
    <3>2. Len(<<b>>) = 1 /\ Len(<<o>>) = 1 /\ <<b>>[1] = b /\ <<o>>[1] = o
      BY Single
    <3>3. 1 + 1 = 2 /\ 1 \in 1..1
      OBVIOUS
    <3> QED
      BY <3>1, <3>2, <3>3, Zenon
  <2>3. PICK one, s : one = <<a>> /\ s = one \o two
    OBVIOUS
  <2>4. IsList(s) /\ Len(s) = 3 /\ s[1] = a /\ s[2] = b /\ s[3] = o
    <3>1. IsList(one) /\ Len(one) = 1 /\ one[1] = a
      BY <2>3, Single
    <3>2. /\ IsList(one \o two) /\ Len(one \o two) = Len(one) + Len(two)
          /\ (\A i \in 1..Len(one) : (one \o two)[i] = one[i])
          /\ (\A i \in 1..Len(two) : (one \o two)[Len(one) + i] = two[i])
      <4>1. IsList(one) /\ IsList(two)
        BY <2>2, <3>1
      <4> QED
        BY <4>1, ConcatLists
    <3>3. 1 + 2 = 3 /\ 1 + 1 = 2 /\ 1 \in 1..1 /\ 1 \in 1..2 /\ 2 \in 1..2
      OBVIOUS
    <3> QED
      BY <2>2, <2>3, <3>1, <3>2, <3>3, Zenon
  <2>5. s = [i \in 1..3 |-> s[i]]
    BY <2>4, Zenon DEF IsList
  <2>6. s = <<a, b, o>>
    BY <2>4, <2>5
  <2> QED
    BY <2>1, <2>3, <2>6, Zenon
<1> QED
  BY <1>1, <1>4, <1>7, <1>8, <1>9, Zenon
-----------------------------------------------------------------------------
(***************************************************************************)
(* Buffers, and what the kernels do to them.                               *)
(***************************************************************************)

Buffers(hidden, attn, mlp, tmp, out) ==
    [hidden |-> hidden, attn |-> attn, mlp |-> mlp, tmp |-> tmp, logits |-> out]

IsBuffers(b) == b = Buffers(b.hidden, b.attn, b.mlp, b.tmp, b.logits)

LEMMA BufferParts ==
    ASSUME NEW h, NEW a, NEW m, NEW t, NEW o, NEW b, b = Buffers(h, a, m, t, o)
    PROVE  IsBuffers(b) /\ b.hidden = h /\ b.attn = a /\ b.mlp = m /\ b.tmp = t /\ b.logits = o
BY DEF IsBuffers, Buffers

LEMMA KernelEmbed ==
    ASSUME NEW b, IsBuffers(b), NEW d, NEW token, NEW c, c = Kernel(d, <<"embed", token>>, b)
    PROVE  c = Buffers(Embedded(d, b.hidden, token), b.attn, b.mlp, b.tmp, b.logits)
<1>1. PICK x : x = Embedded(d, b.hidden, token)
  OBVIOUS
<1>2. Kernel(d, <<"embed", token>>, b) = [b EXCEPT !.hidden = Embedded(d, @, token)]
  BY DEF Kernel
<1>3. c = [b EXCEPT !.hidden = x]
  BY <1>1, <1>2, Zenon
<1>4. c = Buffers(x, b.attn, b.mlp, b.tmp, b.logits)
  BY <1>3 DEF IsBuffers, Buffers
<1> QED
  BY <1>1, <1>4, Zenon

LEMMA KernelLayer ==
    ASSUME NEW b, IsBuffers(b), NEW d, NEW l, NEW c, c = Kernel(d, <<"layer", l>>, b)
    PROVE  c = Buffers(b.hidden, AttnPartial(d, b.hidden, l), MlpPartial(d, b.hidden, l), b.tmp, b.logits)
<1>1. PICK x, y : x = AttnPartial(d, b.hidden, l) /\ y = MlpPartial(d, b.hidden, l)
  OBVIOUS
<1>2. Kernel(d, <<"layer", l>>, b) = [b EXCEPT !.attn = AttnPartial(d, b.hidden, l),
                                               !.mlp = MlpPartial(d, b.hidden, l)]
  BY DEF Kernel
<1>3. c = [b EXCEPT !.attn = x, !.mlp = y]
  BY <1>1, <1>2, Zenon
<1>4. c = Buffers(b.hidden, x, y, b.tmp, b.logits)
  BY <1>3 DEF IsBuffers, Buffers
<1> QED
  BY <1>1, <1>4, Zenon

LEMMA KernelAdd ==
    ASSUME NEW b, IsBuffers(b), NEW d, NEW part \in {"attn", "mlp", "tmp"}, NEW c,
           c = Kernel(d, <<"add", part>>, b)
    PROVE  c = Buffers(Add(b.hidden, b[part]), b.attn, b.mlp, b.tmp, b.logits)
<1>1. PICK x : x = Add(b.hidden, b[part])
  OBVIOUS
<1>2. Kernel(d, <<"add", part>>, b) = [b EXCEPT !.hidden = Add(@, b[part])]
  BY DEF Kernel
<1>3. c = [b EXCEPT !.hidden = x]
  BY <1>1, <1>2, Zenon
<1>4. c = Buffers(x, b.attn, b.mlp, b.tmp, b.logits)
  BY <1>3 DEF IsBuffers, Buffers
<1> QED
  BY <1>1, <1>4, Zenon

LEMMA KernelHead ==
    ASSUME NEW b, IsBuffers(b), NEW d, NEW c, c = Kernel(d, <<"head", 0>>, b)
    PROVE  c = Buffers(FinalNorm(d, b.hidden), b.attn, b.mlp, b.tmp,
                       OutputShard(d, FinalNorm(d, b.hidden)))
<1>1. PICK x, y : x = FinalNorm(d, b.hidden) /\ y = OutputShard(d, FinalNorm(d, b.hidden))
  OBVIOUS
<1>2. Kernel(d, <<"head", 0>>, b) = [b EXCEPT !.hidden = FinalNorm(d, @),
                                              !.logits = OutputShard(d, FinalNorm(d, b.hidden))]
  BY DEF Kernel
<1>3. c = [b EXCEPT !.hidden = x, !.logits = y]
  BY <1>1, <1>2, Zenon
<1>4. c = Buffers(x, b.attn, b.mlp, b.tmp, y)
  BY <1>3 DEF IsBuffers, Buffers
<1> QED
  BY <1>1, <1>4, Zenon
-----------------------------------------------------------------------------
(***************************************************************************)
(* What a rank will have computed when it has run what is there for it.    *)
(***************************************************************************)

\* Where run goes on after l layers.
After(name, l) == IF l < TpModels[name].meta.n_layer THEN "layer" ELSE "head"

RankAttn(name, tp, pos, r, x, l) == AttnPartial(RankDevice(name, tp, r, pos), x, l)
RankMlp(name, tp, pos, r, x, l) == MlpPartial(RankDevice(name, tp, r, pos), x, l)

Goal(pc, name, tp, pos, X, l, r, c) ==
    \/ /\ pc = "layer" /\ l \in Layers(name) /\ c.hidden = X[l - 1]
    \/ /\ pc = "reduce attn" /\ l \in Layers(name) /\ c.hidden = X[l - 1]
       /\ c.attn = RankAttn(name, tp, pos, r, X[l - 1], l)
       /\ c.mlp = RankMlp(name, tp, pos, r, X[l - 1], l)
    \/ /\ pc = "reduce mlp" /\ l \in Layers(name)
       /\ c.hidden = Add(X[l - 1], AttnPartial(WholeDevice(name, pos), X[l - 1], l))
       /\ c.mlp = RankMlp(name, tp, pos, r, X[l - 1], l)
    \/ /\ pc = "head" /\ c.hidden = X[TpModels[name].meta.n_layer]
    \/ /\ pc = "gather"
       /\ c.hidden = FinalNorm(WholeDevice(name, pos), X[TpModels[name].meta.n_layer])
       /\ c.logits = OutputShard(RankDevice(name, tp, r, pos), c.hidden)

RankAt(pc, name, tp, pos, X, l, r, q, e, g) ==
    /\ pc \in {"reduce attn", "reduce mlp", "gather"} => e = << >>
    /\ \E c : /\ IsBuffers(c) /\ Reaches(q, e, g, RankDevice(name, tp, r, pos), c)
              /\ Goal(pc, name, tp, pos, X, l, r, c)

LEMMA RankStep ==
    ASSUME NEW pc, NEW name, NEW tp, NEW pos, NEW X, NEW l, NEW r, NEW q, NEW e, NEW g,
           RankAt(pc, name, tp, pos, X, l, r, q, e, g), q # << >>
    PROVE  RankAt(pc, name, tp, pos, X, l, r, Tail(q), e, Kernel(RankDevice(name, tp, r, pos), Head(q), g))
<1>1. PICK c : /\ IsBuffers(c) /\ Reaches(q, e, g, RankDevice(name, tp, r, pos), c)
               /\ Goal(pc, name, tp, pos, X, l, r, c)
  BY Zenon DEF RankAt
<1>2. Reaches(Tail(q), e, Kernel(RankDevice(name, tp, r, pos), Head(q), g), RankDevice(name, tp, r, pos), c)
  BY <1>1, ReachesStep
<1> QED
  BY <1>1, <1>2, Zenon DEF RankAt

\* Layers that are over.
LEMMA GoalAfter ==
    ASSUME NEW name, name \in DOMAIN TpModels, NEW tp, NEW pos, NEW X, NEW l \in Nat,
           l <= TpModels[name].meta.n_layer, NEW r, NEW c, c.hidden = X[l]
    PROVE  Goal(After(name, l), name, tp, pos, X, l + 1, r, c)
<1>1. PICK n \in Nat : n = TpModels[name].meta.n_layer
  BY TpMetaOf DEF IsTpMeta
<1>2. CASE l < n
  <2>1. l + 1 \in Layers(name) /\ (l + 1) - 1 = l
    BY <1>1, <1>2 DEF Layers
  <2>2. After(name, l) = "layer"
    BY <1>1, <1>2, Zenon DEF After
  <2> QED
    BY <2>1, <2>2, Zenon DEF Goal
<1>3. CASE ~(l < n)
  <2>1. l = n
    BY <1>1, <1>3
  <2>2. After(name, l) = "head"
    BY <1>1, <1>3, Zenon DEF After
  <2> QED
    BY <1>1, <2>1, <2>2, Zenon DEF Goal
<1> QED
  BY <1>2, <1>3

LEMMA AfterIs == \A name, l : After(name, l) \in {"layer", "head"} /\ After(name, l) \notin {"reduce attn", "reduce mlp", "gather"}
BY DEF After

LEMMA RankStart ==
    ASSUME NEW name, NEW tp, NEW pos, TpReady(name, tp, pos), NEW r \in 0..(tp - 1),
           NEW X, NEW hidden, NEW token, IsPass(X, name, pos, hidden, token),
           NEW g, IsBuffers(g), g.hidden = hidden
    PROVE  RankAt(After(name, 0), name, tp, pos, X, 1, r, << >>, << <<"embed", token>> >>, g)
<1>1. PICK d, c : d = RankDevice(name, tp, r, pos) /\ c = Kernel(d, <<"embed", token>>, g)
  OBVIOUS
<1>2. c = Buffers(Embedded(d, g.hidden, token), g.attn, g.mlp, g.tmp, g.logits)
  BY <1>1, KernelEmbed
<1>3. IsBuffers(c) /\ c.hidden = Embedded(d, g.hidden, token)
  BY <1>2, BufferParts
<1>4. Embedded(RankDevice(name, tp, r, pos), hidden, token) = Embedded(WholeDevice(name, pos), hidden, token)
  BY SameEnds
<1>5. c.hidden = X[0]
  BY <1>1, <1>3, <1>4, Zenon DEF IsPass
<1>6. name \in DOMAIN TpModels /\ 0 \in Nat /\ 0 <= TpModels[name].meta.n_layer /\ 0 + 1 = 1
  BY ReadyFacts DEF IsTpMeta
<1>7. Goal(After(name, 0), name, tp, pos, X, 0 + 1, r, c)
  BY <1>5, <1>6, GoalAfter
<1>8. Reaches(<< >>, << <<"embed", token>> >>, g, d, c)
  BY <1>1, ReachesFirst, Zenon
<1> QED
  BY <1>1, <1>3, <1>6, <1>7, <1>8, AfterIs, Zenon DEF RankAt

LEMMA RankLayer ==
    ASSUME NEW name, NEW tp, NEW pos, NEW X, NEW l, NEW r, NEW q, NEW e, NEW g,
           RankAt("layer", name, tp, pos, X, l, r, q, e, g)
    PROVE  RankAt("reduce attn", name, tp, pos, X, l, r, q \o e \o << <<"layer", l>> >>, << >>, g)
<1>1. PICK d : d = RankDevice(name, tp, r, pos)
  OBVIOUS
<1>2. PICK b : IsBuffers(b) /\ Reaches(q, e, g, d, b) /\ Goal("layer", name, tp, pos, X, l, r, b)
  BY <1>1, Zenon DEF RankAt
<1>3. l \in Layers(name) /\ b.hidden = X[l - 1]
  BY <1>2 DEF Goal
<1>4. PICK c : c = Kernel(d, <<"layer", l>>, b)
  OBVIOUS
<1>5. c = Buffers(b.hidden, AttnPartial(d, b.hidden, l), MlpPartial(d, b.hidden, l), b.tmp, b.logits)
  BY <1>2, <1>4, KernelLayer
<1>6. /\ IsBuffers(c) /\ c.hidden = b.hidden /\ c.attn = AttnPartial(d, b.hidden, l)
      /\ c.mlp = MlpPartial(d, b.hidden, l)
  BY <1>5, BufferParts
<1>7. Goal("reduce attn", name, tp, pos, X, l, r, c)
  BY <1>1, <1>3, <1>6, Zenon DEF Goal, RankAttn, RankMlp
<1>8. Reaches(q \o e \o << <<"layer", l>> >>, << >>, g, d, c)
  BY <1>2, <1>4, ReachesCommit, Zenon
<1> QED
  BY <1>1, <1>6, <1>7, <1>8, Zenon DEF RankAt

LEMMA RankOneLayer ==
    ASSUME NEW name, NEW pos, TpReady(name, 1, pos), NEW X, NEW hidden, NEW token,
           IsPass(X, name, pos, hidden, token), NEW l, NEW q, NEW e, NEW g,
           RankAt("layer", name, 1, pos, X, l, 0, q, e, g)
    PROVE  RankAt(After(name, l), name, 1, pos, X, l + 1, 0, q,
                  e \o << <<"layer", l>>, <<"add", "attn">>, <<"add", "mlp">> >>, g)
<1>1. PICK d : d = RankDevice(name, 1, 0, pos) /\ d = WholeDevice(name, pos)
  BY OneShard
<1>2. PICK b : IsBuffers(b) /\ Reaches(q, e, g, d, b) /\ Goal("layer", name, 1, pos, X, l, 0, b)
  BY <1>1, Zenon DEF RankAt
<1>3. l \in Layers(name) /\ b.hidden = X[l - 1]
  BY <1>2 DEF Goal
<1>4. PICK x, y, z : /\ x = Kernel(d, <<"layer", l>>, b) /\ y = Kernel(d, <<"add", "attn">>, x)
                     /\ z = Kernel(d, <<"add", "mlp">>, y)
  OBVIOUS
<1>5. x = Buffers(b.hidden, AttnPartial(d, b.hidden, l), MlpPartial(d, b.hidden, l), b.tmp, b.logits)
  BY <1>2, <1>4, KernelLayer
<1>6. /\ IsBuffers(x) /\ x.hidden = b.hidden /\ x.attn = AttnPartial(d, b.hidden, l)
      /\ x.mlp = MlpPartial(d, b.hidden, l)
  BY <1>5, BufferParts
<1>7. y = Buffers(Add(x.hidden, x["attn"]), x.attn, x.mlp, x.tmp, x.logits)
  BY <1>4, <1>6, KernelAdd
<1>8. IsBuffers(y) /\ y.hidden = Add(x.hidden, x["attn"]) /\ y.mlp = x.mlp
  BY <1>7, BufferParts
<1>9. z = Buffers(Add(y.hidden, y["mlp"]), y.attn, y.mlp, y.tmp, y.logits)
  BY <1>4, <1>8, KernelAdd
<1>10. IsBuffers(z) /\ z.hidden = Add(y.hidden, y["mlp"])
  BY <1>9, BufferParts
<1>11. z.hidden = LayerOn(d, X[l - 1], l)
  <2>1. x["attn"] = x.attn /\ y["mlp"] = y.mlp
    OBVIOUS
  <2> QED
    BY <1>3, <1>6, <1>8, <1>10, <2>1, Zenon DEF LayerOn
<1>12. z.hidden = X[l]
  BY <1>1, <1>3, <1>11, Zenon DEF IsPass
<1>13. name \in DOMAIN TpModels /\ l \in Nat /\ l <= TpModels[name].meta.n_layer
  BY <1>3, ReadyFacts DEF Layers, IsTpMeta
<1>14. Goal(After(name, l), name, 1, pos, X, l + 1, 0, z)
  BY <1>12, <1>13, GoalAfter
<1>15. Reaches(q, e \o << <<"layer", l>>, <<"add", "attn">>, <<"add", "mlp">> >>, g, d, z)
  BY <1>2, <1>4, ReachesThree, Zenon
<1> QED
  BY <1>1, <1>10, <1>14, <1>15, AfterIs, Zenon DEF RankAt

\* The kernel that adds the sum of an all-reduce, which is in tmp.
LEMMA RankReduced ==
    ASSUME NEW g, IsBuffers(g), NEW sum, NEW d
    PROVE  \E b, c : /\ b = [g EXCEPT !.tmp = sum]
                     /\ IsBuffers(c) /\ c.hidden = Add(g.hidden, sum) /\ c.mlp = g.mlp
                     /\ c = Kernel(d, <<"add", "tmp">>, b)
                     /\ Reaches(<< >> \o << >> \o << <<"add", "tmp">> >>, << >>, b, d, c)
                     /\ Reaches(<< >>, << <<"add", "tmp">> >>, b, d, c)
<1>1. PICK b : b = [g EXCEPT !.tmp = sum]
  OBVIOUS
<1>2. b = Buffers(g.hidden, g.attn, g.mlp, sum, g.logits)
  BY <1>1 DEF IsBuffers, Buffers
<1>3. IsBuffers(b) /\ b.hidden = g.hidden /\ b.mlp = g.mlp /\ b.tmp = sum
  BY <1>2, BufferParts
<1>4. PICK c : c = Kernel(d, <<"add", "tmp">>, b)
  OBVIOUS
<1>5. c = Buffers(Add(b.hidden, b["tmp"]), b.attn, b.mlp, b.tmp, b.logits)
  BY <1>3, <1>4, KernelAdd
<1>6. IsBuffers(c) /\ c.hidden = Add(b.hidden, b["tmp"]) /\ c.mlp = b.mlp
  BY <1>5, BufferParts
<1>7. b["tmp"] = b.tmp
  OBVIOUS
<1>8. c.hidden = Add(g.hidden, sum) /\ c.mlp = g.mlp
  BY <1>3, <1>6, <1>7, Zenon
<1>9. Reaches(<< >>, << <<"add", "tmp">> >>, b, d, c)
  BY <1>4, ReachesFirst, Zenon
<1>10. Reaches(<< >> \o << >> \o << <<"add", "tmp">> >>, << >>, b, d, c)
  <2>1. Reaches(<< >>, << >>, b, d, b)
    BY ReachesHere
  <2> QED
    BY <1>4, <2>1, ReachesCommit, Zenon
<1> QED
  BY <1>1, <1>4, <1>6, <1>8, <1>9, <1>10, Zenon

\* A rank that has nothing left to run has what it was to compute.
LEMMA RankDone ==
    ASSUME NEW pc \in {"reduce attn", "reduce mlp", "gather"}, NEW name, NEW tp, NEW pos, NEW X, NEW l,
           NEW r, NEW e, NEW g, RankAt(pc, name, tp, pos, X, l, r, << >>, e, g)
    PROVE  e = << >> /\ IsBuffers(g) /\ Goal(pc, name, tp, pos, X, l, r, g)
<1>1. PICK d : d = RankDevice(name, tp, r, pos)
  OBVIOUS
<1>2. e = << >>
  BY Zenon DEF RankAt
<1>3. PICK c : IsBuffers(c) /\ Reaches(<< >>, << >>, g, d, c) /\ Goal(pc, name, tp, pos, X, l, r, c)
  BY <1>1, <1>2, Zenon DEF RankAt
<1>4. c = g
  BY <1>3, ReachesHere
<1> QED
  BY <1>2, <1>3, <1>4, Zenon

LEMMA RankAddsAttn ==
    ASSUME NEW name, NEW tp, NEW pos, NEW X, NEW l, NEW r, NEW e, NEW g,
           RankAt("reduce attn", name, tp, pos, X, l, r, << >>, e, g)
    PROVE  RankAt("reduce mlp", name, tp, pos, X, l, r, << >> \o e \o << <<"add", "tmp">> >>, << >>,
                  [g EXCEPT !.tmp = AttnPartial(WholeDevice(name, pos), X[l - 1], l)])
<1>1. PICK d, sum : d = RankDevice(name, tp, r, pos) /\ sum = AttnPartial(WholeDevice(name, pos), X[l - 1], l)
  OBVIOUS
<1>2. e = << >> /\ IsBuffers(g) /\ Goal("reduce attn", name, tp, pos, X, l, r, g)
  BY RankDone
<1>3. l \in Layers(name) /\ g.hidden = X[l - 1] /\ g.mlp = RankMlp(name, tp, pos, r, X[l - 1], l)
  BY <1>2 DEF Goal
<1>4. PICK b, c : /\ b = [g EXCEPT !.tmp = sum]
                  /\ IsBuffers(c) /\ c.hidden = Add(g.hidden, sum) /\ c.mlp = g.mlp
                  /\ Reaches(<< >> \o << >> \o << <<"add", "tmp">> >>, << >>, b, d, c)
  BY <1>2, RankReduced
<1>5. Goal("reduce mlp", name, tp, pos, X, l, r, c)
  BY <1>1, <1>3, <1>4, Zenon DEF Goal
<1>6. RankAt("reduce mlp", name, tp, pos, X, l, r, << >> \o << >> \o << <<"add", "tmp">> >>, << >>, b)
  BY <1>1, <1>4, <1>5, Zenon DEF RankAt
<1> QED
  BY <1>1, <1>2, <1>4, <1>6, Zenon

LEMMA UpToIs == \A k \in Nat : \A i \in 1..k : i \in Nat /\ i <= k
OBVIOUS

LEMMA RankAddsMlp ==
    ASSUME NEW name, NEW tp, NEW pos, TpReady(name, tp, pos), NEW X, NEW hidden, NEW token,
           IsPass(X, name, pos, hidden, token), NEW l, NEW r, NEW e, NEW g,
           RankAt("reduce mlp", name, tp, pos, X, l, r, << >>, e, g)
    PROVE  RankAt(After(name, l), name, tp, pos, X, l + 1, r, << >>, << <<"add", "tmp">> >>,
                  [g EXCEPT !.tmp = MlpPartial(WholeDevice(name, pos), X[l - 1], l)])
<1>1. PICK d, w, sum : /\ d = RankDevice(name, tp, r, pos) /\ w = WholeDevice(name, pos)
                       /\ sum = MlpPartial(w, X[l - 1], l)
  OBVIOUS
<1>2. IsBuffers(g) /\ Goal("reduce mlp", name, tp, pos, X, l, r, g)
  BY RankDone
<1>3. l \in Layers(name) /\ g.hidden = Add(X[l - 1], AttnPartial(w, X[l - 1], l))
  BY <1>1, <1>2 DEF Goal
<1>4. PICK b, c : /\ b = [g EXCEPT !.tmp = sum]
                  /\ IsBuffers(c) /\ c.hidden = Add(g.hidden, sum)
                  /\ Reaches(<< >>, << <<"add", "tmp">> >>, b, d, c)
  BY <1>2, RankReduced
<1>5. c.hidden = LayerOn(w, X[l - 1], l)
  BY <1>1, <1>3, <1>4, Zenon DEF LayerOn
<1>6. c.hidden = X[l]
  BY <1>1, <1>3, <1>5, Zenon DEF IsPass
<1>7. name \in DOMAIN TpModels /\ l \in Nat /\ l <= TpModels[name].meta.n_layer
  <2>1. name \in DOMAIN TpModels /\ IsTpMeta(TpModels[name].meta)
    BY ReadyFacts
  <2>2. PICK n \in Nat : n = TpModels[name].meta.n_layer
    BY <2>1 DEF IsTpMeta
  <2>3. l \in 1..n
    BY <1>3, <2>2, Zenon DEF Layers
  <2>4. l \in Nat /\ l <= n
    BY <2>2, <2>3, UpToIs
  <2> QED
    BY <2>1, <2>2, <2>4, Zenon
<1>8. Goal(After(name, l), name, tp, pos, X, l + 1, r, c)
  BY <1>6, <1>7, GoalAfter
<1>9. RankAt(After(name, l), name, tp, pos, X, l + 1, r, << >>, << <<"add", "tmp">> >>, b)
  BY <1>1, <1>4, <1>8, AfterIs, Zenon DEF RankAt
<1> QED
  BY <1>1, <1>4, <1>9, Zenon

LEMMA RankHead ==
    ASSUME NEW name, NEW tp, NEW pos, TpReady(name, tp, pos), NEW X, NEW l, NEW r \in 0..(tp - 1),
           NEW q, NEW e, NEW g, RankAt("head", name, tp, pos, X, l, r, q, e, g)
    PROVE  RankAt("gather", name, tp, pos, X, l, r, q \o e \o << <<"head", 0>> >>, << >>, g)
<1>1. PICK d, n : d = RankDevice(name, tp, r, pos) /\ n = TpModels[name].meta.n_layer
  OBVIOUS
<1>2. PICK b : IsBuffers(b) /\ Reaches(q, e, g, d, b) /\ Goal("head", name, tp, pos, X, l, r, b)
  BY <1>1, Zenon DEF RankAt
<1>3. b.hidden = X[n]
  BY <1>1, <1>2 DEF Goal
<1>4. PICK c : c = Kernel(d, <<"head", 0>>, b)
  OBVIOUS
<1>5. c = Buffers(FinalNorm(d, b.hidden), b.attn, b.mlp, b.tmp, OutputShard(d, FinalNorm(d, b.hidden)))
  BY <1>2, <1>4, KernelHead
<1>6. /\ IsBuffers(c) /\ c.hidden = FinalNorm(d, b.hidden)
      /\ c.logits = OutputShard(d, FinalNorm(d, b.hidden))
  BY <1>5, BufferParts
<1>7. FinalNorm(d, X[n]) = FinalNorm(WholeDevice(name, pos), X[n])
  BY <1>1, SameEnds
<1>8. Goal("gather", name, tp, pos, X, l, r, c)
  BY <1>1, <1>3, <1>6, <1>7, Zenon DEF Goal
<1>9. Reaches(q \o e \o << <<"head", 0>> >>, << >>, g, d, c)
  BY <1>2, <1>4, ReachesCommit, Zenon
<1> QED
  BY <1>1, <1>6, <1>8, <1>9, Zenon DEF RankAt
-----------------------------------------------------------------------------
\* What SumOf computes, for an architecture of n_embd elements.
SummedUp(n, tp, part) == Vector(n, LAMBDA i : SumTo(tp, LAMBDA r : part[r - 1][i]))

AddUpTo(n, tp, part, full) == \A i \in 1..n : Total([r \in 1..tp |-> part[r - 1][i]]) = full[i]

LEMMA SumIs ==
    ASSUME NEW tp \in Nat, NEW n \in Nat, NEW part, NEW full \in Vec(n), AddUpTo(n, tp, part, full)
    PROVE  SummedUp(n, tp, part) = full
<1>1. ASSUME NEW i \in 1..n PROVE SumTo(tp, LAMBDA r : part[r - 1][i]) = full[i]
  <2>1. PICK v : v = [r \in 1..tp |-> part[r - 1][i]]
    OBVIOUS
  <2>2. v = [r \in 1..tp |-> v[r]]
    BY <2>1
  <2>3. SubSeq(v, 1, tp) = v
    BY <2>2, VectorOf
  <2>4. SumTo(tp, LAMBDA r : part[r - 1][i]) = Total(SubSeq(v, 1, tp))
    BY <2>1, Zenon DEF SumTo, Vector
  <2>5. Total(v) = full[i]
    BY <2>1, Zenon DEF AddUpTo
  <2> QED
    BY <2>3, <2>4, <2>5, Zenon
<1>2. PICK g : g = [i \in 1..n |-> SumTo(tp, LAMBDA r : part[r - 1][i])]
  OBVIOUS
<1>3. full = [i \in 1..n |-> full[i]]
  BY DEF Vec
<1>4. g = full
  BY <1>1, <1>2, <1>3, Zenon
<1>5. SubSeq(full, 1, n) = full
  BY <1>3, VectorOf
<1>6. Vector(n, LAMBDA i : SumTo(tp, LAMBDA r : part[r - 1][i])) = SubSeq(g, 1, n)
  BY <1>2, Zenon DEF Vector
<1> QED
  BY <1>4, <1>5, <1>6, Zenon DEF SummedUp

HasAttn(part, name, tp, pos, x, l) ==
    \A r \in 0..(tp - 1) : part[r] = RankAttn(name, tp, pos, r, x, l)

LEMMA AttnSumIs ==
    ASSUME NEW name, NEW tp, NEW pos, TpReady(name, tp, pos), NEW x \in States(name),
           NEW l \in Layers(name), NEW part, HasAttn(part, name, tp, pos, x, l)
    PROVE  SummedUp(TpModels[name].meta.n_embd, tp, part) = AttnPartial(WholeDevice(name, pos), x, l)
<1>1. PICK n, full : /\ n = TpModels[name].meta.n_embd /\ n \in Nat
                     /\ full = AttnPartial(WholeDevice(name, pos), x, l)
  BY ReadyFacts DEF IsTpMeta
<1>2. tp \in Nat /\ n \in Nat /\ full \in Vec(n)
  BY <1>1, ReadyFacts, PartialsAre DEF States
<1>3. ASSUME NEW i \in 1..n
      PROVE  /\ AttnParts(name, tp, pos, x, l, i) = [r \in 1..tp |-> part[r - 1][i]]
             /\ Total(AttnParts(name, tp, pos, x, l, i)) = full[i]
  <2>1. ASSUME NEW r \in 1..tp PROVE part[r - 1][i] = AttnPartial(RankDevice(name, tp, r - 1, pos), x, l)[i]
    <3>1. r - 1 \in 0..(tp - 1)
      BY <1>2
    <3> QED
      BY <3>1, Zenon DEF RankAttn, HasAttn
  <2>2. AttnParts(name, tp, pos, x, l, i) = [r \in 1..tp |-> part[r - 1][i]]
    BY <2>1, Zenon DEF AttnParts
  <2>3. i \in 1..TpModels[name].meta.n_embd
    BY <1>1
  <2>4. Total(AttnParts(name, tp, pos, x, l, i)) = AttnPartial(WholeDevice(name, pos), x, l)[i]
    BY <2>3, AttnSum
  <2> QED
    BY <1>1, <2>2, <2>4, Zenon
<1>4. AddUpTo(n, tp, part, full)
  BY <1>3, Zenon DEF AddUpTo
<1>5. SummedUp(n, tp, part) = full
  BY <1>2, <1>4, SumIs
<1> QED
  BY <1>1, <1>5, Zenon

HasMlp(part, name, tp, pos, x, l) ==
    \A r \in 0..(tp - 1) : part[r] = RankMlp(name, tp, pos, r, x, l)

LEMMA MlpSumIs ==
    ASSUME NEW name, NEW tp, NEW pos, TpReady(name, tp, pos), NEW x \in States(name),
           NEW l \in Layers(name), NEW part, HasMlp(part, name, tp, pos, x, l)
    PROVE  SummedUp(TpModels[name].meta.n_embd, tp, part) = MlpPartial(WholeDevice(name, pos), x, l)
<1>1. PICK n, full : /\ n = TpModels[name].meta.n_embd /\ n \in Nat
                     /\ full = MlpPartial(WholeDevice(name, pos), x, l)
  BY ReadyFacts DEF IsTpMeta
<1>2. tp \in Nat /\ n \in Nat /\ full \in Vec(n)
  BY <1>1, ReadyFacts, PartialsAre DEF States
<1>3. ASSUME NEW i \in 1..n
      PROVE  /\ MlpParts(name, tp, pos, x, l, i) = [r \in 1..tp |-> part[r - 1][i]]
             /\ Total(MlpParts(name, tp, pos, x, l, i)) = full[i]
  <2>1. ASSUME NEW r \in 1..tp PROVE part[r - 1][i] = MlpPartial(RankDevice(name, tp, r - 1, pos), x, l)[i]
    <3>1. r - 1 \in 0..(tp - 1)
      BY <1>2
    <3> QED
      BY <3>1, Zenon DEF RankMlp, HasMlp
  <2>2. MlpParts(name, tp, pos, x, l, i) = [r \in 1..tp |-> part[r - 1][i]]
    BY <2>1, Zenon DEF MlpParts
  <2>3. i \in 1..TpModels[name].meta.n_embd
    BY <1>1
  <2>4. Total(MlpParts(name, tp, pos, x, l, i)) = MlpPartial(WholeDevice(name, pos), x, l)[i]
    BY <2>3, MlpSum
  <2> QED
    BY <1>1, <2>2, <2>4, Zenon
<1>4. AddUpTo(n, tp, part, full)
  BY <1>3, Zenon DEF AddUpTo
<1>5. SummedUp(n, tp, part) = full
  BY <1>2, <1>4, SumIs
<1> QED
  BY <1>1, <1>5, Zenon
-----------------------------------------------------------------------------
(***************************************************************************)
(* The invariant of TensorParallel.                                        *)
(***************************************************************************)

\* The weights are on the devices.
OnDevices(pc) == pc \in {"idle", "layer", "reduce attn", "reduce mlp", "head", "gather"}

TpStatic ==
    /\ tpModel \in DOMAIN TpModels /\ tpMeta = TpModels[tpModel].meta
    /\ pass = [token |-> pass.token, pos |-> pass.pos, layer |-> pass.layer]
    /\ pass.pos \in 0..MaxPos /\ pass.token \in 0..(tpMeta.n_vocab - 1)
    /\ tpPc \in {"new", "failed"} \/ OnDevices(tpPc)
    /\ tpPc = "new" => passes = 0
    /\ OnDevices(tpPc) =>
          /\ degree \in Nat \ {0}
          /\ shards = Sharded(TpModels[tpModel].tensors, degree)
          /\ Shardable(TpModels[tpModel].tensors, tpMeta.quantization, degree)
          /\ DOMAIN queues = Ranks

LEMMA TpStaticStart == TpInit => TpStatic
<1> SUFFICES ASSUME TpInit PROVE TpStatic
  OBVIOUS
<1>1. /\ tpPc = "new" /\ tpModel \in DOMAIN TpModels /\ tpMeta = TpModels[tpModel].meta
      /\ pass = [token |-> 0, pos |-> 0, layer |-> 0] /\ passes = 0
  BY DEF TpInit
<1>2. tpMeta.n_vocab \in Nat \ {0}
  BY <1>1, TpMetaOf DEF IsTpMeta
<1>3. PICK n \in Nat \ {0} : n = tpMeta.n_vocab
  BY <1>2
<1>4. 0 \in 0..(n - 1) /\ 0 \in 0..MaxPos
  BY TpAssumption DEF TpAssumption
<1>5. pass.token = 0 /\ pass.pos = 0 /\ pass.layer = 0
  BY <1>1
<1>6. ~OnDevices("new")
  BY DEF OnDevices
<1> QED
  BY <1>1, <1>3, <1>4, <1>5, <1>6, Zenon DEF TpStatic

LEMMA TpStaticStep == TpStatic /\ [TpNext]_tpVars => TpStatic'
<1> SUFFICES ASSUME TpStatic, [TpNext]_tpVars PROVE TpStatic'
  OBVIOUS
<1>0. CASE UNCHANGED tpVars
  BY <1>0 DEF TpStatic, tpVars, Ranks
<1>1. ASSUME NEW tp \in Degrees, New(tp) PROVE TpStatic'
  <2>1. CASE tp = 0 \/ ShardingFails(TpModels[tpModel].tensors, tp)
    <3>1. /\ tpPc' = "failed" /\ UNCHANGED <<tpModel, tpMeta, pass, passes>>
      BY <1>1, <2>1 DEF New
    <3> QED
      BY <3>1 DEF TpStatic, OnDevices
  <2>2. CASE ~(tp = 0 \/ ShardingFails(TpModels[tpModel].tensors, tp))
    <3>1. /\ tpPc' = "idle" /\ degree' = tp /\ shards' = Sharded(TpModels[tpModel].tensors, tp)
          /\ queues' = [r \in 0..(tp - 1) |-> <<>>]
          /\ UNCHANGED <<tpModel, tpMeta, pass, passes>>
      BY <1>1, <2>2 DEF New
    <3>2. tp \in Nat \ {0}
      BY <2>2, TpAssumption DEF TpAssumption
    <3>3. Shardable(TpModels[tpModel].tensors, tpMeta.quantization, tp)
      BY <2>2, Zenon DEF Shardable, ShardingFails
    <3>4. DOMAIN queues' = 0..(tp - 1) /\ Ranks' = 0..(tp - 1)
      BY <3>1 DEF Ranks
    <3>5. /\ tpModel \in DOMAIN TpModels /\ tpMeta = TpModels[tpModel].meta
          /\ pass = [token |-> pass.token, pos |-> pass.pos, layer |-> pass.layer]
          /\ pass.pos \in 0..MaxPos /\ pass.token \in 0..(tpMeta.n_vocab - 1)
      BY DEF TpStatic
    <3>6. tpPc' # "new" /\ OnDevices(tpPc')
      BY <3>1 DEF OnDevices
    <3> QED
      BY <3>1, <3>2, <3>3, <3>4, <3>5, <3>6, Zenon DEF TpStatic
  <2> QED
    BY <2>1, <2>2
<1> DEFINE Kept == /\ OnDevices(tpPc) /\ OnDevices(tpPc') /\ tpPc' # "new"
                   /\ UNCHANGED <<tpModel, tpMeta, degree, shards>>
                   /\ DOMAIN queues' = Ranks
                   /\ pass' = [token |-> pass'.token, pos |-> pass'.pos, layer |-> pass'.layer]
                   /\ pass'.pos \in 0..MaxPos /\ pass'.token \in 0..(tpMeta.n_vocab - 1)
<1>2. ASSUME Kept PROVE TpStatic'
  <2>1. Ranks' = Ranks
    BY <1>2 DEF Ranks
  <2> QED
    BY <1>2, <2>1 DEF TpStatic
<1>3. ASSUME /\ tpPc \in {"layer", "reduce attn", "reduce mlp", "head", "gather"} \/ tpPc = "idle"
      PROVE  DOMAIN queues = Ranks /\ OnDevices(tpPc)
  BY <1>3 DEF TpStatic, OnDevices
<1>4. \A l : OnDevices(AfterLayer(l)) /\ AfterLayer(l) # "new"
  BY DEF AfterLayer, OnDevices
<1>5. ASSUME NEW token \in 0..(tpMeta.n_vocab - 1), NEW pos \in 0..MaxPos, StartPass(token, pos)
      PROVE  TpStatic'
  <2>1. /\ tpPc = "idle" /\ tpPc' = AfterLayer(0) /\ pass' = [token |-> token, pos |-> pos, layer |-> 1]
        /\ UNCHANGED <<tpModel, tpMeta, degree, shards, queues>>
    BY <1>5 DEF StartPass
  <2>2. pass'.token = token /\ pass'.pos = pos /\ pass'.layer = 1
    BY <2>1
  <2>3. Kept
    BY <1>3, <1>4, <2>1, <2>2
  <2> QED
    BY <1>2, <2>3
<1>6. /\ pass = [token |-> pass.token, pos |-> pass.pos, layer |-> pass.layer]
      /\ pass.pos \in 0..MaxPos /\ pass.token \in 0..(tpMeta.n_vocab - 1)
  BY DEF TpStatic
<1>7. ASSUME pass' = [pass EXCEPT !.layer = @ + 1] \/ pass' = pass
      PROVE  /\ pass' = [token |-> pass'.token, pos |-> pass'.pos, layer |-> pass'.layer]
             /\ pass'.pos \in 0..MaxPos /\ pass'.token \in 0..(tpMeta.n_vocab - 1)
  <2>1. pass'.token = pass.token /\ pass'.pos = pass.pos
    BY <1>6, <1>7
  <2>2. pass' = [token |-> pass'.token, pos |-> pass'.pos, layer |-> pass'.layer]
    BY <1>6, <1>7
  <2> QED
    BY <1>6, <2>1, <2>2
<1>8. CASE EncodeLayer
  <2>1. /\ tpPc = "layer" /\ UNCHANGED <<tpModel, tpMeta, degree, shards>>
        /\ \/ queues' = [r \in Ranks |-> queues[r] \o encoded[r] \o << <<"layer", pass.layer>> >>]
           \/ UNCHANGED queues
        /\ tpPc' = "reduce attn" \/ tpPc' = AfterLayer(pass.layer)
        /\ pass' = [pass EXCEPT !.layer = @ + 1] \/ pass' = pass
    BY <1>8, Zenon DEF EncodeLayer, CommitAll
  <2>2. DOMAIN queues' = Ranks
    BY <1>3, <2>1
  <2>3. OnDevices(tpPc') /\ tpPc' # "new"
    BY <1>4, <2>1 DEF OnDevices
  <2>4. Kept
    BY <1>3, <1>7, <2>1, <2>2, <2>3
  <2> QED
    BY <1>2, <2>4
<1>9. CASE ReduceAttn
  <2>1. /\ tpPc = "reduce attn" /\ UNCHANGED <<tpModel, tpMeta, degree, shards, pass>>
        /\ queues' = [r \in Ranks |-> queues[r] \o encoded[r] \o << <<"add", "tmp">> >>]
        /\ tpPc' = "reduce mlp"
    BY <1>9 DEF ReduceAttn, CommitAll
  <2>2. OnDevices(tpPc')
    BY <2>1 DEF OnDevices
  <2>3. Kept
    BY <1>3, <1>7, <2>1, <2>2
  <2> QED
    BY <1>2, <2>3
<1>10. CASE ReduceMlp
  <2>1. /\ tpPc = "reduce mlp" /\ UNCHANGED <<tpModel, tpMeta, degree, shards, queues>>
        /\ pass' = [pass EXCEPT !.layer = @ + 1] /\ tpPc' = AfterLayer(pass.layer)
    BY <1>10 DEF ReduceMlp
  <2>2. Kept
    BY <1>3, <1>4, <1>7, <2>1
  <2> QED
    BY <1>2, <2>2
<1>11. CASE EncodeHead
  <2>1. /\ tpPc = "head" /\ UNCHANGED <<tpModel, tpMeta, degree, shards, pass>>
        /\ queues' = [r \in Ranks |-> queues[r] \o encoded[r] \o << <<"head", 0>> >>]
        /\ tpPc' = "gather"
    BY <1>11 DEF EncodeHead, CommitAll
  <2>2. OnDevices(tpPc')
    BY <2>1 DEF OnDevices
  <2>3. Kept
    BY <1>3, <1>7, <2>1, <2>2
  <2> QED
    BY <1>2, <2>3
<1>12. CASE Gather
  <2>1. /\ tpPc = "gather" /\ UNCHANGED <<tpModel, tpMeta, degree, shards, pass, queues>>
        /\ tpPc' = "idle"
    BY <1>12 DEF Gather
  <2>2. OnDevices(tpPc')
    BY <2>1 DEF OnDevices
  <2>3. Kept
    BY <1>3, <1>7, <2>1, <2>2
  <2> QED
    BY <1>2, <2>3
<1>13. ASSUME NEW rank \in DOMAIN queues, GpuStep(rank) PROVE TpStatic'
  <2>1. /\ UNCHANGED <<tpPc, tpModel, tpMeta, degree, shards, pass, passes>>
        /\ queues' = [queues EXCEPT ![rank] = Tail(@)]
    BY <1>13 DEF GpuStep
  <2>2. DOMAIN queues' = DOMAIN queues /\ Ranks' = Ranks
    BY <2>1 DEF Ranks
  <2> QED
    BY <2>1, <2>2 DEF TpStatic
<1> QED
  BY <1>0, <1>1, <1>5, <1>8, <1>9, <1>10, <1>11, <1>12, <1>13 DEF TpNext

\* A rank between two calls of run.
IsIdle(r) ==
    queues[r] = << >> /\ encoded[r] = << >> /\ IsBuffers(gpu[r]) /\ gpu[r].hidden = whole

\* A rank in the middle of a call, with the states X of the pass on one device.
IsAt(X, r) ==
    RankAt(tpPc, tpModel, degree, pass.pos, X, pass.layer, r, queues[r], encoded[r], gpu[r])

BetweenCalls ==
    /\ \A r \in Ranks : IsIdle(r)
    /\ passes = 0 \/ logits = OutputShard(WholeDevice(tpModel, pass.pos), whole)

InCall ==
    \E X : /\ IsPass(X, tpModel, pass.pos, whole, pass.token)
           /\ \A r \in Ranks : IsAt(X, r)

Computing == OnDevices(tpPc) /\ Divides(degree, tpMeta)

TpComputed ==
    Computing => /\ DOMAIN gpu = Ranks /\ whole \in States(tpModel)
                 /\ tpPc = "idle" => BetweenCalls
                 /\ tpPc # "idle" => InCall

TpInv == TpStatic /\ TpComputed

LEMMA TpIsReady ==
    ASSUME TpStatic, Computing
    PROVE  /\ TpReady(tpModel, degree, pass.pos) /\ degree \in Nat \ {0} /\ Ranks = 0..(degree - 1)
           /\ \A r : Device(r) = Dev(tpMeta, shards[r], degree, r, pass.pos)
           /\ \A r : Device(r) = RankDevice(tpModel, degree, r, pass.pos)
           /\ OneDevice(TpModels[tpModel].tensors, pass.pos) = WholeDevice(tpModel, pass.pos)
           /\ \A l : AfterLayer(l) = After(tpModel, l)
<1>1. /\ tpModel \in DOMAIN TpModels /\ tpMeta = TpModels[tpModel].meta /\ pass.pos \in 0..MaxPos
      /\ degree \in Nat \ {0} /\ shards = Sharded(TpModels[tpModel].tensors, degree)
      /\ Shardable(TpModels[tpModel].tensors, tpMeta.quantization, degree) /\ Divides(degree, tpMeta)
  BY Zenon DEF TpStatic, Computing
<1>2. TpReady(tpModel, degree, pass.pos)
  BY <1>1, Zenon DEF TpReady
<1>3. \A r : Device(r) = Dev(tpMeta, shards[r], degree, r, pass.pos)
  BY Zenon DEF Device, Dev
<1>4. \A r : Device(r) = RankDevice(tpModel, degree, r, pass.pos)
  BY <1>1, <1>3, Zenon DEF RankDevice
<1>5. OneDevice(TpModels[tpModel].tensors, pass.pos) = WholeDevice(tpModel, pass.pos)
  BY <1>1, Zenon DEF OneDevice, WholeDevice, Dev, DataOf
<1>6. \A l : AfterLayer(l) = After(tpModel, l)
  BY <1>1, Zenon DEF AfterLayer, After
<1> QED
  BY <1>1, <1>2, <1>3, <1>4, <1>5, <1>6, Zenon DEF Ranks

LEMMA ZerosAre ==
    ASSUME NEW name \in DOMAIN TpModels
    PROVE  Zeros(TpModels[name].meta.n_embd) \in States(name)
<1>1. PICK n : n \in Nat /\ n = TpModels[name].meta.n_embd
  BY TpMetaOf DEF IsTpMeta
<1>2. PICK z : z = [i \in 1..n |-> 0]
  OBVIOUS
<1>3. z \in Vec(n)
  BY <1>2 DEF Vec
<1>4. SubSeq(z, 1, n) = z
  <2>1. z = [i \in 1..n |-> z[i]]
    BY <1>2
  <2> QED
    BY <1>1, <2>1, VectorOf
<1>5. Zeros(n) = z
  BY <1>2, <1>4, Zenon DEF Zeros, Vector
<1> QED
  BY <1>1, <1>3, <1>5, Zenon DEF States

\* new.
LEMMA TpNew ==
    ASSUME TpStatic, NEW tp \in Degrees, New(tp)
    PROVE  TpComputed'
<1>1. tpPc = "new" /\ passes = 0 /\ tpModel \in DOMAIN TpModels /\ tpMeta = TpModels[tpModel].meta
  BY DEF TpStatic, New
<1>2. CASE tp = 0 \/ ShardingFails(TpModels[tpModel].tensors, tp)
  <2>1. tpPc' = "failed"
    BY <1>2 DEF New
  <2> QED
    BY <2>1 DEF TpComputed, Computing, OnDevices
<1>3. CASE ~(tp = 0 \/ ShardingFails(TpModels[tpModel].tensors, tp))
  <2>1. /\ tpPc' = "idle" /\ degree' = tp /\ whole' = Zeros(tpMeta.n_embd)
        /\ encoded' = [r \in 0..(tp - 1) |-> <<>>] /\ queues' = [r \in 0..(tp - 1) |-> <<>>]
        /\ gpu' = [r \in 0..(tp - 1) |-> [hidden |-> whole', attn |-> whole', mlp |-> whole',
                                         tmp |-> whole', logits |-> <<>>]]
        /\ UNCHANGED <<tpModel, tpMeta, passes>>
    BY <1>3 DEF New
  <2>2. Ranks' = 0..(tp - 1)
    BY <2>1 DEF Ranks
  <2>3. whole' \in States(tpModel)
    BY <1>1, <2>1, ZerosAre
  <2>4. ASSUME NEW r \in 0..(tp - 1) PROVE IsIdle(r)'
    <3>1. queues'[r] = << >> /\ encoded'[r] = << >>
      BY <2>1
    <3>2. gpu'[r] = Buffers(whole', whole', whole', whole', << >>)
      BY <2>1, Zenon DEF Buffers
    <3>3. IsBuffers(gpu'[r]) /\ gpu'[r].hidden = whole'
      BY <3>2, BufferParts
    <3> QED
      BY <3>1, <3>3, Zenon DEF IsIdle
  <2>5. BetweenCalls'
    BY <1>1, <2>1, <2>2, <2>4, Zenon DEF BetweenCalls
  <2>6. DOMAIN gpu' = Ranks'
    BY <2>1, <2>2
  <2> QED
    BY <2>1, <2>3, <2>5, <2>6, Zenon DEF TpComputed, States
<1> QED
  BY <1>2, <1>3

\* A GPU does what was committed to it.
LEMMA TpGpuStep ==
    ASSUME TpInv, NEW rank \in DOMAIN queues, GpuStep(rank)
    PROVE  TpComputed'
<1> SUFFICES ASSUME Computing' PROVE TpComputed'
  BY DEF TpComputed
<1>1. /\ UNCHANGED <<tpPc, tpModel, tpMeta, degree, shards, pass, encoded, logits, whole, passes>>
      /\ queues[rank] # <<>> /\ queues' = [queues EXCEPT ![rank] = Tail(@)]
      /\ gpu' = [gpu EXCEPT ![rank] = Kernel(Device(rank), Head(queues[rank]), @)]
  BY DEF GpuStep
<1>2. Computing /\ Ranks' = Ranks
  BY <1>1 DEF Computing, Ranks
<1>3. TpStatic /\ TpComputed
  BY DEF TpInv
<1>4. DOMAIN queues = Ranks /\ rank \in Ranks /\ DOMAIN gpu = Ranks /\ whole \in States(tpModel)
  BY <1>2, <1>3 DEF TpStatic, Computing, TpComputed
<1>5. tpPc # "idle"
  BY <1>1, <1>2, <1>3, <1>4, Zenon DEF TpComputed, BetweenCalls, IsIdle
<1>6. PICK X : IsPass(X, tpModel, pass.pos, whole, pass.token) /\ \A r \in Ranks : IsAt(X, r)
  BY <1>2, <1>3, <1>5, Zenon DEF TpComputed, InCall
<1>7. ASSUME NEW r \in Ranks PROVE IsAt(X, r)'
  <2>1. IsAt(X, r)
    BY <1>6
  <2>2. CASE r # rank
    <3>1. queues'[r] = queues[r] /\ gpu'[r] = gpu[r]
      BY <1>1, <1>4, <2>2
    <3> QED
      BY <1>1, <2>1, <3>1, Zenon DEF IsAt
  <2>3. CASE r = rank
    <3>1. queues'[r] = Tail(queues[r]) /\ queues[r] # << >>
      BY <1>1, <1>4, <2>3
    <3>2. gpu'[r] = Kernel(Device(r), Head(queues[r]), gpu[r])
      BY <1>1, <1>4, <2>3
    <3>3. Device(r) = RankDevice(tpModel, degree, r, pass.pos)
      BY <1>2, <1>3, TpIsReady
    <3>4. RankAt(tpPc, tpModel, degree, pass.pos, X, pass.layer, r, queues[r], encoded[r], gpu[r])
      BY <2>1 DEF IsAt
    <3>5. RankAt(tpPc, tpModel, degree, pass.pos, X, pass.layer, r, Tail(queues[r]), encoded[r],
                 Kernel(RankDevice(tpModel, degree, r, pass.pos), Head(queues[r]), gpu[r]))
      BY <3>1, <3>4, RankStep
    <3> QED
      BY <1>1, <3>1, <3>2, <3>3, <3>5, Zenon DEF IsAt
  <2> QED
    BY <2>2, <2>3
<1>8. InCall'
  BY <1>1, <1>2, <1>6, <1>7, Zenon DEF InCall
<1>9. DOMAIN gpu' = Ranks'
  BY <1>1, <1>2, <1>4
<1> QED
  BY <1>1, <1>4, <1>5, <1>8, <1>9, Zenon DEF TpComputed

\* run begins.
LEMMA TpStart ==
    ASSUME TpInv, TpStatic', NEW token \in 0..(tpMeta.n_vocab - 1), NEW pos \in 0..MaxPos,
           StartPass(token, pos)
    PROVE  TpComputed'
<1> SUFFICES ASSUME Computing' PROVE TpComputed'
  BY DEF TpComputed
<1>1. /\ tpPc = "idle" /\ tpPc' = AfterLayer(0) /\ pass' = [token |-> token, pos |-> pos, layer |-> 1]
      /\ encoded' = [r \in Ranks |-> << <<"embed", token>> >>]
      /\ UNCHANGED <<tpModel, tpMeta, degree, shards, queues, gpu, logits, whole>>
  BY DEF StartPass
<1>2. Computing /\ Ranks' = Ranks
  BY <1>1 DEF Computing, Ranks, OnDevices
<1>3. TpStatic /\ TpComputed
  BY DEF TpInv
<1>4. DOMAIN gpu = Ranks /\ whole \in States(tpModel) /\ BetweenCalls
  BY <1>1, <1>2, <1>3 DEF TpComputed
<1>5. pass'.token = token /\ pass'.pos = pos /\ pass'.layer = 1
  BY <1>1
<1>6. AfterLayer(0) = After(tpModel, 0) /\ Ranks = 0..(degree - 1)
  BY <1>2, <1>3, TpIsReady
<1>7. TpReady(tpModel, degree, pos)
  <2>1. /\ tpModel \in DOMAIN TpModels /\ tpMeta = TpModels[tpModel].meta
        /\ degree \in Nat \ {0} /\ Divides(degree, tpMeta)
        /\ Shardable(TpModels[tpModel].tensors, tpMeta.quantization, degree)
    BY <1>2, <1>3, Zenon DEF TpStatic, Computing
  <2> QED
    BY <2>1, Zenon DEF TpReady
<1>8. token \in 0..(TpModels[tpModel].meta.n_vocab - 1)
  BY <1>3, Zenon DEF TpStatic
<1>9. PICK X : IsPass(X, tpModel, pos, whole, token)
  BY <1>4, <1>7, <1>8, PassExists
<1>10. ASSUME NEW r \in Ranks PROVE IsAt(X, r)'
  <2>1. queues[r] = << >> /\ IsBuffers(gpu[r]) /\ gpu[r].hidden = whole
    BY <1>4 DEF BetweenCalls, IsIdle
  <2>2. encoded'[r] = << <<"embed", token>> >>
    BY <1>1
  <2>3. r \in 0..(degree - 1)
    BY <1>6
  <2>4. PICK g : g = gpu[r]
    OBVIOUS
  <2>5. RankAt(After(tpModel, 0), tpModel, degree, pos, X, 1, r, << >>, << <<"embed", token>> >>, g)
    BY <1>7, <1>9, <2>1, <2>3, <2>4, RankStart
  <2> QED
    BY <1>1, <1>5, <1>6, <2>1, <2>2, <2>4, <2>5, Zenon DEF IsAt
<1>11. InCall'
  BY <1>1, <1>2, <1>5, <1>9, <1>10, Zenon DEF InCall
<1>12. tpPc' # "idle"
  BY <1>1 DEF AfterLayer
<1> QED
  BY <1>1, <1>2, <1>4, <1>11, <1>12, Zenon DEF TpComputed

\* What the steps of run are to show.
LEMMA TpInCall ==
    ASSUME TpInv, Computing, tpPc # "idle"
    PROVE  /\ TpReady(tpModel, degree, pass.pos) /\ degree \in Nat \ {0} /\ Ranks = 0..(degree - 1)
           /\ DOMAIN gpu = Ranks /\ whole \in States(tpModel)
           /\ \A l : AfterLayer(l) = After(tpModel, l)
           /\ pass.token \in 0..(TpModels[tpModel].meta.n_vocab - 1)
           /\ tpMeta = TpModels[tpModel].meta
           /\ \E X : /\ IsPass(X, tpModel, pass.pos, whole, pass.token)
                     /\ \A r \in Ranks : IsAt(X, r)
<1>1. TpStatic /\ TpComputed
  BY DEF TpInv
<1>2. /\ TpReady(tpModel, degree, pass.pos) /\ degree \in Nat \ {0} /\ Ranks = 0..(degree - 1)
      /\ \A l : AfterLayer(l) = After(tpModel, l)
  BY <1>1, TpIsReady
<1>3. tpMeta = TpModels[tpModel].meta /\ pass.token \in 0..(tpMeta.n_vocab - 1)
  BY <1>1 DEF TpStatic
<1>4. DOMAIN gpu = Ranks /\ whole \in States(tpModel) /\ InCall
  BY <1>1, Zenon DEF TpComputed
<1> QED
  BY <1>2, <1>3, <1>4, Zenon DEF InCall

LEMMA TpEncodeHead ==
    ASSUME TpInv, EncodeHead
    PROVE  TpComputed'
<1> SUFFICES ASSUME Computing' PROVE TpComputed'
  BY DEF TpComputed
<1>1. /\ tpPc = "head" /\ tpPc' = "gather"
      /\ queues' = [r \in Ranks |-> queues[r] \o encoded[r] \o << <<"head", 0>> >>]
      /\ encoded' = [r \in Ranks |-> <<>>]
      /\ UNCHANGED <<tpModel, tpMeta, degree, shards, pass, gpu, logits, whole, passes>>
  BY DEF EncodeHead, CommitAll
<1>2. Computing /\ Ranks' = Ranks
  BY <1>1 DEF Computing, Ranks, OnDevices
<1>3. /\ TpReady(tpModel, degree, pass.pos) /\ Ranks = 0..(degree - 1)
      /\ DOMAIN gpu = Ranks /\ whole \in States(tpModel)
      /\ \E X : /\ IsPass(X, tpModel, pass.pos, whole, pass.token)
                /\ \A r \in Ranks : IsAt(X, r)
  BY <1>1, <1>2, TpInCall
<1>4. PICK X : IsPass(X, tpModel, pass.pos, whole, pass.token) /\ \A r \in Ranks : IsAt(X, r)
  BY <1>3
<1>5. ASSUME NEW r \in Ranks PROVE IsAt(X, r)'
  <2>1. PICK q, e, g : q = queues[r] /\ e = encoded[r] /\ g = gpu[r]
    OBVIOUS
  <2>2. RankAt("head", tpModel, degree, pass.pos, X, pass.layer, r, q, e, g)
    BY <1>1, <1>4, <2>1, Zenon DEF IsAt
  <2>3. r \in 0..(degree - 1)
    BY <1>3
  <2>4. RankAt("gather", tpModel, degree, pass.pos, X, pass.layer, r, q \o e \o << <<"head", 0>> >>, << >>, g)
    BY <1>3, <2>2, <2>3, RankHead
  <2>5. queues'[r] = q \o e \o << <<"head", 0>> >> /\ encoded'[r] = << >>
    BY <1>1, <2>1, Zenon
  <2> QED
    BY <1>1, <2>1, <2>4, <2>5, Zenon DEF IsAt
<1>6. InCall'
  BY <1>1, <1>2, <1>4, <1>5, Zenon DEF InCall
<1> QED
  BY <1>1, <1>2, <1>3, <1>6, Zenon DEF TpComputed

LEMMA TpEncodeLayer ==
    ASSUME TpInv, EncodeLayer
    PROVE  TpComputed'
<1> SUFFICES ASSUME Computing' PROVE TpComputed'
  BY DEF TpComputed
<1>1. /\ tpPc = "layer" /\ UNCHANGED <<tpModel, tpMeta, degree, shards, gpu, logits, whole, passes>>
  BY DEF EncodeLayer
<1>2. Computing /\ Ranks' = Ranks
  BY <1>1 DEF Computing, Ranks, OnDevices
<1>3. /\ TpReady(tpModel, degree, pass.pos) /\ degree \in Nat \ {0} /\ Ranks = 0..(degree - 1)
      /\ DOMAIN gpu = Ranks /\ whole \in States(tpModel)
      /\ \A l : AfterLayer(l) = After(tpModel, l)
      /\ \E X : /\ IsPass(X, tpModel, pass.pos, whole, pass.token)
                /\ \A r \in Ranks : IsAt(X, r)
  BY <1>1, <1>2, TpInCall
<1>4. PICK X : IsPass(X, tpModel, pass.pos, whole, pass.token) /\ \A r \in Ranks : IsAt(X, r)
  BY <1>3
<1>5. CASE degree > 1
  <2>1. /\ queues' = [r \in Ranks |-> queues[r] \o encoded[r] \o << <<"layer", pass.layer>> >>]
        /\ encoded' = [r \in Ranks |-> <<>>] /\ tpPc' = "reduce attn" /\ UNCHANGED pass
    BY <1>5, Zenon DEF EncodeLayer, CommitAll
  <2>2. ASSUME NEW r \in Ranks PROVE IsAt(X, r)'
    <3>1. PICK q, e, g, l : q = queues[r] /\ e = encoded[r] /\ g = gpu[r] /\ l = pass.layer
      OBVIOUS
    <3>2. RankAt("layer", tpModel, degree, pass.pos, X, l, r, q, e, g)
      BY <1>1, <1>4, <3>1, Zenon DEF IsAt
    <3>3. RankAt("reduce attn", tpModel, degree, pass.pos, X, l, r, q \o e \o << <<"layer", l>> >>, << >>, g)
      BY <3>2, RankLayer
    <3>4. queues'[r] = q \o e \o << <<"layer", l>> >> /\ encoded'[r] = << >>
      BY <2>1, <3>1, Zenon
    <3> QED
      BY <1>1, <2>1, <3>1, <3>3, <3>4, Zenon DEF IsAt
  <2>3. InCall'
    BY <1>1, <1>2, <1>4, <2>1, <2>2, Zenon DEF InCall
  <2> QED
    BY <1>1, <1>2, <1>3, <2>1, <2>3, Zenon DEF TpComputed
<1>6. CASE ~(degree > 1)
  <2>1. /\ encoded' = [r \in Ranks |-> encoded[r] \o
                           << <<"layer", pass.layer>>, <<"add", "attn">>, <<"add", "mlp">> >>]
        /\ tpPc' = AfterLayer(pass.layer) /\ pass' = [pass EXCEPT !.layer = @ + 1] /\ UNCHANGED queues
    BY <1>6, Zenon DEF EncodeLayer
  <2>2. degree = 1 /\ Ranks = {0}
    <3>1. degree = 1
      BY <1>3, <1>6
    <3> QED
      BY <1>3, <3>1
  <2>3. pass'.token = pass.token /\ pass'.pos = pass.pos /\ pass'.layer = pass.layer + 1
    <3>1. pass = [token |-> pass.token, pos |-> pass.pos, layer |-> pass.layer]
      BY DEF TpInv, TpStatic
    <3> QED
      BY <2>1, <3>1
  <2>4. ASSUME NEW r \in Ranks PROVE IsAt(X, r)'
    <3>1. PICK q, e, g, l : q = queues[r] /\ e = encoded[r] /\ g = gpu[r] /\ l = pass.layer
      OBVIOUS
    <3>2. r = 0
      BY <2>2
    <3>3. RankAt("layer", tpModel, 1, pass.pos, X, l, 0, q, e, g)
      BY <1>1, <1>4, <2>2, <3>1, <3>2, Zenon DEF IsAt
    <3>4. TpReady(tpModel, 1, pass.pos)
      BY <1>3, <2>2, Zenon
    <3>5. RankAt(After(tpModel, l), tpModel, 1, pass.pos, X, l + 1, 0, q,
                 e \o << <<"layer", l>>, <<"add", "attn">>, <<"add", "mlp">> >>, g)
      BY <1>4, <3>3, <3>4, RankOneLayer
    <3>6. queues'[r] = q /\ encoded'[r] = e \o << <<"layer", l>>, <<"add", "attn">>, <<"add", "mlp">> >>
      BY <2>1, <3>1, Zenon
    <3>7. tpPc' = After(tpModel, l)
      BY <1>3, <2>1, <3>1, Zenon
    <3> QED
      BY <1>1, <2>2, <2>3, <3>1, <3>2, <3>5, <3>6, <3>7, Zenon DEF IsAt
  <2>5. InCall'
    BY <1>1, <1>2, <1>4, <2>3, <2>4, Zenon DEF InCall
  <2>6. tpPc' # "idle"
    BY <2>1 DEF AfterLayer
  <2> QED
    BY <1>1, <1>2, <1>3, <2>5, <2>6, Zenon DEF TpComputed
<1> QED
  BY <1>5, <1>6

Reducing(pc) == pc \in {"reduce attn", "reduce mlp"}

LEMMA ReducingIs == \A pc : Reducing(pc) => pc # "idle"
BY DEF Reducing

\* The sum of what the ranks have, after the wait of an all-reduce.
LEMMA TpSums ==
    ASSUME TpInv, Computing, Completed, NEW X, IsPass(X, tpModel, pass.pos, whole, pass.token),
           \A r \in Ranks : IsAt(X, r)
    PROVE  /\ tpPc = "reduce attn" =>
                 /\ pass.layer \in Layers(tpModel)
                 /\ SumOf([r \in Ranks |-> gpu[r].attn])
                       = AttnPartial(WholeDevice(tpModel, pass.pos), X[pass.layer - 1], pass.layer)
           /\ tpPc = "reduce mlp" =>
                 /\ pass.layer \in Layers(tpModel)
                 /\ SumOf([r \in Ranks |-> gpu[r].mlp])
                       = MlpPartial(WholeDevice(tpModel, pass.pos), X[pass.layer - 1], pass.layer)
<1> SUFFICES ASSUME Reducing(tpPc)
    PROVE  /\ tpPc = "reduce attn" =>
                 /\ pass.layer \in Layers(tpModel)
                 /\ SumOf([r \in Ranks |-> gpu[r].attn])
                       = AttnPartial(WholeDevice(tpModel, pass.pos), X[pass.layer - 1], pass.layer)
           /\ tpPc = "reduce mlp" =>
                 /\ pass.layer \in Layers(tpModel)
                 /\ SumOf([r \in Ranks |-> gpu[r].mlp])
                       = MlpPartial(WholeDevice(tpModel, pass.pos), X[pass.layer - 1], pass.layer)
  BY Zenon DEF Reducing
<1>1. PICK l, pos, x : l = pass.layer /\ pos = pass.pos /\ x = X[l - 1]
  OBVIOUS
<1>2. /\ TpReady(tpModel, degree, pos) /\ degree \in Nat \ {0} /\ Ranks = 0..(degree - 1)
      /\ tpMeta = TpModels[tpModel].meta
  BY <1>1, TpInCall, ReducingIs
<1>3. ASSUME NEW r \in Ranks
      PROVE  Goal(tpPc, tpModel, degree, pos, X, l, r, gpu[r])
  <2>1. PICK g, e : g = gpu[r] /\ e = encoded[r]
    OBVIOUS
  <2>2. queues[r] = << >>
    BY DEF Completed
  <2>3. RankAt(tpPc, tpModel, degree, pos, X, l, r, << >>, e, g)
    BY <1>1, <2>1, <2>2, Zenon DEF IsAt
  <2>4. tpPc \in {"reduce attn", "reduce mlp", "gather"}
    BY Zenon DEF Reducing
  <2>5. Goal(tpPc, tpModel, degree, pos, X, l, r, g)
    BY <2>3, <2>4, RankDone
  <2> QED
    BY <2>1, <2>5, Zenon
<1>4. 0 \in Ranks
  BY <1>2
<1>5. l \in Layers(tpModel)
  <2>1. Goal(tpPc, tpModel, degree, pos, X, l, 0, gpu[0])
    BY <1>3, <1>4
  <2> QED
    BY <2>1, Zenon DEF Goal, Reducing
<1>6. x \in States(tpModel)
  <2>1. PICK n : n \in Nat /\ n = TpModels[tpModel].meta.n_layer
    BY <1>2, ReadyFacts DEF IsTpMeta
  <2>2. \A i \in 0..n : X[i] \in States(tpModel)
    BY <1>1, <1>2, <2>1, PassStates, Zenon
  <2>3. l - 1 \in 0..n
    BY <1>5, <2>1 DEF Layers
  <2> QED
    BY <1>1, <2>2, <2>3, Zenon
<1>7. \A part : SumOf(part) = SummedUp(TpModels[tpModel].meta.n_embd, degree, part)
  BY <1>2, Zenon DEF SumOf, SummedUp
<1>8. CASE tpPc = "reduce attn"
  <2>1. PICK part : part = [r \in Ranks |-> gpu[r].attn]
    OBVIOUS
  <2>2. ASSUME NEW r \in Ranks PROVE part[r] = RankAttn(tpModel, degree, pos, r, x, l)
    <3>1. Goal("reduce attn", tpModel, degree, pos, X, l, r, gpu[r])
      BY <1>3, <1>8
    <3>2. gpu[r].attn = RankAttn(tpModel, degree, pos, r, X[l - 1], l)
      BY <3>1, Zenon DEF Goal
    <3> QED
      BY <1>1, <2>1, <3>2, Zenon
  <2>3. HasAttn(part, tpModel, degree, pos, x, l)
    BY <1>2, <2>2, Zenon DEF HasAttn
  <2>4. SummedUp(TpModels[tpModel].meta.n_embd, degree, part) = AttnPartial(WholeDevice(tpModel, pos), x, l)
    BY <1>2, <1>5, <1>6, <2>3, AttnSumIs
  <2> QED
    BY <1>1, <1>5, <1>7, <1>8, <2>1, <2>4, Zenon
<1>9. CASE tpPc = "reduce mlp"
  <2>1. PICK part : part = [r \in Ranks |-> gpu[r].mlp]
    OBVIOUS
  <2>2. ASSUME NEW r \in Ranks PROVE part[r] = RankMlp(tpModel, degree, pos, r, x, l)
    <3>1. Goal("reduce mlp", tpModel, degree, pos, X, l, r, gpu[r])
      BY <1>3, <1>9
    <3>2. gpu[r].mlp = RankMlp(tpModel, degree, pos, r, X[l - 1], l)
      BY <3>1, Zenon DEF Goal
    <3> QED
      BY <1>1, <2>1, <3>2, Zenon
  <2>3. HasMlp(part, tpModel, degree, pos, x, l)
    BY <1>2, <2>2, Zenon DEF HasMlp
  <2>4. SummedUp(TpModels[tpModel].meta.n_embd, degree, part) = MlpPartial(WholeDevice(tpModel, pos), x, l)
    BY <1>2, <1>5, <1>6, <2>3, MlpSumIs
  <2> QED
    BY <1>1, <1>5, <1>7, <1>9, <2>1, <2>4, Zenon
<1> QED
  BY <1>8, <1>9

LEMMA TpReduceAttn ==
    ASSUME TpInv, ReduceAttn
    PROVE  TpComputed'
<1> SUFFICES ASSUME Computing' PROVE TpComputed'
  BY DEF TpComputed
<1>1. /\ tpPc = "reduce attn" /\ tpPc' = "reduce mlp" /\ Completed
      /\ queues' = [r \in Ranks |-> queues[r] \o encoded[r] \o << <<"add", "tmp">> >>]
      /\ encoded' = [r \in Ranks |-> <<>>]
      /\ gpu' = [r \in Ranks |-> [gpu[r] EXCEPT !.tmp = SumOf([s \in Ranks |-> gpu[s].attn])]]
      /\ UNCHANGED <<tpModel, tpMeta, degree, shards, pass, logits, whole>>
  BY Zenon DEF ReduceAttn, CommitAll, Reduce
<1>2. Computing /\ Ranks' = Ranks
  BY <1>1 DEF Computing, Ranks, OnDevices
<1>3. /\ whole \in States(tpModel)
      /\ \E X : /\ IsPass(X, tpModel, pass.pos, whole, pass.token)
                /\ \A r \in Ranks : IsAt(X, r)
  BY <1>1, <1>2, TpInCall
<1>4. PICK X : IsPass(X, tpModel, pass.pos, whole, pass.token) /\ \A r \in Ranks : IsAt(X, r)
  BY <1>3
<1>5. PICK l, pos, sum : /\ l = pass.layer /\ pos = pass.pos
                         /\ sum = AttnPartial(WholeDevice(tpModel, pos), X[l - 1], l)
  OBVIOUS
<1>6. SumOf([s \in Ranks |-> gpu[s].attn]) = sum
  BY <1>1, <1>2, <1>4, <1>5, TpSums
<1>7. ASSUME NEW r \in Ranks PROVE IsAt(X, r)'
  <2>1. PICK e, g : e = encoded[r] /\ g = gpu[r]
    OBVIOUS
  <2>2. queues[r] = << >>
    BY <1>1 DEF Completed
  <2>3. RankAt("reduce attn", tpModel, degree, pos, X, l, r, << >>, e, g)
    BY <1>1, <1>4, <1>5, <2>1, <2>2, Zenon DEF IsAt
  <2>4. RankAt("reduce mlp", tpModel, degree, pos, X, l, r, << >> \o e \o << <<"add", "tmp">> >>, << >>,
               [g EXCEPT !.tmp = AttnPartial(WholeDevice(tpModel, pos), X[l - 1], l)])
    BY <2>3, RankAddsAttn
  <2>5. queues'[r] = << >> \o e \o << <<"add", "tmp">> >> /\ encoded'[r] = << >>
    BY <1>1, <2>1, <2>2, Zenon
  <2>6. gpu'[r] = [g EXCEPT !.tmp = sum]
    BY <1>1, <1>6, <2>1, Zenon
  <2> QED
    BY <1>1, <1>5, <2>4, <2>5, <2>6, Zenon DEF IsAt
<1>8. InCall'
  BY <1>1, <1>2, <1>4, <1>7, Zenon DEF InCall
<1>9. DOMAIN gpu' = Ranks'
  BY <1>1, <1>2
<1> QED
  BY <1>1, <1>3, <1>8, <1>9, Zenon DEF TpComputed

LEMMA TpReduceMlp ==
    ASSUME TpInv, ReduceMlp
    PROVE  TpComputed'
<1> SUFFICES ASSUME Computing' PROVE TpComputed'
  BY DEF TpComputed
<1>1. /\ tpPc = "reduce mlp" /\ tpPc' = AfterLayer(pass.layer) /\ Completed
      /\ encoded' = [r \in Ranks |-> << <<"add", "tmp">> >>]
      /\ gpu' = [r \in Ranks |-> [gpu[r] EXCEPT !.tmp = SumOf([s \in Ranks |-> gpu[s].mlp])]]
      /\ pass' = [pass EXCEPT !.layer = @ + 1]
      /\ UNCHANGED <<tpModel, tpMeta, degree, shards, queues, logits, whole>>
  BY Zenon DEF ReduceMlp, Reduce
<1>2. Computing /\ Ranks' = Ranks
  BY <1>1 DEF Computing, Ranks, OnDevices
<1>3. /\ TpReady(tpModel, degree, pass.pos) /\ whole \in States(tpModel)
      /\ \A l : AfterLayer(l) = After(tpModel, l)
      /\ \E X : /\ IsPass(X, tpModel, pass.pos, whole, pass.token)
                /\ \A r \in Ranks : IsAt(X, r)
  BY <1>1, <1>2, TpInCall
<1>4. PICK X : IsPass(X, tpModel, pass.pos, whole, pass.token) /\ \A r \in Ranks : IsAt(X, r)
  BY <1>3
<1>5. PICK l, pos, sum : /\ l = pass.layer /\ pos = pass.pos
                         /\ sum = MlpPartial(WholeDevice(tpModel, pos), X[l - 1], l)
  OBVIOUS
<1>6. SumOf([s \in Ranks |-> gpu[s].mlp]) = sum
  BY <1>1, <1>2, <1>4, <1>5, TpSums
<1>7. pass'.token = pass.token /\ pass'.pos = pos /\ pass'.layer = l + 1
  <2>1. pass = [token |-> pass.token, pos |-> pass.pos, layer |-> pass.layer]
    BY DEF TpInv, TpStatic
  <2> QED
    BY <1>1, <1>5, <2>1
<1>8. tpPc' = After(tpModel, l)
  BY <1>1, <1>3, <1>5, Zenon
<1>9. ASSUME NEW r \in Ranks PROVE IsAt(X, r)'
  <2>1. PICK e, g : e = encoded[r] /\ g = gpu[r]
    OBVIOUS
  <2>2. queues[r] = << >>
    BY <1>1 DEF Completed
  <2>3. RankAt("reduce mlp", tpModel, degree, pos, X, l, r, << >>, e, g)
    BY <1>1, <1>4, <1>5, <2>1, <2>2, Zenon DEF IsAt
  <2>4. IsPass(X, tpModel, pos, whole, pass.token) /\ TpReady(tpModel, degree, pos)
    BY <1>3, <1>4, <1>5, Zenon
  <2>5. RankAt(After(tpModel, l), tpModel, degree, pos, X, l + 1, r, << >>, << <<"add", "tmp">> >>,
               [g EXCEPT !.tmp = MlpPartial(WholeDevice(tpModel, pos), X[l - 1], l)])
    BY <2>3, <2>4, RankAddsMlp
  <2>6. queues'[r] = << >> /\ encoded'[r] = << <<"add", "tmp">> >>
    BY <1>1, <2>2, Zenon
  <2>7. gpu'[r] = [g EXCEPT !.tmp = sum]
    BY <1>1, <1>6, <2>1, Zenon
  <2> QED
    BY <1>1, <1>5, <1>7, <1>8, <2>5, <2>6, <2>7, Zenon DEF IsAt
<1>10. InCall'
  BY <1>1, <1>2, <1>4, <1>5, <1>7, <1>9, Zenon DEF InCall
<1>11. DOMAIN gpu' = Ranks'
  BY <1>1, <1>2
<1>12. tpPc' # "idle"
  BY <1>1 DEF AfterLayer
<1> QED
  BY <1>1, <1>3, <1>10, <1>11, <1>12, Zenon DEF TpComputed

LEMMA TpGather ==
    ASSUME TpInv, Gather
    PROVE  TpComputed'
<1> SUFFICES ASSUME Computing' PROVE TpComputed'
  BY DEF TpComputed
<1>1. /\ tpPc = "gather" /\ tpPc' = "idle" /\ Completed
      /\ logits' = FlattenSeq(Vector(degree, LAMBDA r : gpu[r - 1].logits))
      /\ whole' = FinalState(OneDevice(TpModels[tpModel].tensors, pass.pos), whole, pass.token)
      /\ UNCHANGED <<tpModel, tpMeta, degree, shards, pass, encoded, queues, gpu, passes>>
  BY Zenon DEF Gather
<1>2. Computing /\ Ranks' = Ranks
  BY <1>1 DEF Computing, Ranks, OnDevices
<1>3. /\ TpReady(tpModel, degree, pass.pos) /\ degree \in Nat \ {0} /\ Ranks = 0..(degree - 1)
      /\ DOMAIN gpu = Ranks /\ whole \in States(tpModel)
      /\ pass.token \in 0..(TpModels[tpModel].meta.n_vocab - 1)
      /\ \E X : /\ IsPass(X, tpModel, pass.pos, whole, pass.token)
                /\ \A r \in Ranks : IsAt(X, r)
  BY <1>1, <1>2, TpInCall
<1>4. PICK Y : IsPass(Y, tpModel, pass.pos, whole, pass.token) /\ \A r \in Ranks : IsAt(Y, r)
  BY <1>3
<1>5. PICK d, n, x : d = WholeDevice(tpModel, pass.pos) /\ n = TpModels[tpModel].meta.n_layer /\ x = FinalNorm(d, Y[n])
  OBVIOUS
<1>6. Y[n] \in States(tpModel)
  <2>1. n \in Nat
    BY <1>3, <1>5, ReadyFacts DEF IsTpMeta
  <2>2. n \in 0..n
    BY <2>1
  <2> QED
    BY <1>4, <1>5, <2>2, Zenon DEF IsPass
<1>7. x \in States(tpModel)
  <2>1. FinalNorm(WholeDevice(tpModel, pass.pos), Y[n]) \in States(tpModel)
    BY <1>3, <1>6, EndsAre
  <2> QED
    BY <1>5, <2>1, Zenon
<1>8. whole' = x
  <2>1. PICK X : /\ IsPass(X, tpModel, pass.pos, whole, pass.token)
                 /\ FinalState(d, whole, pass.token) = FinalNorm(d, X[n])
    BY <1>3, <1>5, PassExists
  <2>2. X[n] = Y[n]
    BY <1>3, <1>4, <1>5, <2>1, SamePass
  <2>3. OneDevice(TpModels[tpModel].tensors, pass.pos) = d
    BY <1>2, <1>5, TpIsReady DEF TpInv
  <2> QED
    BY <1>1, <1>5, <2>1, <2>2, <2>3, Zenon
<1>9. ASSUME NEW r \in Ranks
      PROVE  /\ queues[r] = << >> /\ encoded[r] = << >> /\ IsBuffers(gpu[r]) /\ gpu[r].hidden = x
             /\ gpu[r].logits = OutputShard(RankDevice(tpModel, degree, r, pass.pos), x)
  <2>1. PICK g, e, l : g = gpu[r] /\ e = encoded[r] /\ l = pass.layer
    OBVIOUS
  <2>2. queues[r] = << >>
    BY <1>1 DEF Completed
  <2>3. RankAt("gather", tpModel, degree, pass.pos, Y, l, r, << >>, e, g)
    BY <1>1, <1>4, <2>1, <2>2, Zenon DEF IsAt
  <2>4. e = << >> /\ IsBuffers(g) /\ Goal("gather", tpModel, degree, pass.pos, Y, l, r, g)
    BY <2>3, RankDone
  <2>5. /\ g.hidden = FinalNorm(WholeDevice(tpModel, pass.pos), Y[TpModels[tpModel].meta.n_layer])
        /\ g.logits = OutputShard(RankDevice(tpModel, degree, r, pass.pos), g.hidden)
    BY <2>4, Zenon DEF Goal
  <2> QED
    BY <1>5, <2>1, <2>2, <2>4, <2>5, Zenon
<1>10. logits' = OutputShard(d, x)
  <2>1. PICK f : f = [r \in Ranks |-> gpu[r].logits]
    OBVIOUS
  <2>2. \A r \in 0..(degree - 1) : f[r] = OutputShard(RankDevice(tpModel, degree, r, pass.pos), x)
    BY <1>3, <1>9, <2>1, Zenon
  <2>3. AllLogits(degree, f) = OutputShard(WholeDevice(tpModel, pass.pos), x)
    BY <1>3, <1>7, <2>2, Gathered
  <2>4. \A r \in 1..degree : f[r - 1] = gpu[r - 1].logits
    <3>1. \A r \in 1..degree : r - 1 \in 0..(degree - 1)
      BY <1>3
    <3> QED
      BY <1>3, <2>1, <3>1, Zenon
  <2>5. [r \in 1..degree |-> f[r - 1]] = [r \in 1..degree |-> gpu[r - 1].logits]
    BY <2>4, Zenon
  <2>6. AllLogits(degree, f) = FlattenSeq(SubSeq([r \in 1..degree |-> f[r - 1]], 1, degree))
    BY Zenon DEF AllLogits, Vector
  <2>7. logits' = FlattenSeq(SubSeq([r \in 1..degree |-> gpu[r - 1].logits], 1, degree))
    BY <1>1, Zenon DEF Vector
  <2> QED
    BY <1>5, <2>3, <2>5, <2>6, <2>7, Zenon
<1>11. ASSUME NEW r \in Ranks PROVE IsIdle(r)'
  BY <1>1, <1>8, <1>9, Zenon DEF IsIdle
<1>12. BetweenCalls'
  BY <1>1, <1>2, <1>5, <1>8, <1>10, <1>11, Zenon DEF BetweenCalls
<1> QED
  BY <1>1, <1>2, <1>3, <1>7, <1>8, <1>12, Zenon DEF TpComputed

LEMMA TpBegins == TpInit => TpInv
<1>1. TpInit => ~OnDevices(tpPc)
  BY DEF TpInit, OnDevices
<1> QED
  BY <1>1, TpStaticStart DEF TpInv, TpComputed, Computing

LEMMA TpGoesOn == TpInv /\ [TpNext]_tpVars => TpInv'
<1> SUFFICES ASSUME TpInv, [TpNext]_tpVars PROVE TpInv'
  OBVIOUS
<1>1. TpStatic'
  BY TpStaticStep DEF TpInv
<1>2. TpComputed'
  <2>0. CASE UNCHANGED tpVars
    BY <2>0 DEF TpInv, TpComputed, Computing, BetweenCalls, InCall, IsIdle, IsAt, Ranks, tpVars
  <2>1. ASSUME NEW tp \in Degrees, New(tp) PROVE TpComputed'
    BY <2>1, TpNew DEF TpInv
  <2>2. ASSUME NEW token \in 0..(tpMeta.n_vocab - 1), NEW pos \in 0..MaxPos, StartPass(token, pos)
        PROVE  TpComputed'
    BY <1>1, <2>2, TpStart
  <2>3. ASSUME NEW rank \in DOMAIN queues, GpuStep(rank) PROVE TpComputed'
    BY <2>3, TpGpuStep
  <2> QED
    BY <2>0, <2>1, <2>2, <2>3, TpEncodeLayer, TpReduceAttn, TpReduceMlp, TpEncodeHead, TpGather DEF TpNext
<1> QED
  BY <1>1, <1>2 DEF TpInv

LEMMA TpShows == TpInv => DegreeIrrelevant
<1> SUFFICES ASSUME TpInv, tpPc = "idle", passes > 0, Divides(degree, tpMeta)
             PROVE  /\ \A r \in Ranks : gpu[r].hidden = whole
                    /\ logits = OutputShard(OneDevice(TpModels[tpModel].tensors, pass.pos), whole)
  BY DEF DegreeIrrelevant
<1>1. TpStatic /\ TpComputed /\ Computing
  BY DEF TpInv, Computing, OnDevices
<1>2. BetweenCalls /\ OneDevice(TpModels[tpModel].tensors, pass.pos) = WholeDevice(tpModel, pass.pos)
  BY <1>1, TpIsReady DEF TpComputed
<1>3. passes # 0
  OBVIOUS
<1> QED
  BY <1>2, <1>3, Zenon DEF BetweenCalls, IsIdle

\* The number of GPUs does not change what LlamaTensorParallelModel computes:
\* for every architecture and every degree that divides it, whatever the
\* weights, the tokens and the positions, and in whatever order the command
\* queues of the GPUs execute, every call of run leaves the state, and returns
\* the logits, of the model on one device (shard_weight, forward_layer,
\* all_reduce_sum_and_add, run).
THEOREM DegreeDoesNotMatter == Spec => []DegreeIrrelevant
<1>1. InferenceInit => TpInv
  BY TpBegins DEF InferenceInit
<1>2. TpInv /\ [InferenceNext]_inferenceVars => TpInv'
  <2>1. [InferenceNext]_inferenceVars => [TpNext]_tpVars
    BY DEF InferenceNext, inferenceVars
  <2> QED
    BY <2>1, TpGoesOn
<1>3. TpInv => DegreeIrrelevant
  BY TpShows
<1> QED
  BY <1>1, <1>2, <1>3, PTL DEF Spec
=============================================================================
