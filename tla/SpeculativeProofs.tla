------------------------- MODULE SpeculativeProofs -------------------------
(***************************************************************************)
(* Speculative decoding is lossless, for every target model, every draft   *)
(* model and every window.                                                 *)
(***************************************************************************)
EXTENDS Speculative, SequenceTheorems, WellFoundedInduction, TLAPS

-----------------------------------------------------------------------------
(***************************************************************************)
(* Sequences.  A round turns the context c into c \o SubSeq(d, 1, n) \o t, *)
(* where t holds the correction or nothing.                                *)
(***************************************************************************)

\* What the first k elements of a sequence are.
LEMMA FirstElements ==
    ASSUME NEW T, NEW s \in Seq(T), NEW k \in 0..Len(s)
    PROVE  /\ SubSeq(s, 1, k) \in Seq(T)
           /\ Len(SubSeq(s, 1, k)) = k
           /\ \A i \in 1..k : SubSeq(s, 1, k)[i] = s[i]
<1>1. \A i \in 1..k : s[i] \in T
  BY ElementOfSeq
<1>2. k \in Int
  OBVIOUS
<1> QED
  BY <1>1, <1>2, SubSeqProperties

\* Appending to a sequence leaves its prefixes alone.
LEMMA PrefixStays ==
    ASSUME NEW T, NEW c \in Seq(T), NEW e \in Seq(T), NEW k \in 0..Len(c)
    PROVE  SubSeq(c \o e, 1, k) = SubSeq(c, 1, k)
<1>1. /\ c \o e \in Seq(T)
      /\ Len(c \o e) = Len(c) + Len(e)
      /\ \A i \in 1..Len(c) : (c \o e)[i] = c[i]
  BY ConcatProperties
<1>2. k \in 0..Len(c \o e)
  BY <1>1
<1>3. /\ SubSeq(c \o e, 1, k) \in Seq(T)
      /\ Len(SubSeq(c \o e, 1, k)) = k
      /\ \A i \in 1..k : SubSeq(c \o e, 1, k)[i] = (c \o e)[i]
  BY <1>1, <1>2, FirstElements
<1>4. /\ SubSeq(c, 1, k) \in Seq(T)
      /\ Len(SubSeq(c, 1, k)) = k
      /\ \A i \in 1..k : SubSeq(c, 1, k)[i] = c[i]
  BY FirstElements
<1>5. \A i \in 1..k : SubSeq(c \o e, 1, k)[i] = SubSeq(c, 1, k)[i]
  BY <1>1, <1>3, <1>4
<1> QED
  BY <1>3, <1>4, <1>5, SeqEqual

\* A prefix that ends in the accepted part of a round is the old context with
\* a prefix of the draft.
LEMMA PrefixOfRound ==
    ASSUME NEW c \in Seq(Tokens), NEW d \in Seq(Tokens), NEW t \in Seq(Tokens),
           NEW n \in 0..Len(d), NEW k \in 0..n
    PROVE  SubSeq(c \o SubSeq(d, 1, n) \o t, 1, Len(c) + k) = c \o SubSeq(d, 1, k)
<1> DEFINE x == c \o SubSeq(d, 1, n)
           left == SubSeq(x \o t, 1, Len(c) + k)
           right == c \o SubSeq(d, 1, k)
<1>1. /\ SubSeq(d, 1, n) \in Seq(Tokens) /\ Len(SubSeq(d, 1, n)) = n
      /\ \A i \in 1..n : SubSeq(d, 1, n)[i] = d[i]
  BY FirstElements
<1>2. k \in 0..Len(d)
  OBVIOUS
<1>3. /\ SubSeq(d, 1, k) \in Seq(Tokens) /\ Len(SubSeq(d, 1, k)) = k
      /\ \A i \in 1..k : SubSeq(d, 1, k)[i] = d[i]
  BY <1>2, FirstElements
<1>4. /\ x \in Seq(Tokens) /\ Len(x) = Len(c) + n
      /\ \A i \in 1..(Len(c) + n) :
            x[i] = IF i <= Len(c) THEN c[i] ELSE SubSeq(d, 1, n)[i - Len(c)]
  BY <1>1, ConcatProperties
<1>5. /\ right \in Seq(Tokens) /\ Len(right) = Len(c) + k
      /\ \A i \in 1..(Len(c) + k) :
            right[i] = IF i <= Len(c) THEN c[i] ELSE SubSeq(d, 1, k)[i - Len(c)]
  BY <1>3, ConcatProperties
<1> HIDE DEF x, right
<1>6. Len(c) + k \in 0..Len(x)
  BY <1>4
<1>7. left = SubSeq(x, 1, Len(c) + k)
  BY <1>4, <1>6, PrefixStays
<1>8. /\ left \in Seq(Tokens) /\ Len(left) = Len(c) + k
      /\ \A i \in 1..(Len(c) + k) : left[i] = x[i]
  BY <1>4, <1>6, <1>7, FirstElements
<1> HIDE DEF left
<1>9. ASSUME NEW i \in 1..(Len(c) + k) PROVE left[i] = right[i]
  <2>1. CASE i <= Len(c)
    <3>1. i \in 1..(Len(c) + n)
      OBVIOUS
    <3> QED
      BY <2>1, <3>1, <1>4, <1>5, <1>8
  <2>2. CASE i > Len(c)
    <3>1. i - Len(c) \in 1..k /\ i - Len(c) \in 1..n /\ i \in 1..(Len(c) + n)
      BY <2>2
    <3>2. left[i] = d[i - Len(c)]
      BY <2>2, <3>1, <1>1, <1>4, <1>8
    <3>3. right[i] = d[i - Len(c)]
      BY <2>2, <3>1, <1>3, <1>5
    <3> QED
      BY <3>2, <3>3
  <2> QED
    BY <2>1, <2>2
<1>10. left = right
  BY <1>5, <1>8, <1>9, SeqEqual
<1> QED
  BY <1>10 DEF left, right, x

-----------------------------------------------------------------------------
(***************************************************************************)
(* A round.                                                                *)
(***************************************************************************)

\* The least-number principle, for a set.
LEMMA LeastElement ==
    ASSUME NEW S, S \subseteq Nat, S # {}
    PROVE  \E m \in S : \A k \in S : m <= k
<1> DEFINE R == OpToRel(<, Nat)
<1>1. IsWellFoundedOn(R, Nat)
  BY NatLessThanWellFounded
<1>2. \A x, y \in Nat : x < y => <<x, y>> \in R
  BY DEF OpToRel
<1> HIDE DEF R
<1>3. PICK m \in S : \A k \in S : ~(<<k, m>> \in R)
  BY <1>1, WFMin, Zenon
<1>4. ASSUME NEW k \in S PROVE m <= k
  <2>1. ~(<<k, m>> \in R)
    BY <1>3
  <2>2. k \in Nat /\ m \in Nat
    OBVIOUS
  <2>3. ~(k < m)
    BY <1>2, <2>1, <2>2
  <2> QED
    BY <2>2, <2>3
<1> QED
  BY <1>4

\* The loop that compares a draft with the target's tokens stops at the first
\* difference, or at the end.
LEMMA AcceptedCountStops ==
    ASSUME NEW d \in Seq(Tokens), NEW v
    PROVE  LET n == AcceptedCount(d, v)
           IN  /\ n \in 0..Len(d)
               /\ \A i \in 1..n : d[i] = v[i]
               /\ n < Len(d) => d[n + 1] # v[n + 1]
<1> DEFINE Wrong == {i \in 1..Len(d) : d[i] # v[i]}
           Stops(n) == /\ \A i \in 1..n : d[i] = v[i]
                       /\ n < Len(d) => d[n + 1] # v[n + 1]
<1>0. Len(d) \in Nat
  BY LenProperties
<1>1. \E n \in 0..Len(d) : Stops(n)
  <2>1. CASE Wrong = {}
    <3>1. Stops(Len(d)) /\ Len(d) \in 0..Len(d)
      BY <1>0, <2>1
    <3> QED
      BY <3>1
  <2>2. CASE Wrong # {}
    <3>1. Wrong \subseteq Nat
      BY <1>0
    <3>2. PICK m \in Wrong : \A k \in Wrong : m <= k
      BY <2>2, <3>1, LeastElement
    <3>3. m \in 1..Len(d) /\ d[m] # v[m]
      BY <3>2
    <3>4. \A i \in 1..(m - 1) : d[i] = v[i]
      <4>1. SUFFICES ASSUME NEW i \in 1..(m - 1), d[i] # v[i] PROVE FALSE
        OBVIOUS
      <4>2. i \in Wrong
        BY <1>0, <3>3, <4>1
      <4>3. m <= i
        BY <3>2, <4>2
      <4> QED
        BY <1>0, <3>3, <4>1, <4>3
    <3>5. (m - 1) + 1 = m /\ m - 1 \in 0..Len(d)
      BY <1>0, <3>3
    <3>6. Stops(m - 1)
      BY <3>3, <3>4, <3>5
    <3> QED
      BY <3>5, <3>6
  <2> QED
    BY <2>1, <2>2
<1>2. AcceptedCount(d, v) = CHOOSE n \in 0..Len(d) : Stops(n)
  BY DEF AcceptedCount
<1> HIDE DEF Stops
<1>3. AcceptedCount(d, v) \in 0..Len(d) /\ Stops(AcceptedCount(d, v))
  BY <1>1, <1>2
<1> QED
  BY <1>3 DEF Stops

\* The correction, as a sequence: one token if a token was rejected.
LEMMA Correction ==
    ASSUME NEW d \in Seq(Tokens), NEW v \in Seq(Tokens), Len(v) = Len(d),
           NEW n \in 0..Len(d)
    PROVE  LET t == AsSeq(Rejection(d, v, n))
           IN  /\ Rejection(d, v, n) \in Tokens \cup {None}
               /\ t \in Seq(Tokens)
               /\ n < Len(d) => Len(t) = 1 /\ t[1] = v[n + 1]
               /\ n = Len(d) => t = <<>> /\ Len(t) = 0
<1>0. Len(d) \in Nat
  BY LenProperties
<1>1. CASE n < Len(d)
  <2>1. n + 1 \in 1..Len(v)
    BY <1>0, <1>1
  <2>2. v[n + 1] \in Tokens
    BY <2>1, ElementOfSeq
  <2>3. Rejection(d, v, n) = v[n + 1] /\ v[n + 1] # None
    BY <1>1, <2>2, SpeculativeAssumption DEF Rejection
  <2>4. AsSeq(Rejection(d, v, n)) = <<v[n + 1]>>
    BY <2>3 DEF AsSeq
  <2> HIDE DEF AsSeq
  <2> QED
    BY <1>0, <1>1, <2>2, <2>3, <2>4
<1>2. CASE n = Len(d)
  <2>1. Rejection(d, v, n) = None
    BY <1>0, <1>2 DEF Rejection
  <2>2. AsSeq(Rejection(d, v, n)) = <<>>
    BY <2>1 DEF AsSeq
  <2> QED
    BY <1>0, <1>2, <2>1, <2>2, EmptySeq
<1> QED
  BY <1>0, <1>1, <1>2

\* What the target model expects is a sequence of tokens, one per guess.
LEMMA ExpectedType ==
    ASSUME TargetReturnsTokens, NEW c \in Seq(Tokens), NEW d \in Seq(Tokens)
    PROVE  /\ Expected(c, d) \in Seq(Tokens)
           /\ Len(Expected(c, d)) = Len(d)
           /\ \A i \in 1..Len(d) :
                 Expected(c, d)[i] = Target(c \o SubSeq(d, 1, i - 1))
<1>0. Len(d) \in Nat
  BY LenProperties
<1>1. ASSUME NEW i \in 1..Len(d) PROVE Target(c \o SubSeq(d, 1, i - 1)) \in Tokens
  <2>1. i - 1 \in 0..Len(d)
    BY <1>0
  <2>2. SubSeq(d, 1, i - 1) \in Seq(Tokens)
    BY <2>1, FirstElements
  <2>3. c \o SubSeq(d, 1, i - 1) \in Seq(Tokens)
    BY <2>2, ConcatProperties
  <2> QED
    BY <2>3 DEF TargetReturnsTokens
<1>2. Expected(c, d) \in [1..Len(d) -> Tokens]
  BY <1>1 DEF Expected
<1>3. Expected(c, d) \in Seq(Tokens)
  BY <1>0, <1>2, SeqDef
<1>4. Len(Expected(c, d)) = Len(d)
  BY <1>0, <1>2, <1>3
<1> QED
  BY <1>3, <1>4 DEF Expected

\* Lengths after a round: n tokens of ld drafted ones are accepted, and lt
\* tokens correct them, one if some are not accepted.
LEMMA RoundLengths ==
    ASSUME NEW ld \in Nat, NEW lt, NEW n \in 0..ld, n < ld => lt = 1, n = ld => lt = 0
    PROVE  n \in Nat /\ lt \in {0, 1} /\ n + lt <= ld
OBVIOUS

\* n tokens of the draft d are what the target expects, v, and t is the target's
\* next token or, at the end of the draft, nothing.
Agrees(d, v, n, t) ==
    /\ \A i \in 1..n : d[i] = v[i]
    /\ n < Len(d) => Len(t) = 1 /\ t[1] = v[n + 1]
    /\ n = Len(d) => Len(t) = 0

\* Then the text after the round is what the target would have written.
LEMMA RoundText ==
    ASSUME NEW c \in Seq(Tokens), NEW d \in Seq(Tokens), NEW t \in Seq(Tokens),
           NEW n \in 0..Len(d), Agrees(d, Expected(c, d), n, t)
    PROVE  LET x == c \o SubSeq(d, 1, n) \o t
           IN  /\ x \in Seq(Tokens)
               /\ Len(x) = Len(c) + n + Len(t)
               /\ SubSeq(x, 1, Len(c)) = c
               /\ \A i \in (Len(c) + 1)..Len(x) : x[i] = Target(SubSeq(x, 1, i - 1))
<1> DEFINE x == c \o SubSeq(d, 1, n) \o t
<1>0. Len(d) \in Nat /\ Len(c) \in Nat
  BY LenProperties
<1>4. /\ SubSeq(d, 1, n) \in Seq(Tokens) /\ Len(SubSeq(d, 1, n)) = n
      /\ \A i \in 1..n : SubSeq(d, 1, n)[i] = d[i]
  BY FirstElements
<1> DEFINE y == c \o SubSeq(d, 1, n)
<1>5. /\ y \in Seq(Tokens) /\ Len(y) = Len(c) + n
      /\ \A i \in 1..(Len(c) + n) :
            y[i] = IF i <= Len(c) THEN c[i] ELSE SubSeq(d, 1, n)[i - Len(c)]
  BY <1>4, ConcatProperties
<1> HIDE DEF y
<1>6. /\ x \in Seq(Tokens) /\ Len(x) = Len(y) + Len(t)
      /\ \A i \in 1..(Len(y) + Len(t)) :
            x[i] = IF i <= Len(y) THEN y[i] ELSE t[i - Len(y)]
  BY <1>5, ConcatProperties DEF y
<1>7. ASSUME NEW k \in 0..n PROVE SubSeq(x, 1, Len(c) + k) = c \o SubSeq(d, 1, k)
  BY PrefixOfRound, Zenon
<1> HIDE DEF x
<1>8. SubSeq(x, 1, Len(c)) = c
  <2>1. 0 \in 0..n /\ Len(c) + 0 = Len(c)
    BY <1>0
  <2>2. SubSeq(x, 1, Len(c)) = c \o SubSeq(d, 1, 0)
    BY <1>7, <2>1
  <2>3. SubSeq(d, 1, 0) = <<>>
    BY SubSeqEmpty
  <2> QED
    BY <2>2, <2>3, ConcatEmptySeq
<1>9. n \in Nat /\ Len(t) \in {0, 1} /\ n + Len(t) <= Len(d)
  BY <1>0, RoundLengths DEF Agrees
<1>10. Len(x) = Len(c) + n + Len(t) /\ Len(y) = Len(c) + n
  BY <1>0, <1>5, <1>6, <1>9
<1>11. ASSUME NEW i \in (Len(c) + 1)..Len(x)
       PROVE  x[i] = Target(SubSeq(x, 1, i - 1))
  <2> DEFINE j == i - Len(c)
  <2>1. j \in 1..(n + 1) /\ j \in 1..Len(d) /\ j - 1 \in 0..n /\ i = Len(c) + j
    <3>1. i \in (Len(c) + 1)..(Len(c) + n + Len(t))
      BY <1>10
    <3>2. Len(t) = 0 \/ Len(t) = 1
      BY <1>9
    <3>3. CASE Len(t) = 0
      BY <1>0, <1>9, <3>1, <3>3
    <3>4. CASE Len(t) = 1
      BY <1>0, <1>9, <3>1, <3>4
    <3> QED
      BY <3>2, <3>3, <3>4
  <2> HIDE DEF j
  <2>2. x[i] = Expected(c, d)[j]
    <3>1. CASE j <= n
      <4>1. /\ j \in 1..n /\ i \in 1..(Len(c) + n) /\ i <= Len(y) /\ ~(i <= Len(c))
            /\ i - Len(c) = j /\ i \in 1..(Len(y) + Len(t))
        BY <3>1, <2>1, <1>0, <1>9, <1>10
      <4>2. x[i] = y[i]
        BY <4>1, <1>6
      <4>3. y[i] = SubSeq(d, 1, n)[j]
        BY <4>1, <1>5
      <4> QED
        BY <4>1, <4>2, <4>3, <1>4 DEF Agrees
    <3>2. CASE j = n + 1
      <4>1. /\ n < Len(d) /\ ~(i <= Len(y)) /\ i - Len(y) = 1
            /\ i \in 1..(Len(y) + Len(t))
        BY <3>2, <2>1, <1>0, <1>9, <1>10
      <4>2. x[i] = t[1]
        BY <4>1, <1>6
      <4> QED
        BY <3>2, <4>1, <4>2 DEF Agrees
    <3> QED
      BY <3>1, <3>2, <2>1, <1>9
  <2>3. Expected(c, d)[j] = Target(c \o SubSeq(d, 1, j - 1))
    BY <2>1 DEF Expected
  <2>4. SubSeq(x, 1, Len(c) + (j - 1)) = c \o SubSeq(d, 1, j - 1)
    BY <2>1, <1>7
  <2>5. Len(c) + (j - 1) = i - 1
    BY <2>1, <1>0
  <2> QED
    BY <2>2, <2>3, <2>4, <2>5
<1>12. /\ x \in Seq(Tokens)
       /\ Len(x) = Len(c) + n + Len(t)
       /\ SubSeq(x, 1, Len(c)) = c
       /\ \A i \in (Len(c) + 1)..Len(x) : x[i] = Target(SubSeq(x, 1, i - 1))
  BY <1>6, <1>8, <1>10, <1>11
<1> QED
  BY <1>12, Zenon DEF x

\* What Commit does to the text c after the draft d and the verdict v.
GreedyRound(c, d, v) ==
    LET n == AcceptedCount(d, v)
        t == AsSeq(Rejection(d, v, n))
        x == c \o SubSeq(d, 1, n) \o t
    IN  /\ n \in 0..Len(d)
        /\ Rejection(d, v, n) \in Tokens \cup {None}
        /\ t \in Seq(Tokens)
        /\ n + Len(t) <= Len(d)
        /\ x \in Seq(Tokens)
        /\ Len(x) = Len(c) + n + Len(t)
        /\ SubSeq(x, 1, Len(c)) = c
        /\ \A i \in (Len(c) + 1)..Len(x) : x[i] = Target(SubSeq(x, 1, i - 1))

\* It does so whatever was drafted.
LEMMA RoundIsGreedy ==
    ASSUME TargetReturnsTokens, NEW c \in Seq(Tokens), NEW d \in Seq(Tokens),
           NEW v, v = Expected(c, d)
    PROVE  GreedyRound(c, d, v)
<1> DEFINE n == AcceptedCount(d, v)
           t == AsSeq(Rejection(d, v, n))
           x == c \o SubSeq(d, 1, n) \o t
<1>1. v \in Seq(Tokens) /\ Len(v) = Len(d)
  BY ExpectedType
<1>2. n \in 0..Len(d) /\ \A i \in 1..n : d[i] = v[i]
  BY AcceptedCountStops
<1> HIDE DEF n
<1>3. /\ Rejection(d, v, n) \in Tokens \cup {None}
      /\ t \in Seq(Tokens)
      /\ n < Len(d) => Len(t) = 1 /\ t[1] = v[n + 1]
      /\ n = Len(d) => Len(t) = 0
  BY <1>1, <1>2, Correction
<1> HIDE DEF t
<1>4. Agrees(d, v, n, t)
  BY <1>2, <1>3 DEF Agrees
<1>5. /\ x \in Seq(Tokens)
      /\ Len(x) = Len(c) + n + Len(t)
      /\ SubSeq(x, 1, Len(c)) = c
      /\ \A i \in (Len(c) + 1)..Len(x) : x[i] = Target(SubSeq(x, 1, i - 1))
  <2>1. Agrees(d, Expected(c, d), n, t)
    BY <1>4, Zenon
  <2> QED
    BY <1>2, <1>3, <2>1, RoundText, Zenon
<1>6. n + Len(t) <= Len(d)
  <2>1. Len(d) \in Nat /\ n \in 0..Len(d)
    BY <1>2, LenProperties
  <2>2. (n < Len(d) => Len(t) = 1) /\ (n = Len(d) => Len(t) = 0)
    BY <1>3
  <2> QED
    BY <2>1, <2>2, RoundLengths
<1> QED
  BY <1>2, <1>3, <1>5, <1>6, Zenon DEF n, t, x, GreedyRound

\* A text that the target wrote up to the end of c, and then from there on, is
\* a text that the target wrote.
LEMMA WrittenOn ==
    ASSUME NEW c \in Seq(Tokens), NEW x \in Seq(Tokens), NEW p \in Nat,
           Len(c) <= Len(x), SubSeq(x, 1, Len(c)) = c,
           Greedy!WrittenByTarget(c, p), Greedy!WrittenByTarget(x, Len(c))
    PROVE  Greedy!WrittenByTarget(x, p)
<1>0. Len(c) \in Nat /\ Len(x) \in Nat /\ Len(c) \in 0..Len(x)
  <2>1. Len(c) \in Nat /\ Len(x) \in Nat
    BY LenProperties
  <2> QED
    BY <2>1
<1>1. SUFFICES ASSUME NEW i \in (p + 1)..Len(x)
               PROVE  x[i] = Target(SubSeq(x, 1, i - 1))
  BY DEF Greedy!WrittenByTarget
<1>2. CASE i > Len(c)
  <2>1. i \in (Len(c) + 1)..Len(x)
    BY <1>0, <1>2
  <2> QED
    BY <2>1 DEF Greedy!WrittenByTarget
<1>3. CASE i <= Len(c)
  <2>1. i \in (p + 1)..Len(c) /\ i \in 1..Len(c) /\ i - 1 \in 0..Len(c) /\ i - 1 \in 0..Len(x)
    BY <1>0, <1>3
  <2>2. \A j \in 1..Len(c) : c[j] = x[j]
    BY <1>0, FirstElements
  <2>3. /\ SubSeq(x, 1, i - 1) \in Seq(Tokens) /\ Len(SubSeq(x, 1, i - 1)) = i - 1
        /\ \A j \in 1..(i - 1) : SubSeq(x, 1, i - 1)[j] = x[j]
    BY <2>1, FirstElements
  <2>4. /\ SubSeq(c, 1, i - 1) \in Seq(Tokens) /\ Len(SubSeq(c, 1, i - 1)) = i - 1
        /\ \A j \in 1..(i - 1) : SubSeq(c, 1, i - 1)[j] = c[j]
    BY <2>1, FirstElements
  <2>5. ASSUME NEW j \in 1..(i - 1) PROVE SubSeq(x, 1, i - 1)[j] = SubSeq(c, 1, i - 1)[j]
    <3>1. j \in 1..Len(c)
      BY <1>0, <2>1
    <3> QED
      BY <2>2, <2>3, <2>4, <3>1
  <2>6. SubSeq(x, 1, i - 1) = SubSeq(c, 1, i - 1)
    BY <2>3, <2>4, <2>5, SeqEqual
  <2>7. c[i] = Target(SubSeq(c, 1, i - 1))
    BY <2>1 DEF Greedy!WrittenByTarget
  <2> QED
    BY <2>1, <2>2, <2>6, <2>7
<1> QED
  BY <1>0, <1>2, <1>3

\* Moving the accepted tokens and the correction to the output keeps it equal
\* to the session's text.
LEMMA OutputFollows ==
    ASSUME NEW p \in Seq(Tokens), NEW g \in Seq(Tokens), NEW a \in Seq(Tokens),
           NEW t \in Seq(Tokens), NEW c, c = p \o g \o <<>>
    PROVE  c \o a \o t = p \o (g \o a) \o t
<1>1. p \o g \in Seq(Tokens)
  BY ConcatProperties
<1>2. c = p \o g
  BY <1>1, ConcatEmptySeq
<1>3. (p \o g) \o a = p \o (g \o a)
  BY SMTT(30)
<1> QED
  BY <1>2, <1>3

-----------------------------------------------------------------------------
(***************************************************************************)
(* The invariant.                                                          *)
(***************************************************************************)

\* A correction waits only between commit and take_rejected_token.
PendingOnlyInTake == pc # "take" => rejected_token = None

\* A draft fits in the budget and in the largest window.
RoundFits ==
    pc \in {"verify", "commit"} =>
        /\ Len(drafted) + Len(generated) <= max_new_tokens
        /\ Len(drafted) <= MaxWindow

\* What is about to be committed was expected after this context.
VerdictIsCurrent ==
    (pc = "commit" /\ Len(verified) = Len(drafted)) =>
        verified = Expected(context, drafted)

IInv ==
    /\ TypeOK
    /\ PendingOnlyInTake
    /\ RoundFits
    /\ VerdictIsCurrent
    /\ WithinBudget
    /\ OutputIsContext
    /\ WindowInRange
    /\ Lossless

\* A new session satisfies the invariant.
LEMMA InitIInv == Init => IInv
<1> SUFFICES ASSUME Init PROVE IInv
  OBVIOUS
<1>0. prompt \in Seq(Tokens) /\ max_new_tokens \in Nat /\ DraftWindow \in 1..MaxWindow
  BY SpeculativeAssumption DEF Init
<1>1. TypeOK
  BY <1>0, EmptySeq DEF Init, TypeOK, Stats
<1>2. PendingOnlyInTake /\ RoundFits /\ VerdictIsCurrent
  BY DEF Init, PendingOnlyInTake, RoundFits, VerdictIsCurrent
<1>3. AsSeq(rejected_token) = <<>> /\ generated = <<>> /\ context = prompt
  BY DEF Init, AsSeq
<1>4. WithinBudget
  BY <1>0, <1>3, EmptySeq DEF WithinBudget
<1>5. OutputIsContext
  BY <1>0, <1>3, ConcatEmptySeq DEF OutputIsContext
<1>6. WindowInRange
  BY <1>0 DEF Init, WindowInRange
<1>7. Lossless
  BY <1>0, <1>3, LenProperties DEF Lossless, Greedy!WrittenByTarget
<1> QED
  BY <1>1, <1>2, <1>4, <1>5, <1>6, <1>7 DEF IInv

\* The invariant is kept by a step that leaves the text alone.
LEMMA QuietStep ==
    ASSUME IInv, TypeOK', PendingOnlyInTake', RoundFits', VerdictIsCurrent',
           UNCHANGED <<prompt, max_new_tokens, draft_window, context,
                       rejected_token, generated>>
    PROVE  IInv'
<1>1. WithinBudget'
  BY DEF IInv, WithinBudget, AsSeq
<1>2. OutputIsContext'
  BY DEF IInv, OutputIsContext, AsSeq
<1>3. WindowInRange'
  BY DEF IInv, WindowInRange
<1>4. Lossless'
  BY DEF IInv, Lossless, Greedy!WrittenByTarget
<1> QED
  BY <1>1, <1>2, <1>3, <1>4 DEF IInv

\* Steps that end the loop.
LEMMA EndIInv ==
    ASSUME IInv,
           Complete \/ DraftTooMany \/ DraftNothing \/ ModelFails \/ WrongLength
    PROVE  IInv'
<1>1. /\ pc' = "end"
      /\ pc \in {"draft", "verify", "commit"}
      /\ UNCHANGED <<mode, prompt, max_new_tokens, draft_window, context,
                     rejected_token, drafted, verified, generated>>
      /\ result' \in {"ok", "Model", "DraftReturnedTooMany", "TargetReturnedWrongLength"}
  BY DEF Complete, DraftTooMany, DraftNothing, ModelFails, WrongLength, Wanting,
         EndWith, session, round
<1>2. stats' = stats \/ stats' = [stats EXCEPT !.draft_calls = @ + 1]
  BY DEF Complete, DraftTooMany, DraftNothing, ModelFails, WrongLength, session
<1>3. stats' \in Stats
  <2>1. stats \in Stats
    BY DEF IInv, TypeOK
  <2>2. [stats EXCEPT !.draft_calls = @ + 1] \in Stats
    BY <2>1 DEF Stats
  <2> QED
    BY <1>2, <2>1, <2>2
<1>4. TypeOK'
  BY <1>1, <1>3 DEF IInv, TypeOK
<1>5. PendingOnlyInTake' /\ RoundFits' /\ VerdictIsCurrent'
  BY <1>1 DEF IInv, PendingOnlyInTake, RoundFits, VerdictIsCurrent
<1> QED
  BY <1>1, <1>4, <1>5, QuietStep

LEMMA DraftIInv ==
    ASSUME IInv, NEW d \in Drafts, Draft(d)
    PROVE  IInv'
<1>1. d \in Seq(Tokens) /\ Len(d) \in Nat
  <2>1. PICK n \in 0..MaxWindow : d \in [1..n -> Tokens]
    BY DEF Drafts
  <2>2. n \in Nat
    BY SpeculativeAssumption
  <2>3. d \in Seq(Tokens)
    BY <2>1, <2>2, SeqDef
  <2> QED
    BY <2>3, LenProperties
<1>2. Len(generated) \in Nat /\ max_new_tokens \in Nat /\ Len(generated) < max_new_tokens
  BY LenProperties DEF IInv, TypeOK, Draft, Wanting
<1>3. draft_window \in 1..MaxWindow /\ DraftWindow \in 1..MaxWindow /\ MaxWindow \in Nat
  BY SpeculativeAssumption DEF IInv, WindowInRange
<1>4. Len(d) + Len(generated) <= max_new_tokens /\ Len(d) <= MaxWindow
  BY <1>1, <1>2, <1>3 DEF Draft, Requested, Smaller
<1>5. stats' \in Stats
  <2>1. /\ stats.draft_calls + 1 \in Nat
        /\ (IF mode = "generate" THEN stats.drafted_tokens + Len(d)
            ELSE stats.drafted_tokens) \in Nat
    BY <1>1 DEF IInv, TypeOK, Stats
  <2> QED
    BY <2>1 DEF Draft, IInv, TypeOK, Stats
<1>6. TypeOK'
  BY <1>1, <1>5 DEF IInv, TypeOK, Draft
<1>7. PendingOnlyInTake'
  BY DEF IInv, PendingOnlyInTake, Draft, Wanting
<1>8. RoundFits'
  BY <1>4 DEF RoundFits, Draft
<1>9. VerdictIsCurrent'
  BY DEF VerdictIsCurrent, Draft
<1> QED
  BY <1>6, <1>7, <1>8, <1>9, QuietStep DEF Draft

LEMMA VerifyIInv ==
    ASSUME TargetReturnsTokens, IInv, NEW v \in Verdicts, Verify(v)
    PROVE  IInv'
<1> DEFINE e == Expected(context, drafted)
<1>0. context \in Seq(Tokens) /\ drafted \in Seq(Tokens) /\ stats \in Stats
  BY DEF IInv, TypeOK
<1>1. e \in Seq(Tokens) /\ Len(e) = Len(drafted)
  BY <1>0, ExpectedType
<1>2. Target(context) \in Tokens
  BY <1>0 DEF TargetReturnsTokens
<1> HIDE DEF e
<1>3. v = e \/ v = Append(e, Target(context))
  BY DEF Verdicts, e
<1>4. v \in Seq(Tokens) /\ (Len(v) = Len(drafted) => v = e)
  <2>1. Len(Append(e, Target(context))) = Len(drafted) + 1
    BY <1>1, <1>2
  <2>2. Len(drafted) \in Nat
    BY <1>0, LenProperties
  <2>3. Append(e, Target(context)) \in Seq(Tokens)
    BY <1>1, <1>2
  <2>4. Len(drafted) + 1 # Len(drafted)
    BY <2>2
  <2> QED
    BY <1>1, <1>3, <2>1, <2>3, <2>4
<1>5. stats' \in Stats
  BY <1>0 DEF Verify, Stats
<1>6. TypeOK'
  BY <1>4, <1>5 DEF IInv, TypeOK, Verify
<1>7. PendingOnlyInTake' /\ RoundFits'
  BY DEF IInv, PendingOnlyInTake, RoundFits, Verify
<1>8. VerdictIsCurrent'
  <2>1. verified' = v /\ drafted' = drafted /\ context' = context
    BY DEF Verify
  <2>2. Expected(context, drafted)' = e
    BY <2>1 DEF e, Expected
  <2> QED
    BY <1>4, <2>1, <2>2 DEF VerdictIsCurrent
<1> QED
  BY <1>6, <1>7, <1>8, QuietStep DEF Verify

\* What a commit does to the session's text, for the lemmas that follow.
LEMMA CommitFacts ==
    ASSUME TargetReturnsTokens, IInv, Commit
    PROVE  /\ context' \in Seq(Tokens)
           /\ rejected_token' \in Tokens \cup {None}
           /\ generated' \in Seq(Tokens)
           /\ Len(context) <= Len(context')
           /\ Len(context) = Len(context') => context' = context
           /\ SubSeq(context', 1, Len(context)) = context
           /\ Greedy!WrittenByTarget(context', Len(context))
           /\ Len(generated') + Len(AsSeq(rejected_token')) <= max_new_tokens
           /\ context' = prompt \o generated' \o AsSeq(rejected_token')
           /\ AsSeq(rejected_token') \in Seq(Tokens)
           /\ draft_window' \in 1..MaxWindow
           /\ stats' \in Stats
           /\ \E m \in 0..Len(drafted), k \in 0..1 :
                 Len(context') = Len(context) + m + k /\ stats' = CountedAfter(m)
<1> DEFINE n == AcceptedCount(drafted, verified)
           a == SubSeq(drafted, 1, n)
           r == Rejection(drafted, verified, n)
<1>0. /\ context \in Seq(Tokens) /\ drafted \in Seq(Tokens) /\ generated \in Seq(Tokens)
      /\ prompt \in Seq(Tokens) /\ max_new_tokens \in Nat /\ stats \in Stats
      /\ verified = Expected(context, drafted)
      /\ Len(drafted) + Len(generated) <= max_new_tokens
      /\ Len(drafted) <= MaxWindow /\ MaxWindow \in Nat
      /\ draft_window \in 1..MaxWindow
      /\ rejected_token = None
  BY SpeculativeAssumption
  DEF IInv, TypeOK, VerdictIsCurrent, RoundFits, WindowInRange, PendingOnlyInTake, Commit
<1>1. /\ context' = context \o a \o AsSeq(r)
      /\ rejected_token' = r
      /\ generated' = generated \o a
      /\ stats' = CountedAfter(n)
      /\ draft_window' = AdjustedWindow(draft_window, n, Len(drafted))
  BY DEF Commit
<1>2. AsSeq(rejected_token') = AsSeq(r)
  BY <1>1 DEF AsSeq
<1>3. /\ n \in 0..Len(drafted)
      /\ r \in Tokens \cup {None}
      /\ AsSeq(r) \in Seq(Tokens)
      /\ n + Len(AsSeq(r)) <= Len(drafted)
      /\ context' \in Seq(Tokens)
      /\ Len(context') = Len(context) + n + Len(AsSeq(r))
      /\ SubSeq(context', 1, Len(context)) = context
      /\ \A i \in (Len(context) + 1)..Len(context') :
            context'[i] = Target(SubSeq(context', 1, i - 1))
  <2> DEFINE x == context \o a \o AsSeq(r)
  <2>1. context \in Seq(Tokens) /\ drafted \in Seq(Tokens)
        /\ verified = Expected(context, drafted)
    BY <1>0
  <2>2. /\ n \in 0..Len(drafted)
        /\ r \in Tokens \cup {None}
        /\ AsSeq(r) \in Seq(Tokens)
        /\ n + Len(AsSeq(r)) <= Len(drafted)
        /\ x \in Seq(Tokens)
        /\ Len(x) = Len(context) + n + Len(AsSeq(r))
        /\ SubSeq(x, 1, Len(context)) = context
        /\ \A i \in (Len(context) + 1)..Len(x) : x[i] = Target(SubSeq(x, 1, i - 1))
    <3>1. GreedyRound(context, drafted, verified)
      BY <2>1, RoundIsGreedy
    <3> QED
      BY <3>1, Zenon DEF GreedyRound
  <2>3. context' = x
    BY <1>1, Zenon
  <2> HIDE DEF x, n, a, r
  <2> QED
    BY <2>2, <2>3
<1>4. /\ Len(drafted) \in Nat /\ Len(generated) \in Nat /\ Len(context) \in Nat
      /\ Len(AsSeq(r)) \in Nat /\ n \in Nat
  BY <1>0, <1>3, LenProperties
<1>5. a \in Seq(Tokens) /\ Len(a) = n
  BY <1>0, <1>3, FirstElements
<1> HIDE DEF n, a, r
<1>6. generated' \in Seq(Tokens) /\ Len(generated') = Len(generated) + n
  BY <1>0, <1>1, <1>5, ConcatProperties
<1>7. context' = prompt \o generated' \o AsSeq(r)
  <2>1. AsSeq(rejected_token) = <<>>
    BY <1>0 DEF AsSeq
  <2>2. context = prompt \o generated \o <<>>
    BY <2>1 DEF IInv, OutputIsContext
  <2> QED
    <3>1. prompt \in Seq(Tokens) /\ generated \in Seq(Tokens) /\ a \in Seq(Tokens)
          /\ AsSeq(r) \in Seq(Tokens)
      BY <1>0, <1>3, <1>5
    <3>2. context \o a \o AsSeq(r) = prompt \o (generated \o a) \o AsSeq(r)
      BY <2>2, <3>1, OutputFollows
    <3> QED
      BY <3>2, <1>1, Zenon
<1>8. Len(generated') + Len(AsSeq(r)) <= max_new_tokens
  BY <1>0, <1>3, <1>4, <1>6
<1>9. draft_window' \in 1..MaxWindow
  BY <1>0, <1>1, <1>3, <1>4 DEF AdjustedWindow
<1>10. stats' \in Stats
  <2>1. /\ stats.accepted_tokens + n \in Nat
        /\ stats.rejected_tokens + (Len(drafted) - n) \in Nat
        /\ (IF mode = "batch" THEN stats.drafted_tokens + Len(drafted)
            ELSE stats.drafted_tokens) \in Nat
    <3>1. stats.accepted_tokens \in Nat /\ stats.rejected_tokens \in Nat
          /\ stats.drafted_tokens \in Nat
      BY <1>0 DEF Stats
    <3>2. Len(drafted) \in Nat /\ n \in Nat /\ Len(drafted) - n \in Nat
      BY <1>3, <1>4
    <3>3. /\ stats.accepted_tokens + n \in Nat
          /\ stats.rejected_tokens + (Len(drafted) - n) \in Nat
          /\ stats.drafted_tokens + Len(drafted) \in Nat
      BY ONLY <3>1, <3>2
    <3> QED
      BY <3>1, <3>3, Zenon
  <2> QED
    BY <2>1, <1>0, <1>1 DEF CountedAfter, Stats
<1>11. Len(context) <= Len(context')
  BY <1>3, <1>4
<1>12. Len(context) = Len(context') => context' = context
  BY <1>3, SubSeqFull
<1>13. Greedy!WrittenByTarget(context', Len(context))
  BY <1>3 DEF Greedy!WrittenByTarget
<1>14. \E m \in 0..Len(drafted), k \in 0..1 :
          Len(context') = Len(context) + m + k /\ stats' = CountedAfter(m)
  <2>1. Len(AsSeq(r)) \in 0..1
    BY <1>3, EmptySeq DEF AsSeq
  <2> QED
    BY <1>1, <1>3, <2>1
<1> QED
  BY <1>1, <1>2, <1>3, <1>6, <1>7, <1>8, <1>9, <1>10, <1>11, <1>12, <1>13, <1>14

LEMMA CommitIInv ==
    ASSUME TargetReturnsTokens, IInv, Commit
    PROVE  IInv'
<1>0. /\ pc' = "take"
      /\ UNCHANGED <<mode, prompt, max_new_tokens, drafted, verified, result>>
  BY DEF Commit, round
<1>1. TypeOK'
  <2>1. draft_window' \in Nat
    <3>1. draft_window' \in 1..MaxWindow
      BY CommitFacts
    <3> QED
      BY <3>1, SpeculativeAssumption
  <2>2. context' \in Seq(Tokens) /\ rejected_token' \in Tokens \cup {None}
        /\ generated' \in Seq(Tokens) /\ stats' \in Stats
    BY CommitFacts
  <2> QED
    BY <1>0, <2>1, <2>2 DEF IInv, TypeOK
<1>2. PendingOnlyInTake' /\ RoundFits' /\ VerdictIsCurrent'
  BY <1>0 DEF PendingOnlyInTake, RoundFits, VerdictIsCurrent
<1>3. WithinBudget' /\ OutputIsContext'
  BY <1>0, CommitFacts DEF WithinBudget, OutputIsContext
<1>4. WindowInRange'
  BY CommitFacts DEF WindowInRange
<1>5. Lossless'
  <2>1. /\ context \in Seq(Tokens) /\ Len(prompt) \in Nat
        /\ Greedy!WrittenByTarget(context, Len(prompt))
    BY LenProperties DEF IInv, TypeOK, Lossless
  <2>2. /\ context' \in Seq(Tokens) /\ Len(context) <= Len(context')
        /\ SubSeq(context', 1, Len(context)) = context
        /\ Greedy!WrittenByTarget(context', Len(context))
    BY CommitFacts
  <2>3. Greedy!WrittenByTarget(context', Len(prompt))
    BY <2>1, <2>2, WrittenOn
  <2> QED
    BY <1>0, <2>3 DEF Lossless, Greedy!WrittenByTarget
<1> QED
  BY <1>1, <1>2, <1>3, <1>4, <1>5 DEF IInv

LEMMA TakeIInv ==
    ASSUME IInv, Take
    PROVE  IInv'
<1> DEFINE t == AsSeq(rejected_token)
<1>0. /\ pc' = "draft" /\ rejected_token' = None /\ generated' = generated \o t
      /\ UNCHANGED <<mode, prompt, max_new_tokens, draft_window, context, stats,
                     drafted, verified, result>>
  BY DEF Take, round
<1>1. /\ generated \in Seq(Tokens) /\ prompt \in Seq(Tokens) /\ max_new_tokens \in Nat
      /\ rejected_token \in Tokens \cup {None}
      /\ Len(generated) + Len(t) <= max_new_tokens
      /\ context = prompt \o generated \o t
  BY DEF IInv, TypeOK, WithinBudget, OutputIsContext
<1>2. t \in Seq(Tokens)
  BY <1>1, EmptySeq DEF AsSeq
<1>3. AsSeq(rejected_token') = <<>>
  BY <1>0 DEF AsSeq
<1> HIDE DEF t
<1>4. generated' \in Seq(Tokens) /\ Len(generated') = Len(generated) + Len(t)
  BY <1>0, <1>1, <1>2, ConcatProperties
<1>5. TypeOK'
  BY <1>0, <1>4 DEF IInv, TypeOK
<1>6. PendingOnlyInTake' /\ RoundFits' /\ VerdictIsCurrent'
  BY <1>0 DEF PendingOnlyInTake, RoundFits, VerdictIsCurrent
<1>7. WithinBudget'
  <2>1. Len(generated') \in Nat /\ Len(generated') <= max_new_tokens
    BY <1>1, <1>4, LenProperties
  <2> QED
    BY <2>1, <1>0, <1>3, EmptySeq DEF WithinBudget
<1>8. OutputIsContext'
  <2>1. prompt \o generated \o t = prompt \o generated'
    <3>1. (prompt \o generated) \o t = prompt \o (generated \o t)
      BY <1>1, <1>2, ConcatAssociative
    <3> QED
      BY <3>1, <1>0, Zenon
  <2>2. prompt \o generated' \in Seq(Tokens)
    BY <1>1, <1>4, ConcatProperties
  <2>3. prompt \o generated' \o <<>> = prompt \o generated'
    BY <2>2, ConcatEmptySeq
  <2> QED
    BY <1>0, <1>1, <1>3, <2>1, <2>3 DEF OutputIsContext
<1>9. WindowInRange'
  BY <1>0 DEF IInv, WindowInRange
<1>10. Lossless'
  BY <1>0 DEF IInv, Lossless, Greedy!WrittenByTarget
<1> QED
  BY <1>5, <1>6, <1>7, <1>8, <1>9, <1>10 DEF IInv

LEMMA NextIInv ==
    ASSUME TargetReturnsTokens, IInv, [Next]_specVars
    PROVE  IInv'
<1>1. CASE Complete \/ DraftTooMany \/ DraftNothing \/ ModelFails \/ WrongLength
  BY <1>1, EndIInv
<1>2. ASSUME NEW d \in Drafts, Draft(d) PROVE IInv'
  BY <1>2, DraftIInv
<1>3. ASSUME NEW v \in Verdicts, Verify(v) PROVE IInv'
  BY <1>3, VerifyIInv
<1>4. CASE Commit
  BY <1>4, CommitIInv
<1>5. CASE Take
  BY <1>5, TakeIInv
<1>6. CASE UNCHANGED specVars
  <2>1. UNCHANGED <<mode, pc, prompt, max_new_tokens, draft_window, context,
                    rejected_token, stats, drafted, verified, generated, result>>
    BY <1>6 DEF specVars, session, round
  <2>2. TypeOK' /\ PendingOnlyInTake' /\ RoundFits'
    BY <2>1 DEF IInv, TypeOK, PendingOnlyInTake, RoundFits
  <2>3. VerdictIsCurrent'
    BY <2>1 DEF IInv, VerdictIsCurrent, Expected
  <2> QED
    BY <2>1, <2>2, <2>3, QuietStep
<1> QED
  BY <1>1, <1>2, <1>3, <1>4, <1>5, <1>6 DEF Next

-----------------------------------------------------------------------------
(***************************************************************************)
(* The theorems.                                                           *)
(***************************************************************************)

\* The conjunction of the invariants is inductive.
THEOREM Invariance ==
    ASSUME TargetReturnsTokens
    PROVE  Spec => []IInv
<1>1. Init => IInv
  BY InitIInv
<1>2. IInv /\ [Next]_specVars => IInv'
  BY NextIInv
<1> QED
  BY <1>1, <1>2, PTL DEF Spec

\* The session and the two loops of speculative.rs keep their types.
THEOREM TypeCorrect ==
    ASSUME TargetReturnsTokens
    PROVE  Spec => []TypeOK
<1>1. IInv => TypeOK
  BY DEF IInv
<1> QED
  BY <1>1, Invariance, PTL

\* Neither generate nor the batch loop collects more than max_new_tokens
\* tokens, for every window and every draft model.
THEOREM BudgetIsKept ==
    ASSUME TargetReturnsTokens
    PROVE  Spec => []WithinBudget
<1>1. IInv => WithinBudget
  BY DEF IInv
<1> QED
  BY <1>1, Invariance, PTL

\* The tokens a caller collected and the session's context never drift apart.
THEOREM OutputIsWhatWasDecided ==
    ASSUME TargetReturnsTokens
    PROVE  Spec => []OutputIsContext
<1>1. IInv => OutputIsContext
  BY DEF IInv
<1> QED
  BY <1>1, Invariance, PTL

\* adjust_window stays within 1..max_window.
THEOREM WindowStaysInRange ==
    ASSUME TargetReturnsTokens
    PROVE  Spec => []WindowInRange
<1>1. IInv => WindowInRange
  BY DEF IInv
<1> QED
  BY <1>1, Invariance, PTL

\* Speculation is lossless for every draft model, every greedy target model
\* and every window: session.draft and session.commit put into the context
\* only what the target would have written itself.
THEOREM SpeculationIsLossless ==
    ASSUME TargetReturnsTokens
    PROVE  Spec => []Lossless
<1>1. IInv => Lossless
  BY DEF IInv
<1> QED
  BY <1>1, Invariance, PTL

\* Decoding with a draft model implements decoding with the target alone: each
\* step of the session is a step of GreedyDecoding or leaves its state alone.
THEOREM ImplementsGreedyDecoding ==
    ASSUME TargetReturnsTokens
    PROVE  Spec => RefinesGreedyDecoding
<1>1. Init => Greedy!Init
  BY SpeculativeAssumption DEF Init, Greedy!Init
<1>2. ASSUME IInv, IInv', [Next]_specVars
      PROVE  [Greedy!Next]_(Greedy!greedyVars)
  <2>1. CASE Commit
    <3>0. /\ pc = "commit" /\ pc' = "take"
          /\ UNCHANGED <<prompt, max_new_tokens>>
      BY <2>1 DEF Commit
    <3>1. /\ Len(context) <= Len(context')
          /\ Len(context) = Len(context') => context' = context
          /\ SubSeq(context', 1, Len(context)) = context
          /\ Greedy!WrittenByTarget(context', Len(context))
          /\ context' \in Seq(Tokens)
      BY <1>2, <2>1, CommitFacts
    <3>2. Len(context') <= Len(prompt) + max_new_tokens
      <4> DEFINE t == AsSeq(rejected_token')
                 g == generated'
      <4>1. /\ g \in Seq(Tokens) /\ t \in Seq(Tokens) /\ prompt \in Seq(Tokens)
            /\ Len(g) + Len(t) <= max_new_tokens /\ context' = prompt \o g \o t
            /\ max_new_tokens \in Nat
        BY <1>2, <2>1, CommitFacts DEF IInv, TypeOK
      <4> HIDE DEF t, g
      <4>2. prompt \o g \in Seq(Tokens) /\ Len(prompt \o g) = Len(prompt) + Len(g)
        BY <4>1, ConcatProperties
      <4>3. Len(context') = Len(prompt \o g) + Len(t)
        BY <4>1, <4>2, ConcatProperties
      <4>4. Len(prompt) \in Nat /\ Len(g) \in Nat /\ Len(t) \in Nat
        BY <4>1, LenProperties
      <4> QED
        BY <4>1, <4>2, <4>3, <4>4
    <3>3. CASE Len(context) = Len(context')
      BY <3>0, <3>1, <3>3 DEF Greedy!greedyVars
    <3>4. CASE Len(context) # Len(context')
      <4>1. Len(context) \in Nat /\ Len(context') \in Nat
        BY <1>2, LenProperties DEF IInv, TypeOK
      <4>2. Len(context) < Len(context')
        BY <3>1, <3>4, <4>1
      <4>3. Greedy!Write
        BY <3>0, <3>1, <3>2, <4>2 DEF Greedy!Write
      <4> QED
        BY <4>3 DEF Greedy!Next
    <3> QED
      BY <3>3, <3>4
  <2>2. CASE Complete \/ DraftTooMany \/ DraftNothing \/ ModelFails \/ WrongLength
    <3>1. /\ pc' = "end" /\ pc # "end"
          /\ UNCHANGED <<prompt, max_new_tokens, context>>
      BY <2>2 DEF Complete, DraftTooMany, DraftNothing, ModelFails, WrongLength,
                  Wanting, EndWith, session
    <3>2. Greedy!End
      BY <3>1 DEF Greedy!End
    <3> QED
      BY <3>2 DEF Greedy!Next
  <2>3. CASE \E d \in Drafts : Draft(d)
    <3>1. /\ pc' # "end" /\ pc # "end"
          /\ UNCHANGED <<prompt, max_new_tokens, context>>
      BY <2>3 DEF Draft, Wanting
    <3> QED
      BY <3>1 DEF Greedy!greedyVars
  <2>4. CASE \E v \in Verdicts : Verify(v)
    <3>1. /\ pc' # "end" /\ pc # "end"
          /\ UNCHANGED <<prompt, max_new_tokens, context>>
      BY <2>4 DEF Verify
    <3> QED
      BY <3>1 DEF Greedy!greedyVars
  <2>5. CASE Take
    <3>1. /\ pc' # "end" /\ pc # "end"
          /\ UNCHANGED <<prompt, max_new_tokens, context>>
      BY <2>5 DEF Take
    <3> QED
      BY <3>1 DEF Greedy!greedyVars
  <2>6. CASE UNCHANGED specVars
    BY <2>6 DEF specVars, session, Greedy!greedyVars
  <2> QED
    BY <1>2, <2>1, <2>2, <2>3, <2>4, <2>5, <2>6 DEF Next
<1> QED
  BY <1>1, <1>2, Invariance, PTL DEF Spec, RefinesGreedyDecoding, Greedy!Spec

-----------------------------------------------------------------------------
(***************************************************************************)
(* The counters.  In the middle of a round they are behind: generate has   *)
(* counted the draft whose tokens are not yet accepted or rejected, a call *)
(* of the draft model waits for its verification, and a verification for   *)
(* the token that may correct the draft.                                   *)
(***************************************************************************)
Unsettled == IF mode = "generate" /\ pc \in {"verify", "commit"} THEN Len(drafted) ELSE 0

StatsInv ==
    /\ pc # "end" =>
          stats.drafted_tokens = stats.accepted_tokens + stats.rejected_tokens + Unsettled
    /\ stats.target_calls <= stats.draft_calls
    /\ pc = "verify" => stats.target_calls < stats.draft_calls
    /\ Len(prompt) + stats.accepted_tokens <= Len(context)
    /\ Len(context) <= Len(prompt) + stats.accepted_tokens + stats.target_calls
    /\ pc = "commit" =>
          Len(context) < Len(prompt) + stats.accepted_tokens + stats.target_calls

LEMMA StatsTypes ==
    ASSUME IInv
    PROVE  /\ stats \in Stats
           /\ stats.draft_calls \in Nat /\ stats.target_calls \in Nat
           /\ stats.drafted_tokens \in Nat /\ stats.accepted_tokens \in Nat
           /\ stats.rejected_tokens \in Nat
           /\ Len(context) \in Nat /\ Len(prompt) \in Nat /\ Len(drafted) \in Nat
<1>1. /\ stats \in Stats /\ context \in Seq(Tokens) /\ prompt \in Seq(Tokens)
      /\ drafted \in Seq(Tokens)
  BY DEF IInv, TypeOK
<1> QED
  BY <1>1, LenProperties DEF Stats

LEMMA InitStats == Init => StatsInv
<1> SUFFICES ASSUME Init PROVE StatsInv
  OBVIOUS
<1>1. Len(prompt) \in Nat /\ Len(context) = Len(prompt)
  BY SpeculativeAssumption, LenProperties DEF Init
<1>2. /\ stats.draft_calls = 0 /\ stats.target_calls = 0 /\ stats.drafted_tokens = 0
      /\ stats.accepted_tokens = 0 /\ stats.rejected_tokens = 0 /\ pc = "draft"
  BY DEF Init
<1> QED
  BY <1>1, <1>2 DEF StatsInv, Unsettled

LEMMA EndStats ==
    ASSUME IInv, StatsInv,
           Complete \/ DraftTooMany \/ DraftNothing \/ ModelFails \/ WrongLength
    PROVE  StatsInv'
<1>1. pc' = "end" /\ prompt' = prompt /\ context' = context
  BY DEF Complete, DraftTooMany, DraftNothing, ModelFails, WrongLength, EndWith, session
<1>2. stats' = stats \/ stats' = [stats EXCEPT !.draft_calls = @ + 1]
  BY DEF Complete, DraftTooMany, DraftNothing, ModelFails, WrongLength, session
<1>3. /\ stats'.target_calls = stats.target_calls
      /\ stats'.accepted_tokens = stats.accepted_tokens
      /\ stats'.draft_calls = stats.draft_calls \/ stats'.draft_calls = stats.draft_calls + 1
  BY <1>2, StatsTypes DEF Stats
<1> QED
  BY <1>1, <1>3, StatsTypes DEF StatsInv

LEMMA DraftStats ==
    ASSUME IInv, StatsInv, NEW d \in Drafts, Draft(d)
    PROVE  StatsInv'
<1>1. /\ pc = "draft" /\ pc' = "verify" /\ mode' = mode /\ drafted' = d
      /\ prompt' = prompt /\ context' = context
      /\ stats' = [stats EXCEPT !.draft_calls = @ + 1,
                                !.drafted_tokens = IF mode = "generate"
                                                   THEN @ + Len(d) ELSE @]
  BY DEF Draft, Wanting
<1>2. /\ stats'.target_calls = stats.target_calls
      /\ stats'.accepted_tokens = stats.accepted_tokens
      /\ stats'.rejected_tokens = stats.rejected_tokens
      /\ stats'.draft_calls = stats.draft_calls + 1
      /\ mode = "generate" => stats'.drafted_tokens = stats.drafted_tokens + Len(d)
      /\ mode # "generate" => stats'.drafted_tokens = stats.drafted_tokens
  BY <1>1, StatsTypes DEF Stats
<1>3. Len(d) \in Nat
  <2>1. PICK n \in 0..MaxWindow : d \in [1..n -> Tokens]
    BY DEF Drafts
  <2>2. d \in Seq(Tokens)
    BY <2>1, SpeculativeAssumption, SeqDef
  <2> QED
    BY <2>2, LenProperties
<1>4. stats.drafted_tokens = stats.accepted_tokens + stats.rejected_tokens
  BY <1>1, StatsTypes DEF StatsInv, Unsettled
<1>5. stats'.drafted_tokens = stats'.accepted_tokens + stats'.rejected_tokens + Unsettled'
  <2>1. CASE mode = "generate"
    BY <1>1, <1>2, <1>3, <1>4, <2>1, StatsTypes DEF Unsettled
  <2>2. CASE mode # "generate"
    BY <1>1, <1>2, <1>4, <2>2, StatsTypes DEF Unsettled
  <2> QED
    BY <2>1, <2>2
<1> QED
  BY <1>1, <1>2, <1>5, StatsTypes DEF StatsInv

LEMMA VerifyStats ==
    ASSUME IInv, StatsInv, NEW v, Verify(v)
    PROVE  StatsInv'
<1>1. /\ pc = "verify" /\ pc' = "commit" /\ mode' = mode /\ drafted' = drafted
      /\ prompt' = prompt /\ context' = context
      /\ stats' = [stats EXCEPT !.target_calls = @ + 1]
  BY DEF Verify
<1>2. /\ stats'.target_calls = stats.target_calls + 1
      /\ stats'.accepted_tokens = stats.accepted_tokens
      /\ stats'.rejected_tokens = stats.rejected_tokens
      /\ stats'.draft_calls = stats.draft_calls
      /\ stats'.drafted_tokens = stats.drafted_tokens
  BY <1>1, StatsTypes DEF Stats
<1>3. Unsettled' = Unsettled
  BY <1>1 DEF Unsettled
<1> QED
  BY <1>1, <1>2, <1>3, StatsTypes, SMTT(30) DEF StatsInv

LEMMA CommitStats ==
    ASSUME TargetReturnsTokens, IInv, StatsInv, Commit
    PROVE  StatsInv'
<1>1. PICK m \in 0..Len(drafted), k \in 0..1 :
         Len(context') = Len(context) + m + k /\ stats' = CountedAfter(m)
  BY CommitFacts
<1>2. /\ pc = "commit" /\ pc' = "take" /\ mode' = mode /\ drafted' = drafted
      /\ prompt' = prompt
  BY DEF Commit, round
<1>3. /\ stats'.target_calls = stats.target_calls
      /\ stats'.accepted_tokens = stats.accepted_tokens + m
      /\ stats'.rejected_tokens = stats.rejected_tokens + (Len(drafted) - m)
      /\ stats'.draft_calls = stats.draft_calls
      /\ mode = "batch" => stats'.drafted_tokens = stats.drafted_tokens + Len(drafted)
      /\ mode # "batch" => stats'.drafted_tokens = stats.drafted_tokens
  BY <1>1, StatsTypes DEF CountedAfter, Stats
<1>4. m \in Nat /\ k \in Nat /\ k <= 1 /\ m <= Len(drafted)
  BY StatsTypes
<1>5. stats'.drafted_tokens = stats'.accepted_tokens + stats'.rejected_tokens + Unsettled'
  <2>0. mode = "generate" \/ mode = "batch"
    BY DEF IInv, TypeOK
  <2>1. CASE mode = "generate"
    BY <1>2, <1>3, <1>4, <2>1, StatsTypes DEF StatsInv, Unsettled
  <2>2. CASE mode = "batch"
    BY <1>2, <1>3, <1>4, <2>2, StatsTypes, SMTT(30) DEF StatsInv, Unsettled
  <2> QED
    BY <2>0, <2>1, <2>2
<1>6. /\ Len(prompt') + stats'.accepted_tokens <= Len(context')
      /\ Len(context') <= Len(prompt') + stats'.accepted_tokens + stats'.target_calls
  <2> DEFINE p == Len(prompt)
             c == Len(context)
             a == stats.accepted_tokens
             t == stats.target_calls
  <2>1. p \in Nat /\ c \in Nat /\ a \in Nat /\ t \in Nat
    BY StatsTypes
  <2>2. p + a <= c /\ c < p + a + t
    BY <1>2 DEF StatsInv
  <2> HIDE DEF p, c, a, t
  <2>3. p + (a + m) <= c + m + k /\ c + m + k <= p + (a + m) + t
    BY ONLY <1>4, <2>1, <2>2
  <2>4. Len(prompt') = p /\ Len(context') = c + m + k
        /\ stats'.accepted_tokens = a + m /\ stats'.target_calls = t
    BY <1>1, <1>2, <1>3 DEF p, c, a, t
  <2> QED
    BY <2>3, <2>4, Zenon
<1> QED
  BY <1>2, <1>3, <1>5, <1>6, StatsTypes DEF StatsInv

LEMMA NextStats ==
    ASSUME TargetReturnsTokens, IInv, StatsInv, [Next]_specVars
    PROVE  StatsInv'
<1>1. CASE Take
  <2>1. /\ pc = "take" /\ pc' = "draft" /\ mode' = mode /\ stats' = stats
        /\ prompt' = prompt /\ context' = context
    BY <1>1 DEF Take
  <2> QED
    BY <2>1 DEF StatsInv, Unsettled
<1>2. CASE UNCHANGED specVars
  BY <1>2 DEF specVars, session, round, StatsInv, Unsettled
<1> QED
  BY <1>1, <1>2, EndStats, DraftStats, VerifyStats, CommitStats DEF Next

\* SpeculativeStats accounts for every drafted token and every call, in both
\* loops, for every draft model and every window: session.draft counts a draft
\* when it is made, session.commit when it is committed, and neither drifts.
THEOREM StatsAlwaysAgree ==
    ASSUME TargetReturnsTokens
    PROVE  Spec => []StatsAgree
<1>1. Init => StatsInv
  BY InitStats
<1>2. IInv /\ StatsInv /\ [Next]_specVars => StatsInv'
  BY NextStats
<1>3. IInv /\ StatsInv => StatsAgree
  <2> SUFFICES ASSUME IInv, StatsInv PROVE StatsAgree
    OBVIOUS
  <2>1. pc = "draft" => stats.drafted_tokens = stats.accepted_tokens + stats.rejected_tokens
    BY StatsTypes DEF StatsInv, Unsettled
  <2> QED
    BY <2>1, StatsTypes DEF StatsInv, StatsAgree
<1> QED
  BY <1>1, <1>2, <1>3, Invariance, PTL DEF Spec
=============================================================================
