-------------------------- MODULE RadixCacheProofs --------------------------
(***************************************************************************)
(* The prefix cache for every set of texts and capacities: the nodes stay  *)
(* a tree, the counter of resident tokens is exact, a cache with a limit   *)
(* stays within it, and the trie implements the map of PrefixMapSpec.      *)
(***************************************************************************)
EXTENDS RadixCache, NaturalsLemmas, FiniteSetTheorems, FunctionTheorems, SequenceTheorems, TLAPS

Tokens == UNION {ToSet(s) : s \in Texts}
Handles == [block_id : Nat, token_len : Nat]
Maps == UNION {[D -> Nat] : D \in SUBSET Tokens}
NodeRecs ==
    [edge : Seq(Tokens), children : Maps, handle : Handles \cup {NoHandle},
     last_access_tick : Nat]

-----------------------------------------------------------------------------
(***************************************************************************)
(* Counting the tokens of handles.                                         *)
(***************************************************************************)

\* The tokens of the handles of the nodes S, one pair for each.
Cells(ns, S) == UNION {{i} \X (1..ns[i].handle.token_len) : i \in S}

LEMMA CellsMember ==
    ASSUME NEW ns, NEW S
    PROVE  \A c : c \in Cells(ns, S) <=>
                \E i \in S : \E k \in 1..ns[i].handle.token_len : c = <<i, k>>
BY DEF Cells

LEMMA HandleTypes ==
    ASSUME NEW ns \in Seq(NodeRecs), NEW i \in WithHandle(ns)
    PROVE  i \in 1..Len(ns) /\ ns[i].handle \in Handles /\ ns[i].handle.token_len \in Nat
<1>1. i \in 1..Len(ns) /\ ns[i].handle # NoHandle
  BY DEF WithHandle, HasHandle
<1>2. ns[i] \in NodeRecs
  BY <1>1
<1>3. ns[i].handle \in Handles
  BY <1>1, <1>2 DEF NodeRecs
<1> QED
  BY <1>1, <1>3 DEF Handles

LEMMA CellsFinite ==
    ASSUME NEW ns \in Seq(NodeRecs), NEW S \in SUBSET WithHandle(ns)
    PROVE  IsFiniteSet(Cells(ns, S)) /\ HandleTokens(ns, S) = Cardinality(Cells(ns, S))
           /\ HandleTokens(ns, S) \in Nat
<1> DEFINE row(i) == {i} \X (1..ns[i].handle.token_len)
           n == Len(ns)
           F == {k \in 0..n : IsFiniteSet(Cells(ns, S \cap (1..k)))}
<1>1. n \in Nat /\ \A i \in S : i \in 1..n /\ ns[i].handle.token_len \in Nat
  BY HandleTypes
<1>2. \A i \in S : IsFiniteSet(row(i))
  <2> TAKE i \in S
  <2>1. IsFiniteSet({i})
    BY FS_Singleton
  <2>2. IsFiniteSet(1..ns[i].handle.token_len)
    <3>1. PICK m \in Int : m = ns[i].handle.token_len
      BY <1>1
    <3>2. 1 \in Int /\ IsFiniteSet(1..m)
      BY FS_Interval
    <3> QED
      BY <3>1, <3>2
  <2> QED
    BY <2>1, <2>2, FS_Product
<1>3. F = 0..n
  <2>1. 0 \in F
    <3>1. Cells(ns, S \cap (1..0)) = {}
      BY CellsMember
    <3>2. 0 \in 0..n
      BY <1>1
    <3>3. IsFiniteSet(Cells(ns, S \cap (1..0)))
      BY <3>1, FS_EmptySet
    <3> QED
      BY <3>2, <3>3, Zenon
  <2>2. ASSUME NEW k \in 1..n, k - 1 \in F PROVE k \in F
    <3>1. IsFiniteSet(Cells(ns, S \cap (1..(k - 1))))
      BY <2>2
    <3>2. CASE k \in S
      <4>1. Cells(ns, S \cap (1..k)) = Cells(ns, S \cap (1..(k - 1))) \cup row(k)
        <5>1. S \cap (1..k) = (S \cap (1..(k - 1))) \cup {k}
          BY <1>1, <3>2
        <5>2. \A T : Cells(ns, T \cup {k}) = Cells(ns, T) \cup row(k)
          BY DEF Cells
        <5> QED
          BY <5>1, <5>2
      <4>2. IsFiniteSet(row(k))
        BY <1>2, <3>2
      <4>3. IsFiniteSet(Cells(ns, S \cap (1..(k - 1))) \cup row(k))
        BY <3>1, <4>2, FS_Union
      <4>4. k \in 0..n
        BY <1>1
      <4> QED
        BY <4>1, <4>3, <4>4, Zenon
    <3>3. CASE k \notin S
      <4>1. S \cap (1..k) = S \cap (1..(k - 1))
        BY <1>1, <3>3
      <4>2. k \in 0..n
        BY <1>1
      <4> QED
        BY <3>1, <4>1, <4>2, Zenon
    <3> QED
      BY <3>2, <3>3
  <2>3. F \in SUBSET (0..n)
    OBVIOUS
  <2> HIDE DEF F
  <2> QED
    BY <1>1, <2>1, <2>2, <2>3, IntervalInduction
<1>4. S \cap (1..n) = S
  BY <1>1
<1>5. IsFiniteSet(Cells(ns, S))
  <2>1. n \in F
    <3> HIDE DEF F
    <3> QED
      BY <1>1, <1>3
  <2>2. IsFiniteSet(Cells(ns, S \cap (1..n)))
    BY <2>1, Zenon
  <2> QED
    BY <1>4, <2>2, Zenon
<1>6. HandleTokens(ns, S) = Cardinality(Cells(ns, S))
  BY DEF HandleTokens, Cells
<1> QED
  BY <1>5, <1>6, FS_CardinalityType

\* The tokens of more nodes are more tokens, and those of the difference are
\* the difference.
LEMMA HandleTokensDifference ==
    ASSUME NEW ns \in Seq(NodeRecs), NEW S \in SUBSET WithHandle(ns), NEW T \in SUBSET S
    PROVE  /\ HandleTokens(ns, T) <= HandleTokens(ns, S)
           /\ HandleTokens(ns, S \ T) = HandleTokens(ns, S) - HandleTokens(ns, T)
<1>1. T \in SUBSET WithHandle(ns) /\ S \ T \in SUBSET WithHandle(ns)
  OBVIOUS
<1>2. /\ IsFiniteSet(Cells(ns, S)) /\ HandleTokens(ns, S) = Cardinality(Cells(ns, S))
      /\ HandleTokens(ns, T) = Cardinality(Cells(ns, T)) /\ HandleTokens(ns, T) \in Nat
      /\ HandleTokens(ns, S \ T) = Cardinality(Cells(ns, S \ T)) /\ HandleTokens(ns, S) \in Nat
  BY <1>1, CellsFinite
<1>3. Cells(ns, T) \in SUBSET Cells(ns, S)
  BY CellsMember
<1>4. Cells(ns, S) \cap Cells(ns, T) = Cells(ns, T)
  BY <1>3
<1>5. Cells(ns, S) \ Cells(ns, T) = Cells(ns, S \ T)
  <2>1. ASSUME NEW c \in Cells(ns, S) \ Cells(ns, T) PROVE c \in Cells(ns, S \ T)
    BY <2>1, CellsMember
  <2>2. ASSUME NEW c \in Cells(ns, S \ T) PROVE c \in Cells(ns, S) \ Cells(ns, T)
    BY <2>2, CellsMember
  <2> QED
    BY <2>1, <2>2
<1>6. Cardinality(Cells(ns, T)) <= Cardinality(Cells(ns, S))
  BY <1>2, <1>3, FS_Subset
<1>7. Cardinality(Cells(ns, S) \ Cells(ns, T)) =
         Cardinality(Cells(ns, S)) - Cardinality(Cells(ns, S) \cap Cells(ns, T))
  BY <1>2, FS_Difference
<1> QED
  BY <1>2, <1>4, <1>5, <1>6, <1>7

LEMMA HandleTokensOne ==
    ASSUME NEW ns \in Seq(NodeRecs), NEW i \in WithHandle(ns)
    PROVE  HandleTokens(ns, {i}) = ns[i].handle.token_len
<1>1. ns[i].handle.token_len \in Nat
  BY HandleTypes
<1>2. HandleTokens(ns, {i}) = Cardinality({i} \X (1..ns[i].handle.token_len))
  <2>1. UNION {{j} \X (1..ns[j].handle.token_len) : j \in {i}}
           = {i} \X (1..ns[i].handle.token_len)
    OBVIOUS
  <2> QED
    BY <2>1 DEF HandleTokens
<1>3. IsFiniteSet({i}) /\ Cardinality({i}) = 1
  BY FS_Singleton
<1>4. /\ IsFiniteSet(1..ns[i].handle.token_len)
      /\ Cardinality(1..ns[i].handle.token_len) = ns[i].handle.token_len
  <2>1. PICK m \in Nat : m = ns[i].handle.token_len
    BY <1>1
  <2>2. IsFiniteSet(1..m) /\ Cardinality(1..m) = IF 1 > m THEN 0 ELSE m - 1 + 1
    BY FS_Interval
  <2> QED
    BY <2>1, <2>2
<1>5. Cardinality({i} \X (1..ns[i].handle.token_len)) =
         Cardinality({i}) * Cardinality(1..ns[i].handle.token_len)
  BY <1>3, <1>4, FS_Product
<1> QED
  BY <1>1, <1>2, <1>3, <1>4, <1>5

\* The count depends on nothing but the handles.
LEMMA HandleTokensSame ==
    ASSUME NEW ns, NEW ms, NEW S, \A i \in S : ns[i].handle = ms[i].handle
    PROVE  HandleTokens(ns, S) = HandleTokens(ms, S)
<1>1. \A c : c \in Cells(ns, S) <=> c \in Cells(ms, S)
  BY CellsMember
<1>2. Cells(ns, S) = Cells(ms, S)
  BY <1>1
<1> QED
  BY <1>2 DEF HandleTokens, Cells

-----------------------------------------------------------------------------
(***************************************************************************)
(* Eviction.                                                               *)
(***************************************************************************)

\* Among some of the nodes there is one that is colder than all others.
LEMMA ColdestExists ==
    ASSUME NEW ns \in Seq(NodeRecs), NEW R \in SUBSET WithHandle(ns), R # {}
    PROVE  \E i \in R : \A j \in R : ~Colder(ns, j, i)
<1> DEFINE tick(i) == ns[i].last_access_tick
           T == {tick(i) : i \in R}
<1>1. \A i \in R : i \in 1..Len(ns) /\ tick(i) \in Nat
  <2> TAKE i \in R
  <2>1. i \in 1..Len(ns) /\ ns[i] \in NodeRecs
    BY HandleTypes
  <2> QED
    BY <2>1 DEF NodeRecs
<1>2. T \in SUBSET Nat /\ T # {}
  BY <1>1
<1>3. PICK t \in T : \A u \in T : t <= u
  <2> HIDE DEF T
  <2> QED
    BY <1>2, LeastNumber
<1>4. t \in Nat /\ \A i \in R : t <= tick(i)
  BY <1>2, <1>3
<1> DEFINE I == {i \in R : tick(i) = t}
<1>5. I \in SUBSET Nat /\ I # {}
  BY <1>1, <1>3
<1>6. PICK i \in I : \A j \in I : i <= j
  <2> HIDE DEF I
  <2> QED
    BY <1>5, LeastNumber
<1>7. ASSUME NEW j \in R, Colder(ns, j, i) PROVE FALSE
  <2>1. /\ i \in R /\ tick(i) = t /\ i \in Nat /\ j \in Nat /\ tick(j) \in Nat
        /\ t <= tick(j) /\ (tick(j) = t => i <= j)
    BY <1>1, <1>4, <1>6
  <2>2. tick(j) < tick(i) \/ (tick(j) = tick(i) /\ j < i)
    BY <1>7 DEF Colder
  <2> HIDE DEF tick
  <2> QED
    BY <1>4, <2>1, <2>2
<1> QED
  BY <1>6, <1>7

\* evict_coldest frees what it is asked for if there is as much.
LEMMA ColdestFrees ==
    ASSUME NEW ns \in Seq(NodeRecs), NEW n \in Nat
    PROVE  /\ Coldest(ns, n) \in SUBSET WithHandle(ns)
           /\ \/ Coldest(ns, n) = WithHandle(ns)
              \/ HandleTokens(ns, Coldest(ns, n)) >= n
<1> DEFINE W == WithHandle(ns)
           E == Coldest(ns, n)
<1>1. E \in SUBSET W
  BY DEF Coldest
<1>2. ASSUME E # W PROVE HandleTokens(ns, E) >= n
  <2> DEFINE R == W \ E
  <2>1. R \in SUBSET W /\ R # {}
    BY <1>1, <1>2
  <2>2. PICK i \in R : \A j \in R : ~Colder(ns, j, i)
    <3> HIDE DEF R
    <3> QED
      BY <2>1, ColdestExists
  <2> DEFINE B == {j \in W : Colder(ns, j, i)}
  <2>3. ~(HandleTokens(ns, B) < n)
    BY <2>2 DEF Coldest
  <2>4. B \in SUBSET E
    BY <2>2
  <2> HIDE DEF B, E
  <2>5. HandleTokens(ns, B) <= HandleTokens(ns, E)
    BY <1>1, <2>4, HandleTokensDifference
  <2>6. HandleTokens(ns, B) \in Nat /\ HandleTokens(ns, E) \in Nat
    BY <1>1, <2>4, CellsFinite
  <2> QED
    BY <2>3, <2>5, <2>6
<1> QED
  BY <1>1, <1>2

LEMMA ClearedFacts ==
    ASSUME NEW ns \in Seq(NodeRecs), NEW E \in SUBSET WithHandle(ns)
    PROVE  /\ Cleared(ns, E) \in Seq(NodeRecs) /\ Len(Cleared(ns, E)) = Len(ns)
           /\ \A i \in 1..Len(ns) :
                 /\ Cleared(ns, E)[i].edge = ns[i].edge
                 /\ Cleared(ns, E)[i].children = ns[i].children
                 /\ Cleared(ns, E)[i].last_access_tick = ns[i].last_access_tick
                 /\ Cleared(ns, E)[i].handle = IF i \in E THEN NoHandle ELSE ns[i].handle
           /\ WithHandle(Cleared(ns, E)) = WithHandle(ns) \ E
<1> DEFINE c == Cleared(ns, E)
<1>1. DOMAIN ns = 1..Len(ns) /\ Len(ns) \in Nat
  OBVIOUS
<1>2. ASSUME NEW i \in 1..Len(ns)
      PROVE  /\ c[i] \in NodeRecs /\ c[i].edge = ns[i].edge /\ c[i].children = ns[i].children
             /\ c[i].last_access_tick = ns[i].last_access_tick
             /\ c[i].handle = IF i \in E THEN NoHandle ELSE ns[i].handle
  <2>1. ns[i] \in NodeRecs
    OBVIOUS
  <2>2. CASE i \in E
    <3>1. c[i] = [ns[i] EXCEPT !.handle = NoHandle]
      BY <2>2 DEF Cleared
    <3> QED
      BY <2>1, <2>2, <3>1 DEF NodeRecs
  <2>3. CASE i \notin E
    <3>1. c[i] = ns[i]
      BY <2>3 DEF Cleared
    <3> QED
      BY <2>1, <2>3, <3>1
  <2> QED
    BY <2>2, <2>3
<1>3. c \in [1..Len(ns) -> NodeRecs]
  BY <1>1, <1>2 DEF Cleared
<1>4. c \in Seq(NodeRecs) /\ Len(c) = Len(ns)
  <2> HIDE DEF c
  <2> QED
    BY <1>1, <1>3
<1>5. WithHandle(c) = WithHandle(ns) \ E
  <2>1. DOMAIN c = 1..Len(ns)
    BY <1>3
  <2> HIDE DEF c
  <2> QED
    BY <1>1, <1>2, <2>1 DEF WithHandle, HasHandle
<1> QED
  BY <1>2, <1>4, <1>5

\* Eviction keeps an exact count exact, and brings it within the capacity.
LEMMA EvictionCounts ==
    ASSUME NEW ns \in Seq(NodeRecs), NEW E \in SUBSET WithHandle(ns), NEW total,
           total = HandleTokens(ns, WithHandle(ns))
    PROVE  /\ HandleTokens(ns, E) \in 0..total
           /\ SaturatingSub(total, HandleTokens(ns, E)) = total - HandleTokens(ns, E)
           /\ HandleTokens(Cleared(ns, E), WithHandle(Cleared(ns, E)))
                = total - HandleTokens(ns, E)
<1> DEFINE c == Cleared(ns, E)
           W == WithHandle(ns)
<1>1. W \in SUBSET WithHandle(ns) /\ W \ E \in SUBSET WithHandle(ns)
  OBVIOUS
<1>2. total \in Nat /\ HandleTokens(ns, E) \in Nat
  BY <1>1, CellsFinite
<1>3. /\ HandleTokens(ns, E) <= total
      /\ HandleTokens(ns, W \ E) = total - HandleTokens(ns, E)
  BY <1>1, HandleTokensDifference
<1>4. /\ WithHandle(c) = W \ E
      /\ \A i \in W \ E : c[i].handle = ns[i].handle
  <2>1. \A i \in W : i \in 1..Len(ns)
    BY HandleTypes
  <2> QED
    BY <2>1, ClearedFacts
<1>5. HandleTokens(c, W \ E) = HandleTokens(ns, W \ E)
  <2> HIDE DEF c
  <2> QED
    BY <1>4, HandleTokensSame
<1> QED
  BY <1>2, <1>3, <1>4, <1>5 DEF SaturatingSub

-----------------------------------------------------------------------------
(***************************************************************************)
(* Sequences of tokens.                                                    *)
(***************************************************************************)
LEMMA TextType ==
    ASSUME NEW s \in Texts
    PROVE  s \in Seq(Tokens)
<1>1. s \in Seq(ToSet(s))
  BY RadixCacheAssumption
<1>2. \A t \in ToSet(s) : t \in Tokens
  BY DEF Tokens
<1>3. PICK R : R = ToSet(s)
  OBVIOUS
<1>4. s \in Seq(R) /\ \A t \in R : t \in Tokens
  BY <1>1, <1>2, <1>3
<1>5. Len(s) \in Nat /\ s \in [1..Len(s) -> Tokens]
  BY <1>4
<1> QED
  BY <1>5

LEMMA DropFacts ==
    ASSUME NEW S, NEW s \in Seq(S), NEW n \in 0..Len(s)
    PROVE  /\ Drop(s, n) \in Seq(S) /\ Len(Drop(s, n)) = Len(s) - n
           /\ \A i \in 1..(Len(s) - n) : Drop(s, n)[i] = s[n + i]
<1>1. Len(s) \in Nat /\ n \in Nat /\ n <= Len(s)
  OBVIOUS
<1> QED
  BY <1>1 DEF Drop

LEMMA TakeFacts ==
    ASSUME NEW S, NEW s \in Seq(S), NEW n \in 0..Len(s)
    PROVE  /\ SubSeq(s, 1, n) \in Seq(S) /\ Len(SubSeq(s, 1, n)) = n
           /\ \A i \in 1..n : SubSeq(s, 1, n)[i] = s[i]
OBVIOUS

\* The common prefix is common, and no longer one is.
LEMMA CommonPrefixFacts ==
    ASSUME NEW l \in Seq(Tokens), NEW r \in Seq(Tokens)
    PROVE  LET k == CommonPrefixLen(l, r)
           IN  /\ k \in 0..Len(l) /\ k <= Len(r)
               /\ \A i \in 1..k : l[i] = r[i]
               /\ k < Len(l) /\ k < Len(r) => l[k + 1] # r[k + 1]
<1> DEFINE K == {k \in 0..Len(l) : k <= Len(r) /\ \A i \in 1..k : l[i] = r[i]}
           m == CommonPrefixLen(l, r)
<1>1. Len(l) \in Nat /\ Len(r) \in Nat
  OBVIOUS
<1>2. K \in SUBSET Nat /\ 0 \in K /\ \A k \in K : k <= Len(l)
  BY <1>1
<1>3. \E x \in K : \A y \in K : y <= x
  <2> HIDE DEF K
  <2>1. PICK n \in Nat : n = Len(l)
    BY <1>1
  <2> QED
    BY <1>2, <2>1, GreatestNumber
<1>4. m = CHOOSE x \in K : \A y \in K : x >= y
  BY DEF CommonPrefixLen, Max
<1>5. m \in K /\ \A y \in K : y <= m
  <2> HIDE DEF K, m
  <2>1. \A x \in K : \A y \in K : y <= x <=> x >= y
    BY <1>2
  <2> QED
    BY <1>3, <1>4, <2>1
<1> HIDE DEF m
<1>6. ASSUME m < Len(l), m < Len(r), l[m + 1] = r[m + 1] PROVE FALSE
  <2>1. m + 1 \in K
    BY <1>1, <1>5, <1>6
  <2>2. m \in Nat
    BY <1>2, <1>5
  <2> HIDE DEF K
  <2> QED
    BY <1>5, <2>1, <2>2
<1> QED
  BY <1>5, <1>6 DEF m

LEMMA MapFacts ==
    ASSUME NEW f \in Maps
    PROVE  /\ DOMAIN f \in SUBSET Tokens /\ \A t \in DOMAIN f : f[t] \in Nat
           /\ f \in [DOMAIN f -> Nat]
BY DEF Maps

LEMMA NoChildren == <<>> \in Maps /\ DOMAIN <<>> = {}
<1>1. <<>> \in [{} -> Nat]
  OBVIOUS
<1> QED
  BY <1>1 DEF Maps

LEMMA OneLink ==
    ASSUME NEW t \in Tokens, NEW i \in Nat
    PROVE  /\ Linked(<<>>, t, i) \in Maps /\ DOMAIN Linked(<<>>, t, i) = {t}
           /\ Linked(<<>>, t, i)[t] = i
<1>1. DOMAIN <<>> = {}
  BY NoChildren
<1>2. DOMAIN Linked(<<>>, t, i) = {t} /\ Linked(<<>>, t, i)[t] = i
  BY <1>1 DEF Linked
<1>3. Linked(<<>>, t, i) \in [{t} -> Nat]
  BY <1>1 DEF Linked
<1> QED
  BY <1>2, <1>3 DEF Maps

LEMMA LinkedFacts ==
    ASSUME NEW f \in Maps, NEW t \in Tokens, NEW i \in Nat
    PROVE  /\ Linked(f, t, i) \in Maps /\ DOMAIN Linked(f, t, i) = DOMAIN f \cup {t}
           /\ Linked(f, t, i)[t] = i
           /\ \A u \in DOMAIN f : u # t => Linked(f, t, i)[u] = f[u]
<1>1. DOMAIN f \in SUBSET Tokens /\ \A u \in DOMAIN f : f[u] \in Nat
  BY MapFacts
<1>2. Linked(f, t, i) \in [DOMAIN f \cup {t} -> Nat]
  BY <1>1 DEF Linked
<1>3. Linked(f, t, i) \in Maps
  BY <1>1, <1>2 DEF Maps
<1> QED
  BY <1>1, <1>3 DEF Linked

-----------------------------------------------------------------------------
(***************************************************************************)
(* The tree.                                                               *)
(***************************************************************************)
Links(ns, i) == DOMAIN ns[i].children

\* A link leads to a node that is not the root, filed under its first token.
LinksLead(ns) ==
    \A i \in 1..Len(ns) : \A t \in Links(ns, i) :
        LET c == ns[i].children[t]
        IN  c \in 2..Len(ns) /\ Len(ns[c].edge) > 0 /\ ns[c].edge[1] = t

\* A node that is not the root has a parent,
HaveParents(ns) ==
    \A c \in 2..Len(ns) : \E i \in 1..Len(ns) : \E t \in Links(ns, i) : ns[i].children[t] = c

\* and no more than one.
OneParent(ns) ==
    \A i, j \in 1..Len(ns) : \A t \in Links(ns, i) : \A u \in Links(ns, j) :
        ns[i].children[t] = ns[j].children[u] => i = j

Tree(ns) ==
    /\ ns \in Seq(NodeRecs) /\ Len(ns) >= 1
    /\ LinksLead(ns) /\ HaveParents(ns) /\ OneParent(ns)

LEMMA NodeTypes ==
    ASSUME NEW ns \in Seq(NodeRecs), NEW i \in 1..Len(ns)
    PROVE  /\ ns[i] \in NodeRecs /\ ns[i].edge \in Seq(Tokens) /\ ns[i].children \in Maps
           /\ ns[i].handle \in Handles \cup {NoHandle} /\ ns[i].last_access_tick \in Nat
<1>1. ns[i] \in NodeRecs
  OBVIOUS
<1> QED
  BY <1>1 DEF NodeRecs

LEMMA NewNode ==
    ASSUME NEW edge \in Seq(Tokens), NEW children \in Maps, NEW tick \in Nat
    PROVE  /\ Node(edge, children, tick) \in NodeRecs
           /\ Node(edge, children, tick).edge = edge
           /\ Node(edge, children, tick).children = children
           /\ Node(edge, children, tick).handle = NoHandle
           /\ Node(edge, children, tick).last_access_tick = tick
BY DEF Node, NodeRecs

\* Filing a new last node.
Filed(ns, p, t, e) ==
    Append([ns EXCEPT ![p].children = Linked(@, t, Len(ns) + 1)], e)

IsFiled(rs, ns, p, t, e) ==
    /\ rs \in Seq(NodeRecs) /\ Len(rs) = Len(ns) + 1 /\ rs[Len(ns) + 1] = e
    /\ \A i \in 1..Len(ns) :
         /\ rs[i].edge = ns[i].edge
         /\ rs[i].handle = ns[i].handle
         /\ rs[i].last_access_tick = ns[i].last_access_tick
         /\ i # p => rs[i].children = ns[i].children
    /\ rs[p].children = Linked(ns[p].children, t, Len(ns) + 1)

LEMMA FiledFacts ==
    ASSUME NEW ns \in Seq(NodeRecs), NEW p \in 1..Len(ns), NEW t \in Tokens,
           NEW e \in NodeRecs, NEW rs,
           rs = Filed(ns, p, t, e)
    PROVE  IsFiled(rs, ns, p, t, e)
<1> DEFINE n == Len(ns)
           children == Linked(ns[p].children, t, n + 1)
<1>1. n \in Nat /\ children \in Maps
  <2>1. n \in Nat /\ n + 1 \in Nat /\ ns[p].children \in Maps
    BY NodeTypes
  <2> QED
    BY <2>1, LinkedFacts
<1> HIDE DEF children
<1>2. PICK ms : ms = [ns EXCEPT ![p].children = children]
  OBVIOUS
<1>3. rs = Append(ms, e)
  BY <1>2 DEF children, Filed
<1>4. ms[p] = [ns[p] EXCEPT !.children = children] /\ \A i \in 1..n : i # p => ms[i] = ns[i]
  BY <1>2
<1>5. ms[p] \in NodeRecs
  BY <1>1, <1>4, NodeTypes, ZenonT(40) DEF NodeRecs
<1>6. ms \in Seq(NodeRecs) /\ Len(ms) = n
  BY <1>2, <1>4, <1>5
<1>7. /\ rs \in Seq(NodeRecs) /\ Len(rs) = n + 1 /\ rs[n + 1] = e
      /\ \A i \in 1..n : rs[i] = ms[i]
  <2>1. \A i \in 1..n : i # n + 1
    BY <1>1
  <2>2. PICK R : R = NodeRecs
    OBVIOUS
  <2>3. ms \in Seq(R) /\ e \in R
    BY <1>6, <2>2
  <2>4. /\ Append(ms, e) \in Seq(R) /\ Len(Append(ms, e)) = Len(ms) + 1
        /\ Append(ms, e)[Len(ms) + 1] = e
        /\ \A i \in 1..Len(ms) : Append(ms, e)[i] = ms[i]
    <3>1. Append(ms, e) \in Seq(R)
      BY <2>3
    <3>2. Len(Append(ms, e)) = Len(ms) + 1
      BY <2>3
    <3>3. Append(ms, e)[Len(ms) + 1] = e
      BY <2>3
    <3>4. \A i \in 1..Len(ms) : Append(ms, e)[i] = ms[i]
      BY <2>3
    <3> QED
      BY <3>1, <3>2, <3>3, <3>4
  <2> QED
    BY <1>3, <1>6, <2>2, <2>4
<1>8. /\ ms[p].edge = ns[p].edge /\ ms[p].handle = ns[p].handle
      /\ ms[p].last_access_tick = ns[p].last_access_tick /\ ms[p].children = children
  BY <1>4, NodeTypes DEF NodeRecs
<1> QED
  BY <1>4, <1>7, <1>8 DEF children, IsFiled

\* What split_child does to each node.
IsSplit(rs, ns, p, c, at, tick) ==
    LET n == Len(ns)
        edge == ns[c].edge
    IN  /\ rs \in Seq(NodeRecs) /\ Len(rs) = n + 1
        /\ rs[n + 1].edge = SubSeq(edge, 1, at) /\ rs[n + 1].handle = NoHandle
        /\ rs[n + 1].children = Linked(<<>>, edge[at + 1], c)
        /\ rs[n + 1].last_access_tick = tick
        /\ rs[c].edge = Drop(edge, at)
        /\ rs[p].children = Linked(ns[p].children, edge[1], n + 1)
        /\ \A i \in 1..n :
             /\ rs[i].handle = ns[i].handle
             /\ rs[i].last_access_tick = ns[i].last_access_tick
             /\ i # c => rs[i].edge = ns[i].edge
             /\ i # p => rs[i].children = ns[i].children

LEMMA SplitFacts ==
    ASSUME NEW ns \in Seq(NodeRecs), NEW p \in 1..Len(ns), NEW c \in 1..Len(ns),
           NEW tick \in Nat, NEW at \in 1..(Len(ns[c].edge) - 1), NEW rs,
           rs = SplitChild(ns, tick, p, c, at)
    PROVE  IsSplit(rs, ns, p, c, at, tick)
<1> DEFINE n == Len(ns)
           edge == ns[c].edge
           e == Node(SubSeq(edge, 1, at), Linked(<<>>, edge[at + 1], c), tick)
           rest == Drop(edge, at)
<1>1. edge \in Seq(Tokens) /\ Len(edge) \in Nat /\ at \in 0..Len(edge) /\ n \in Nat
  BY NodeTypes
<1>2. edge[1] \in Tokens /\ edge[at + 1] \in Tokens /\ Head(edge) = edge[1]
  BY <1>1
<1>3. rest \in Seq(Tokens) /\ SubSeq(edge, 1, at) \in Seq(Tokens)
  BY <1>1, DropFacts, TakeFacts
<1>4. e \in NodeRecs
  <2>1. Linked(<<>>, edge[at + 1], c) \in Maps
    <3>1. c \in Nat /\ <<>> \in Maps
      BY NoChildren
    <3> HIDE DEF edge
    <3> QED
      BY <1>2, <3>1, LinkedFacts
  <2> QED
    BY <1>3, <2>1, NewNode
<1> HIDE DEF e, rest
<1>5. PICK ms : ms = [ns EXCEPT ![c].edge = rest]
  OBVIOUS
<1>6. ms[c] = [ns[c] EXCEPT !.edge = rest] /\ \A i \in 1..n : i # c => ms[i] = ns[i]
  BY <1>5
<1>7. ms[c] \in NodeRecs
  BY <1>3, <1>6, NodeTypes, ZenonT(40) DEF NodeRecs
<1>8. ms \in Seq(NodeRecs) /\ Len(ms) = n
  BY <1>5, <1>6, <1>7
<1>9. /\ ms[c].edge = rest /\ ms[c].handle = ns[c].handle
      /\ ms[c].last_access_tick = ns[c].last_access_tick /\ ms[c].children = ns[c].children
  BY <1>6, NodeTypes DEF NodeRecs
<1>10. rs = Append([ms EXCEPT ![p].children = Linked(@, edge[1], Len(ms) + 1)], e)
  BY <1>2, <1>5, <1>8 DEF SplitChild, e, rest
<1>11. /\ rs \in Seq(NodeRecs) /\ Len(rs) = n + 1 /\ rs[n + 1] = e
       /\ \A i \in 1..n :
            /\ rs[i].edge = ms[i].edge
            /\ rs[i].handle = ms[i].handle
            /\ rs[i].last_access_tick = ms[i].last_access_tick
            /\ i # p => rs[i].children = ms[i].children
       /\ rs[p].children = Linked(ms[p].children, edge[1], n + 1)
  <2>1. PICK t \in Tokens : t = edge[1]
    BY <1>2
  <2>2. rs = Filed(ms, p, t, e)
    BY <1>10, <2>1 DEF Filed
  <2>3. p \in 1..Len(ms)
    BY <1>8
  <2>4. IsFiled(rs, ms, p, t, e)
    BY <1>4, <1>8, <2>2, <2>3, FiledFacts, Zenon
  <2> QED
    BY <1>8, <2>1, <2>4 DEF IsFiled
<1>12. ms[p].children = ns[p].children
  BY <1>6, <1>9
<1>13. rs[c].edge = rest
  BY <1>9, <1>11
<1>14. ASSUME NEW i \in 1..n
       PROVE  /\ rs[i].handle = ns[i].handle
              /\ rs[i].last_access_tick = ns[i].last_access_tick
              /\ i # c => rs[i].edge = ns[i].edge
              /\ i # p => rs[i].children = ns[i].children
  <2>1. CASE i = c
    BY <1>9, <1>11, <2>1
  <2>2. CASE i # c
    <3>1. ms[i] = ns[i]
      BY <1>6, <2>2
    <3> QED
      BY <1>11, <2>2, <3>1
  <2> QED
    BY <2>1, <2>2
<1>15. rs[p].children = Linked(ns[p].children, edge[1], n + 1) /\ rs[n + 1] \in NodeRecs
  BY <1>4, <1>11, <1>12
<1>16. /\ rs[n + 1].edge = SubSeq(edge, 1, at) /\ rs[n + 1].handle = NoHandle
       /\ rs[n + 1].children = Linked(<<>>, edge[at + 1], c)
       /\ rs[n + 1].last_access_tick = tick
  BY <1>11 DEF e, Node
<1> QED
  BY <1>11, <1>13, <1>14, <1>15, <1>16 DEF rest, IsSplit

LinkAdded(rs, ns, p, t) ==
    /\ \A i \in 1..Len(ns) : i # p => rs[i].children = ns[i].children
    /\ DOMAIN rs[p].children = DOMAIN ns[p].children \cup {t}
    /\ rs[p].children[t] = Len(ns) + 1
    /\ \A u \in DOMAIN ns[p].children :
          u # t => rs[p].children[u] = ns[p].children[u]

LEMMA FiledLinks ==
    ASSUME NEW ns \in Seq(NodeRecs), NEW p \in 1..Len(ns), NEW t \in Tokens, NEW e, NEW rs,
           IsFiled(rs, ns, p, t, e)
    PROVE  LinkAdded(rs, ns, p, t)
<1>1. PICK f \in Maps, m \in Nat : f = ns[p].children /\ m = Len(ns) + 1
  BY NodeTypes
<1>2. rs[p].children = Linked(f, t, m)
  BY <1>1 DEF IsFiled
<1>3. /\ DOMAIN Linked(f, t, m) = DOMAIN f \cup {t} /\ Linked(f, t, m)[t] = m
      /\ \A u \in DOMAIN f : u # t => Linked(f, t, m)[u] = f[u]
  BY LinkedFacts, Zenon
<1>4. \A i \in 1..Len(ns) : i # p => rs[i].children = ns[i].children
  BY DEF IsFiled
<1> QED
  BY <1>1, <1>2, <1>3, <1>4 DEF LinkAdded

\* A new leaf keeps the tree a tree.
LEMMA LeafKeepsTree ==
    ASSUME NEW ns, Tree(ns), NEW p \in 1..Len(ns), NEW t \in Tokens, t \notin Links(ns, p),
           NEW e \in NodeRecs, Len(e.edge) > 0, e.edge[1] = t, DOMAIN e.children = {},
           NEW rs, IsFiled(rs, ns, p, t, e)
    PROVE  Tree(rs)
<1> DEFINE n == Len(ns)
<1>1. ns \in Seq(NodeRecs) /\ n \in Nat /\ n >= 1
  BY DEF Tree
<1>2. /\ Len(rs) = n + 1 /\ rs \in Seq(NodeRecs) /\ rs[n + 1] = e
      /\ \A i \in 1..n : rs[i].edge = ns[i].edge
  BY DEF IsFiled
<1>3. /\ \A i \in 1..n : i # p => rs[i].children = ns[i].children
      /\ DOMAIN rs[p].children = DOMAIN ns[p].children \cup {t}
      /\ rs[p].children[t] = n + 1
      /\ \A u \in DOMAIN ns[p].children : u # t => rs[p].children[u] = ns[p].children[u]
  <2>1. LinkAdded(rs, ns, p, t)
    BY <1>1, FiledLinks, Zenon
  <2> QED
    BY <2>1 DEF LinkAdded
\* The links of the new tree are the old ones and the new one.
<1>4. ASSUME NEW i \in 1..(n + 1), NEW u \in Links(rs, i)
      PROVE  \/ i = p /\ u = t /\ rs[i].children[u] = n + 1
             \/ /\ i \in 1..n /\ u \in Links(ns, i)
                /\ rs[i].children[u] = ns[i].children[u]
  <2>1. i # n + 1
    BY <1>2 DEF Links
  <2>2. i \in 1..n
    BY <1>1, <2>1
  <2> QED
    BY <1>3, <2>2 DEF Links
<1>5. ASSUME NEW i \in 1..n, NEW u \in Links(ns, i)
      PROVE  u \in Links(rs, i) /\ rs[i].children[u] = ns[i].children[u]
  BY <1>3 DEF Links
<1>6. ASSUME NEW i \in 1..n, NEW u \in Links(ns, i)
      PROVE  /\ ns[i].children[u] \in 2..n /\ Len(ns[ns[i].children[u]].edge) > 0
             /\ ns[ns[i].children[u]].edge[1] = u
  BY DEF Tree, LinksLead
<1>7. LinksLead(rs)
  <2>1. ASSUME NEW i \in 1..(n + 1), NEW u \in Links(rs, i)
        PROVE  LET c == rs[i].children[u]
               IN  c \in 2..(n + 1) /\ Len(rs[c].edge) > 0 /\ rs[c].edge[1] = u
    <3>1. CASE i = p /\ u = t /\ rs[i].children[u] = n + 1
      BY <1>1, <1>2, <3>1
    <3>2. CASE /\ i \in 1..n /\ u \in Links(ns, i)
               /\ rs[i].children[u] = ns[i].children[u]
      <4>1. /\ ns[i].children[u] \in 2..n /\ Len(ns[ns[i].children[u]].edge) > 0
            /\ ns[ns[i].children[u]].edge[1] = u
        BY <1>6, <3>2
      <4>2. rs[ns[i].children[u]].edge = ns[ns[i].children[u]].edge
        BY <1>2, <4>1
      <4> QED
        BY <1>1, <3>2, <4>1, <4>2
    <3> QED
      BY <1>4, <3>1, <3>2
  <2> QED
    BY <1>2, <2>1 DEF LinksLead
<1>8. HaveParents(rs)
  <2>1. ASSUME NEW c \in 2..(n + 1)
        PROVE  \E i \in 1..(n + 1) : \E u \in Links(rs, i) : rs[i].children[u] = c
    <3>1. CASE c = n + 1
      <4>1. p \in 1..(n + 1) /\ t \in Links(rs, p) /\ rs[p].children[t] = c
        BY <1>1, <1>3, <3>1 DEF Links
      <4> QED
        BY <4>1
    <3>2. CASE c \in 2..n
      <4>1. PICK i \in 1..n : \E u \in Links(ns, i) : ns[i].children[u] = c
        BY <3>2 DEF Tree, HaveParents
      <4>2. i \in 1..(n + 1)
        BY <1>1
      <4> QED
        BY <1>5, <4>1, <4>2
    <3> QED
      BY <1>1, <3>1, <3>2
  <2> QED
    BY <1>2, <2>1 DEF HaveParents
<1>9. OneParent(rs)
  <2>1. ASSUME NEW i \in 1..(n + 1), NEW j \in 1..(n + 1), NEW u \in Links(rs, i),
               NEW v \in Links(rs, j), rs[i].children[u] = rs[j].children[v]
        PROVE  i = j
    <3>1. CASE /\ i \in 1..n /\ u \in Links(ns, i) /\ rs[i].children[u] = ns[i].children[u]
               /\ j \in 1..n /\ v \in Links(ns, j) /\ rs[j].children[v] = ns[j].children[v]
      BY <2>1, <3>1 DEF Tree, OneParent
    <3>2. \A k \in 1..n : \A w \in Links(ns, k) : ns[k].children[w] # n + 1
      BY <1>1, <1>6
    <3> QED
      BY <1>4, <2>1, <3>1, <3>2
  <2> QED
    BY <1>2, <2>1 DEF OneParent
<1> QED
  BY <1>1, <1>2, <1>7, <1>8, <1>9 DEF Tree

\* The links after a split: the new node is between parent and child.
SplitLinked(rs, ns, p, t, c, at) ==
    LET n == Len(ns)
        v == ns[c].edge[at + 1]
    IN  /\ c \in 2..n /\ ns[c].edge[1] = t
        /\ v \in Links(rs, n + 1) /\ rs[n + 1].children[v] = c
        /\ t \in Links(rs, p) /\ rs[p].children[t] = n + 1
        /\ \A i \in 1..n : \A u \in Links(ns, i) :
             /\ u \in Links(rs, i)
             /\ i # p \/ u # t =>
                  /\ rs[i].children[u] = ns[i].children[u]
                  /\ ns[i].children[u] # c
        /\ \A u \in Links(rs, n + 1) : u = v
        /\ \A i \in 1..n : \A u \in Links(rs, i) : u \in Links(ns, i)

LEMMA SplitLinks ==
    ASSUME NEW ns, Tree(ns), NEW p \in 1..Len(ns), NEW t \in Links(ns, p), NEW c,
           c = ns[p].children[t], NEW at \in 1..(Len(ns[c].edge) - 1), NEW tick, NEW rs,
           IsSplit(rs, ns, p, c, at, tick)
    PROVE  SplitLinked(rs, ns, p, t, c, at)
<1> DEFINE n == Len(ns)
           edge == ns[c].edge
<1>1. ns \in Seq(NodeRecs) /\ n \in Nat
  BY DEF Tree
<1>2. c \in 2..n /\ Len(edge) > 0 /\ edge[1] = t
  BY DEF Tree, LinksLead
<1>3. edge \in Seq(Tokens) /\ at + 1 \in 1..Len(edge) /\ c \in 1..n
  BY <1>1, <1>2, NodeTypes
<1>4. edge[at + 1] \in Tokens /\ t \in Tokens
  <2>1. 1 \in 1..Len(edge)
    BY <1>3
  <2> QED
    BY <1>2, <1>3, <2>1
<1>5. PICK f \in Maps, m \in Nat, v \in Tokens : f = ns[p].children /\ m = n + 1 /\ v = edge[at + 1]
  <2>1. ns[p].children \in Maps /\ n + 1 \in Nat
    BY <1>1, NodeTypes
  <2> QED
    BY <1>4, <2>1, Zenon
<1>6. rs[p].children = Linked(f, t, m) /\ rs[n + 1].children = Linked(<<>>, v, c)
  BY <1>2, <1>5 DEF IsSplit
<1>7. /\ DOMAIN Linked(f, t, m) = DOMAIN f \cup {t} /\ Linked(f, t, m)[t] = m
      /\ \A u \in DOMAIN f : u # t => Linked(f, t, m)[u] = f[u]
  BY <1>4, LinkedFacts, ZenonT(40)
<1>8. DOMAIN Linked(<<>>, v, c) = {v} /\ Linked(<<>>, v, c)[v] = c
  <2>1. c \in Nat
    BY <1>3
  <2> QED
    BY <2>1, OneLink
<1>9. \A i \in 1..n : i # p => rs[i].children = ns[i].children
  BY DEF IsSplit
<1>10. t \in DOMAIN f /\ f[t] = c
  BY <1>5 DEF Links
<1>11. ASSUME NEW i \in 1..n, NEW u \in Links(ns, i)
       PROVE  /\ u \in Links(rs, i)
              /\ i # p \/ u # t => rs[i].children[u] = ns[i].children[u]
  <2>1. CASE i = p
    <3>1. u \in DOMAIN f
      BY <1>5, <2>1 DEF Links
    <3> QED
      BY <1>5, <1>6, <1>7, <2>1, <3>1 DEF Links
  <2>2. CASE i # p
    BY <1>9, <2>2 DEF Links
  <2> QED
    BY <2>1, <2>2
<1>12. ASSUME NEW i \in 1..n, NEW u \in Links(ns, i), ns[i].children[u] = c
       PROVE  i = p /\ u = t
  <2>1. i = p
    BY <1>12 DEF Tree, OneParent
  <2>2. ns[ns[i].children[u]].edge[1] = u
    BY DEF Tree, LinksLead
  <2> QED
    BY <1>2, <1>12, <2>1, <2>2
<1>13. \A i \in 1..n : \A u \in Links(rs, i) : u \in Links(ns, i)
  BY <1>5, <1>6, <1>7, <1>9, <1>10 DEF Links
<1>14. \A u \in Links(rs, n + 1) : u = edge[at + 1]
  BY <1>5, <1>6, <1>8 DEF Links
<1>15. /\ edge[at + 1] \in Links(rs, n + 1) /\ rs[n + 1].children[edge[at + 1]] = c
       /\ t \in Links(rs, p) /\ rs[p].children[t] = n + 1
  BY <1>5, <1>6, <1>7, <1>8 DEF Links
<1> QED
  BY <1>2, <1>11, <1>12, <1>13, <1>14, <1>15, ZenonT(40) DEF SplitLinked

LEMMA SplitKeepsTree ==
    ASSUME NEW ns, Tree(ns), NEW p \in 1..Len(ns), NEW t \in Links(ns, p), NEW c,
           c = ns[p].children[t], NEW at \in 1..(Len(ns[c].edge) - 1), NEW tick, NEW rs,
           IsSplit(rs, ns, p, c, at, tick)
    PROVE  Tree(rs)
<1> DEFINE n == Len(ns)
           edge == ns[c].edge
           v == edge[at + 1]
<1>1. ns \in Seq(NodeRecs) /\ n \in Nat /\ n >= 1
  BY DEF Tree
<1>2. /\ c \in 2..n /\ edge[1] = t
      /\ v \in Links(rs, n + 1) /\ rs[n + 1].children[v] = c
      /\ t \in Links(rs, p) /\ rs[p].children[t] = n + 1
      /\ \A i \in 1..n : \A u \in Links(ns, i) :
           /\ u \in Links(rs, i)
           /\ i # p \/ u # t =>
                /\ rs[i].children[u] = ns[i].children[u]
                /\ ns[i].children[u] # c
      /\ \A u \in Links(rs, n + 1) : u = v
      /\ \A i \in 1..n : \A u \in Links(rs, i) : u \in Links(ns, i)
  <2>1. SplitLinked(rs, ns, p, t, c, at)
    BY SplitLinks, Zenon
  <2> QED
    BY <2>1, Zenon DEF SplitLinked
<1>3. /\ Len(rs) = n + 1 /\ rs \in Seq(NodeRecs)
      /\ rs[n + 1].edge = SubSeq(edge, 1, at) /\ rs[c].edge = Drop(edge, at)
      /\ \A i \in 1..n : i # c => rs[i].edge = ns[i].edge
  BY DEF IsSplit
<1>4. /\ Len(rs[n + 1].edge) > 0 /\ rs[n + 1].edge[1] = t
      /\ Len(rs[c].edge) > 0 /\ rs[c].edge[1] = v
  <2>1. edge \in Seq(Tokens) /\ at \in 0..Len(edge) /\ Len(edge) \in Nat /\ at >= 1
    <3>0. c \in 2..n
      BY <1>2, Zenon
    <3>1. c \in 1..n
      BY <1>1, <3>0
    <3>2. edge \in Seq(Tokens)
      BY <1>1, <3>1, NodeTypes
    <3> QED
      BY <3>2
  <2>2. Len(SubSeq(edge, 1, at)) = at /\ SubSeq(edge, 1, at)[1] = edge[1]
    <3> HIDE DEF edge
    <3> QED
      BY <2>1, TakeFacts
  <2>3. Len(Drop(edge, at)) = Len(edge) - at /\ Drop(edge, at)[1] = edge[at + 1]
    <3>1. 1 \in 1..(Len(edge) - at)
      BY <2>1
    <3> HIDE DEF edge
    <3> QED
      BY <2>1, <3>1, DropFacts
  <2> QED
    <3>1. edge[1] = t
      BY <1>2, Zenon
    <3>2. rs[n + 1].edge = SubSeq(edge, 1, at) /\ rs[c].edge = Drop(edge, at)
      BY <1>3, Zenon
    <3>3. Len(edge) - at > 0 /\ at > 0
      BY <2>1
    <3> HIDE DEF edge
    <3> QED
      BY <2>2, <2>3, <3>1, <3>2, <3>3
<1>5. ASSUME NEW i \in 1..n, NEW u \in Links(ns, i)
      PROVE  /\ ns[i].children[u] \in 2..n /\ Len(ns[ns[i].children[u]].edge) > 0
             /\ ns[ns[i].children[u]].edge[1] = u
  BY DEF Tree, LinksLead
<1> HIDE DEF v, edge
\* Every link of the new tree is one of three.
<1>6. ASSUME NEW i \in 1..(n + 1), NEW u \in Links(rs, i)
      PROVE  \/ i = n + 1 /\ u = v /\ rs[i].children[u] = c
             \/ i = p /\ u = t /\ rs[i].children[u] = n + 1
             \/ /\ i \in 1..n /\ u \in Links(ns, i)
                /\ rs[i].children[u] = ns[i].children[u] /\ ns[i].children[u] # c
  <2>1. CASE i = n + 1
    BY <1>2, <2>1
  <2>2. CASE i \in 1..n
    BY <1>2, <2>2
  <2> QED
    BY <1>1, <2>1, <2>2
<1>7. LinksLead(rs)
  <2>1. ASSUME NEW i \in 1..(n + 1), NEW u \in Links(rs, i)
        PROVE  LET d == rs[i].children[u]
               IN  d \in 2..(n + 1) /\ Len(rs[d].edge) > 0 /\ rs[d].edge[1] = u
    <3>1. CASE i = n + 1 /\ u = v /\ rs[i].children[u] = c
      BY <1>1, <1>2, <1>4, <3>1, SMTT(30)
    <3>2. CASE i = p /\ u = t /\ rs[i].children[u] = n + 1
      BY <1>1, <1>4, <3>2
    <3>3. CASE /\ i \in 1..n /\ u \in Links(ns, i)
               /\ rs[i].children[u] = ns[i].children[u] /\ ns[i].children[u] # c
      <4>1. PICK d : d = ns[i].children[u]
        OBVIOUS
      <4>2. d \in 2..n /\ Len(ns[d].edge) > 0 /\ ns[d].edge[1] = u /\ d # c
        BY <1>5, <3>3, <4>1
      <4>3. rs[d].edge = ns[d].edge /\ d \in 2..(n + 1)
        BY <1>1, <1>3, <4>2
      <4> QED
        BY <3>3, <4>1, <4>2, <4>3
    <3> QED
      BY <1>6, <3>1, <3>2, <3>3
  <2> QED
    BY <1>3, <2>1 DEF LinksLead
<1>8. HaveParents(rs)
  <2>1. ASSUME NEW d \in 2..(n + 1)
        PROVE  \E i \in 1..(n + 1) : \E u \in Links(rs, i) : rs[i].children[u] = d
    <3>1. p \in 1..(n + 1) /\ n + 1 \in 1..(n + 1)
      BY <1>1
    <3>2. CASE d = n + 1
      BY <1>2, <3>1, <3>2
    <3>3. CASE d = c
      BY <1>2, <3>1, <3>3
    <3>4. CASE d \in 2..n /\ d # c
      <4>0. PICK i \in 1..n : \E u \in Links(ns, i) : ns[i].children[u] = d
        BY <3>4 DEF Tree, HaveParents
      <4>1. PICK u \in Links(ns, i) : ns[i].children[u] = d
        BY <4>0
      <4>2. i # p \/ u # t
        BY <3>4, <4>1
      <4>3. i \in 1..(n + 1) /\ u \in Links(rs, i) /\ rs[i].children[u] = d
        BY <1>1, <1>2, <4>1, <4>2
      <4> QED
        BY <4>3
    <3> QED
      BY <1>1, <3>2, <3>3, <3>4
  <2> QED
    BY <1>3, <2>1 DEF HaveParents
<1>9. OneParent(rs)
  <2>1. ASSUME NEW i \in 1..(n + 1), NEW j \in 1..(n + 1), NEW u \in Links(rs, i),
               NEW w \in Links(rs, j), rs[i].children[u] = rs[j].children[w]
        PROVE  i = j
    <3>1. CASE /\ i \in 1..n /\ u \in Links(ns, i) /\ rs[i].children[u] = ns[i].children[u]
               /\ j \in 1..n /\ w \in Links(ns, j) /\ rs[j].children[w] = ns[j].children[w]
      BY <2>1, <3>1 DEF Tree, OneParent
    <3>2. c # n + 1 /\ \A k \in 1..n : \A x \in Links(ns, k) : ns[k].children[x] # n + 1
      BY <1>1, <1>2, <1>5
    <3> QED
      BY <1>6, <2>1, <3>1, <3>2
  <2> QED
    BY <1>3, <2>1 DEF OneParent
<1> QED
  BY <1>1, <1>3, <1>7, <1>8, <1>9 DEF Tree

-----------------------------------------------------------------------------
(***************************************************************************)
(* The sequences that the nodes stand for.                                 *)
(***************************************************************************)

\* s is a prefix of t; it is a shorter one.
Begins(s, t) == Len(s) <= Len(t) /\ \A k \in 1..Len(s) : s[k] = t[k]
Before(s, t) == Begins(s, t) /\ Len(s) < Len(t)

\* t is s followed by e.
Joined(s, e, t) ==
    /\ Len(t) = Len(s) + Len(e)
    /\ \A k \in 1..Len(s) : t[k] = s[k]
    /\ \A k \in 1..Len(e) : t[Len(s) + k] = e[k]

LEMMA BeginsTransitive ==
    ASSUME NEW s \in Seq(Tokens), NEW t \in Seq(Tokens), NEW u \in Seq(Tokens),
           Begins(s, t), Begins(t, u)
    PROVE  Begins(s, u)
BY DEF Begins

LEMMA BeginsCompare ==
    ASSUME NEW s \in Seq(Tokens), NEW t \in Seq(Tokens), NEW u \in Seq(Tokens),
           Begins(s, u), Begins(t, u), Len(s) <= Len(t)
    PROVE  Begins(s, t)
BY DEF Begins

LEMMA BeginsEqual ==
    ASSUME NEW s \in Seq(Tokens), NEW t \in Seq(Tokens), Begins(s, t), Len(s) = Len(t)
    PROVE  s = t
BY SeqEqual DEF Begins

LEMMA JoinedBegins ==
    ASSUME NEW s \in Seq(Tokens), NEW e \in Seq(Tokens), NEW t \in Seq(Tokens),
           Joined(s, e, t)
    PROVE  Begins(s, t)
BY DEF Begins, Joined

\* The links spell the texts of the nodes,
Spelled(ns, T) ==
    \A i \in 1..Len(ns) : \A t \in Links(ns, i) :
        Joined(T[i], ns[ns[i].children[t]].edge, T[ns[i].children[t]])

\* no two nodes stand for the same text,
Distinct(ns, T) ==
    \A i, j \in 1..Len(ns) : Begins(T[i], T[j]) /\ Len(T[i]) = Len(T[j]) => i = j

\* and from a node there is a link towards each node whose text goes on where
\* the node's text ends.
Reachable(ns, T, i, j) ==
    LET t == T[j][Len(T[i]) + 1]
    IN  t \in Links(ns, i) /\ Begins(T[ns[i].children[t]], T[j])

Branching(ns, T) ==
    \A i, j \in 1..Len(ns) : Before(T[i], T[j]) => Reachable(ns, T, i, j)

Labelled(ns, T) ==
    /\ T \in [1..Len(ns) -> Seq(Tokens)] /\ Len(T[1]) = 0
    /\ Spelled(ns, T) /\ Distinct(ns, T) /\ Branching(ns, T)

\* T and one more text.
Grown(T, n, text) == [i \in 1..(n + 1) |-> IF i = n + 1 THEN text ELSE T[i]]

LEMMA GrownFacts ==
    ASSUME NEW n \in Nat, NEW T \in [1..n -> Seq(Tokens)], NEW text \in Seq(Tokens)
    PROVE  /\ Grown(T, n, text) \in [1..(n + 1) -> Seq(Tokens)]
           /\ Grown(T, n, text)[n + 1] = text
           /\ \A i \in 1..n : Grown(T, n, text)[i] = T[i]
BY DEF Grown

LEMMA LeafLabels ==
    ASSUME NEW ns, Tree(ns), NEW T, Labelled(ns, T),
           NEW p \in 1..Len(ns), NEW t \in Tokens, t \notin Links(ns, p),
           NEW e \in NodeRecs, Len(e.edge) > 0, e.edge[1] = t, DOMAIN e.children = {},
           NEW text \in Seq(Tokens), Joined(T[p], e.edge, text),
           NEW rs, IsFiled(rs, ns, p, t, e)
    PROVE  Labelled(rs, Grown(T, Len(ns), text))
<1> DEFINE n == Len(ns)
<1>1. ns \in Seq(NodeRecs) /\ n \in Nat /\ n >= 1 /\ T \in [1..n -> Seq(Tokens)]
  BY DEF Tree, Labelled
<1>2. PICK L : L = Grown(T, n, text)
  OBVIOUS
<1>3. L \in [1..(n + 1) -> Seq(Tokens)] /\ L[n + 1] = text /\ \A i \in 1..n : L[i] = T[i]
  <2>1. PICK m \in Nat : m = n
    BY <1>1
  <2>2. T \in [1..m -> Seq(Tokens)]
    BY <1>1, <2>1
  <2>3. /\ Grown(T, m, text) \in [1..(m + 1) -> Seq(Tokens)]
        /\ Grown(T, m, text)[m + 1] = text
        /\ \A i \in 1..m : Grown(T, m, text)[i] = T[i]
    BY <2>2, GrownFacts, ZenonT(40)
  <2> QED
    BY <1>2, <2>1, <2>3
<1>4. /\ Len(rs) = n + 1 /\ rs[n + 1] = e
      /\ \A i \in 1..n : rs[i].edge = ns[i].edge
  BY DEF IsFiled
<1>5. /\ \A i \in 1..n : i # p => rs[i].children = ns[i].children
      /\ DOMAIN rs[p].children = DOMAIN ns[p].children \cup {t}
      /\ rs[p].children[t] = n + 1
      /\ \A u \in DOMAIN ns[p].children : u # t => rs[p].children[u] = ns[p].children[u]
  <2>1. LinkAdded(rs, ns, p, t)
    BY <1>1, FiledLinks, Zenon
  <2> QED
    BY <2>1 DEF LinkAdded
<1>6. ASSUME NEW i \in 1..n, NEW u \in Links(ns, i)
      PROVE  u \in Links(rs, i) /\ rs[i].children[u] = ns[i].children[u]
             /\ ns[i].children[u] \in 1..n
  <2>1. ns[i].children[u] \in 2..n
    BY DEF Tree, LinksLead
  <2>2. ns[i].children[u] \in 1..n
    BY <1>1, <2>1
  <2>3. i = p => u # t
    OBVIOUS
  <2> QED
    BY <1>5, <2>2, <2>3 DEF Links
\* The new text goes on with t where that of p ends.
<1>7. /\ Begins(T[p], text) /\ Len(T[p]) < Len(text) /\ text[Len(T[p]) + 1] = t
      /\ T[p] \in Seq(Tokens) /\ e.edge \in Seq(Tokens)
  <2>1. T[p] \in Seq(Tokens) /\ e.edge \in Seq(Tokens)
    BY <1>1 DEF NodeRecs
  <2>2. 1 \in 1..Len(e.edge) /\ Len(T[p]) \in Nat /\ Len(e.edge) \in Nat
    BY <2>1
  <2>3. Begins(T[p], text)
    BY <2>1, JoinedBegins, Zenon
  <2>4. Len(text) = Len(T[p]) + Len(e.edge) /\ text[Len(T[p]) + 1] = e.edge[1]
    BY <2>2 DEF Joined
  <2>5. PICK k \in Nat, l \in Nat : k = Len(T[p]) /\ l = Len(e.edge)
    BY <2>2
  <2>6. l > 0 /\ Len(text) = k + l
    BY <2>4, <2>5
  <2>7. Len(T[p]) < Len(text)
    <3>1. k < k + l
      BY <2>6
    <3> QED
      BY <2>5, <2>6, <3>1, Zenon
  <2> QED
    BY <2>1, <2>3, <2>4, <2>7, Zenon
\* No node has a text that the new text begins, and none is further along it.
<1>8. ASSUME NEW j \in 1..n, Begins(T[p], T[j]), Len(T[p]) < Len(T[j]),
             T[j][Len(T[p]) + 1] = t
      PROVE  FALSE
  <2>1. Reachable(ns, T, p, j)
    BY <1>8 DEF Labelled, Branching, Before
  <2> QED
    BY <1>8, <2>1 DEF Reachable
<1>9. \A j \in 1..n : T[j] \in Seq(Tokens) /\ Len(T[j]) \in Nat
  BY <1>1
<1>10. ASSUME NEW j \in 1..n PROVE ~Begins(text, T[j])
  <2>1. SUFFICES ASSUME Begins(text, T[j]) PROVE FALSE
    OBVIOUS
  <2>2. Begins(T[p], T[j])
    BY <1>7, <1>9, <2>1, BeginsTransitive
  <2>3. Len(T[p]) + 1 \in 1..Len(text) /\ Len(T[p]) < Len(T[j])
    BY <1>7, <1>9, <2>1 DEF Begins
  <2>4. T[j][Len(T[p]) + 1] = t
    BY <1>7, <2>1, <2>3 DEF Begins
  <2> QED
    BY <1>8, <2>2, <2>3, <2>4
<1>11. ASSUME NEW j \in 1..n, Begins(T[j], text) PROVE Begins(T[j], T[p])
  <2>1. CASE Len(T[j]) <= Len(T[p])
    BY <1>7, <1>9, <1>11, <2>1, BeginsCompare
  <2>2. CASE ~(Len(T[j]) <= Len(T[p]))
    <3>1. Begins(T[p], T[j])
      BY <1>7, <1>9, <1>11, <2>2, BeginsCompare
    <3>2. Len(T[p]) + 1 \in 1..Len(T[j])
      BY <1>9, <2>2
    <3>3. T[j][Len(T[p]) + 1] = t
      BY <1>7, <1>11, <3>2 DEF Begins
    <3> QED
      BY <1>8, <1>9, <2>2, <3>1, <3>3
  <2> QED
    BY <2>1, <2>2
<1>12. Spelled(rs, L)
  <2>1. ASSUME NEW i \in 1..(n + 1), NEW u \in Links(rs, i)
        PROVE  Joined(L[i], rs[rs[i].children[u]].edge, L[rs[i].children[u]])
    <3>1. i # n + 1
      BY <1>4 DEF Links
    <3>2. i \in 1..n
      BY <1>1, <3>1
    <3>3. CASE i = p /\ u = t
      BY <1>3, <1>4, <1>5, <3>2, <3>3
    <3>4. CASE ~(i = p /\ u = t)
      <4>1. u \in Links(ns, i)
        BY <1>5, <3>2, <3>4 DEF Links
      <4>2. PICK c \in 1..n : rs[i].children[u] = c /\ ns[i].children[u] = c
        BY <1>6, <3>2, <4>1
      <4>3. Joined(T[i], ns[c].edge, T[c])
        BY <3>2, <4>1, <4>2 DEF Labelled, Spelled
      <4>4. L[i] = T[i] /\ L[c] = T[c] /\ rs[c].edge = ns[c].edge
        BY <1>3, <1>4, <3>2
      <4> QED
        BY <4>2, <4>3, <4>4
    <3> QED
      BY <3>3, <3>4
  <2> QED
    BY <1>4, <2>1 DEF Spelled
<1>13. Distinct(rs, L)
  <2>1. ASSUME NEW i \in 1..(n + 1), NEW j \in 1..(n + 1), Begins(L[i], L[j]),
               Len(L[i]) = Len(L[j])
        PROVE  i = j
    <3>1. CASE i \in 1..n /\ j \in 1..n
      BY <1>3, <2>1, <3>1 DEF Labelled, Distinct
    <3>2. CASE i = n + 1 /\ j \in 1..n
      BY <1>3, <1>10, <2>1, <3>2
    <3>3. CASE i \in 1..n /\ j = n + 1
      <4>1. Begins(T[i], T[p]) /\ Len(T[i]) = Len(text)
        BY <1>3, <1>11, <2>1, <3>3
      <4> QED
        BY <1>7, <1>9, <3>3, <4>1 DEF Begins
    <3> QED
      BY <1>1, <3>1, <3>2, <3>3
  <2> QED
    BY <1>4, <2>1 DEF Distinct
<1>14. Branching(rs, L)
  <2>1. ASSUME NEW i \in 1..(n + 1), NEW j \in 1..(n + 1), Before(L[i], L[j])
        PROVE  Reachable(rs, L, i, j)
    <3>1. CASE i \in 1..n /\ j \in 1..n
      <4>1. Reachable(ns, T, i, j)
        BY <1>3, <2>1, <3>1 DEF Labelled, Branching
      <4>2. L[i] = T[i] /\ L[j] = T[j]
        BY <1>3, <3>1
      <4>3. PICK u : u = T[j][Len(T[i]) + 1]
        OBVIOUS
      <4>4. u \in Links(ns, i) /\ Begins(T[ns[i].children[u]], T[j])
        BY <4>1, <4>3 DEF Reachable
      <4>5. /\ u \in Links(rs, i) /\ rs[i].children[u] = ns[i].children[u]
            /\ ns[i].children[u] \in 1..n
        BY <1>6, <3>1, <4>4
      <4> QED
        BY <1>3, <4>2, <4>3, <4>4, <4>5 DEF Reachable
    <3>2. CASE i = n + 1 /\ j \in 1..n
      BY <1>3, <1>10, <2>1, <3>2 DEF Before
    <3>3. CASE i \in 1..n /\ j = n + 1
      <4>1. L[i] = T[i] /\ L[j] = text /\ Begins(T[i], text)
        BY <1>3, <2>1, <3>3 DEF Before
      <4>2. Begins(T[i], T[p])
        BY <1>11, <3>3, <4>1
      <4>3. CASE Len(T[i]) = Len(T[p])
        <5>1. i = p
          BY <3>3, <4>2, <4>3 DEF Labelled, Distinct
        <5>2. t \in Links(rs, p) /\ rs[p].children[t] = n + 1 /\ L[n + 1] = text
          BY <1>3, <1>5 DEF Links
        <5>3. Begins(text, text)
          BY DEF Begins
        <5> QED
          BY <1>7, <4>1, <5>1, <5>2, <5>3 DEF Reachable
      <4>4. CASE Len(T[i]) # Len(T[p])
        <5>1. Len(T[i]) < Len(T[p])
          BY <1>9, <3>3, <4>2, <4>4 DEF Begins
        <5>2. Reachable(ns, T, i, p)
          BY <3>3, <4>2, <5>1 DEF Labelled, Branching, Before
        <5>3. PICK u : u = T[p][Len(T[i]) + 1]
          OBVIOUS
        <5>4. u \in Links(ns, i) /\ Begins(T[ns[i].children[u]], T[p])
          BY <5>2, <5>3 DEF Reachable
        <5>5. PICK c \in 1..n : c = ns[i].children[u] /\ u \in Links(rs, i) /\ rs[i].children[u] = c
          BY <1>6, <3>3, <5>4
        <5>6. Begins(T[c], text)
          BY <1>7, <1>9, <5>4, <5>5, BeginsTransitive
        <5>7. text[Len(T[i]) + 1] = u
          <6>1. Len(T[i]) + 1 \in 1..Len(T[p])
            BY <1>7, <1>9, <3>3, <5>1, SMTT(30)
          <6> QED
            BY <1>7, <5>3, <6>1 DEF Begins
        <5> QED
          BY <1>3, <4>1, <5>5, <5>6, <5>7 DEF Reachable
      <4> QED
        BY <4>3, <4>4
    <3>4. CASE i = n + 1 /\ j = n + 1
      BY <1>3, <1>7, <2>1, <3>4 DEF Before
    <3> QED
      BY <1>1, <3>1, <3>2, <3>3, <3>4
  <2> QED
    BY <1>4, <2>1 DEF Branching
<1>15. Len(L[1]) = 0
  BY <1>1, <1>3 DEF Labelled
<1> QED
  BY <1>2, <1>3, <1>4, <1>12, <1>13, <1>14, <1>15 DEF Labelled

LEMMA SplitLabels ==
    ASSUME NEW ns, Tree(ns), NEW T, Labelled(ns, T),
           NEW p \in 1..Len(ns), NEW t \in Links(ns, p), NEW c, c = ns[p].children[t],
           NEW at \in 1..(Len(ns[c].edge) - 1), NEW tick,
           NEW rs, IsSplit(rs, ns, p, c, at, tick),
           NEW text \in Seq(Tokens), Joined(T[p], SubSeq(ns[c].edge, 1, at), text)
    PROVE  Labelled(rs, Grown(T, Len(ns), text))
<1> DEFINE n == Len(ns)
           edge == ns[c].edge
           v == edge[at + 1]
<1>1. ns \in Seq(NodeRecs) /\ n \in Nat /\ n >= 1 /\ T \in [1..n -> Seq(Tokens)]
  BY DEF Tree, Labelled
<1>2. PICK L : L = Grown(T, n, text)
  OBVIOUS
<1>3. L \in [1..(n + 1) -> Seq(Tokens)] /\ L[n + 1] = text /\ \A i \in 1..n : L[i] = T[i]
  <2>1. PICK m \in Nat : m = n
    BY <1>1
  <2>2. T \in [1..m -> Seq(Tokens)]
    BY <1>1, <2>1
  <2>3. /\ Grown(T, m, text) \in [1..(m + 1) -> Seq(Tokens)]
        /\ Grown(T, m, text)[m + 1] = text
        /\ \A i \in 1..m : Grown(T, m, text)[i] = T[i]
    BY <2>2, GrownFacts, Zenon
  <2> QED
    BY <1>2, <2>1, <2>3
<1>4. SplitLinked(rs, ns, p, t, c, at)
  BY SplitLinks, Zenon
<1>5. c \in 2..n /\ edge[1] = t
  BY <1>4, Zenon DEF SplitLinked
<1>6. c \in 1..n /\ edge \in Seq(Tokens) /\ Len(edge) \in Nat
  <2>1. c \in 1..n
    BY <1>1, <1>5
  <2> QED
    BY <1>1, <2>1, NodeTypes, SMTT(30)
<1>7. /\ Len(rs) = n + 1
      /\ rs[n + 1].edge = SubSeq(edge, 1, at) /\ rs[c].edge = Drop(edge, at)
      /\ \A i \in 1..n : i # c => rs[i].edge = ns[i].edge
  BY DEF IsSplit
<1>8. \A j \in 1..n : T[j] \in Seq(Tokens) /\ Len(T[j]) \in Nat
  <2>1. \A s \in Seq(Tokens) : Len(s) \in Nat
    OBVIOUS
  <2>2. \A j \in 1..n : T[j] \in Seq(Tokens)
    BY <1>1, Zenon
  <2> QED
    BY <2>1, <2>2, Zenon
<1>9. Joined(T[p], edge, T[c])
  BY DEF Labelled, Spelled
\* Every link of the new tree is one of three.
<1>10. ASSUME NEW i \in 1..(n + 1), NEW u \in Links(rs, i)
       PROVE  \/ i = n + 1 /\ u = v /\ rs[i].children[u] = c
              \/ i = p /\ u = t /\ rs[i].children[u] = n + 1
              \/ /\ i \in 1..n /\ u \in Links(ns, i)
                 /\ rs[i].children[u] = ns[i].children[u] /\ ns[i].children[u] # c
  <2>1. CASE i = n + 1
    <3>1. \A w \in Links(rs, n + 1) : w = v
      BY <1>4, Zenon DEF SplitLinked
    <3>2. rs[n + 1].children[v] = c
      BY <1>4, Zenon DEF SplitLinked
    <3> QED
      BY <2>1, <3>1, <3>2, Zenon
  <2>2. CASE i \in 1..n
    <3>1. u \in Links(ns, i)
      BY <1>4, <2>2, Zenon DEF SplitLinked
    <3>2. rs[p].children[t] = n + 1
      BY <1>4, Zenon DEF SplitLinked
    <3>3. i # p \/ u # t => rs[i].children[u] = ns[i].children[u] /\ ns[i].children[u] # c
      <4>1. \A x \in 1..n : \A w \in Links(ns, x) :
               /\ w \in Links(rs, x)
               /\ x # p \/ w # t => /\ rs[x].children[w] = ns[x].children[w]
                                    /\ ns[x].children[w] # c
        BY <1>4, Zenon DEF SplitLinked
      <4> HIDE DEF n
      <4> QED
        BY <2>2, <3>1, <4>1, Zenon
    <3> QED
      BY <2>2, <3>1, <3>2, <3>3, Zenon
  <2> QED
    BY <1>1, <2>1, <2>2, SMTT(30)
<1>11. /\ v \in Links(rs, n + 1) /\ rs[n + 1].children[v] = c
       /\ t \in Links(rs, p) /\ rs[p].children[t] = n + 1
       /\ \A i \in 1..n : \A u \in Links(ns, i) :
            /\ u \in Links(rs, i)
            /\ i # p \/ u # t => /\ rs[i].children[u] = ns[i].children[u]
                                 /\ ns[i].children[u] # c
  BY <1>4, Zenon DEF SplitLinked
<1>12. \A i \in 1..n : \A u \in Links(ns, i) : ns[i].children[u] \in 1..n
  <2>1. \A i \in 1..n : \A u \in Links(ns, i) : ns[i].children[u] \in 2..n
    BY DEF Tree, LinksLead
  <2> QED
    BY <1>1, <2>1
\* The new text is between those of p and c.
<1>13. PICK k \in Nat, l \in Nat : k = Len(T[p]) /\ l = Len(edge)
  BY <1>6, <1>8
<1>14. at \in 1..(l - 1) /\ at \in Nat
  BY <1>13
<1>15. PICK ed \in Seq(Tokens) : ed = edge /\ Len(ed) = l
  BY <1>6, <1>13
<1>16. /\ SubSeq(ed, 1, at) \in Seq(Tokens) /\ Len(SubSeq(ed, 1, at)) = at
       /\ \A i \in 1..at : SubSeq(ed, 1, at)[i] = ed[i]
  BY <1>14, <1>15, TakeFacts, SMTT(30)
<1>17. /\ Drop(ed, at) \in Seq(Tokens) /\ Len(Drop(ed, at)) = l - at
       /\ \A i \in 1..(l - at) : Drop(ed, at)[i] = ed[at + i]
  <2>1. at \in 0..Len(ed)
    BY <1>14, <1>15
  <2>2. /\ Drop(ed, at) \in Seq(Tokens) /\ Len(Drop(ed, at)) = Len(ed) - at
        /\ \A i \in 1..(Len(ed) - at) : Drop(ed, at)[i] = ed[at + i]
    BY <2>1, DropFacts, Zenon
  <2> QED
    BY <1>15, <2>2, Zenon
<1>18. PICK a \in Seq(Tokens), b \in Seq(Tokens) : a = T[p] /\ b = T[c]
  BY <1>6, <1>8
<1>19. Joined(a, ed, b) /\ Joined(a, SubSeq(ed, 1, at), text) /\ Len(a) = k
  BY <1>9, <1>13, <1>15, <1>18
<1> HIDE DEF edge, v
<1>20. /\ Len(text) = k + at /\ Len(b) = k + l
       /\ \A i \in 1..k : text[i] = a[i] /\ b[i] = a[i]
       /\ \A i \in 1..at : text[k + i] = ed[i]
       /\ \A i \in 1..l : b[k + i] = ed[i]
  BY <1>16, <1>15, <1>19 DEF Joined
<1>21. Begins(a, text) /\ k < Len(text) /\ text[k + 1] = ed[1]
  <2>1. 1 \in 1..at
    BY <1>14
  <2> QED
    BY <1>14, <1>19, <1>20, <2>1, SMTT(30) DEF Begins
<1>22. Begins(text, b) /\ Len(text) < Len(b) /\ b[Len(text) + 1] = ed[at + 1]
  <2>1. at + 1 \in 1..l /\ k + (at + 1) = Len(text) + 1 /\ Len(text) < Len(b)
    BY <1>14, <1>20
  <2>2. ASSUME NEW i \in 1..Len(text) PROVE text[i] = b[i]
    <3>1. CASE i \in 1..k
      BY <1>20, <3>1
    <3>2. CASE i \notin 1..k
      <4>1. i - k \in 1..at /\ i - k \in 1..l /\ k + (i - k) = i
        BY <1>14, <1>20, <3>2
      <4> QED
        BY <1>20, <4>1
    <3> QED
      BY <3>1, <3>2
  <2> QED
    BY <1>20, <2>1, <2>2 DEF Begins
<1>23. Joined(text, Drop(ed, at), b)
  <2>1. Len(b) = Len(text) + Len(Drop(ed, at))
    BY <1>14, <1>17, <1>20
  <2>2. \A i \in 1..Len(text) : b[i] = text[i]
    BY <1>22 DEF Begins
  <2>3. ASSUME NEW i \in 1..(l - at) PROVE b[Len(text) + i] = Drop(ed, at)[i]
    <3>0. i \in Nat /\ at + i \in 1..l /\ k + (at + i) = (k + at) + i
      BY <1>14
    <3>1. at + i \in 1..l /\ k + (at + i) = Len(text) + i
      BY <1>20, <3>0
    <3> QED
      BY <1>17, <1>20, <3>1
  <2> QED
    BY <1>17, <2>1, <2>2, <2>3 DEF Joined
<1>24. /\ Begins(T[p], text) /\ Len(T[p]) < Len(text) /\ text[Len(T[p]) + 1] = t
       /\ Begins(text, T[c]) /\ Len(text) < Len(T[c]) /\ T[c][Len(text) + 1] = v
       /\ Joined(T[p], rs[n + 1].edge, text) /\ Joined(text, rs[c].edge, T[c])
  <2>1. ed[1] = t /\ ed[at + 1] = v
    BY <1>5, <1>15 DEF v
  <2>2. rs[n + 1].edge = SubSeq(ed, 1, at) /\ rs[c].edge = Drop(ed, at)
    BY <1>7, <1>15
  <2> QED
    BY <1>13, <1>18, <1>19, <1>21, <1>22, <1>23, <2>1, <2>2
\* A node that the new text begins is c or below it.
<1>25. ASSUME NEW j \in 1..n, Begins(text, T[j]) PROVE Begins(T[c], T[j])
  <2>1. Begins(T[p], T[j])
    BY <1>8, <1>24, <1>25, BeginsTransitive
  <2>2. Len(T[p]) + 1 \in 1..Len(text) /\ Len(T[p]) < Len(T[j])
    <3>1. PICK x \in Nat, y \in Nat, z \in Nat : x = Len(T[p]) /\ y = Len(T[j]) /\ z = Len(text)
      BY <1>8
    <3>2. x < z /\ z <= y
      BY <1>24, <1>25, <3>1 DEF Begins
    <3>3. x + 1 \in 1..z /\ x < y
      BY <3>2
    <3> QED
      BY <3>1, <3>3, Zenon
  <2>3. T[j][Len(T[p]) + 1] = t
    BY <1>24, <1>25, <2>2 DEF Begins
  <2>4. Reachable(ns, T, p, j)
    BY <2>1, <2>2 DEF Labelled, Branching, Before
  <2> QED
    BY <2>3, <2>4 DEF Reachable
<1>26. ASSUME NEW j \in 1..n, Begins(text, T[j]) PROVE Len(text) < Len(T[j])
  <2>1. Len(T[c]) <= Len(T[j])
    BY <1>25, <1>26 DEF Begins
  <2>0. Len(T[c]) \in Nat /\ Len(T[j]) \in Nat /\ Len(text) \in Nat
    <3>1. Len(text) \in Nat
      OBVIOUS
    <3>2. c \in 1..n
      BY <1>6
    <3> QED
      BY <1>8, <3>1, <3>2, Zenon
  <2>2. PICK x \in Nat, y \in Nat, z \in Nat : x = Len(T[c]) /\ y = Len(T[j]) /\ z = Len(text)
    BY <2>0, Zenon
  <2>3. z < x /\ x <= y
    BY <1>24, <2>1, <2>2, Zenon
  <2>4. z < y
    BY <2>3
  <2> QED
    BY <2>2, <2>4, Zenon
<1>27. ASSUME NEW j \in 1..n, Begins(T[j], text) PROVE Len(T[j]) # Len(text)
  <2>1. SUFFICES ASSUME Len(T[j]) = Len(text) PROVE FALSE
    OBVIOUS
  <2>2. Begins(text, T[j])
    BY <1>27, <2>1 DEF Begins
  <2> QED
    BY <1>8, <1>26, <2>1, <2>2
<1>28. Spelled(rs, L)
  <2>1. ASSUME NEW i \in 1..(n + 1), NEW u \in Links(rs, i)
        PROVE  Joined(L[i], rs[rs[i].children[u]].edge, L[rs[i].children[u]])
    <3>1. CASE i = n + 1 /\ u = v /\ rs[i].children[u] = c
      BY <1>3, <1>6, <1>24, <3>1
    <3>2. CASE i = p /\ u = t /\ rs[i].children[u] = n + 1
      BY <1>3, <1>24, <3>2
    <3>3. CASE /\ i \in 1..n /\ u \in Links(ns, i)
               /\ rs[i].children[u] = ns[i].children[u] /\ ns[i].children[u] # c
      <4>1. PICK d \in 1..n : rs[i].children[u] = d /\ ns[i].children[u] = d /\ d # c
        BY <1>12, <3>3
      <4>2. Joined(T[i], ns[d].edge, T[d])
        BY <3>3, <4>1 DEF Labelled, Spelled
      <4>3. L[i] = T[i] /\ L[d] = T[d] /\ rs[d].edge = ns[d].edge
        BY <1>3, <1>7, <3>3, <4>1
      <4> QED
        BY <4>1, <4>2, <4>3
    <3> QED
      BY <1>10, <3>1, <3>2, <3>3
  <2> QED
    BY <1>7, <2>1 DEF Spelled
<1>29. Distinct(rs, L)
  <2>1. ASSUME NEW i \in 1..(n + 1), NEW j \in 1..(n + 1), Begins(L[i], L[j]),
               Len(L[i]) = Len(L[j])
        PROVE  i = j
    <3>1. CASE i \in 1..n /\ j \in 1..n
      BY <1>3, <2>1, <3>1 DEF Labelled, Distinct
    <3>2. CASE i = n + 1 /\ j \in 1..n
      <4>1. Len(text) < Len(T[j]) /\ Len(text) = Len(T[j])
        BY <1>3, <1>26, <2>1, <3>2
      <4> QED
        BY <1>8, <3>2, <4>1
    <3>3. CASE i \in 1..n /\ j = n + 1
      BY <1>3, <1>27, <2>1, <3>3
    <3> QED
      BY <1>1, <3>1, <3>2, <3>3
  <2> QED
    BY <1>7, <2>1 DEF Distinct
<1>30. Branching(rs, L)
  <2>1. ASSUME NEW i \in 1..(n + 1), NEW j \in 1..(n + 1), Before(L[i], L[j])
        PROVE  Reachable(rs, L, i, j)
    <3>1. CASE i \in 1..n /\ j \in 1..n
      <4>1. Reachable(ns, T, i, j)
        BY <1>3, <2>1, <3>1 DEF Labelled, Branching
      <4>2. L[i] = T[i] /\ L[j] = T[j]
        BY <1>3, <3>1
      <4>3. PICK u : u = T[j][Len(T[i]) + 1]
        OBVIOUS
      <4>4. u \in Links(ns, i) /\ Begins(T[ns[i].children[u]], T[j])
        BY <4>1, <4>3 DEF Reachable
      <4>5. CASE i = p /\ u = t
        <5>1. Begins(T[c], T[j])
          BY <4>4, <4>5
        <5>2. Begins(text, T[j])
          BY <1>6, <1>8, <1>24, <3>1, <5>1, BeginsTransitive
        <5> QED
          BY <1>3, <1>11, <4>2, <4>3, <4>5, <5>2, SMTT(60) DEF Reachable
      <4>6. CASE ~(i = p /\ u = t)
        <5>1. /\ u \in Links(rs, i) /\ rs[i].children[u] = ns[i].children[u]
              /\ ns[i].children[u] \in 1..n
          BY <1>11, <1>12, <3>1, <4>4, <4>6
        <5> QED
          BY <1>3, <4>2, <4>3, <4>4, <5>1 DEF Reachable
      <4> QED
        BY <4>5, <4>6
    <3>2. CASE i = n + 1 /\ j \in 1..n
      <4>1. Begins(text, T[j]) /\ L[i] = text /\ L[j] = T[j] /\ L[c] = T[c]
        BY <1>3, <1>6, <2>1, <3>2 DEF Before
      <4>2. Begins(T[c], T[j])
        BY <1>25, <3>2, <4>1
      <4>3. Len(text) + 1 \in 1..Len(T[c])
        <5>0. Len(T[c]) \in Nat /\ Len(text) \in Nat
          <6>1. Len(text) \in Nat
            OBVIOUS
          <6>2. c \in 1..n
            BY <1>6
          <6> QED
            BY <1>8, <6>1, <6>2, Zenon
        <5>1. PICK x \in Nat, z \in Nat : x = Len(T[c]) /\ z = Len(text)
          BY <5>0, Zenon
        <5>2. z < x
          BY <1>24, <5>1, Zenon
        <5>3. z + 1 \in 1..x
          BY <5>2
        <5> QED
          BY <5>1, <5>3, Zenon
      <4>4. T[j][Len(text) + 1] = v
        BY <1>24, <4>2, <4>3 DEF Begins
      <4> QED
        BY <1>11, <3>2, <4>1, <4>2, <4>4 DEF Reachable
    <3>3. CASE i \in 1..n /\ j = n + 1
      <4>1. L[i] = T[i] /\ L[j] = text /\ Begins(T[i], text) /\ Len(T[i]) < Len(text)
        BY <1>3, <2>1, <3>3 DEF Before
      <4>2. Begins(T[i], T[c])
        BY <1>6, <1>8, <1>24, <3>3, <4>1, BeginsTransitive
      <4>3. Len(T[i]) < Len(T[c])
        BY <1>6, <1>8, <1>24, <3>3, <4>1, SMTT(30)
      <4>4. Reachable(ns, T, i, c)
        BY <1>6, <3>3, <4>2, <4>3 DEF Labelled, Branching, Before
      <4>5. PICK u : u = T[c][Len(T[i]) + 1]
        OBVIOUS
      <4>6. u \in Links(ns, i) /\ Begins(T[ns[i].children[u]], T[c])
        BY <4>4, <4>5 DEF Reachable
      <4>7. text[Len(T[i]) + 1] = u
        <5>1. Len(T[i]) + 1 \in 1..Len(text)
          BY <1>8, <3>3, <4>1, SMTT(30)
        <5> QED
          BY <1>24, <4>5, <5>1 DEF Begins
      <4>8. CASE i = p /\ u = t
        <5>1. Begins(text, text)
          BY DEF Begins
        <5>2. t \in Links(rs, p) /\ rs[p].children[t] = n + 1 /\ L[n + 1] = text
          BY <1>3, <1>11, Zenon
        <5> QED
          BY <4>1, <4>7, <4>8, <5>1, <5>2, Zenon DEF Reachable
      <4>9. CASE ~(i = p /\ u = t)
        <5>1. PICK d \in 1..n : /\ d = ns[i].children[u] /\ d # c
                                /\ u \in Links(rs, i) /\ rs[i].children[u] = d
          BY <1>11, <1>12, <3>3, <4>6, <4>9
        <5>2. Begins(T[d], text)
          <6>1. CASE Len(T[d]) <= Len(text)
            BY <1>6, <1>8, <1>24, <4>6, <5>1, <6>1, BeginsCompare
          <6>2. CASE ~(Len(T[d]) <= Len(text))
            <7>1. Len(text) <= Len(T[d])
              BY <1>8, <6>2, SMTT(30)
            <7>2. Begins(text, T[d])
              BY <1>6, <1>8, <1>24, <4>6, <5>1, <7>1, BeginsCompare
            <7>3. Begins(T[c], T[d])
              BY <1>25, <7>2
            <7>4. Len(T[c]) = Len(T[d])
              <8>1. PICK x \in Nat, y \in Nat : x = Len(T[c]) /\ y = Len(T[d])
                BY <1>6, <1>8
              <8>2. Begins(T[d], T[c])
                BY <4>6, <5>1, Zenon
              <8>3. x <= y /\ y <= x
                BY <7>3, <8>1, <8>2, Zenon DEF Begins
              <8>4. x = y
                BY <8>3
              <8> QED
                BY <8>1, <8>4, Zenon
            <7>5. c = d
              BY <1>6, <7>3, <7>4 DEF Labelled, Distinct
            <7> QED
              BY <5>1, <7>5
          <6> QED
            BY <6>1, <6>2
        <5> QED
          BY <1>3, <4>1, <4>7, <5>1, <5>2 DEF Reachable
      <4> QED
        BY <4>8, <4>9
    <3>4. CASE i = n + 1 /\ j = n + 1
      BY <1>3, <2>1, <3>4 DEF Before
    <3> QED
      BY <1>1, <3>1, <3>2, <3>3, <3>4
  <2> QED
    BY <1>7, <2>1 DEF Branching
<1>31. Len(L[1]) = 0
  BY <1>1, <1>3 DEF Labelled
<1> QED
  BY <1>2, <1>3, <1>7, <1>28, <1>29, <1>30, <1>31 DEF Labelled

-----------------------------------------------------------------------------
(***************************************************************************)
(* insert_from.                                                            *)
(***************************************************************************)

\* A text is cut at the end of a common prefix.
LEMMA JoinedDrop ==
    ASSUME NEW x \in Seq(Tokens), NEW tokens \in Seq(Tokens), NEW s \in Seq(Tokens),
           NEW e \in Seq(Tokens), NEW y \in Seq(Tokens), Joined(x, tokens, s),
           Begins(e, tokens), Joined(x, e, y)
    PROVE  Joined(y, Drop(tokens, Len(e)), s)
<1>1. PICK k \in Nat, m \in Nat, l \in Nat : k = Len(x) /\ m = Len(e) /\ l = Len(tokens)
  OBVIOUS
<1>2. m <= l /\ \A i \in 1..m : e[i] = tokens[i]
  BY <1>1 DEF Begins
<1>3. /\ Len(s) = k + l /\ \A i \in 1..k : s[i] = x[i]
      /\ \A i \in 1..l : s[k + i] = tokens[i]
  BY <1>1 DEF Joined
<1>4. /\ Len(y) = k + m /\ \A i \in 1..k : y[i] = x[i]
      /\ \A i \in 1..m : y[k + i] = e[i]
  BY <1>1 DEF Joined
<1>5. PICK d \in Seq(Tokens) : d = Drop(tokens, Len(e)) /\ Len(d) = l - m
                               /\ \A i \in 1..(l - m) : d[i] = tokens[m + i]
  <2>1. m \in 0..Len(tokens)
    BY <1>1, <1>2
  <2>2. /\ Drop(tokens, m) \in Seq(Tokens) /\ Len(Drop(tokens, m)) = Len(tokens) - m
        /\ \A i \in 1..(Len(tokens) - m) : Drop(tokens, m)[i] = tokens[m + i]
    BY <2>1, DropFacts, Zenon
  <2> QED
    BY <1>1, <2>2
<1>6. Len(s) = Len(y) + Len(d)
  BY <1>2, <1>3, <1>4, <1>5
<1>7. ASSUME NEW i \in 1..Len(y) PROVE s[i] = y[i]
  <2>1. CASE i \in 1..k
    BY <1>3, <1>4, <2>1
  <2>2. CASE i \notin 1..k
    <3>1. i - k \in 1..m /\ i - k \in 1..l /\ k + (i - k) = i
      BY <1>2, <1>4, <2>2
    <3> QED
      BY <1>2, <1>3, <1>4, <3>1, ZenonT(40)
  <2> QED
    BY <2>1, <2>2
<1>8. ASSUME NEW i \in 1..Len(d) PROVE s[Len(y) + i] = d[i]
  <2>1. m + i \in 1..l /\ k + (m + i) = (k + m) + i
    BY <1>2, <1>5
  <2> QED
    BY <1>3, <1>4, <1>5, <2>1
<1> QED
  BY <1>5, <1>6, <1>7, <1>8 DEF Joined

LEMMA JoinedTake ==
    ASSUME NEW x \in Seq(Tokens), NEW tokens \in Seq(Tokens), NEW s \in Seq(Tokens),
           NEW e \in Seq(Tokens), Joined(x, tokens, s), Begins(e, tokens)
    PROVE  \E y \in Seq(Tokens) : Joined(x, e, y)
<1> DEFINE y == SubSeq(s, 1, Len(x) + Len(e))
<1>1. PICK k \in Nat, m \in Nat, l \in Nat : k = Len(x) /\ m = Len(e) /\ l = Len(tokens)
  OBVIOUS
<1>2. m <= l /\ \A i \in 1..m : e[i] = tokens[i]
  BY <1>1 DEF Begins
<1>3. /\ Len(s) = k + l /\ \A i \in 1..k : s[i] = x[i]
      /\ \A i \in 1..l : s[k + i] = tokens[i]
  BY <1>1 DEF Joined
<1>4. /\ y \in Seq(Tokens) /\ Len(y) = k + m /\ \A i \in 1..(k + m) : y[i] = s[i]
  <2>1. k + m \in 0..Len(s)
    BY <1>2, <1>3
  <2> QED
    BY <1>1, <2>1, TakeFacts
<1> HIDE DEF y
<1>5. ASSUME NEW i \in 1..k PROVE y[i] = x[i]
  <2>1. i \in 1..(k + m)
    OBVIOUS
  <2> QED
    BY <1>3, <1>4, <2>1
<1>6. ASSUME NEW i \in 1..m PROVE y[k + i] = e[i]
  <2>1. k + i \in 1..(k + m) /\ i \in 1..l
    BY <1>2
  <2> QED
    BY <1>2, <1>3, <1>4, <2>1
<1>7. Joined(x, e, y)
  BY <1>1, <1>4, <1>5, <1>6 DEF Joined
<1> QED
  BY <1>4, <1>7

\* The handles and ticks of ns are kept in ms, and new nodes have no handle.
Carried(ms, ns) ==
    /\ Len(ns) <= Len(ms)
    /\ \A i \in 1..Len(ns) :
          ms[i].handle = ns[i].handle /\ ms[i].last_access_tick = ns[i].last_access_tick
    /\ \A i \in (Len(ns) + 1)..Len(ms) : ms[i].handle = NoHandle

\* The nodes of ns keep their texts, and the tokens left are those that s has
\* after the text of the node reached.
OnTheWay(at, ns, T, s) ==
    \E L : /\ Labelled(at.nodes, L) /\ Joined(L[at.node], at.tokens, s)
           /\ \A i \in 1..Len(ns) : L[i] = T[i]

Positions == [nodes : Seq(NodeRecs), node : Nat, tokens : Seq(Tokens)]

\* Where insert_from may be when it inserts s.
Insertions(ns, T, s) ==
    {at \in Positions :
        /\ Tree(at.nodes) /\ at.node \in 1..Len(at.nodes)
        /\ Carried(at.nodes, ns) /\ OnTheWay(at, ns, T, s)}

LEMMA CarriedOn ==
    ASSUME NEW ns \in Seq(NodeRecs), NEW ms \in Seq(NodeRecs), NEW rs \in Seq(NodeRecs),
           Carried(ms, ns), Len(rs) = Len(ms) + 1, rs[Len(ms) + 1].handle = NoHandle,
           \A i \in 1..Len(ms) : rs[i].handle = ms[i].handle
                                 /\ rs[i].last_access_tick = ms[i].last_access_tick
    PROVE  Carried(rs, ns)
<1>1. Len(ns) \in Nat /\ Len(ms) \in Nat /\ Len(ns) <= Len(ms)
  BY DEF Carried
<1>2. \A i \in 1..Len(ns) : i \in 1..Len(ms)
  BY <1>1
<1>3. \A i \in 1..Len(ns) :
         ms[i].handle = ns[i].handle /\ ms[i].last_access_tick = ns[i].last_access_tick
  BY DEF Carried
<1>4. \A i \in 1..Len(ns) :
         rs[i].handle = ns[i].handle /\ rs[i].last_access_tick = ns[i].last_access_tick
  BY <1>2, <1>3, Zenon
<1>5. ASSUME NEW i \in (Len(ns) + 1)..Len(rs) PROVE rs[i].handle = NoHandle
  <2>1. CASE i = Len(ms) + 1
    BY <2>1
  <2>2. CASE i # Len(ms) + 1
    <3>1. i \in (Len(ns) + 1)..Len(ms) /\ i \in 1..Len(ms)
      BY <1>1, <2>2
    <3> QED
      BY <3>1 DEF Carried
  <2> QED
    BY <2>1, <2>2
<1>6. Len(ns) <= Len(rs)
  BY <1>1
<1> QED
  BY <1>4, <1>5, <1>6 DEF Carried

\* The next position when a node is added: a new leaf or the upper part of an
\* edge.
LEMMA AddedPosition ==
    ASSUME NEW ns \in Seq(NodeRecs), NEW T, NEW s \in Seq(Tokens),
           NEW at \in Insertions(ns, T, s), NEW rs, NEW L, NEW text \in Seq(Tokens),
           NEW rest \in Seq(Tokens), Tree(rs), Len(rs) = Len(at.nodes) + 1,
           rs[Len(at.nodes) + 1].handle = NoHandle,
           \A i \in 1..Len(at.nodes) :
              /\ rs[i].handle = at.nodes[i].handle
              /\ rs[i].last_access_tick = at.nodes[i].last_access_tick,
           L \in [1..Len(at.nodes) -> Seq(Tokens)], \A i \in 1..Len(ns) : L[i] = T[i],
           Labelled(rs, Grown(L, Len(at.nodes), text)), Joined(text, rest, s)
    PROVE  [nodes |-> rs, node |-> Len(at.nodes) + 1, tokens |-> rest] \in Insertions(ns, T, s)
<1> DEFINE ms == at.nodes
           new == [nodes |-> rs, node |-> Len(ms) + 1, tokens |-> rest]
<1>1. at \in Positions /\ Carried(ms, ns)
  BY DEF Insertions
<1>2. ms \in Seq(NodeRecs) /\ Len(ms) \in Nat
  BY <1>1 DEF Positions
<1>3. rs \in Seq(NodeRecs)
  BY DEF Tree
<1>4. new \in Positions
  BY <1>2, <1>3 DEF Positions
<1>5. Carried(rs, ns)
  <2> HIDE DEF ms
  <2> QED
    BY <1>1, <1>2, <1>3, CarriedOn DEF ms
<1>6. OnTheWay(new, ns, T, s)
  <2>1. PICK n \in Nat : n = Len(ms)
    BY <1>2
  <2>2. PICK G : G = Grown(L, n, text)
    OBVIOUS
  <2>3. L \in [1..n -> Seq(Tokens)]
    BY <2>1
  <2>4. G[n + 1] = text /\ \A i \in 1..n : G[i] = L[i]
    BY <2>2, <2>3, GrownFacts
  <2>5. \A i \in 1..Len(ns) : i \in 1..n
    BY <1>1, <2>1 DEF Carried
  <2>6. \A i \in 1..Len(ns) : G[i] = T[i]
    BY <2>4, <2>5
  <2>7. Labelled(rs, G) /\ Joined(G[n + 1], rest, s)
    BY <2>1, <2>2, <2>4
  <2>8. new.nodes = rs /\ new.node = n + 1 /\ new.tokens = rest
    BY <2>1
  <2> HIDE DEF new
  <2> QED
    BY <2>6, <2>7, <2>8 DEF OnTheWay
<1>7. Tree(new.nodes) /\ new.node \in 1..Len(new.nodes) /\ new.nodes = rs
  BY <1>2
<1> HIDE DEF new
<1> QED
  BY <1>4, <1>5, <1>6, <1>7 DEF Insertions, new

LEMMA InsertCallStep ==
    ASSUME NEW ns \in Seq(NodeRecs), NEW T, NEW s \in Seq(Tokens), NEW tick \in Nat,
           NEW at \in Insertions(ns, T, s)
    PROVE  /\ InsertCall(at, tick) \in Insertions(ns, T, s)
           /\ at.tokens = <<>> => InsertCall(at, tick).tokens = <<>>
           /\ at.tokens # <<>> => Len(InsertCall(at, tick).tokens) < Len(at.tokens)
<1> DEFINE ms == at.nodes
           tokens == at.tokens
           p == at.node
           n == Len(ms)
           t == Head(tokens)
           c == ms[p].children[t]
           edge == ms[c].edge
           common == CommonPrefixLen(tokens, edge)
           next == InsertCall(at, tick)
<1>1. CASE tokens = <<>>
  BY <1>1 DEF InsertCall
<1>2. ASSUME tokens # <<>>
      PROVE  next \in Insertions(ns, T, s) /\ Len(next.tokens) < Len(tokens)
  <2>1. at \in Positions /\ Tree(ms) /\ p \in 1..n /\ OnTheWay(at, ns, T, s)
    BY DEF Insertions
  <2>2. /\ ms \in Seq(NodeRecs) /\ n \in Nat /\ tokens \in Seq(Tokens) /\ Len(tokens) \in Nat
        /\ Len(tokens) >= 1 /\ t = tokens[1] /\ t \in Tokens
    <3>1. ms \in Seq(NodeRecs) /\ tokens \in Seq(Tokens)
      BY <2>1 DEF Positions
    <3> QED
      BY <1>2, <3>1
  <2>3. PICK L : /\ Labelled(ms, L) /\ Joined(L[p], tokens, s)
                 /\ \A i \in 1..Len(ns) : L[i] = T[i]
    BY <2>1 DEF OnTheWay
  <2>4. L \in [1..n -> Seq(Tokens)] /\ L[p] \in Seq(Tokens)
    BY <2>1, <2>3 DEF Labelled
  <2>5. CASE t \notin DOMAIN ms[p].children
    <3> DEFINE e == Node(tokens, <<>>, tick)
               rs == Filed(ms, p, t, e)
    <3>1. next = [nodes |-> rs, node |-> n + 1, tokens |-> <<>>]
      BY <1>2, <2>5 DEF InsertCall, Filed
    <3>2. /\ e \in NodeRecs /\ e.edge = tokens /\ e.children = <<>> /\ e.handle = NoHandle
      BY <2>2, NoChildren, NewNode, SMTT(30)
    <3>3. DOMAIN e.children = {} /\ Len(e.edge) > 0 /\ e.edge[1] = t
      BY <2>2, <3>2, NoChildren
    <3> HIDE DEF e, rs, p, ms, t, tokens, next
    <3>4. IsFiled(rs, ms, p, t, e)
      BY <2>1, <2>2, <3>2, FiledFacts, Zenon DEF rs
    <3>5. Tree(rs)
      BY <2>1, <2>2, <2>5, <3>2, <3>3, <3>4, LeafKeepsTree DEF Links
    <3>6. Labelled(rs, Grown(L, n, s))
      BY <2>1, <2>2, <2>3, <2>5, <3>2, <3>3, <3>4, LeafLabels DEF Links
    <3>7. /\ Len(rs) = n + 1 /\ rs[n + 1].handle = NoHandle
          /\ \A i \in 1..n : /\ rs[i].handle = ms[i].handle
                             /\ rs[i].last_access_tick = ms[i].last_access_tick
      BY <3>2, <3>4 DEF IsFiled
    <3>8. Joined(s, <<>>, s) /\ <<>> \in Seq(Tokens) /\ Len(<<>>) = 0
      BY DEF Joined
    <3>9. [nodes |-> rs, node |-> n + 1, tokens |-> <<>>] \in Insertions(ns, T, s)
      BY <2>3, <2>4, <3>5, <3>6, <3>7, <3>8, AddedPosition DEF ms
    <3> QED
      BY <2>2, <3>1, <3>8, <3>9
  <2>6. ASSUME t \in DOMAIN ms[p].children
        PROVE  next \in Insertions(ns, T, s) /\ Len(next.tokens) < Len(tokens)
    <3>1. /\ c \in 2..n /\ Len(edge) > 0 /\ edge[1] = t
          /\ Joined(L[p], edge, L[c])
      BY <2>1, <2>3, <2>6 DEF Tree, LinksLead, Links, Labelled, Spelled
    <3>2. c \in 1..n /\ edge \in Seq(Tokens) /\ Len(edge) \in Nat /\ L[c] \in Seq(Tokens)
      <4>1. c \in 1..n
        <5> HIDE DEF c, n
        <5> QED
          BY <2>2, <3>1
      <4>2. edge \in Seq(Tokens)
        <5> HIDE DEF c, ms
        <5> QED
          BY <2>2, <4>1, NodeTypes
      <4>3. L[c] \in Seq(Tokens) /\ Len(edge) \in Nat
        <5> HIDE DEF c, n, edge
        <5> QED
          BY <2>4, <4>1, <4>2
      <4> QED
        BY <4>1, <4>2, <4>3
    <3>3. /\ common \in 1..Len(tokens) /\ common \in 1..Len(edge)
          /\ \A i \in 1..common : tokens[i] = edge[i]
      <4>1. /\ common \in 0..Len(tokens) /\ common <= Len(edge)
            /\ \A i \in 1..common : tokens[i] = edge[i]
            /\ common < Len(tokens) /\ common < Len(edge) => tokens[common + 1] # edge[common + 1]
        <5> HIDE DEF tokens, edge
        <5> QED
          BY <2>2, <3>2, CommonPrefixFacts
      <4>2. common # 0
        <5> HIDE DEF common, edge, tokens, t
        <5> QED
          BY <2>2, <3>1, <3>2, <4>1, SMTT(60)
      <4> HIDE DEF common, edge, tokens
      <4> QED
        BY <2>2, <3>2, <4>1, <4>2
    <3>4. Drop(tokens, common) \in Seq(Tokens) /\ Len(Drop(tokens, common)) < Len(tokens)
      <4> HIDE DEF common, tokens
      <4>1. common \in 0..Len(tokens) /\ common \in Nat
        BY <2>2, <3>3, SMTT(30)
      <4>2. /\ Drop(tokens, common) \in Seq(Tokens)
            /\ Len(Drop(tokens, common)) = Len(tokens) - common
        BY <2>2, <4>1, DropFacts, Zenon
      <4> QED
        BY <2>2, <3>3, <4>2, SMTT(60)
    <3>5. CASE common = Len(edge)
      <4>1. next = [nodes |-> ms, node |-> c, tokens |-> Drop(tokens, common)]
        BY <1>2, <2>6, <3>5 DEF InsertCall
      <4>2. Begins(edge, tokens)
        <5> HIDE DEF common, tokens, edge
        <5> QED
          BY <3>3, <3>5 DEF Begins
      <4>3. Joined(L[c], Drop(tokens, common), s)
        <5> HIDE DEF tokens, edge, common
        <5> QED
          BY <2>2, <2>3, <2>4, <3>1, <3>2, <3>5, <4>2, JoinedDrop
      <4> HIDE DEF ms, c, tokens, common, next
      <4>4. next.nodes = ms /\ next.node = c /\ next.tokens = Drop(tokens, common)
        BY <4>1
      <4>5. OnTheWay(next, ns, T, s)
        BY <2>3, <4>3, <4>4 DEF OnTheWay
      <4>6. next \in Positions
        BY <2>2, <3>2, <3>4, <4>1 DEF Positions
      <4>7. Carried(ms, ns)
        BY DEF Insertions, ms
      <4> QED
        BY <2>1, <3>2, <3>4, <4>4, <4>5, <4>6, <4>7 DEF Insertions
    <3>6. CASE common # Len(edge)
      <4> DEFINE rs == SplitChild(ms, tick, p, c, common)
                 up == SubSeq(edge, 1, common)
      <4>1. next = [nodes |-> rs, node |-> n + 1, tokens |-> Drop(tokens, common)]
        BY <1>2, <2>6, <3>6 DEF InsertCall
      <4>2. common \in 1..(Len(edge) - 1) /\ common \in 0..Len(edge)
        <5> HIDE DEF common, edge
        <5> QED
          BY <3>2, <3>3, <3>6
      <4>3. IsSplit(rs, ms, p, c, common, tick)
        <5> HIDE DEF common, c, p, ms, rs
        <5> QED
          BY <2>1, <2>2, <3>2, <4>2, SplitFacts, Zenon DEF rs
      <4>4. Begins(up, tokens) /\ up \in Seq(Tokens) /\ Len(up) = common
        <5> HIDE DEF common, edge, tokens
        <5>1. /\ up \in Seq(Tokens) /\ Len(up) = common
              /\ \A i \in 1..common : up[i] = edge[i]
          BY <3>2, <4>2, TakeFacts
        <5> QED
          BY <2>2, <3>3, <5>1 DEF Begins
      <4> HIDE DEF up
      <4>5. PICK text \in Seq(Tokens) : Joined(L[p], up, text)
        <5> HIDE DEF tokens
        <5> QED
          BY <2>2, <2>3, <2>4, <4>4, JoinedTake
      <4>6. Joined(text, Drop(tokens, common), s)
        <5> HIDE DEF tokens, common
        <5> QED
          BY <2>2, <2>3, <2>4, <4>4, <4>5, JoinedDrop
      <4> HIDE DEF ms, p, common, t, rs, tokens, next
      <4>7. t \in Links(ms, p)
        BY <2>6 DEF Links
      <4>8. Tree(rs)
        BY <2>1, <4>2, <4>3, <4>7, SplitKeepsTree
      <4>9. Labelled(rs, Grown(L, n, text))
        BY <2>1, <2>3, <4>2, <4>3, <4>5, <4>7, SplitLabels DEF up
      <4>10. /\ Len(rs) = n + 1 /\ rs[n + 1].handle = NoHandle
             /\ \A i \in 1..n : /\ rs[i].handle = ms[i].handle
                                /\ rs[i].last_access_tick = ms[i].last_access_tick
        BY <4>3 DEF IsSplit
      <4>11. [nodes |-> rs, node |-> n + 1, tokens |-> Drop(tokens, common)] \in Insertions(ns, T, s)
        BY <2>3, <2>4, <3>4, <4>6, <4>8, <4>9, <4>10, AddedPosition DEF ms
      <4> QED
        BY <3>4, <4>1, <4>11
    <3> QED
      BY <3>5, <3>6
  <2> QED
    BY <2>5, <2>6
<1> QED
  BY <1>1, <1>2

\* insert_from ends at the node of the sequence.
LEMMA InsertFromFacts ==
    ASSUME NEW ns, Tree(ns), NEW T, Labelled(ns, T), NEW s \in Seq(Tokens), NEW tick \in Nat
    PROVE  /\ InsertFrom(ns, tick, s) \in Insertions(ns, T, s)
           /\ InsertFrom(ns, tick, s).tokens = <<>>
<1> DEFINE n == Len(s)
           V == Insertions(ns, T, s)
           start == [nodes |-> ns, node |-> 1, tokens |-> s]
           at == CHOOSE at : at = [k \in 0..n |-> IF k = 0 THEN start
                                                  ELSE InsertCall(at[k - 1], tick)]
           step == [k \in 1..n |-> [v \in V |-> InsertCall(v, tick)]]
<1>1. InsertFrom(ns, tick, s) = at[n]
  BY DEF InsertFrom
<1>2. n \in Nat /\ ns \in Seq(NodeRecs) /\ Len(ns) \in Nat /\ Len(ns) >= 1
  BY DEF Tree
<1>3. start \in V
  <2>1. start \in Positions
    BY <1>2 DEF Positions
  <2>2. start.nodes = ns /\ start.node = 1 /\ start.tokens = s
    OBVIOUS
  <2> HIDE DEF start
  <2>3. Joined(T[1], s, s)
    <3>1. Len(T[1]) = 0
      BY DEF Labelled
    <3> QED
      BY <3>1 DEF Joined
  <2>4. OnTheWay(start, ns, T, s)
    BY <2>2, <2>3 DEF OnTheWay
  <2>5. Carried(ns, ns)
    BY <1>2 DEF Carried
  <2> QED
    BY <1>2, <2>1, <2>2, <2>4, <2>5 DEF Insertions
<1>4. \A v \in V : InsertCall(v, tick) \in V
  BY <1>2, InsertCallStep
<1> HIDE DEF V, start
<1>5. \E f : f = [k \in 0..n |-> IF k = 0 THEN start ELSE InsertCall(f[k - 1], tick)]
  <2>1. step \in [1..n -> [V -> V]]
    BY <1>4
  <2>2. PICK f : IsRecursion(f, V, start, n, step)
    <3>1. PICK m \in Nat : m = n
      BY <1>2
    <3> HIDE DEF step, n
    <3> QED
      BY <1>3, <2>1, <3>1, RecursionExists
  <2>3. f \in [0..n -> V] /\ f[0] = start /\ \A k \in 1..n : f[k] = step[k][f[k - 1]]
    <3> HIDE DEF step
    <3> QED
      BY <2>2 DEF IsRecursion
  <2>4. ASSUME NEW k \in 1..n PROVE step[k][f[k - 1]] = InsertCall(f[k - 1], tick)
    <3>1. f[k - 1] \in V
      BY <2>3
    <3> QED
      BY <3>1, Zenon
  <2>5. \A k \in 0..n : k # 0 => k \in 1..n
    OBVIOUS
  <2> HIDE DEF step
  <2>6. f = [k \in 0..n |-> IF k = 0 THEN start ELSE InsertCall(f[k - 1], tick)]
    BY <2>3, <2>4, <2>5, Zenon
  <2> QED
    BY <2>6, Zenon
<1>6. at = [k \in 0..n |-> IF k = 0 THEN start ELSE InsertCall(at[k - 1], tick)]
  BY <1>5, Zenon
<1> HIDE DEF at
\* After k calls there are at most n - k tokens left.
<1> DEFINE S == {k \in 0..n : at[k] \in V /\ Len(at[k].tokens) <= n - k}
<1>7. at[0] = start /\ \A k \in 1..n : at[k] = InsertCall(at[k - 1], tick)
  <2>1. at[0] = start
    BY <1>2, <1>6
  <2>2. ASSUME NEW k \in 1..n PROVE at[k] = InsertCall(at[k - 1], tick)
    <3>1. k \in 0..n /\ k # 0
      OBVIOUS
    <3> QED
      BY <1>6, <3>1, Zenon
  <2> QED
    BY <2>1, <2>2
<1>8. \A v \in V : v.tokens \in Seq(Tokens) /\ Len(v.tokens) \in Nat
  BY DEF V, Insertions, Positions
<1>9. S = 0..n
  <2>1. S \in SUBSET (0..n)
    OBVIOUS
  <2>2. 0 \in S
    <3>1. at[0] \in V /\ Len(at[0].tokens) <= n - 0 /\ 0 \in 0..n
      BY <1>2, <1>3, <1>7 DEF start
    <3> QED
      BY <3>1
  <2>3. ASSUME NEW k \in 1..n, k - 1 \in S PROVE k \in S
    <3>1. PICK v \in V : v = at[k - 1] /\ Len(v.tokens) <= n - (k - 1)
      BY <2>3
    <3>2. PICK w \in V : w = at[k] /\ w = InsertCall(v, tick)
      BY <1>4, <1>7, <3>1
    <3>3. /\ v.tokens = <<>> => w.tokens = <<>>
          /\ v.tokens # <<>> => Len(w.tokens) < Len(v.tokens)
      BY <1>2, <3>2, InsertCallStep DEF V
    <3>4. PICK x \in Nat, y \in Nat : x = Len(v.tokens) /\ y = Len(w.tokens)
      BY <1>8
    <3>5. y = 0 \/ y < x
      <4>1. CASE v.tokens = <<>>
        <5>1. Len(<<>>) = 0
          OBVIOUS
        <5> QED
          BY <3>3, <3>4, <4>1, <5>1
      <4>2. CASE v.tokens # <<>>
        BY <3>3, <3>4, <4>2
      <4> QED
        BY <4>1, <4>2
    <3>6. y <= n - k /\ k \in 0..n
      BY <1>2, <3>1, <3>4, <3>5, SMTT(30)
    <3> QED
      BY <3>2, <3>4, <3>6
  <2> HIDE DEF S
  <2> QED
    BY <1>2, <2>1, <2>2, <2>3, IntervalInduction
<1>10. at[n] \in V /\ Len(at[n].tokens) <= n - n
  <2>1. n \in S
    <3> HIDE DEF S
    <3> QED
      BY <1>2, <1>9
  <2> QED
    BY <2>1
<1>11. at[n].tokens = <<>>
  <2>1. PICK q \in Seq(Tokens) : q = at[n].tokens
    BY <1>8, <1>10
  <2>2. Len(q) = 0
    BY <1>2, <1>10, <2>1
  <2>3. q = <<>>
    BY <2>2
  <2> QED
    BY <2>1, <2>3
<1> QED
  BY <1>1, <1>10, <1>11 DEF V

-----------------------------------------------------------------------------
(***************************************************************************)
(* The invariant.                                                          *)
(***************************************************************************)

\* A handle counts the tokens of the text of its node.
Sized(ns, T) ==
    \A i \in WithHandle(ns) : ns[i].handle.token_len = Len(T[i])

CacheTypes ==
    /\ capacity_tokens \in Capacities \cup {NoCapacity}
    /\ clock \in Nat /\ resident_tokens \in Nat

\* The nodes form a tree whose nodes stand for distinct texts.
Labelling(ns, T) == Tree(ns) /\ Labelled(ns, T) /\ Sized(ns, T)

CacheInv ==
    /\ CacheTypes /\ ResidentExact /\ WithinCapacity
    /\ \E T : Labelling(nodes, T)

\* Tree and texts depend on nothing but edges and children.
LEMMA SameShape ==
    ASSUME NEW ns, Tree(ns), NEW ms \in Seq(NodeRecs), Len(ms) = Len(ns), NEW T, Labelled(ns, T),
           \A i \in 1..Len(ns) : ms[i].edge = ns[i].edge /\ ms[i].children = ns[i].children
    PROVE  Tree(ms) /\ Labelled(ms, T)
<1>0. Len(ns) \in Nat
  BY DEF Tree
<1>1. \A i \in 1..Len(ns) : Links(ms, i) = Links(ns, i)
  BY DEF Links
<1>2. \A i \in 1..Len(ns) : \A t \in Links(ns, i) : ns[i].children[t] \in 1..Len(ns)
  <2>1. \A i \in 1..Len(ns) : \A t \in Links(ns, i) : ns[i].children[t] \in 2..Len(ns)
    BY DEF Tree, LinksLead
  <2> QED
    BY <1>0, <2>1
<1>3. LinksLead(ms)
  <2>1. ASSUME NEW i \in 1..Len(ms), NEW t \in Links(ms, i)
        PROVE  LET c == ms[i].children[t]
               IN  c \in 2..Len(ms) /\ Len(ms[c].edge) > 0 /\ ms[c].edge[1] = t
    <3>1. t \in Links(ns, i) /\ ms[i].children = ns[i].children
      BY <1>1
    <3>2. PICK c \in 1..Len(ns) : c = ns[i].children[t]
      BY <1>2, <3>1
    <3>3. c \in 2..Len(ns) /\ Len(ns[c].edge) > 0 /\ ns[c].edge[1] = t
      BY <3>1, <3>2 DEF Tree, LinksLead
    <3>4. ms[c].edge = ns[c].edge
      OBVIOUS
    <3> QED
      BY <3>1, <3>2, <3>3, <3>4
  <2> QED
    BY <2>1 DEF LinksLead
<1>4. HaveParents(ms)
  BY <1>1 DEF Tree, HaveParents
<1>5. OneParent(ms)
  BY <1>1 DEF Tree, OneParent
<1>6. Spelled(ms, T)
  BY <1>1, <1>2 DEF Labelled, Spelled
<1>7. Distinct(ms, T)
  BY DEF Labelled, Distinct
<1>8. Branching(ms, T)
  BY <1>1 DEF Labelled, Branching, Reachable
<1> QED
  BY <1>3, <1>4, <1>5, <1>6, <1>7, <1>8 DEF Tree, Labelled

LEMMA ClearedLabelling ==
    ASSUME NEW ns, NEW T, Labelling(ns, T), NEW E \in SUBSET WithHandle(ns)
    PROVE  Labelling(Cleared(ns, E), T)
<1>1. ns \in Seq(NodeRecs) /\ Tree(ns) /\ Labelled(ns, T) /\ Sized(ns, T)
  BY DEF Labelling, Tree
<1>2. PICK ms : ms = Cleared(ns, E)
  OBVIOUS
<1>3. /\ ms \in Seq(NodeRecs) /\ Len(ms) = Len(ns)
      /\ \A i \in 1..Len(ns) :
           /\ ms[i].edge = ns[i].edge
           /\ ms[i].children = ns[i].children
           /\ ms[i].handle = IF i \in E THEN NoHandle ELSE ns[i].handle
      /\ WithHandle(ms) = WithHandle(ns) \ E
  BY <1>1, <1>2, ClearedFacts
<1>4. Tree(ms) /\ Labelled(ms, T)
  BY <1>1, <1>3, SameShape
<1>5. Sized(ms, T)
  <2> SUFFICES ASSUME NEW i \in WithHandle(ms) PROVE ms[i].handle.token_len = Len(T[i])
    BY DEF Sized
  <2>1. i \in WithHandle(ns) /\ i \notin E
    BY <1>3
  <2>2. i \in 1..Len(ns)
    BY <1>1, <2>1, HandleTypes
  <2>3. ms[i].handle = ns[i].handle
    BY <1>3, <2>1, <2>2
  <2> QED
    BY <1>1, <2>1, <2>3 DEF Sized
<1> QED
  BY <1>2, <1>4, <1>5 DEF Labelling

\* evict_to_capacity, from an exact count.
LEMMA EvictToCapacityFacts ==
    ASSUME NEW ns \in Seq(NodeRecs), NEW total, total = HandleTokens(ns, WithHandle(ns)),
           NEW capacity \in Capacities \cup {NoCapacity},
           EvictToCapacity(ns, total, capacity)
    PROVE  /\ Coldest(ns, Overflow(total, capacity)) \in SUBSET WithHandle(ns)
           /\ nodes' = Cleared(ns, Coldest(ns, Overflow(total, capacity)))
           /\ resident_tokens' = HandleTokens(nodes', WithHandle(nodes'))
           /\ resident_tokens' \in Nat
           /\ capacity # NoCapacity => resident_tokens' <= capacity
<1> DEFINE n == Overflow(total, capacity)
           E == Coldest(ns, n)
<1>1. total \in Nat
  BY CellsFinite
<1>2. capacity # NoCapacity => capacity \in Nat
  BY RadixCacheAssumption
<1>3. n \in Nat /\ n <= total
  BY <1>1, <1>2 DEF Overflow, SaturatingSub
<1>4. nodes' = Cleared(ns, E) /\ resident_tokens' = SaturatingSub(total, HandleTokens(ns, E))
  BY DEF EvictToCapacity
<1>5. E \in SUBSET WithHandle(ns) /\ (E = WithHandle(ns) \/ HandleTokens(ns, E) >= n)
  <2> HIDE DEF n
  <2> QED
    BY <1>3, ColdestFrees
<1>6. PICK freed \in 0..total : freed = HandleTokens(ns, E)
  <2> HIDE DEF E
  <2> QED
    BY <1>5, EvictionCounts
<1>7. /\ SaturatingSub(total, freed) = total - freed
      /\ HandleTokens(Cleared(ns, E), WithHandle(Cleared(ns, E))) = total - freed
  <2> HIDE DEF E
  <2> QED
    BY <1>5, <1>6, EvictionCounts
<1>8. resident_tokens' = total - freed
      /\ resident_tokens' = HandleTokens(nodes', WithHandle(nodes'))
  BY <1>4, <1>6, <1>7
<1>9. freed >= n
  BY <1>3, <1>5, <1>6
<1>10. ASSUME capacity # NoCapacity PROVE resident_tokens' <= capacity
  <2>1. n = SaturatingSub(total, capacity)
    BY <1>10 DEF Overflow
  <2> HIDE DEF n
  <2> QED
    BY <1>1, <1>2, <1>8, <1>9, <1>10, <2>1 DEF SaturatingSub
<1> QED
  BY <1>1, <1>4, <1>5, <1>8, <1>10

-----------------------------------------------------------------------------
(***************************************************************************)
(* insert: the nodes before eviction.                                      *)
(***************************************************************************)
Refreshed(ns, tick) == [ns EXCEPT ![1].last_access_tick = tick]
Into(ns, tick, s) == InsertFrom(Refreshed(ns, tick), tick, s)
WithNew(am, k, tick, h) == [am EXCEPT ![k].handle = h, ![k].last_access_tick = tick]
Placed(at, tick, h) == WithNew(at.nodes, at.node, tick, h)

\* In fs node k, whose text is s, has the handle h; all other handles, ticks and
\* texts are those of ns, but for the tick of the root.
IsPlaced(fs, k, L, ns, T, tick, s, h) ==
    /\ k \in 1..Len(fs) /\ L[k] = s
    /\ fs[k].handle = h /\ fs[k].last_access_tick = tick
    /\ Len(ns) <= Len(fs) /\ \A i \in 1..Len(ns) : L[i] = T[i]
    /\ \A i \in 1..Len(ns) : i # k =>
          /\ fs[i].handle = ns[i].handle
          /\ fs[i].last_access_tick = IF i = 1 THEN tick ELSE ns[i].last_access_tick
    /\ \A i \in (Len(ns) + 1)..Len(fs) : i # k => fs[i].handle = NoHandle

LEMMA RefreshedFacts ==
    ASSUME NEW ns, NEW T, Labelling(ns, T), NEW tick \in Nat
    PROVE  LET ms == Refreshed(ns, tick)
           IN  /\ Tree(ms) /\ Labelled(ms, T) /\ Len(ms) = Len(ns) /\ ms \in Seq(NodeRecs)
               /\ \A i \in 1..Len(ns) :
                     /\ ms[i].handle = ns[i].handle
                     /\ ms[i].last_access_tick = IF i = 1 THEN tick ELSE ns[i].last_access_tick
<1>1. Tree(ns) /\ Labelled(ns, T) /\ ns \in Seq(NodeRecs) /\ Len(ns) \in Nat /\ 1 \in 1..Len(ns)
  BY DEF Labelling, Tree
<1>2. PICK ms : ms = Refreshed(ns, tick)
  OBVIOUS
<1>3. /\ ms[1] = [ns[1] EXCEPT !.last_access_tick = tick]
      /\ \A i \in 1..Len(ns) : i # 1 => ms[i] = ns[i]
  BY <1>1, <1>2 DEF Refreshed
<1>4. /\ ms[1] \in NodeRecs /\ ms[1].edge = ns[1].edge /\ ms[1].children = ns[1].children
      /\ ms[1].handle = ns[1].handle /\ ms[1].last_access_tick = tick
  <2>1. PICK e \in NodeRecs : e = ns[1]
    BY <1>1, NodeTypes
  <2>2. ms[1] = [e EXCEPT !.last_access_tick = tick]
    BY <1>3, <2>1
  <2> QED
    BY <2>1, <2>2 DEF NodeRecs
<1>5. ms \in Seq(NodeRecs) /\ Len(ms) = Len(ns)
  BY <1>1, <1>2, <1>3, <1>4 DEF Refreshed
<1>6. \A i \in 1..Len(ns) : ms[i].edge = ns[i].edge /\ ms[i].children = ns[i].children
  BY <1>3, <1>4
<1>7. Tree(ms) /\ Labelled(ms, T)
  BY <1>1, <1>5, <1>6, SameShape
<1> QED
  BY <1>2, <1>3, <1>4, <1>5, <1>7

HandleSet(fs, am, k, h, tick) ==
    /\ Len(fs) = Len(am) /\ fs \in Seq(NodeRecs)
    /\ fs[k].edge = am[k].edge /\ fs[k].children = am[k].children
    /\ fs[k].handle = h /\ fs[k].last_access_tick = tick
    /\ \A i \in 1..Len(am) : i # k => fs[i] = am[i]

LEMMA HandleSetFacts ==
    ASSUME NEW am \in Seq(NodeRecs), NEW k \in 1..Len(am), NEW h \in Handles,
           NEW tick \in Nat, NEW fs,
           fs = WithNew(am, k, tick, h)
    PROVE  HandleSet(fs, am, k, h, tick)
<1>1. PICK es : es = [am EXCEPT ![k].handle = h]
  OBVIOUS
<1>2. fs = [es EXCEPT ![k].last_access_tick = tick]
  BY <1>1 DEF WithNew
<1>3. es[k] = [am[k] EXCEPT !.handle = h] /\ \A i \in 1..Len(am) : i # k => es[i] = am[i]
  BY <1>1
<1>4. /\ es[k] \in NodeRecs /\ es[k].edge = am[k].edge /\ es[k].children = am[k].children
      /\ es[k].handle = h
  BY <1>3, NodeTypes, ZenonT(40) DEF NodeRecs
<1>5. es \in Seq(NodeRecs) /\ Len(es) = Len(am)
  BY <1>1, <1>3, <1>4
<1>6. /\ fs[k] = [es[k] EXCEPT !.last_access_tick = tick]
      /\ \A i \in 1..Len(am) : i # k => fs[i] = es[i]
  BY <1>2, <1>5
<1>7. /\ fs[k] \in NodeRecs /\ fs[k].edge = es[k].edge /\ fs[k].children = es[k].children
      /\ fs[k].handle = h /\ fs[k].last_access_tick = tick
  BY <1>4, <1>6 DEF NodeRecs
<1>8. fs \in Seq(NodeRecs) /\ Len(fs) = Len(am)
  BY <1>2, <1>5, <1>6, <1>7
<1> QED
  BY <1>3, <1>4, <1>6, <1>7, <1>8 DEF HandleSet

\* The nodes am have the handles of ns, and no others; fs is as long.
OldHandles(am, fs, ns) ==
    /\ am \in Seq(NodeRecs) /\ Len(am) = Len(fs)
    /\ \A i \in 1..Len(fs) :
          am[i].handle = IF i \in 1..Len(ns) THEN ns[i].handle ELSE NoHandle

LEMMA PlacedFacts ==
    ASSUME NEW ns, NEW T, Labelling(ns, T), NEW tick \in Nat, NEW s \in Seq(Tokens),
           NEW h \in Handles, h.token_len = Len(s), NEW at, at = Into(ns, tick, s),
           NEW fs, fs = Placed(at, tick, h)
    PROVE  \E L : /\ Labelling(fs, L) /\ IsPlaced(fs, at.node, L, ns, T, tick, s, h)
                  /\ OldHandles(at.nodes, fs, ns)
<1>1. PICK ms : ms = Refreshed(ns, tick)
  OBVIOUS
<1>2. /\ Tree(ms) /\ Labelled(ms, T) /\ Len(ms) = Len(ns) /\ ms \in Seq(NodeRecs)
      /\ \A i \in 1..Len(ns) :
           /\ ms[i].handle = ns[i].handle
           /\ ms[i].last_access_tick = IF i = 1 THEN tick ELSE ns[i].last_access_tick
  BY <1>1, RefreshedFacts
<1>3. at \in Insertions(ms, T, s) /\ at.tokens = <<>>
  BY <1>1, <1>2, InsertFromFacts DEF Into
<1>4. PICK am, k : am = at.nodes /\ k = at.node
  OBVIOUS
<1>5. /\ Tree(am) /\ k \in 1..Len(am) /\ Carried(am, ms) /\ OnTheWay(at, ms, T, s)
      /\ am \in Seq(NodeRecs)
  BY <1>3, <1>4 DEF Insertions, Tree
<1>6. PICK L : /\ Labelled(am, L) /\ Joined(L[k], <<>>, s)
               /\ \A i \in 1..Len(ns) : L[i] = T[i]
  BY <1>2, <1>3, <1>4, <1>5 DEF OnTheWay
<1>7. L[k] = s
  <2>1. L[k] \in Seq(Tokens)
    BY <1>5, <1>6 DEF Labelled
  <2>2. PICK x \in Seq(Tokens) : x = L[k]
    BY <2>1
  <2>3. Len(<<>>) = 0
    OBVIOUS
  <2>4. Len(s) = Len(x) /\ \A i \in 1..Len(x) : s[i] = x[i]
    BY <1>6, <2>2, <2>3 DEF Joined
  <2> QED
    BY <2>2, <2>4, BeginsEqual DEF Begins
<1>8. /\ Len(fs) = Len(am) /\ fs \in Seq(NodeRecs)
      /\ fs[k].edge = am[k].edge /\ fs[k].children = am[k].children
      /\ fs[k].handle = h /\ fs[k].last_access_tick = tick
      /\ \A i \in 1..Len(am) : i # k => fs[i] = am[i]
  <2>1. fs = WithNew(am, k, tick, h)
    BY <1>4 DEF Placed
  <2>2. HandleSet(fs, am, k, h, tick)
    BY <1>5, <2>1, HandleSetFacts, Zenon
  <2> QED
    BY <2>2 DEF HandleSet
<1>0. /\ Len(ns) \in Nat /\ Len(am) \in Nat /\ Len(ms) = Len(ns) /\ fs \in Seq(NodeRecs)
      /\ Len(fs) = Len(am)
  <2>1. Len(ms) = Len(ns)
    BY <1>2
  <2>2. ns \in Seq(NodeRecs) /\ am \in Seq(NodeRecs)
    BY <1>5 DEF Labelling, Tree
  <2>3. \A x \in Seq(NodeRecs) : Len(x) \in Nat
    OBVIOUS
  <2> QED
    BY <1>8, <2>1, <2>2, <2>3, Zenon
<1>9. Tree(fs) /\ Labelled(fs, L)
  <2>1. \A i \in 1..Len(am) : fs[i].edge = am[i].edge /\ fs[i].children = am[i].children
    BY <1>8
  <2> QED
    BY <1>5, <1>6, <1>8, <2>1, SameShape
<1>10. \A i \in 1..Len(am) : am[i].handle = IF i \in 1..Len(ns) THEN ns[i].handle ELSE NoHandle
  <2>1. Len(ns) \in Nat /\ Len(am) \in Nat /\ Len(ms) = Len(ns)
    BY <1>0
  <2> TAKE i \in 1..Len(am)
  <2>2. CASE i \in 1..Len(ns)
    BY <1>2, <1>5, <2>2 DEF Carried
  <2>3. CASE i \notin 1..Len(ns)
    <3>1. i \in (Len(ms) + 1)..Len(am)
      BY <2>1, <2>3
    <3>2. am[i].handle = NoHandle
      BY <1>5, <3>1 DEF Carried
    <3> QED
      BY <2>3, <3>2
  <2> QED
    BY <2>2, <2>3
<1>11. IsPlaced(fs, k, L, ns, T, tick, s, h)
  <2>1. /\ Len(ns) <= Len(fs) /\ Len(ns) \in Nat /\ Len(fs) \in Nat
        /\ Len(fs) = Len(am)
    BY <1>0, <1>5, <1>8 DEF Carried
  <2>2. ASSUME NEW i \in 1..Len(ns), i # k
        PROVE  /\ fs[i].handle = ns[i].handle
               /\ fs[i].last_access_tick = IF i = 1 THEN tick ELSE ns[i].last_access_tick
    <3>0. i \in 1..Len(am)
      BY <2>1
    <3>1. i \in 1..Len(am) /\ fs[i] = am[i]
      BY <1>8, <2>2, <3>0
    <3>2. am[i].handle = ms[i].handle /\ am[i].last_access_tick = ms[i].last_access_tick
      BY <1>2, <1>5 DEF Carried
    <3> QED
      BY <1>2, <3>1, <3>2
  <2>3. ASSUME NEW i \in (Len(ns) + 1)..Len(fs), i # k PROVE fs[i].handle = NoHandle
    <3>1. i \in 1..Len(am) /\ i \notin 1..Len(ns)
      BY <2>1
    <3> QED
      BY <1>8, <1>10, <2>3, <3>1
  <2> QED
    BY <1>5, <1>6, <1>7, <1>8, <2>1, <2>2, <2>3 DEF IsPlaced
<1>12. Sized(fs, L)
  <2> SUFFICES ASSUME NEW i \in WithHandle(fs) PROVE fs[i].handle.token_len = Len(L[i])
    BY DEF Sized
  <2>1. CASE i = k
    BY <1>7, <1>8, <2>1
  <2>2. CASE i # k
    <3>0. i \in 1..Len(fs) /\ fs[i].handle # NoHandle
      BY <1>0 DEF WithHandle, HasHandle
    <3>1. i \in 1..Len(am) /\ fs[i].handle # NoHandle /\ fs[i] = am[i]
      BY <1>8, <2>2, <3>0
    <3>2. i \in 1..Len(ns) /\ am[i].handle = ns[i].handle
      BY <1>10, <3>1
    <3>3. i \in WithHandle(ns)
      <4>1. ns \in Seq(NodeRecs)
        BY DEF Labelling, Tree
      <4> QED
        BY <3>1, <3>2, <4>1 DEF WithHandle, HasHandle
    <3>4. ns[i].handle.token_len = Len(T[i]) /\ L[i] = T[i]
      BY <1>6, <3>2, <3>3 DEF Labelling, Sized
    <3> QED
      BY <3>1, <3>2, <3>4
  <2> QED
    BY <2>1, <2>2
<1> QED
  BY <1>4, <1>5, <1>8, <1>9, <1>10, <1>11, <1>12 DEF Labelling, OldHandles

\* The count is exact again once the handle is in its place.
LEMMA PlacedCount ==
    ASSUME NEW ns \in Seq(NodeRecs), NEW am \in Seq(NodeRecs), NEW fs \in Seq(NodeRecs),
           NEW k, NEW L, NEW T, NEW tick, NEW s, NEW h \in Handles,
           IsPlaced(fs, k, L, ns, T, tick, s, h), OldHandles(am, fs, ns),
           resident_tokens = HandleTokens(ns, WithHandle(ns))
    PROVE  CountAfter(am[k].handle, h) = HandleTokens(fs, WithHandle(fs))
<1> DEFINE W == WithHandle(ns)
<1>1. h # NoHandle
  BY RadixCacheAssumption DEF Handles
<1>2. /\ k \in 1..Len(fs) /\ fs[k].handle = h
      /\ Len(ns) \in Nat /\ Len(fs) \in Nat /\ Len(ns) <= Len(fs)
  BY DEF IsPlaced
<1>3. DOMAIN ns = 1..Len(ns) /\ DOMAIN fs = 1..Len(fs)
  OBVIOUS
<1>4. ASSUME NEW i \in 1..Len(fs), i # k
      PROVE  fs[i].handle = IF i \in 1..Len(ns) THEN ns[i].handle ELSE NoHandle
  <2>1. CASE i \in 1..Len(ns)
    BY <1>4, <2>1 DEF IsPlaced
  <2>2. CASE i \notin 1..Len(ns)
    <3>1. i \in (Len(ns) + 1)..Len(fs)
      BY <1>2, <2>2
    <3> QED
      BY <1>4, <2>2, <3>1 DEF IsPlaced
  <2> QED
    BY <2>1, <2>2
<1>5. \A i : i \in W <=> i \in 1..Len(ns) /\ ns[i].handle # NoHandle
  BY <1>3 DEF WithHandle, HasHandle
<1>6. \A i : i \in WithHandle(fs) <=> i \in 1..Len(fs) /\ fs[i].handle # NoHandle
  BY <1>3 DEF WithHandle, HasHandle
<1>7. \A i \in 1..Len(ns) : i \in 1..Len(fs)
  BY <1>2
<1>8. WithHandle(fs) = (W \ {k}) \cup {k}
  <2>1. ASSUME NEW i \in WithHandle(fs), i # k PROVE i \in W
    BY <1>4, <1>5, <1>6, <2>1
  <2>2. ASSUME NEW i \in W, i # k PROVE i \in WithHandle(fs)
    BY <1>4, <1>5, <1>6, <1>7, <2>2
  <2>3. k \in WithHandle(fs)
    BY <1>1, <1>2, <1>6
  <2> HIDE DEF W
  <2> QED
    BY <2>1, <2>2, <2>3
<1>9. \A i \in W \ {k} : fs[i].handle = ns[i].handle
  BY <1>4, <1>5, <1>7
<1> HIDE DEF W
<1>10. HandleTokens(fs, W \ {k}) = HandleTokens(ns, W \ {k})
  BY <1>9, HandleTokensSame
<1>11. HandleTokens(fs, WithHandle(fs)) = HandleTokens(ns, W \ {k}) + h.token_len
  <2>1. {k} \in SUBSET WithHandle(fs) /\ WithHandle(fs) \ {k} = W \ {k} /\ k \in WithHandle(fs)
    BY <1>8
  <2>2. HandleTokens(fs, WithHandle(fs) \ {k}) =
           HandleTokens(fs, WithHandle(fs)) - HandleTokens(fs, {k})
    BY <2>1, HandleTokensDifference
  <2>3. HandleTokens(fs, {k}) = h.token_len
    BY <1>2, <2>1, HandleTokensOne
  <2>4. HandleTokens(fs, WithHandle(fs)) \in Nat /\ HandleTokens(fs, {k}) \in Nat
    BY <2>1, CellsFinite
  <2>5. PICK x \in Nat, y \in Nat : x = HandleTokens(fs, WithHandle(fs)) /\ y = HandleTokens(fs, {k})
    BY <2>4
  <2>6. HandleTokens(ns, W \ {k}) = x - y
    BY <1>10, <2>1, <2>2, <2>5, Zenon
  <2>7. x = (x - y) + y
    OBVIOUS
  <2> QED
    BY <2>3, <2>5, <2>6, <2>7, Zenon
<1>12. h.token_len \in Nat /\ resident_tokens \in Nat
  BY CellsFinite DEF Handles
<1>13. CASE k \in W
  <2>1. am[k].handle = ns[k].handle /\ ns[k].handle # NoHandle
    BY <1>2, <1>5, <1>13 DEF OldHandles
  <2>2. /\ HandleTokens(ns, W \ {k}) = HandleTokens(ns, W) - HandleTokens(ns, {k})
        /\ HandleTokens(ns, {k}) <= HandleTokens(ns, W)
    BY <1>13, HandleTokensDifference DEF W
  <2>3. HandleTokens(ns, {k}) = ns[k].handle.token_len /\ ns[k].handle.token_len \in Nat
    BY <1>13, HandleTokensOne, HandleTypes DEF W
  <2>4. PICK x \in Nat : x = ns[k].handle.token_len
    BY <2>3
  <2>5. /\ x <= resident_tokens /\ HandleTokens(ns, W \ {k}) = resident_tokens - x
    BY <2>2, <2>3, <2>4 DEF W
  <2>6. CountAfter(am[k].handle, h) = h.token_len + (resident_tokens - x)
    BY <1>12, <2>1, <2>4, <2>5 DEF CountAfter, SaturatingSub
  <2> QED
    BY <1>11, <1>12, <2>5, <2>6
<1>14. CASE k \notin W
  <2>1. am[k].handle = NoHandle
    BY <1>2, <1>5, <1>14 DEF OldHandles
  <2>2. W \ {k} = W
    BY <1>14
  <2>3. CountAfter(am[k].handle, h) = h.token_len + resident_tokens
    BY <2>1 DEF CountAfter
  <2>4. resident_tokens = HandleTokens(ns, W)
    BY DEF W
  <2>5. HandleTokens(fs, WithHandle(fs)) = resident_tokens + h.token_len
    BY <1>11, <2>2, <2>4, Zenon
  <2> QED
    BY <1>12, <2>3, <2>5
<1> QED
  BY <1>13, <1>14

-----------------------------------------------------------------------------
LEMMA InitHolds == Init => CacheInv
<1> SUFFICES ASSUME Init PROVE CacheInv
  OBVIOUS
<1> DEFINE root == Node(<<>>, <<>>, 0)
           T == [i \in 1..1 |-> <<>>]
<1>1. root \in NodeRecs /\ root.edge = <<>> /\ root.children = <<>> /\ root.handle = NoHandle
  <2>1. <<>> \in Seq(Tokens) /\ <<>> \in Maps /\ 0 \in Nat
    BY NoChildren
  <2> QED
    BY <2>1 DEF Node, NodeRecs
<1>2. DOMAIN root.children = {}
  BY <1>1, NoChildren
<1>3. nodes = <<root>>
  BY DEF Init
<1> HIDE DEF root
<1>4. nodes \in Seq(NodeRecs) /\ Len(nodes) = 1 /\ nodes[1] = root
  BY <1>1, <1>3
<1>5. \A i \in 1..Len(nodes) : i = 1
  BY <1>4
<1>6. \A i \in 1..Len(nodes) : Links(nodes, i) = {}
  BY <1>2, <1>4, <1>5 DEF Links
<1>7. Tree(nodes)
  <2>1. LinksLead(nodes)
    BY <1>6 DEF LinksLead
  <2>2. HaveParents(nodes)
    BY <1>4 DEF HaveParents
  <2>3. OneParent(nodes)
    BY <1>6 DEF OneParent
  <2> QED
    BY <1>4, <2>1, <2>2, <2>3 DEF Tree
<1>8. T \in [1..Len(nodes) -> Seq(Tokens)] /\ T[1] = <<>> /\ Len(T[1]) = 0
  <2>1. <<>> \in Seq(Tokens) /\ Len(<<>>) = 0
    OBVIOUS
  <2> QED
    BY <1>4, <2>1
<1> HIDE DEF T
<1>9. Labelled(nodes, T)
  <2>1. Spelled(nodes, T)
    BY <1>6 DEF Spelled
  <2>2. Distinct(nodes, T)
    BY <1>5 DEF Distinct
  <2>3. Branching(nodes, T)
    <3> SUFFICES ASSUME NEW i \in 1..Len(nodes), NEW j \in 1..Len(nodes), Before(T[i], T[j])
                 PROVE  FALSE
      BY DEF Branching
    <3> QED
      BY <1>5, <1>8 DEF Before
  <2> QED
    BY <1>8, <2>1, <2>2, <2>3 DEF Labelled
<1>10. WithHandle(nodes) = {}
  BY <1>1, <1>4, <1>5 DEF WithHandle, HasHandle
<1>11. Labelling(nodes, T)
  BY <1>7, <1>9, <1>10 DEF Labelling, Sized
<1>12. HandleTokens(nodes, {}) = 0
  BY FS_EmptySet DEF HandleTokens
<1>13. ResidentExact /\ WithinCapacity /\ CacheTypes
  BY <1>10, <1>12 DEF Init, ResidentExact, WithinCapacity, CacheTypes
<1> QED
  BY <1>11, <1>13 DEF CacheInv

LEMMA InsertKeeps ==
    ASSUME CacheInv, NEW s \in Texts, Insert(s)
    PROVE  CacheInv'
<1> DEFINE tick == clock + 1
           h == [block_id |-> clock, token_len |-> Len(s)]
           at == Into(nodes, tick, s)
           fs == Placed(at, tick, h)
           total == CountAfter(at.nodes[at.node].handle, h)
<1>1. PICK T : Labelling(nodes, T)
  BY DEF CacheInv
<1>2. /\ s \in Seq(Tokens) /\ tick \in Nat /\ h \in Handles /\ h.token_len = Len(s)
      /\ nodes \in Seq(NodeRecs)
  <2>1. s \in Seq(Tokens) /\ clock \in Nat
    BY TextType DEF CacheInv, CacheTypes
  <2>2. tick \in Nat /\ Len(s) \in Nat /\ nodes \in Seq(NodeRecs)
    BY <1>1, <2>1 DEF Labelling, Tree
  <2> QED
    BY <2>1, <2>2 DEF Handles
<1>3. EvictToCapacity(fs, total, capacity_tokens) /\ UNCHANGED capacity_tokens /\ clock' = tick
  BY DEF Insert, Into, Refreshed, Placed, WithNew
<1> HIDE DEF tick, h, at, fs, total
<1>4. PICK L : /\ Labelling(fs, L) /\ IsPlaced(fs, at.node, L, nodes, T, tick, s, h)
               /\ OldHandles(at.nodes, fs, nodes)
  <2>1. at = Into(nodes, tick, s) /\ fs = Placed(at, tick, h)
    BY DEF at, fs
  <2> QED
    BY <1>1, <1>2, <2>1, PlacedFacts, Zenon
<1>5. fs \in Seq(NodeRecs) /\ resident_tokens = HandleTokens(nodes, WithHandle(nodes))
  BY <1>4 DEF Labelling, Tree, CacheInv, ResidentExact
<1>6. total = HandleTokens(fs, WithHandle(fs))
  <2>1. at.nodes \in Seq(NodeRecs)
    BY <1>4 DEF OldHandles
  <2>2. PICK am, k : am = at.nodes /\ k = at.node
    OBVIOUS
  <2>3. /\ am \in Seq(NodeRecs) /\ OldHandles(am, fs, nodes)
        /\ IsPlaced(fs, k, L, nodes, T, tick, s, h)
    BY <1>4, <2>1, <2>2
  <2>4. nodes \in Seq(NodeRecs) /\ h \in Handles
    BY <1>2
  <2>5. CountAfter(am[k].handle, h) = HandleTokens(fs, WithHandle(fs))
    BY <1>5, <2>3, <2>4, PlacedCount
  <2> QED
    BY <2>2, <2>5 DEF total
<1>7. capacity_tokens \in Capacities \cup {NoCapacity}
  BY DEF CacheInv, CacheTypes
<1>8. PICK E \in SUBSET WithHandle(fs) :
         /\ nodes' = Cleared(fs, E)
         /\ resident_tokens' = HandleTokens(nodes', WithHandle(nodes')) /\ resident_tokens' \in Nat
         /\ capacity_tokens # NoCapacity => resident_tokens' <= capacity_tokens
  BY <1>3, <1>5, <1>6, <1>7, EvictToCapacityFacts
<1>9. Labelling(nodes', L)
  BY <1>4, <1>8, ClearedLabelling
<1> QED
  BY <1>2, <1>3, <1>7, <1>8, <1>9 DEF CacheInv, CacheTypes, ResidentExact, WithinCapacity

\* Refreshing the ticks of some nodes changes nothing else.
TicksSet(ms, ns, V, tick) ==
    /\ ms \in Seq(NodeRecs) /\ Len(ms) = Len(ns)
    /\ \A i \in 1..Len(ns) :
          /\ ms[i].edge = ns[i].edge /\ ms[i].children = ns[i].children
          /\ ms[i].handle = ns[i].handle
          /\ ms[i].last_access_tick = IF i \in V THEN tick ELSE ns[i].last_access_tick
    /\ WithHandle(ms) = WithHandle(ns)

LEMMA TicksSetFacts ==
    ASSUME NEW ns \in Seq(NodeRecs), NEW V, NEW tick \in Nat, NEW ms,
           ms = [i \in DOMAIN ns |-> IF i \in V THEN [ns[i] EXCEPT !.last_access_tick = tick]
                                     ELSE ns[i]]
    PROVE  TicksSet(ms, ns, V, tick)
<1>1. DOMAIN ns = 1..Len(ns) /\ Len(ns) \in Nat
  OBVIOUS
<1>2. ASSUME NEW i \in 1..Len(ns)
      PROVE  /\ ms[i] \in NodeRecs
             /\ ms[i].edge = ns[i].edge /\ ms[i].children = ns[i].children
             /\ ms[i].handle = ns[i].handle
             /\ ms[i].last_access_tick = IF i \in V THEN tick ELSE ns[i].last_access_tick
  <2>1. ns[i] \in NodeRecs
    OBVIOUS
  <2>2. CASE i \in V
    <3>1. ms[i] = [ns[i] EXCEPT !.last_access_tick = tick]
      BY <2>2
    <3> QED
      BY <2>1, <2>2, <3>1 DEF NodeRecs
  <2>3. CASE i \notin V
    <3>1. ms[i] = ns[i]
      BY <2>3
    <3> QED
      BY <2>1, <2>3, <3>1
  <2> QED
    BY <2>2, <2>3
<1>3. ms \in [1..Len(ns) -> NodeRecs]
  BY <1>1, <1>2
<1>4. ms \in Seq(NodeRecs) /\ Len(ms) = Len(ns) /\ DOMAIN ms = 1..Len(ns)
  BY <1>1, <1>3
<1>5. WithHandle(ms) = WithHandle(ns)
  BY <1>1, <1>2, <1>4 DEF WithHandle, HasHandle
<1> QED
  BY <1>2, <1>4, <1>5 DEF TicksSet

LEMMA LookupKeeps ==
    ASSUME CacheInv, NEW s \in Texts, Lookup(s)
    PROVE  CacheInv'
<1>1. PICK T : Labelling(nodes, T)
  BY DEF CacheInv
<1>2. /\ nodes \in Seq(NodeRecs) /\ Tree(nodes) /\ Labelled(nodes, T) /\ Sized(nodes, T)
      /\ clock + 1 \in Nat
  BY <1>1 DEF Labelling, Tree, CacheInv, CacheTypes
<1>0. PICK tick \in Nat : tick = clock + 1
  BY <1>2
<1>3. PICK ns, V : ns = nodes /\ V = Walk(nodes, s).visited
  OBVIOUS
<1>4. PICK ms : ms = nodes'
  OBVIOUS
<1>5. TicksSet(ms, ns, V, tick)
  <2>1. ms = [i \in DOMAIN ns |-> IF i \in V THEN [ns[i] EXCEPT !.last_access_tick = tick]
                                  ELSE ns[i]]
    BY <1>0, <1>3, <1>4 DEF Lookup
  <2>2. ns \in Seq(NodeRecs)
    BY <1>2, <1>3
  <2> QED
    BY <2>1, <2>2, TicksSetFacts, Zenon
<1>6. Tree(ms) /\ Labelled(ms, T)
  BY <1>2, <1>3, <1>5, SameShape DEF TicksSet
<1>7. \A i \in WithHandle(ns) : ms[i].handle = ns[i].handle
  BY <1>2, <1>3, <1>5, HandleTypes DEF TicksSet
<1>8. Sized(ms, T)
  BY <1>2, <1>3, <1>5, <1>7 DEF Sized, TicksSet
<1>9. HandleTokens(ms, WithHandle(ms)) = HandleTokens(ns, WithHandle(ns))
  BY <1>5, <1>7, HandleTokensSame DEF TicksSet
<1>10. Labelling(nodes', T)
  BY <1>4, <1>6, <1>8 DEF Labelling
<1>11. ResidentExact'
  BY <1>3, <1>4, <1>9 DEF CacheInv, ResidentExact, Lookup
<1> QED
  BY <1>2, <1>10, <1>11 DEF CacheInv, CacheTypes, WithinCapacity, Lookup

LEMMA SetCapacityKeeps ==
    ASSUME CacheInv, NEW c \in Capacities \cup {NoCapacity}, SetCapacity(c)
    PROVE  CacheInv'
<1>1. PICK T : Labelling(nodes, T)
  BY DEF CacheInv
<1>2. nodes \in Seq(NodeRecs) /\ resident_tokens = HandleTokens(nodes, WithHandle(nodes))
  BY <1>1 DEF Labelling, Tree, CacheInv, ResidentExact
<1>3. EvictToCapacity(nodes, resident_tokens, c) /\ capacity_tokens' = c /\ UNCHANGED clock
  BY DEF SetCapacity
<1>4. PICK E \in SUBSET WithHandle(nodes) :
         /\ nodes' = Cleared(nodes, E)
         /\ resident_tokens' = HandleTokens(nodes', WithHandle(nodes')) /\ resident_tokens' \in Nat
         /\ c # NoCapacity => resident_tokens' <= c
  BY <1>2, <1>3, EvictToCapacityFacts
<1>5. Labelling(nodes', T)
  BY <1>1, <1>4, ClearedLabelling
<1> QED
  BY <1>3, <1>4, <1>5 DEF CacheInv, CacheTypes, ResidentExact, WithinCapacity

LEMMA EvictColdestKeeps ==
    ASSUME CacheInv, NEW n \in Capacities, EvictColdest(n)
    PROVE  CacheInv'
<1> DEFINE E == Coldest(nodes, n)
<1>1. PICK T : Labelling(nodes, T)
  BY DEF CacheInv
<1>2. nodes \in Seq(NodeRecs) /\ resident_tokens = HandleTokens(nodes, WithHandle(nodes))
  BY <1>1 DEF Labelling, Tree, CacheInv, ResidentExact
<1>3. /\ nodes' = Cleared(nodes, E) /\ UNCHANGED <<capacity_tokens, clock>>
      /\ resident_tokens' = SaturatingSub(resident_tokens, HandleTokens(nodes, E))
  BY DEF EvictColdest
<1>4. n \in Nat
  BY RadixCacheAssumption
<1>5. E \in SUBSET WithHandle(nodes)
  BY <1>2, <1>4, ColdestFrees
<1> HIDE DEF E
<1>6. /\ HandleTokens(nodes, E) \in 0..resident_tokens
      /\ resident_tokens' = resident_tokens - HandleTokens(nodes, E)
      /\ HandleTokens(nodes', WithHandle(nodes')) = resident_tokens - HandleTokens(nodes, E)
  BY <1>2, <1>3, <1>5, EvictionCounts
<1>7. Labelling(nodes', T)
  BY <1>1, <1>3, <1>5, ClearedLabelling
<1>8. resident_tokens \in Nat /\ resident_tokens' \in Nat /\ resident_tokens' <= resident_tokens
  BY <1>6 DEF CacheInv, CacheTypes
<1>9. WithinCapacity'
  <2>1. capacity_tokens # NoCapacity => capacity_tokens \in Nat
    BY RadixCacheAssumption DEF CacheInv, CacheTypes
  <2> QED
    BY <1>3, <1>8, <2>1 DEF CacheInv, WithinCapacity
<1> QED
  BY <1>3, <1>6, <1>7, <1>8, <1>9 DEF CacheInv, CacheTypes, ResidentExact

LEMMA NextKeeps ==
    CacheInv /\ [Next]_vars => CacheInv'
<1> SUFFICES ASSUME CacheInv, [Next]_vars PROVE CacheInv'
  OBVIOUS
<1>1. ASSUME NEW s \in Texts, Lookup(s) PROVE CacheInv'
  BY <1>1, LookupKeeps
<1>2. ASSUME NEW s \in Texts, Insert(s) PROVE CacheInv'
  BY <1>2, InsertKeeps
<1>3. ASSUME NEW c \in Capacities \cup {NoCapacity}, SetCapacity(c) PROVE CacheInv'
  BY <1>3, SetCapacityKeeps
<1>4. ASSUME NEW n \in Capacities, EvictColdest(n) PROVE CacheInv'
  BY <1>4, EvictColdestKeeps
<1>5. CASE UNCHANGED vars
  BY <1>5 DEF vars, CacheInv, CacheTypes, ResidentExact, WithinCapacity
<1> QED
  BY <1>1, <1>2, <1>3, <1>4, <1>5 DEF Next

\* The cache's nodes always form a tree whose nodes stand for distinct texts,
\* the counter is exact and within the capacity.
THEOREM CacheInvariance == Spec => []CacheInv
BY InitHolds, NextKeeps, PTL DEF Spec

LEMMA TreeFacts == CacheInv => TreeWellFormed
<1> SUFFICES ASSUME CacheInv PROVE TreeWellFormed
  OBVIOUS
<1>1. PICK ns : ns = nodes
  OBVIOUS
<1>2. Tree(ns) /\ ns \in Seq(NodeRecs) /\ DOMAIN ns = 1..Len(ns) /\ Len(ns) \in Nat
  BY <1>1 DEF CacheInv, Labelling, Tree
<1>3. ASSUME NEW i \in 1..Len(ns), NEW t \in DOMAIN ns[i].children
      PROVE  LET c == ns[i].children[t]
             IN  c \in 2..Len(ns) /\ ns[c].edge # <<>> /\ Head(ns[c].edge) = t
  <2>1. PICK c : c = ns[i].children[t]
    OBVIOUS
  <2>2. c \in 2..Len(ns) /\ Len(ns[c].edge) > 0 /\ ns[c].edge[1] = t
    BY <1>2, <2>1 DEF Tree, LinksLead, Links
  <2>3. c \in 1..Len(ns)
    BY <1>2, <2>2
  <2>4. PICK e \in Seq(Tokens) : e = ns[c].edge
    BY <1>2, <2>3, NodeTypes
  <2>5. Len(e) > 0 /\ e[1] = t
    BY <2>2, <2>4
  <2>6. e # <<>> /\ Head(e) = t
    BY <2>5
  <2> QED
    BY <2>1, <2>2, <2>4, <2>6
<1>4. ASSUME NEW c \in 2..Len(ns)
      PROVE  Cardinality({i \in DOMAIN ns : c \in Children(ns, i)}) = 1
  <2>1. PICK p \in 1..Len(ns) : \E t \in Links(ns, p) : ns[p].children[t] = c
    BY <1>2 DEF Tree, HaveParents
  <2>2. \A i : c \in Children(ns, i) <=> \E t \in Links(ns, i) : ns[i].children[t] = c
    BY DEF Children, Links
  <2>3. \A i \in 1..Len(ns) : c \in Children(ns, i) => i = p
    BY <1>2, <2>1, <2>2 DEF Tree, OneParent
  <2>4. {i \in DOMAIN ns : c \in Children(ns, i)} = {p}
    BY <1>2, <2>1, <2>2, <2>3
  <2>5. Cardinality({p}) = 1
    BY FS_Singleton
  <2> QED
    BY <2>4, <2>5
<1> QED
  BY <1>1, <1>2, <1>3, <1>4 DEF TreeWellFormed

\* The vector of nodes stays a compressed trie (insert, split_child).
THEOREM TreeStaysWellFormed == Spec => []TreeWellFormed
BY CacheInvariance, TreeFacts, PTL

\* resident_tokens is the number of tokens of the handles in the tree, through
\* replacements, splits and evictions.
THEOREM ResidentIsExact == Spec => []ResidentExact
<1>1. CacheInv => ResidentExact
  BY DEF CacheInv
<1> QED
  BY <1>1, CacheInvariance, PTL

\* evict_to_capacity keeps a cache with a limit within it.
THEOREM CapacityIsKept == Spec => []WithinCapacity
<1>1. CacheInv => WithinCapacity
  BY DEF CacheInv
<1> QED
  BY <1>1, CacheInvariance, PTL

-----------------------------------------------------------------------------
(***************************************************************************)
(* The trie implements the map of PrefixMapSpec.  The texts that label the *)
(* nodes in CacheInv are the refinement mapping.                           *)
(***************************************************************************)

-----------------------------------------------------------------------------
(***************************************************************************)
(* The text of a node, and the map that the nodes stand for.               *)
(***************************************************************************)

\* A text and the edge after it.
LEMMA JoinedConcat ==
    ASSUME NEW s \in Seq(Tokens), NEW e \in Seq(Tokens), NEW t \in Seq(Tokens),
           Joined(s, e, t)
    PROVE  t = s \o e
<1>0. s \o e \in Seq(Tokens)
  OBVIOUS
<1>1. PICK u \in Seq(Tokens) : u = s \o e
  BY <1>0, Zenon
<1>2. PICK k \in Nat, m \in Nat : k = Len(s) /\ m = Len(e)
  OBVIOUS
<1>3. /\ Len(u) = k + m /\ \A i \in 1..k : u[i] = s[i]
      /\ \A i \in 1..m : u[k + i] = e[i]
  BY <1>1, <1>2
<1>4. /\ Len(t) = k + m /\ \A i \in 1..k : t[i] = s[i]
      /\ \A i \in 1..m : t[k + i] = e[i]
  BY <1>2 DEF Joined
<1>5. ASSUME NEW i \in 1..Len(t) PROVE t[i] = u[i]
  <2>1. CASE i \in 1..k
    BY <1>3, <1>4, <2>1
  <2>2. CASE i \notin 1..k
    <3>1. i - k \in 1..m /\ k + (i - k) = i
      BY <1>4, <2>2
    <3> QED
      BY <1>3, <1>4, <3>1
  <2> QED
    BY <2>1, <2>2
<1> QED
  BY <1>1, <1>3, <1>4, <1>5, BeginsEqual, SMTT(20) DEF Begins

\* The texts of an invariant's labelling are the ones that the edges spell.
LEMMA TextOfNode ==
    ASSUME NEW ns, NEW T, Tree(ns), Labelled(ns, T), NEW i \in 1..Len(ns)
    PROVE  TextOf(ns, i) = T[i]
<1> DEFINE par(j) == CHOOSE p \in DOMAIN ns : j \in Children(ns, p)
           text == CHOOSE text :
                       text = [j \in DOMAIN ns |-> IF j = 1 THEN <<>>
                                                   ELSE text[par(j)] \o ns[j].edge]
<1>1. TextOf(ns, i) = text[i]
  BY DEF TextOf
<1>2. /\ DOMAIN ns = 1..Len(ns) /\ ns \in Seq(NodeRecs) /\ Len(ns) \in Nat
      /\ T \in [1..Len(ns) -> Seq(Tokens)] /\ Len(T[1]) = 0 /\ 1 \in 1..Len(ns)
  BY DEF Tree, Labelled
<1>3. T[1] = <<>>
  BY <1>2
<1>4. ASSUME NEW j \in 1..Len(ns), j # 1
      PROVE  /\ par(j) \in 1..Len(ns) /\ Len(T[par(j)]) < Len(T[j])
             /\ T[j] = T[par(j)] \o ns[j].edge
  <2>1. \E p \in DOMAIN ns : j \in Children(ns, p)
    <3>1. j \in 2..Len(ns)
      BY <1>2, <1>4
    <3> QED
      BY <1>2, <3>1 DEF Tree, HaveParents, Children, Links
  <2>2. PICK p : p = par(j)
    OBVIOUS
  <2>3. p \in 1..Len(ns) /\ j \in Children(ns, p)
    BY <1>2, <2>1, <2>2
  <2>4. PICK t \in Links(ns, p) : ns[p].children[t] = j
    BY <2>3 DEF Children, Links
  <2>5. Joined(T[p], ns[j].edge, T[j]) /\ Len(ns[j].edge) > 0
    BY <2>3, <2>4 DEF Labelled, Spelled, Tree, LinksLead
  <2>6. PICK e \in Seq(Tokens) : e = ns[j].edge
    BY <1>2, NodeTypes
  <2>7. PICK x \in Seq(Tokens), y \in Seq(Tokens) : x = T[p] /\ y = T[j]
    BY <1>2, <2>3
  <2>8. Joined(x, e, y) /\ Len(e) > 0
    BY <2>5, <2>6, <2>7
  <2>9. y = x \o e /\ Len(x) < Len(y)
    <3>1. y = x \o e
      BY <2>8, JoinedConcat
    <3> QED
      BY <2>8, <3>1 DEF Joined
  <2> QED
    BY <2>2, <2>3, <2>6, <2>7, <2>9
<1> HIDE DEF par
<1>5. T = [j \in DOMAIN ns |-> IF j = 1 THEN <<>> ELSE T[par(j)] \o ns[j].edge]
  BY <1>2, <1>3, <1>4, Zenon
<1>6. text = [j \in DOMAIN ns |-> IF j = 1 THEN <<>> ELSE text[par(j)] \o ns[j].edge]
  <2>1. \E f : f = [j \in DOMAIN ns |-> IF j = 1 THEN <<>> ELSE f[par(j)] \o ns[j].edge]
    BY <1>5, Zenon
  <2> QED
    BY <2>1, Zenon
<1> HIDE DEF text
\* A node at which the two differ, with a text as short as possible.
<1>7. ASSUME NEW d \in 1..Len(ns), text[d] # T[d] PROVE FALSE
  <2> DEFINE Bad == {l \in Nat : \E j \in 1..Len(ns) : text[j] # T[j] /\ l = Len(T[j])}
  <2>0. \A j \in 1..Len(ns) : Len(T[j]) \in Nat
    BY <1>2
  <2>1. Bad \in SUBSET Nat /\ Bad # {}
    BY <1>7, <2>0
  <2>2. PICK l \in Bad : \A m \in Bad : l <= m
    <3> HIDE DEF Bad
    <3> QED
      BY <2>1, LeastNumber
  <2>3. PICK j \in 1..Len(ns) : text[j] # T[j] /\ l = Len(T[j])
    BY <2>2
  <2>4. j # 1
    BY <1>2, <1>3, <1>6, <2>3, Zenon
  <2>5. PICK p : p = par(j)
    OBVIOUS
  <2>6. p \in 1..Len(ns) /\ Len(T[p]) < Len(T[j]) /\ T[j] = T[p] \o ns[j].edge
    BY <1>4, <2>4, <2>5
  <2>7. text[j] = text[p] \o ns[j].edge
    BY <1>2, <1>6, <2>4, <2>5, Zenon
  <2>8. text[p] # T[p]
    BY <2>3, <2>6, <2>7
  <2>9. Len(T[p]) \in Bad
    BY <2>0, <2>6, <2>8
  <2> HIDE DEF Bad
  <2>10. PICK x \in Nat, y \in Nat : x = Len(T[p]) /\ y = Len(T[j])
    BY <2>0, <2>6
  <2>11. y <= x /\ x < y
    BY <2>2, <2>3, <2>6, <2>9, <2>10
  <2> QED
    BY <2>11
<1> QED
  BY <1>1, <1>7

\* The texts of some of the nodes.
Labels(T, S) == {T[i] : i \in S}

\* The map m, of entries e and ticks a, has one entry for each node with a
\* handle.
Entries(m, e, a, ns, T, tick, capacity) ==
    /\ m = [entries |-> e, last_access |-> a, clock |-> tick, capacity |-> capacity]
    /\ e = [s \in Labels(T, WithHandle(ns)) |-> e[s]]
    /\ a = [s \in Labels(T, WithHandle(ns)) |-> a[s]]
    /\ \A i \in WithHandle(ns) : e[T[i]] = ns[i].handle.block_id
    /\ \A i \in WithHandle(ns) : a[T[i]] = ns[i].last_access_tick

IsMapOf(m, ns, T, tick, capacity) == \E e, a : Entries(m, e, a, ns, T, tick, capacity)

LEMMA TextsDiffer ==
    ASSUME NEW ns, NEW T, Labelling(ns, T), NEW i \in 1..Len(ns), NEW j \in 1..Len(ns),
           T[i] = T[j]
    PROVE  i = j
<1>1. T[i] \in Seq(Tokens)
  BY DEF Labelling, Labelled
<1>2. Begins(T[i], T[j]) /\ Len(T[i]) = Len(T[j])
  BY <1>1 DEF Begins
<1> QED
  BY <1>2 DEF Labelling, Labelled, Distinct

LEMMA LabelTypes ==
    ASSUME NEW ns, NEW T, Labelling(ns, T)
    PROVE  /\ ns \in Seq(NodeRecs) /\ Len(ns) \in Nat /\ DOMAIN ns = 1..Len(ns)
           /\ 1 \in 1..Len(ns)
           /\ \A i \in 1..Len(ns) : T[i] \in Seq(Tokens) /\ Len(T[i]) \in Nat
           /\ \A i \in WithHandle(ns) : i \in 1..Len(ns)
           /\ \A i \in 1..Len(ns) : T[i] = <<>> <=> i = 1
<1>1. /\ ns \in Seq(NodeRecs) /\ Len(ns) \in Nat /\ DOMAIN ns = 1..Len(ns)
      /\ 1 \in 1..Len(ns)
  BY DEF Labelling, Tree
<1>2. \A i \in 1..Len(ns) : T[i] \in Seq(Tokens) /\ Len(T[i]) \in Nat
  BY DEF Labelling, Labelled
<1>3. \A i \in WithHandle(ns) : i \in 1..Len(ns)
  BY <1>1 DEF WithHandle
<1>4. T[1] = <<>>
  <2>1. Len(T[1]) = 0
    BY DEF Labelling, Labelled
  <2> QED
    BY <1>1, <1>2, <2>1
<1>5. ASSUME NEW i \in 1..Len(ns), T[i] = <<>> PROVE i = 1
  BY <1>1, <1>4, <1>5, TextsDiffer
<1> QED
  BY <1>1, <1>2, <1>3, <1>4, <1>5

LEMMA MapOfNodes ==
    ASSUME NEW ns, NEW T, Labelling(ns, T), NEW tick, NEW capacity
    PROVE  IsMapOf(MapOf(ns, tick, capacity), ns, T, tick, capacity)
<1> DEFINE W == WithHandle(ns)
           C == Labels(T, W)
           e == [s \in CachedTexts(ns) |-> ns[Entry(ns, s)].handle.block_id]
           a == [s \in CachedTexts(ns) |-> ns[Entry(ns, s)].last_access_tick]
<1>1. \A i \in W : i \in 1..Len(ns) /\ TextOf(ns, i) = T[i]
  BY LabelTypes, TextOfNode DEF Labelling
<1>2. CachedTexts(ns) = C
  <2> HIDE DEF W
  <2> QED
    BY <1>1 DEF CachedTexts, W, Labels
<1>3. ASSUME NEW i \in W PROVE Entry(ns, T[i]) = i /\ T[i] \in C
  <2>1. PICK s : s = T[i]
    OBVIOUS
  <2>2. \A j \in W : TextOf(ns, j) = s => j = i
    BY <1>1, <2>1, TextsDiffer
  <2>3. i \in W /\ TextOf(ns, i) = s
    BY <1>1, <2>1
  <2>4. Entry(ns, s) \in W /\ TextOf(ns, Entry(ns, s)) = s
    BY <2>3, Zenon DEF Entry, W
  <2> QED
    BY <2>1, <2>2, <2>4 DEF Labels
<1>4. e = [s \in C |-> e[s]] /\ a = [s \in C |-> a[s]]
  BY <1>2
<1>5. \A i \in W : e[T[i]] = ns[i].handle.block_id
  BY <1>2, <1>3
<1>6. \A i \in W : a[T[i]] = ns[i].last_access_tick
  BY <1>2, <1>3
<1>7. MapOf(ns, tick, capacity) =
         [entries |-> e, last_access |-> a, clock |-> tick, capacity |-> capacity]
  BY DEF MapOf
<1> HIDE DEF e, a
<1>8. Entries(MapOf(ns, tick, capacity), e, a, ns, T, tick, capacity)
  BY <1>4, <1>5, <1>6, <1>7, Zenon DEF Entries
<1> QED
  BY <1>8, Zenon DEF IsMapOf

LEMMA MapsEqual ==
    ASSUME NEW m, NEW n, NEW ns, NEW T, NEW tick, NEW capacity,
           IsMapOf(m, ns, T, tick, capacity), IsMapOf(n, ns, T, tick, capacity)
    PROVE  m = n
<1> DEFINE C == Labels(T, WithHandle(ns))
<1>1. PICK e, a : Entries(m, e, a, ns, T, tick, capacity)
  BY Zenon DEF IsMapOf
<1>2. PICK f, b : Entries(n, f, b, ns, T, tick, capacity)
  BY Zenon DEF IsMapOf
<1>3. \A s \in C : e[s] = f[s] /\ a[s] = b[s]
  <2> SUFFICES ASSUME NEW i \in WithHandle(ns) PROVE e[T[i]] = f[T[i]] /\ a[T[i]] = b[T[i]]
    BY DEF Labels
  <2>1. /\ e[T[i]] = ns[i].handle.block_id /\ f[T[i]] = ns[i].handle.block_id
        /\ a[T[i]] = ns[i].last_access_tick /\ b[T[i]] = ns[i].last_access_tick
    BY <1>1, <1>2, Zenon DEF Entries
  <2> QED
    BY <2>1, Zenon
<1>4. /\ e = [s \in C |-> e[s]] /\ f = [s \in C |-> f[s]]
      /\ a = [s \in C |-> a[s]] /\ b = [s \in C |-> b[s]]
  BY <1>1, <1>2, Zenon DEF Entries
<1> HIDE DEF C
<1>5. e = f /\ a = b
  BY <1>3, <1>4
<1>6. /\ m = [entries |-> e, last_access |-> a, clock |-> tick, capacity |-> capacity]
      /\ n = [entries |-> f, last_access |-> b, clock |-> tick, capacity |-> capacity]
  BY <1>1, <1>2, Zenon DEF Entries
<1> QED
  BY <1>5, <1>6, Zenon

LEMMA MapParts ==
    ASSUME NEW m, NEW ns, NEW T, NEW tick, NEW capacity, IsMapOf(m, ns, T, tick, capacity)
    PROVE  /\ m.clock = tick /\ m.capacity = capacity
           /\ Abstract!Cached(m) = Labels(T, WithHandle(ns))
           /\ \A i \in WithHandle(ns) : m.entries[T[i]] = ns[i].handle.block_id
           /\ \A i \in WithHandle(ns) : m.last_access[T[i]] = ns[i].last_access_tick
<1>1. PICK e, a : Entries(m, e, a, ns, T, tick, capacity)
  BY Zenon DEF IsMapOf
<1>0. m = [entries |-> e, last_access |-> a, clock |-> tick, capacity |-> capacity]
  BY <1>1, Zenon DEF Entries
<1>2. m.entries = e /\ m.last_access = a /\ m.clock = tick /\ m.capacity = capacity
  BY <1>0
<1>3. DOMAIN e = Labels(T, WithHandle(ns))
  <2>1. e = [s \in Labels(T, WithHandle(ns)) |-> e[s]]
    BY <1>1, Zenon DEF Entries
  <2> QED
    BY <2>1
<1>4. /\ \A i \in WithHandle(ns) : e[T[i]] = ns[i].handle.block_id
      /\ \A i \in WithHandle(ns) : a[T[i]] = ns[i].last_access_tick
  BY <1>1, Zenon DEF Entries
<1> QED
  BY <1>2, <1>3, <1>4, Zenon DEF Abstract!Cached

-----------------------------------------------------------------------------
(***************************************************************************)
(* Eviction.                                                               *)
(***************************************************************************)
LEMMA PrefixBegins ==
    ASSUME NEW s \in Seq(Tokens), NEW t \in Seq(Tokens)
    PROVE  Abstract!IsPrefix(s, t) <=> Begins(s, t)
<1>1. PICK k \in Nat, l \in Nat : k = Len(s) /\ l = Len(t)
  OBVIOUS
<1>2. SubSeq(s, 1, Len(s)) = s
  OBVIOUS
<1>3. ASSUME k <= l PROVE (s = SubSeq(t, 1, k)) <=> \A i \in 1..k : s[i] = t[i]
  <2>0. SubSeq(t, 1, k) \in Seq(Tokens)
    BY <1>1, <1>3
  <2>1. PICK u \in Seq(Tokens) : u = SubSeq(t, 1, k)
    BY <2>0, Zenon
  <2>2. Len(u) = k /\ \A i \in 1..k : u[i] = t[i]
    BY <1>1, <1>3, <2>1
  <2>3. s = u <=> \A i \in 1..k : s[i] = u[i]
    BY <1>1, <2>2, BeginsEqual DEF Begins
  <2> QED
    BY <2>1, <2>2, <2>3
<1>4. Abstract!IsPrefix(s, t) <=> k <= l /\ s = SubSeq(t, 1, k)
  BY <1>1, <1>2, Zenon DEF Abstract!IsPrefix
<1>5. Begins(s, t) <=> k <= l /\ \A i \in 1..k : s[i] = t[i]
  BY <1>1 DEF Begins
<1> QED
  BY <1>3, <1>4, <1>5

\* The tokens of some entries are those of their handles.
LEMMA TokensOfLabels ==
    ASSUME NEW ns, NEW T, Labelling(ns, T), NEW E \in SUBSET WithHandle(ns)
    PROVE  Abstract!TokensOf(Labels(T, E)) = HandleTokens(ns, E)
<1> DEFINE A == Cells(ns, E)
           B == UNION {{s} \X (1..Len(s)) : s \in Labels(T, E)}
           f == [c \in A |-> <<T[c[1]], c[2]>>]
<1>1. \A i \in E : i \in 1..Len(ns) /\ ns[i].handle.token_len = Len(T[i])
  BY LabelTypes DEF Labelling, Sized
<1>2. \A c : c \in A <=> \E i \in E : \E k \in 1..Len(T[i]) : c = <<i, k>>
  <2>1. \A c : c \in A <=> \E i \in E : \E k \in 1..ns[i].handle.token_len : c = <<i, k>>
    BY CellsMember
  <2> HIDE DEF A
  <2> QED
    BY <1>1, <2>1
<1>3. \A d : d \in B <=> \E i \in E : \E k \in 1..Len(T[i]) : d = <<T[i], k>>
  BY DEF Labels
<1>4. \A i, j \in E : T[i] = T[j] => i = j
  BY <1>1, TextsDiffer
<1> HIDE DEF A, B
<1>5. f \in [A -> B]
  <2>1. ASSUME NEW c \in A PROVE <<T[c[1]], c[2]>> \in B
    <3>1. PICK i \in E : \E k \in 1..Len(T[i]) : c = <<i, k>>
      BY <1>2
    <3>2. PICK k \in 1..Len(T[i]) : c = <<i, k>>
      BY <3>1
    <3>3. c[1] = i /\ c[2] = k
      BY <3>2
    <3> QED
      BY <1>3, <3>2, <3>3
  <2> QED
    BY <2>1
<1>6. ASSUME NEW c \in A, NEW d \in A, f[c] = f[d] PROVE c = d
  <2>1. PICK i \in E : \E k \in 1..Len(T[i]) : c = <<i, k>>
    BY <1>2
  <2>2. PICK k \in 1..Len(T[i]) : c = <<i, k>>
    BY <2>1
  <2>3. PICK j \in E : \E l \in 1..Len(T[j]) : d = <<j, l>>
    BY <1>2
  <2>4. PICK l \in 1..Len(T[j]) : d = <<j, l>>
    BY <2>3
  <2>5. f[c] = <<T[i], k>> /\ f[d] = <<T[j], l>>
    BY <2>2, <2>4
  <2>6. T[i] = T[j] /\ k = l
    BY <1>6, <2>5
  <2> QED
    BY <1>4, <2>2, <2>4, <2>6
<1>7. ASSUME NEW d \in B PROVE \E c \in A : f[c] = d
  <2>1. PICK i \in E : \E k \in 1..Len(T[i]) : d = <<T[i], k>>
    BY <1>3
  <2>2. PICK k \in 1..Len(T[i]) : d = <<T[i], k>>
    BY <2>1
  <2>3. <<i, k>> \in A
    BY <1>2
  <2>4. f[<<i, k>>] = d
    BY <2>2, <2>3
  <2> QED
    BY <2>3, <2>4
<1> HIDE DEF f
<1>8. f \in Bijection(A, B)
  BY <1>5, <1>6, <1>7, Fun_IsBij
<1>9. ExistsBijection(A, B)
  BY <1>8 DEF ExistsBijection
<1>10. IsFiniteSet(A) /\ HandleTokens(ns, E) = Cardinality(A)
  BY LabelTypes, CellsFinite DEF A
<1>11. Cardinality(B) = Cardinality(A)
  BY <1>9, <1>10, FS_Bijection
<1>12. Abstract!TokensOf(Labels(T, E)) = Cardinality(B)
  BY Zenon DEF Abstract!TokensOf, Abstract!Cardinality, Cardinality, B
<1> QED
  BY <1>10, <1>11, <1>12

\* A limit to the ticks of the nodes.
LEMMA TicksBounded ==
    ASSUME NEW ns \in Seq(NodeRecs)
    PROVE  \E b \in Nat : \A i \in 1..Len(ns) : ns[i].last_access_tick <= b
<1> DEFINE tick(i) == ns[i].last_access_tick
           n == Len(ns)
           S == {k \in 0..n : \E b \in Nat : \A i \in 1..k : tick(i) <= b}
<1>1. n \in Nat /\ \A i \in 1..n : tick(i) \in Nat
  BY NodeTypes
<1> HIDE DEF tick, n
<1>2. 0 \in S
  BY <1>1
<1>3. ASSUME NEW k \in 1..n, k - 1 \in S PROVE k \in S
  <2>1. PICK b \in Nat : \A i \in 1..(k - 1) : tick(i) <= b
    BY <1>3
  <2>2. PICK t \in Nat : t = tick(k)
    BY <1>1
  <2>3. \A i \in 1..k : i = k \/ i \in 1..(k - 1)
    OBVIOUS
  <2>4. \A i \in 1..k : i \in 1..n
    BY <1>1
  <2>5. \A i \in 1..k : tick(i) <= b + t
    BY <1>1, <2>1, <2>2, <2>3, <2>4
  <2>6. b + t \in Nat /\ k \in 0..n
    BY <1>1
  <2> QED
    BY <2>5, <2>6
<1>4. S = 0..n
  <2>1. S \in SUBSET (0..n)
    OBVIOUS
  <2> HIDE DEF S
  <2> QED
    BY <1>1, <1>2, <1>3, <2>1, IntervalInduction
<1>5. n \in S
  <2> HIDE DEF S
  <2> QED
    BY <1>1, <1>4
<1> QED
  BY <1>5 DEF tick, n

\* Among some of the nodes there is one that no other comes after.
LEMMA HottestExists ==
    ASSUME NEW ns \in Seq(NodeRecs), NEW R \in SUBSET WithHandle(ns), R # {}
    PROVE  \E i \in R : \A j \in R : ~Colder(ns, i, j)
<1> DEFINE tick(i) == ns[i].last_access_tick
           T == {tick(i) : i \in R}
<1>1. \A i \in R : i \in 1..Len(ns) /\ tick(i) \in Nat
  <2> TAKE i \in R
  <2>1. i \in 1..Len(ns)
    BY HandleTypes
  <2> QED
    BY <2>1, NodeTypes
<1>2. PICK b \in Nat : \A i \in R : tick(i) <= b
  BY <1>1, TicksBounded
<1>3. T \in SUBSET Nat /\ T # {} /\ \A t \in T : t <= b
  BY <1>1, <1>2
<1>4. PICK t \in T : \A u \in T : u <= t
  <2> HIDE DEF T
  <2> QED
    BY <1>3, GreatestNumber
<1>5. t \in Nat /\ \A i \in R : tick(i) <= t
  BY <1>3, <1>4
<1> DEFINE I == {i \in R : tick(i) = t}
<1>6. I \in SUBSET Nat /\ I # {} /\ \A i \in I : i <= Len(ns)
  BY <1>1, <1>4
<1>7. PICK i \in I : \A j \in I : j <= i
  <2>1. PICK l \in Nat : l = Len(ns)
    OBVIOUS
  <2> HIDE DEF I
  <2> QED
    BY <1>6, <2>1, GreatestNumber
<1>8. ASSUME NEW j \in R, Colder(ns, i, j) PROVE FALSE
  <2>1. /\ i \in R /\ tick(i) = t /\ i \in Nat /\ j \in Nat /\ tick(j) \in Nat
        /\ tick(j) <= t /\ (tick(j) = t => j <= i)
    BY <1>1, <1>5, <1>7
  <2>2. tick(i) < tick(j) \/ (tick(i) = tick(j) /\ i < j)
    BY <1>8 DEF Colder
  <2> HIDE DEF tick
  <2> QED
    BY <1>5, <2>1, <2>2
<1> QED
  BY <1>7, <1>8

\* The order of eviction is an order of all nodes.
LEMMA ColderFacts ==
    ASSUME NEW ns \in Seq(NodeRecs), NEW i \in 1..Len(ns), NEW j \in 1..Len(ns)
    PROVE  /\ Colder(ns, i, j) \/ i = j \/ Colder(ns, j, i)
           /\ \A k \in 1..Len(ns) : Colder(ns, k, i) /\ Colder(ns, i, j) => Colder(ns, k, j)
           /\ Colder(ns, i, j) => ns[i].last_access_tick <= ns[j].last_access_tick
           /\ ns[i].last_access_tick < ns[j].last_access_tick => Colder(ns, i, j)
<1> DEFINE tick(k) == ns[k].last_access_tick
<1>1. \A k \in 1..Len(ns) : k \in Nat /\ tick(k) \in Nat
  BY NodeTypes
<1>2. \A k, l : Colder(ns, k, l) <=> tick(k) < tick(l) \/ (tick(k) = tick(l) /\ k < l)
  BY DEF Colder
<1>3. i \in Nat /\ j \in Nat /\ tick(i) \in Nat /\ tick(j) \in Nat
  BY <1>1
<1> HIDE DEF tick
<1>4. Colder(ns, i, j) \/ i = j \/ Colder(ns, j, i)
  BY <1>2, <1>3
<1>5. ASSUME NEW k \in 1..Len(ns), Colder(ns, k, i), Colder(ns, i, j) PROVE Colder(ns, k, j)
  <2>1. k \in Nat /\ tick(k) \in Nat
    BY <1>1
  <2> QED
    BY <1>2, <1>3, <1>5, <2>1
<1>6. Colder(ns, i, j) => tick(i) <= tick(j)
  BY <1>2, <1>3
<1>7. tick(i) < tick(j) => Colder(ns, i, j)
  BY <1>2
<1> QED
  BY <1>4, <1>5, <1>6, <1>7 DEF tick

\* The nodes that evict_coldest takes are entries that the map may drop.
LEMMA ColdestRefines ==
    ASSUME NEW m, NEW ns, NEW T, NEW tick, NEW capacity, NEW n \in Nat,
           Labelling(ns, T), IsMapOf(m, ns, T, tick, capacity)
    PROVE  Labels(T, Coldest(ns, n)) \in Abstract!Coldest(m, n)
<1> DEFINE W == WithHandle(ns)
           E == Coldest(ns, n)
           F == Labels(T, E)
           last(t) == m.last_access[t]
<1>1. /\ ns \in Seq(NodeRecs) /\ Len(ns) \in Nat /\ \A i \in W : i \in 1..Len(ns)
      /\ Abstract!Cached(m) = Labels(T, W)
      /\ \A i \in W : last(T[i]) = ns[i].last_access_tick
  BY LabelTypes, MapParts
<1>2. E \in SUBSET W /\ (E = W \/ HandleTokens(ns, E) >= n)
  BY <1>1, ColdestFrees
<1>3. \A i \in W : i \in E <=> HandleTokens(ns, {j \in W : Colder(ns, j, i)}) < n
  BY DEF Coldest
<1>4. \A i \in W : ns[i].last_access_tick \in Nat
  BY <1>1, NodeTypes
<1> HIDE DEF W, E, last
\* What is colder than an evicted node is evicted.
<1>5. ASSUME NEW i \in E, NEW j \in W, Colder(ns, j, i) PROVE j \in E
  <2> DEFINE P == {k \in W : Colder(ns, k, i)}
             Q == {k \in W : Colder(ns, k, j)}
  <2>1. Q \in SUBSET P
    BY <1>1, <1>2, <1>5, ColderFacts
  <2>2. P \in SUBSET WithHandle(ns) /\ Q \in SUBSET WithHandle(ns) /\ HandleTokens(ns, P) < n
    BY <1>2, <1>3 DEF W
  <2>3. i \in W /\ j \in W
    BY <1>2
  <2> SUFFICES HandleTokens(ns, Q) < n
    BY <1>3
  <2> HIDE DEF P, Q
  <2>4. HandleTokens(ns, Q) <= HandleTokens(ns, P)
    BY <1>1, <2>1, <2>2, HandleTokensDifference
  <2>5. HandleTokens(ns, P) \in Nat /\ HandleTokens(ns, Q) \in Nat
    BY <1>1, <2>2, CellsFinite
  <2> QED
    BY <2>2, <2>4, <2>5
<1>6. F \in SUBSET Abstract!Cached(m)
  BY <1>1, <1>2 DEF Labels
<1>7. ASSUME NEW t \in F, NEW u \in Abstract!Cached(m) \ F PROVE last(t) <= last(u)
  <2>1. PICK i \in E : t = T[i]
    BY DEF Labels
  <2>2. PICK j \in W : u = T[j]
    BY <1>1 DEF Labels
  <2>3. j \notin E
    BY <1>7, <2>2 DEF Labels
  <2>4. i \in W /\ i \in 1..Len(ns) /\ j \in 1..Len(ns) /\ ~Colder(ns, j, i) /\ i # j
    BY <1>1, <1>2, <1>5, <2>3
  <2>5. Colder(ns, i, j)
    BY <1>1, <2>4, ColderFacts
  <2>6. ns[i].last_access_tick <= ns[j].last_access_tick
    BY <1>1, <2>4, <2>5, ColderFacts
  <2> QED
    BY <1>1, <2>1, <2>2, <2>4, <2>6
<1>8. Abstract!TokensOf(F) >= n \/ F = Abstract!Cached(m)
  <2>1. CASE E = W
    BY <1>1, <2>1
  <2>2. CASE HandleTokens(ns, E) >= n
    BY <1>2, <2>2, TokensOfLabels DEF W
  <2> QED
    BY <1>2, <2>1, <2>2
<1>9. ASSUME F # {}
      PROVE  \E t \in F : /\ \A u \in F : last(u) <= last(t)
                          /\ Abstract!TokensOf(F \ {t}) < n
  <2>1. E # {} /\ E \in SUBSET WithHandle(ns)
    BY <1>2, <1>9 DEF Labels, W
  <2>2. PICK i \in E : \A j \in E : ~Colder(ns, i, j)
    BY <1>1, <2>1, HottestExists
  <2>3. i \in W /\ i \in 1..Len(ns) /\ T[i] \in F
    BY <1>1, <1>2 DEF Labels
  <2>4. ASSUME NEW u \in F PROVE last(u) <= last(T[i])
    <3>1. PICK j \in E : u = T[j]
      BY DEF Labels
    <3>2. j \in W /\ j \in 1..Len(ns) /\ (j = i \/ Colder(ns, j, i))
      BY <1>1, <1>2, <2>2, <2>3, ColderFacts
    <3>3. ns[j].last_access_tick <= ns[i].last_access_tick
      BY <1>1, <1>4, <2>3, <3>2, ColderFacts
    <3> QED
      BY <1>1, <2>3, <3>1, <3>2, <3>3
  <2> DEFINE G == E \ {i}
             P == {k \in W : Colder(ns, k, i)}
  <2>5. F \ {T[i]} = Labels(T, G)
    <3>1. \A j \in E : T[j] = T[i] => j = i
      BY <1>1, <1>2, <2>3, TextsDiffer
    <3> QED
      BY <3>1 DEF Labels
  <2>6. G \in SUBSET P
    BY <1>1, <1>2, <2>2, <2>3, ColderFacts
  <2>7. /\ P \in SUBSET WithHandle(ns) /\ G \in SUBSET WithHandle(ns)
        /\ HandleTokens(ns, P) < n
    BY <1>2, <1>3, <2>3 DEF W
  <2> HIDE DEF P, G
  <2>8. HandleTokens(ns, G) <= HandleTokens(ns, P)
    BY <1>1, <2>6, <2>7, HandleTokensDifference
  <2>9. HandleTokens(ns, G) \in Nat /\ HandleTokens(ns, P) \in Nat
    BY <1>1, <2>7, CellsFinite
  <2>10. Abstract!TokensOf(Labels(T, G)) = HandleTokens(ns, G)
    BY <2>7, TokensOfLabels
  <2>11. Abstract!TokensOf(F \ {T[i]}) < n
    <3> HIDE DEF F
    <3> QED
      BY <2>5, <2>7, <2>8, <2>9, <2>10
  <2> HIDE DEF F
  <2> QED
    BY <2>3, <2>4, <2>11
<1> HIDE DEF F
<1>10. F \in Abstract!Coldest(m, n)
  BY <1>6, <1>7, <1>8, <1>9, Zenon DEF Abstract!Coldest, last
<1> QED
  BY <1>10 DEF F, E

\* A map without the evicted entries is the map of the nodes that are left.
LEMMA WithoutRefines ==
    ASSUME NEW m, NEW ns, NEW T, NEW tick, NEW capacity, NEW E \in SUBSET WithHandle(ns),
           Labelling(ns, T), IsMapOf(m, ns, T, tick, capacity)
    PROVE  IsMapOf(Abstract!Without(m, Labels(T, E)), Cleared(ns, E), T, tick, capacity)
<1> DEFINE W == WithHandle(ns)
           C == Labels(T, W)
           F == Labels(T, E)
<1>1. PICK e, a : Entries(m, e, a, ns, T, tick, capacity)
  BY Zenon DEF IsMapOf
<1>2. /\ m = [entries |-> e, last_access |-> a, clock |-> tick, capacity |-> capacity]
      /\ \A i \in W : e[T[i]] = ns[i].handle.block_id
      /\ \A i \in W : a[T[i]] = ns[i].last_access_tick
  BY <1>1, Zenon DEF Entries
<1>3. Abstract!Cached(m) = C /\ m.entries = e /\ m.last_access = a
  <2>1. Abstract!Cached(m) = C
    BY MapParts
  <2> QED
    BY <1>2, <2>1
<1>4. ns \in Seq(NodeRecs) /\ \A i \in W : i \in 1..Len(ns)
  BY LabelTypes
<1>5. PICK ms : ms = Cleared(ns, E)
  OBVIOUS
<1>6. /\ WithHandle(ms) = W \ E
      /\ \A i \in W \ E : /\ ms[i].handle = ns[i].handle
                          /\ ms[i].last_access_tick = ns[i].last_access_tick
  BY <1>4, <1>5, ClearedFacts
<1>7. C \ F = Labels(T, W \ E)
  <2>1. \A i, j \in W : T[i] = T[j] => i = j
    BY <1>4, TextsDiffer
  <2> HIDE DEF W
  <2>2. E \in SUBSET W
    BY DEF W
  <2> QED
    BY <2>1, <2>2 DEF Labels
<1>8. \A i \in W \ E : T[i] \in C \ F
  <2> HIDE DEF W, C, F
  <2> QED
    BY <1>7 DEF Labels
<1> DEFINE f == [t \in C \ F |-> e[t]]
           b == [t \in C \ F |-> a[t]]
<1> HIDE DEF W, C, F
<1>9. Abstract!Without(m, F) =
         [entries |-> f, last_access |-> b, clock |-> tick, capacity |-> capacity]
  <2>1. Abstract!Without(m, F) = [m EXCEPT !.entries = f, !.last_access = b]
    BY <1>3 DEF Abstract!Without
  <2> HIDE DEF f, b
  <2> QED
    BY <1>2, <2>1
<1>10. /\ f = [t \in C \ F |-> f[t]] /\ b = [t \in C \ F |-> b[t]]
       /\ \A i \in W \ E : f[T[i]] = e[T[i]] /\ b[T[i]] = a[T[i]]
  BY <1>8
<1> HIDE DEF f, b
<1>11. /\ \A i \in W \ E : f[T[i]] = ms[i].handle.block_id
       /\ \A i \in W \ E : b[T[i]] = ms[i].last_access_tick
  BY <1>2, <1>6, <1>10
<1>12. Entries(Abstract!Without(m, F), f, b, ms, T, tick, capacity)
  BY <1>6, <1>7, <1>9, <1>10, <1>11, Zenon DEF Entries
<1> QED
  BY <1>5, <1>12, Zenon DEF IsMapOf, F

\* The nodes that are left stand for what evict_coldest may leave of the map.
LEMMA EvictionRefines ==
    ASSUME NEW m, NEW ns, NEW T, NEW tick, NEW capacity, NEW n \in Nat,
           Labelling(ns, T), IsMapOf(m, ns, T, tick, capacity)
    PROVE  MapOf(Cleared(ns, Coldest(ns, n)), tick, capacity) =
              Abstract!Without(m, Labels(T, Coldest(ns, n)))
<1>1. ns \in Seq(NodeRecs)
  BY LabelTypes
<1>2. PICK E : E = Coldest(ns, n)
  OBVIOUS
<1>3. E \in SUBSET WithHandle(ns)
  BY <1>1, <1>2, ColdestFrees
<1>4. Labelling(Cleared(ns, E), T)
  BY <1>3, ClearedLabelling, Zenon
<1>5. IsMapOf(MapOf(Cleared(ns, E), tick, capacity), Cleared(ns, E), T, tick, capacity)
  BY <1>4, MapOfNodes, Zenon
<1>6. IsMapOf(Abstract!Without(m, Labels(T, E)), Cleared(ns, E), T, tick, capacity)
  BY <1>3, WithoutRefines, Zenon
<1> QED
  BY <1>2, <1>5, <1>6, MapsEqual, Zenon

\* evict_to_capacity.
LEMMA TrimmedRefines ==
    ASSUME NEW m, NEW ns, NEW T, NEW tick, NEW capacity \in Capacities \cup {NoCapacity},
           NEW total, total = HandleTokens(ns, WithHandle(ns)),
           Labelling(ns, T), IsMapOf(m, ns, T, tick, capacity)
    PROVE  MapOf(Cleared(ns, Coldest(ns, Overflow(total, capacity))), tick, capacity)
              \in Abstract!Trimmed(m)
<1>1. PICK W : W = WithHandle(ns)
  OBVIOUS
<1>2. ns \in Seq(NodeRecs) /\ Abstract!Cached(m) = Labels(T, W) /\ m.capacity = capacity
  BY <1>1, LabelTypes, MapParts
<1>3. total \in Nat
  BY <1>2, CellsFinite
<1>4. Abstract!Resident(m) = total
  <2>1. Abstract!TokensOf(Labels(T, W)) = HandleTokens(ns, W)
    BY <1>1, TokensOfLabels
  <2> QED
    BY <1>1, <1>2, <2>1, Zenon DEF Abstract!Resident
<1>5. capacity # NoCapacity => capacity \in Nat
  BY RadixCacheAssumption
<1>6. Abstract!Overflow(m) = Overflow(total, capacity) /\ Overflow(total, capacity) \in Nat
  <2>1. Abstract!Overflow(m) = IF capacity = NoCapacity \/ total <= capacity THEN 0
                               ELSE total - capacity
    BY <1>2, <1>4, Zenon DEF Abstract!Overflow
  <2>2. Overflow(total, capacity) = IF capacity = NoCapacity THEN 0
                                    ELSE IF total < capacity THEN 0 ELSE total - capacity
    BY Zenon DEF Overflow, SaturatingSub
  <2> QED
    BY <1>3, <1>5, <2>1, <2>2
<1>7. PICK n \in Nat : n = Overflow(total, capacity)
  BY <1>6, Zenon
<1>8. PICK F : F = Labels(T, Coldest(ns, n))
  OBVIOUS
<1>9. F \in Abstract!Coldest(m, Abstract!Overflow(m))
  BY <1>6, <1>7, <1>8, ColdestRefines, Zenon
<1>10. MapOf(Cleared(ns, Coldest(ns, n)), tick, capacity) = Abstract!Without(m, F)
  <2>1. MapOf(Cleared(ns, Coldest(ns, n)), tick, capacity) =
           Abstract!Without(m, Labels(T, Coldest(ns, n)))
    BY EvictionRefines
  <2> QED
    BY <1>8, <2>1, Zenon
<1> QED
  BY <1>7, <1>9, <1>10, Zenon DEF Abstract!Trimmed

-----------------------------------------------------------------------------
(***************************************************************************)
(* lookup.                                                                 *)
(***************************************************************************)

\* What a walk that came to the node k knows: of the nodes S with a handle that
\* it passed, the last, or that there is none.
BestOf(best, ns, T, S) ==
    \/ S = {} /\ best = [matched_tokens |-> 0, handle |-> NoHandle]
    \/ \E i \in S : /\ \A j \in S : Len(T[j]) <= Len(T[i])
                    /\ best = [matched_tokens |-> Len(T[i]),
                               handle |-> ns[i].handle.block_id]

Passed(ns, T, s) == {i \in 1..Len(ns) : Begins(T[i], s)}

\* Where lookup may be when it looks for s: the node stands for a prefix of s,
\* and all nodes that stand for a prefix of the node's text were visited.
Walks(ns, T, s) ==
    {w \in [node : 1..Len(ns), cursor : Nat, visited : SUBSET (1..Len(ns)),
            best : [matched_tokens : Nat, handle : Nat \cup {NoHandle}]] :
        /\ w.cursor = Len(T[w.node]) /\ Begins(T[w.node], s)
        /\ w.visited = Passed(ns, T, T[w.node])
        /\ BestOf(w.best, ns, T, w.visited \cap WithHandle(ns))}

\* It can end where it is: no node further down stands for a prefix of s.
Complete(w, ns, T, s) == Passed(ns, T, s) \in SUBSET w.visited

\* What follows a common beginning of two texts, one of which begins the other.
LEMMA EdgeFollows ==
    ASSUME NEW x \in Seq(Tokens), NEW rest \in Seq(Tokens), NEW s \in Seq(Tokens),
           NEW e \in Seq(Tokens), NEW y \in Seq(Tokens),
           Joined(x, rest, s), Joined(x, e, y), Begins(y, s)
    PROVE  Begins(e, rest)
<1>1. PICK k \in Nat, l \in Nat, m \in Nat : k = Len(x) /\ l = Len(rest) /\ m = Len(e)
  OBVIOUS
<1>2. Len(s) = k + l /\ \A i \in 1..l : s[k + i] = rest[i]
  BY <1>1 DEF Joined
<1>3. Len(y) = k + m /\ \A i \in 1..m : y[k + i] = e[i]
  BY <1>1 DEF Joined
<1>4. k + m <= k + l /\ \A i \in 1..(k + m) : y[i] = s[i]
  BY <1>2, <1>3 DEF Begins
<1>5. ASSUME NEW i \in 1..m PROVE e[i] = rest[i]
  <2>1. i \in 1..l /\ k + i \in 1..(k + m)
    BY <1>4
  <2> QED
    BY <1>2, <1>3, <1>4, <2>1
<1> QED
  BY <1>1, <1>4, <1>5 DEF Begins

\* The rest of a text after one that begins it.
LEMMA RestJoins ==
    ASSUME NEW x \in Seq(Tokens), NEW s \in Seq(Tokens), Begins(x, s)
    PROVE  Drop(s, Len(x)) \in Seq(Tokens) /\ Joined(x, Drop(s, Len(x)), s)
<1>1. PICK k \in Nat, n \in Nat : k = Len(x) /\ n = Len(s)
  OBVIOUS
<1>2. k \in 0..n /\ \A i \in 1..k : x[i] = s[i]
  BY <1>1 DEF Begins
<1>3. /\ Drop(s, k) \in Seq(Tokens) /\ Len(Drop(s, k)) = n - k
      /\ \A i \in 1..(n - k) : Drop(s, k)[i] = s[k + i]
  <2>1. /\ Drop(s, k) \in Seq(Tokens) /\ Len(Drop(s, k)) = Len(s) - k
        /\ \A i \in 1..(Len(s) - k) : Drop(s, k)[i] = s[k + i]
    BY <1>1, <1>2, DropFacts, Zenon
  <2> QED
    BY <1>1, <2>1
<1>4. PICK d \in Seq(Tokens) : d = Drop(s, k)
  BY <1>3, Zenon
<1>5. Joined(x, d, s)
  <2>1. Len(d) = n - k /\ \A i \in 1..(n - k) : d[i] = s[k + i]
    BY <1>3, <1>4, Zenon
  <2>2. Len(s) = k + Len(d) /\ \A i \in 1..Len(d) : s[k + i] = d[i]
    BY <1>1, <1>2, <2>1
  <2>3. \A i \in 1..k : s[i] = x[i]
    BY <1>2
  <2> QED
    BY <1>1, <2>2, <2>3 DEF Joined
<1> QED
  BY <1>1, <1>4, <1>5

\* The node c is the child of p under t.
IsChild(ns, p, t, c) == p \in 1..Len(ns) /\ t \in Links(ns, p) /\ ns[p].children[t] = c

LEMMA ChildFacts ==
    ASSUME NEW ns, NEW T, Labelling(ns, T), NEW p, NEW t, NEW c, IsChild(ns, p, t, c)
    PROVE  /\ c \in 1..Len(ns) /\ ns[c].edge \in Seq(Tokens) /\ Len(ns[c].edge) > 0
           /\ ns[c].edge[1] = t /\ Joined(T[p], ns[c].edge, T[c])
<1>1. c \in 2..Len(ns) /\ Len(ns[c].edge) > 0 /\ ns[c].edge[1] = t
  BY DEF IsChild, Labelling, Tree, LinksLead
<1>2. c \in 1..Len(ns)
  BY <1>1, LabelTypes
<1>3. ns[c].edge \in Seq(Tokens)
  BY <1>2, LabelTypes, NodeTypes
<1>4. Joined(T[p], ns[c].edge, T[c])
  BY DEF IsChild, Labelling, Labelled, Spelled
<1> QED
  BY <1>1, <1>2, <1>3, <1>4

\* On the way to a child no node is passed but the child.
LEMMA PassedChild ==
    ASSUME NEW ns, NEW T, Labelling(ns, T), NEW p, NEW t, NEW c, IsChild(ns, p, t, c)
    PROVE  /\ Passed(ns, T, T[c]) = Passed(ns, T, T[p]) \cup {c}
           /\ \A i \in Passed(ns, T, T[c]) : Len(T[i]) <= Len(T[c])
<1>1. p \in 1..Len(ns) /\ t \in Links(ns, p) /\ ns[p].children[t] = c
  BY DEF IsChild
<1>2. /\ c \in 1..Len(ns) /\ ns[c].edge \in Seq(Tokens) /\ Len(ns[c].edge) > 0
      /\ ns[c].edge[1] = t /\ Joined(T[p], ns[c].edge, T[c])
  BY ChildFacts
<1>3. \A i \in 1..Len(ns) : T[i] \in Seq(Tokens) /\ Len(T[i]) \in Nat
  BY LabelTypes
<1>4. PICK x \in Seq(Tokens), y \in Seq(Tokens), e \in Seq(Tokens) :
         x = T[p] /\ y = T[c] /\ e = ns[c].edge
  BY <1>1, <1>2, <1>3
<1>5. Begins(x, y)
  BY <1>2, <1>4, JoinedBegins
<1>6. y[Len(x) + 1] = t
  <2>1. Len(e) \in Nat /\ Len(e) > 0 /\ e[1] = t /\ Joined(x, e, y)
    BY <1>2, <1>4
  <2>2. 1 \in 1..Len(e)
    BY <2>1
  <2> QED
    BY <2>1, <2>2 DEF Joined
<1>7. Begins(y, y)
  BY DEF Begins
<1>8. ASSUME NEW i \in 1..Len(ns), Begins(T[i], T[p]) PROVE Begins(T[i], T[c])
  <2>1. PICK z \in Seq(Tokens) : z = T[i]
    BY <1>3
  <2>2. Begins(z, x)
    BY <1>4, <1>8, <2>1
  <2> QED
    BY <1>4, <1>5, <2>1, <2>2, BeginsTransitive
<1>9. ASSUME NEW i \in 1..Len(ns), Begins(T[i], T[c]), ~Begins(T[i], T[p]) PROVE i = c
  <2>1. PICK z \in Seq(Tokens) : z = T[i]
    BY <1>3
  <2>2. Begins(z, y) /\ ~Begins(z, x)
    BY <1>4, <1>9, <2>1
  <2>3. PICK l \in Nat, k \in Nat : l = Len(z) /\ k = Len(x)
    OBVIOUS
  <2>4. ~(l <= k)
    BY <1>5, <2>2, <2>3, BeginsCompare
  <2>5. Begins(x, z) /\ Len(x) < Len(z)
    BY <1>5, <2>2, <2>3, <2>4, BeginsCompare
  <2>6. Before(T[p], T[i])
    BY <1>4, <2>1, <2>5 DEF Before
  <2>7. Reachable(ns, T, p, i)
    BY <1>1, <2>6 DEF Labelling, Labelled, Branching
  <2>8. z[k + 1] = t
    <3>1. k + 1 \in 1..l
      BY <2>3, <2>4
    <3>2. z[k + 1] = y[k + 1]
      BY <2>2, <2>3, <3>1 DEF Begins
    <3> QED
      BY <1>6, <2>3, <3>2
  <2>9. Begins(T[c], T[i])
    <3>1. T[i][Len(T[p]) + 1] = t
      BY <1>4, <2>1, <2>3, <2>8
    <3> QED
      BY <1>1, <2>7, <3>1, Zenon DEF Reachable
  <2>10. Len(T[c]) = Len(T[i])
    <3>1. Len(y) <= Len(z) /\ Len(z) <= Len(y)
      BY <1>4, <2>1, <2>2, <2>9 DEF Begins
    <3>2. Len(y) = Len(z)
      BY <3>1
    <3> QED
      BY <1>4, <2>1, <3>2
  <2>11. c = i
    BY <1>2, <2>9, <2>10, Zenon DEF Labelling, Labelled, Distinct
  <2> QED
    BY <2>11
<1>10. Begins(T[c], T[c])
  BY <1>4, <1>7
<1>11. \A i : i \in Passed(ns, T, T[c]) <=> i \in Passed(ns, T, T[p]) \/ i = c
  BY <1>2, <1>8, <1>9, <1>10, Zenon DEF Passed
<1>12. \A i \in Passed(ns, T, T[c]) : Len(T[i]) <= Len(T[c])
  BY DEF Passed, Begins
<1> QED
  BY <1>11, <1>12

LEMMA BlockIds ==
    ASSUME NEW ns \in Seq(NodeRecs), NEW i \in WithHandle(ns)
    PROVE  ns[i].handle.block_id \in Nat
<1>1. ns[i].handle \in Handles
  BY HandleTypes
<1> QED
  BY <1>1 DEF Handles

\* The walk starts at the root.
LEMMA WalkStarts ==
    ASSUME NEW ns, NEW T, Labelling(ns, T), NEW s \in Seq(Tokens)
    PROVE  WalkStart(ns) \in Walks(ns, T, s)
<1> DEFINE best == [matched_tokens |-> 0, handle |-> HandleAt(ns, 1)]
           w == WalkStart(ns)
<1>1. /\ ns \in Seq(NodeRecs) /\ 1 \in 1..Len(ns) /\ DOMAIN ns = 1..Len(ns)
      /\ \A i \in 1..Len(ns) : T[i] \in Seq(Tokens) /\ Len(T[i]) \in Nat
      /\ \A i \in 1..Len(ns) : T[i] = <<>> <=> i = 1
  BY LabelTypes
<1>2. Len(T[1]) = 0
  BY DEF Labelling, Labelled
<1>3. Begins(T[1], s)
  BY <1>2 DEF Begins
<1>4. Passed(ns, T, T[1]) = {1}
  <2>1. ASSUME NEW i \in 1..Len(ns), Begins(T[i], T[1]) PROVE i = 1
    <3>1. PICK z \in Seq(Tokens) : z = T[i]
      BY <1>1
    <3>2. Len(z) <= 0
      BY <1>2, <2>1, <3>1 DEF Begins
    <3>3. z = <<>>
      BY <3>2
    <3> QED
      BY <1>1, <3>1, <3>3
  <2>2. Begins(T[1], T[1])
    BY <1>2 DEF Begins
  <2> QED
    BY <1>1, <2>1, <2>2 DEF Passed
<1>5. best \in [matched_tokens : Nat, handle : Nat \cup {NoHandle}]
      /\ BestOf(best, ns, T, {1} \cap WithHandle(ns))
  <2>1. CASE 1 \in WithHandle(ns)
    <3>1. HandleAt(ns, 1) = ns[1].handle.block_id
      BY <2>1 DEF HandleAt, WithHandle
    <3>2. best = [matched_tokens |-> Len(T[1]), handle |-> ns[1].handle.block_id]
      BY <1>2, <3>1
    <3>3. ns[1].handle.block_id \in Nat
      BY <1>1, <2>1, BlockIds
    <3>4. {1} \cap WithHandle(ns) = {1} /\ \A j \in {1} : Len(T[j]) <= Len(T[1])
      BY <1>2, <2>1
    <3>5. best \in [matched_tokens : Nat, handle : Nat \cup {NoHandle}]
      BY <3>1, <3>3
    <3> HIDE DEF best
    <3> QED
      BY <3>2, <3>4, <3>5 DEF BestOf
  <2>2. CASE 1 \notin WithHandle(ns)
    <3>1. HandleAt(ns, 1) = NoHandle
      BY <1>1, <2>2 DEF HandleAt, WithHandle
    <3>2. {1} \cap WithHandle(ns) = {}
      BY <2>2
    <3>3. best = [matched_tokens |-> 0, handle |-> NoHandle]
      BY <3>1
    <3> QED
      BY <3>2, <3>3 DEF BestOf
  <2> QED
    BY <2>1, <2>2
<1>6. w = [node |-> 1, cursor |-> 0, visited |-> {1}, best |-> best]
  BY DEF WalkStart
<1> HIDE DEF best, w
<1>7. w.node = 1 /\ w.cursor = 0 /\ w.visited = {1} /\ w.best = best
  BY <1>6
<1>8. w \in [node : 1..Len(ns), cursor : Nat, visited : SUBSET (1..Len(ns)),
             best : [matched_tokens : Nat, handle : Nat \cup {NoHandle}]]
  BY <1>1, <1>5, <1>6
<1>9. /\ w.cursor = Len(T[w.node]) /\ Begins(T[w.node], s)
      /\ w.visited = Passed(ns, T, T[w.node])
      /\ BestOf(w.best, ns, T, w.visited \cap WithHandle(ns))
  BY <1>2, <1>3, <1>4, <1>5, <1>7
<1> QED
  BY <1>8, <1>9 DEF w, Walks

\* It goes on to a child that stands for a prefix too.
LEMMA WalkGoesOn ==
    ASSUME NEW ns, NEW T, Labelling(ns, T), NEW s \in Seq(Tokens),
           NEW w \in Walks(ns, T, s), NEW t, NEW c, IsChild(ns, w.node, t, c),
           Begins(T[c], s)
    PROVE  WalkTo(ns, w, c, Len(T[c])) \in Walks(ns, T, s)
<1> DEFINE v == WalkTo(ns, w, c, Len(T[c]))
           W == WithHandle(ns)
           S == w.visited \cap W
<1>1. /\ ns \in Seq(NodeRecs) /\ DOMAIN ns = 1..Len(ns)
      /\ \A i \in 1..Len(ns) : T[i] \in Seq(Tokens) /\ Len(T[i]) \in Nat
  BY LabelTypes
<1>2. c \in 1..Len(ns)
  BY ChildFacts
<1>3. /\ w.node \in 1..Len(ns) /\ w.visited \in SUBSET (1..Len(ns))
      /\ w.best \in [matched_tokens : Nat, handle : Nat \cup {NoHandle}]
      /\ w.visited = Passed(ns, T, T[w.node])
      /\ BestOf(w.best, ns, T, S)
  BY DEF Walks
<1>4. /\ w.visited \cup {c} = Passed(ns, T, T[c])
      /\ \A i \in w.visited \cup {c} : Len(T[i]) <= Len(T[c])
  <2>1. PICK p : p = w.node
    OBVIOUS
  <2>2. IsChild(ns, p, t, c)
    BY <2>1
  <2>3. /\ Passed(ns, T, T[c]) = Passed(ns, T, T[p]) \cup {c}
        /\ \A i \in Passed(ns, T, T[c]) : Len(T[i]) <= Len(T[c])
    BY <2>2, PassedChild
  <2>4. w.visited = Passed(ns, T, T[p])
    BY <1>3, <2>1
  <2> QED
    BY <2>3, <2>4, Zenon
<1> DEFINE new == IF HasHandle(ns, c)
                  THEN [matched_tokens |-> Len(T[c]), handle |-> HandleAt(ns, c)]
                  ELSE w.best
<1>5. /\ new \in [matched_tokens : Nat, handle : Nat \cup {NoHandle}]
      /\ BestOf(new, ns, T, (w.visited \cup {c}) \cap W)
  <2>1. CASE c \in W
    <3>1. HasHandle(ns, c) /\ HandleAt(ns, c) = ns[c].handle.block_id
      BY <2>1 DEF HandleAt, WithHandle
    <3>2. new = [matched_tokens |-> Len(T[c]), handle |-> ns[c].handle.block_id]
      BY <3>1
    <3>3. ns[c].handle.block_id \in Nat
      BY <1>1, <2>1, BlockIds
    <3>4. /\ c \in (w.visited \cup {c}) \cap W
          /\ \A j \in (w.visited \cup {c}) \cap W : Len(T[j]) <= Len(T[c])
      BY <1>4, <2>1
    <3>5. new \in [matched_tokens : Nat, handle : Nat \cup {NoHandle}]
      BY <1>1, <1>2, <3>2, <3>3
    <3> HIDE DEF new, W
    <3> QED
      BY <3>2, <3>4, <3>5, Zenon DEF BestOf
  <2>2. CASE c \notin W
    <3>1. new = w.best
      BY <1>1, <1>2, <2>2 DEF WithHandle
    <3>2. (w.visited \cup {c}) \cap W = S
      <4> HIDE DEF W
      <4> QED
        BY <2>2
    <3> QED
      BY <1>3, <3>1, <3>2
  <2> QED
    BY <2>1, <2>2
<1>6. v = [node |-> c, cursor |-> Len(T[c]), visited |-> w.visited \cup {c}, best |-> new]
  BY DEF WalkTo
<1> HIDE DEF v, new
<1>7. v.node = c /\ v.cursor = Len(T[c]) /\ v.visited = w.visited \cup {c} /\ v.best = new
  BY <1>6
<1>8. v \in [node : 1..Len(ns), cursor : Nat, visited : SUBSET (1..Len(ns)),
             best : [matched_tokens : Nat, handle : Nat \cup {NoHandle}]]
  <2>1. w.visited \cup {c} \in SUBSET (1..Len(ns)) /\ Len(T[c]) \in Nat
    BY <1>1, <1>2, <1>3
  <2> QED
    BY <1>2, <1>5, <1>6, <2>1
<1>9. /\ v.cursor = Len(T[v.node]) /\ Begins(T[v.node], s)
      /\ v.visited = Passed(ns, T, T[v.node])
      /\ BestOf(v.best, ns, T, v.visited \cap WithHandle(ns))
  BY <1>4, <1>5, <1>7
<1> QED
  BY <1>8, <1>9 DEF v, Walks

\* One turn of the loop: it ends where it may end, or consumes a token.
LEMMA WalkTurnStep ==
    ASSUME NEW ns, NEW T, Labelling(ns, T), NEW s \in Seq(Tokens),
           NEW w \in Walks(ns, T, s)
    PROVE  /\ WalkTurn(ns, s, w) \in Walks(ns, T, s)
           /\ \/ WalkTurn(ns, s, w) = w /\ Complete(w, ns, T, s)
              \/ WalkTurn(ns, s, w).cursor > w.cursor
<1> DEFINE p == w.node
           rest == Drop(s, w.cursor)
           t == Head(rest)
           c == ns[p].children[t]
           edge == ns[c].edge
           matched == CommonPrefixLen(rest, edge)
           v == WalkTurn(ns, s, w)
<1>1. /\ ns \in Seq(NodeRecs)
      /\ \A i \in 1..Len(ns) : T[i] \in Seq(Tokens) /\ Len(T[i]) \in Nat
  BY LabelTypes
<1>2. /\ p \in 1..Len(ns) /\ w.cursor = Len(T[p]) /\ Begins(T[p], s)
      /\ w.visited = Passed(ns, T, T[p])
  BY DEF Walks
<1>3. rest \in Seq(Tokens) /\ Joined(T[p], rest, s)
  <2>1. PICK x \in Seq(Tokens) : x = T[p]
    BY <1>1, <1>2
  <2>2. Drop(s, Len(x)) \in Seq(Tokens) /\ Joined(x, Drop(s, Len(x)), s)
    BY <1>2, <2>1, RestJoins
  <2> QED
    BY <1>2, <2>1, <2>2
<1>4. v = IF rest = <<>> \/ t \notin Links(ns, p) THEN w
          ELSE IF matched < Len(edge) THEN w
          ELSE WalkTo(ns, w, c, w.cursor + matched)
  BY Zenon DEF WalkTurn, Links
<1> HIDE DEF rest, v
<1>5. PICK r \in Seq(Tokens), x \in Seq(Tokens) : r = rest /\ x = T[p]
  BY <1>1, <1>2, <1>3
<1>6. Joined(x, r, s) /\ Begins(x, s) /\ w.cursor = Len(x)
  BY <1>2, <1>3, <1>5
<1>7. r # <<>> => Len(r) > 0 /\ t = r[1]
  BY <1>5
\* What is known when there is a child.
<1>8. ASSUME t \in Links(ns, p)
      PROVE  /\ IsChild(ns, p, t, c) /\ c \in 1..Len(ns) /\ Joined(T[p], edge, T[c])
             /\ edge \in Seq(Tokens) /\ Len(edge) > 0
             /\ matched \in 0..Len(r) /\ matched <= Len(edge)
             /\ \A i \in 1..matched : r[i] = edge[i]
             /\ matched < Len(r) /\ matched < Len(edge) => r[matched + 1] # edge[matched + 1]
  <2>1. IsChild(ns, p, t, c)
    BY <1>2, <1>8 DEF IsChild
  <2>2. /\ c \in 1..Len(ns) /\ edge \in Seq(Tokens) /\ Len(edge) > 0
        /\ Joined(T[p], edge, T[c])
    BY <2>1, ChildFacts
  <2>3. PICK e \in Seq(Tokens) : e = edge
    BY <2>2
  <2>4. matched = CommonPrefixLen(r, e)
    BY <1>5, <2>3
  <2>5. LET k == CommonPrefixLen(r, e)
        IN  /\ k \in 0..Len(r) /\ k <= Len(e)
            /\ \A i \in 1..k : r[i] = e[i]
            /\ k < Len(r) /\ k < Len(e) => r[k + 1] # e[k + 1]
    BY CommonPrefixFacts, Zenon
  <2> HIDE DEF matched, edge
  <2> QED
    BY <2>1, <2>2, <2>3, <2>4, <2>5
<1> HIDE DEF t, c, edge, matched
<1>9. ASSUME rest # <<>>, t \in Links(ns, p), ~(matched < Len(edge))
      PROVE  v \in Walks(ns, T, s) /\ v.cursor > w.cursor
  <2>1. /\ IsChild(ns, p, t, c) /\ c \in 1..Len(ns) /\ Joined(T[p], edge, T[c])
        /\ edge \in Seq(Tokens) /\ Len(edge) > 0
    BY <1>8, <1>9
  <2>2. PICK e \in Seq(Tokens), y \in Seq(Tokens) : e = edge /\ y = T[c]
    BY <1>1, <2>1
  <2>3. PICK k \in Nat, l \in Nat : k = Len(x) /\ l = Len(e)
    OBVIOUS
  <2>4. matched = l /\ l <= Len(r) /\ \A i \in 1..l : r[i] = e[i]
    <3>1. /\ matched \in 0..Len(r) /\ matched <= Len(edge)
          /\ \A i \in 1..matched : r[i] = edge[i]
      BY <1>8, <1>9
    <3>2. matched = l
      BY <1>9, <2>2, <2>3, <3>1
    <3> QED
      BY <2>2, <3>1, <3>2
  <2>5. Begins(e, r)
    BY <2>3, <2>4 DEF Begins
  <2>6. Joined(x, e, y)
    BY <1>5, <2>1, <2>2
  <2>7. Joined(y, Drop(r, Len(e)), s)
    BY <1>6, <2>5, <2>6, JoinedDrop
  <2>8. Drop(r, Len(e)) \in Seq(Tokens)
    <3>1. l \in 0..Len(r)
      BY <2>4
    <3> QED
      BY <2>3, <3>1, DropFacts
  <2>9. Begins(y, s)
    BY <2>7, <2>8, JoinedBegins
  <2>10. Len(y) = k + l /\ l > 0
    <3>1. Len(y) = k + l
      BY <2>3, <2>6 DEF Joined
    <3> QED
      BY <2>1, <2>2, <2>3, <3>1
  <2>11. v = WalkTo(ns, w, c, Len(T[c]))
    <3>1. v = WalkTo(ns, w, c, w.cursor + matched)
      BY <1>4, <1>9, Zenon
    <3>2. w.cursor + matched = Len(T[c])
      BY <1>6, <2>2, <2>3, <2>4, <2>10
    <3> QED
      BY <3>1, <3>2
  <2>12. v \in Walks(ns, T, s)
    <3>1. Begins(T[c], s) /\ IsChild(ns, w.node, t, c)
      BY <2>1, <2>2, <2>9
    <3>2. WalkTo(ns, w, c, Len(T[c])) \in Walks(ns, T, s)
      BY <3>1, WalkGoesOn
    <3> QED
      BY <2>11, <3>2
  <2>13. v.cursor = Len(T[c])
    BY <2>11 DEF WalkTo
  <2> QED
    BY <1>6, <2>2, <2>3, <2>10, <2>12, <2>13
<1>10. ASSUME NEW i \in Passed(ns, T, s), i \notin w.visited
       PROVE  rest # <<>> /\ t \in Links(ns, p) /\ ~(matched < Len(edge))
  <2>1. i \in 1..Len(ns) /\ Begins(T[i], s) /\ ~Begins(T[i], T[p])
    BY <1>2, <1>10 DEF Passed
  <2>2. PICK z \in Seq(Tokens) : z = T[i]
    BY <1>1, <2>1
  <2>3. Begins(z, s) /\ ~Begins(z, x)
    BY <1>5, <2>1, <2>2
  <2>4. PICK k \in Nat, l \in Nat, n \in Nat : k = Len(x) /\ l = Len(z) /\ n = Len(r)
    OBVIOUS
  <2>5. ~(l <= k)
    BY <1>6, <2>3, <2>4, BeginsCompare
  <2>6. Begins(x, z)
    BY <1>6, <2>3, <2>4, <2>5, BeginsCompare
  <2>7. Before(T[p], T[i])
    <3>1. Before(x, z)
      BY <2>4, <2>5, <2>6 DEF Before
    <3> QED
      BY <1>5, <2>2, <3>1
  <2>8. Reachable(ns, T, p, i)
    BY <1>2, <2>1, <2>7, Zenon DEF Labelling, Labelled, Branching
  <2>9. n > 0 /\ z[k + 1] = r[1]
    <3>1. Len(s) = k + n /\ \A j \in 1..n : s[k + j] = r[j]
      BY <1>6, <2>4 DEF Joined
    <3>2. l <= k + n /\ \A j \in 1..l : z[j] = s[j]
      BY <2>3, <2>4, <3>1 DEF Begins
    <3>3. 1 \in 1..n /\ k + 1 \in 1..l
      BY <2>5, <3>2
    <3> QED
      BY <3>1, <3>2, <3>3
  <2>10. rest # <<>> /\ t = r[1]
    <3>1. Len(<<>>) = 0
      OBVIOUS
    <3>2. r # <<>>
      BY <2>4, <2>9, <3>1
    <3> QED
      BY <1>5, <1>7, <3>2
  <2>11. t \in Links(ns, p) /\ Begins(T[c], T[i])
    <3>1. T[i][Len(T[p]) + 1] = t
      BY <1>5, <2>2, <2>4, <2>9, <2>10
    <3>2. t \in Links(ns, p) /\ Begins(T[ns[p].children[t]], T[i])
      BY <2>8, <3>1, Zenon DEF Reachable
    <3> QED
      BY <3>2 DEF c
  <2>12. /\ c \in 1..Len(ns) /\ Joined(T[p], edge, T[c]) /\ edge \in Seq(Tokens)
         /\ matched \in 0..Len(r) /\ matched <= Len(edge)
         /\ matched < Len(r) /\ matched < Len(edge) => r[matched + 1] # edge[matched + 1]
    BY <1>8, <2>11
  <2>13. PICK y \in Seq(Tokens), e \in Seq(Tokens), m \in Nat :
            y = T[c] /\ e = edge /\ m = matched
    BY <1>1, <2>12
  <2>14. Begins(y, s)
    <3>1. Begins(y, z)
      BY <2>2, <2>11, <2>13
    <3> QED
      BY <2>3, <3>1, BeginsTransitive
  <2>15. Begins(e, r)
    <3>1. Joined(x, e, y)
      BY <1>5, <2>12, <2>13
    <3> QED
      BY <1>6, <2>14, <3>1, EdgeFollows
  <2>16. ASSUME matched < Len(edge) PROVE FALSE
    <3>1. m < Len(e) /\ (m < Len(r) => r[m + 1] # e[m + 1])
      BY <2>12, <2>13, <2>16
    <3>2. PICK q \in Nat : q = Len(e)
      OBVIOUS
    <3>3. q <= n /\ \A j \in 1..q : e[j] = r[j]
      BY <2>4, <2>15, <3>2 DEF Begins
    <3>4. m + 1 \in 1..q /\ m < n
      BY <3>1, <3>2, <3>3
    <3> QED
      BY <2>4, <3>1, <3>3, <3>4
  <2> QED
    BY <2>10, <2>11, <2>16
<1>11. CASE rest # <<>> /\ t \in Links(ns, p) /\ ~(matched < Len(edge))
  BY <1>9, <1>11 DEF v
<1>12. CASE ~(rest # <<>> /\ t \in Links(ns, p) /\ ~(matched < Len(edge)))
  <2>1. v = w
    BY <1>4, <1>12, Zenon
  <2>2. Complete(w, ns, T, s)
    BY <1>10, <1>12 DEF Complete
  <2> QED
    BY <2>1, <2>2 DEF v
<1> QED
  BY <1>11, <1>12

\* The walk visits the nodes that stand for prefixes of the text, and ends with
\* the handle of the longest that has one.
LEMMA WalkFacts ==
    ASSUME NEW ns, NEW T, Labelling(ns, T), NEW s \in Seq(Tokens)
    PROVE  /\ Walk(ns, s).visited = Passed(ns, T, s)
           /\ BestOf(Walk(ns, s).best, ns, T, Passed(ns, T, s) \cap WithHandle(ns))
<1> DEFINE n == Len(s)
           V == Walks(ns, T, s)
           start == WalkStart(ns)
           turn(v) == WalkTurn(ns, s, v)
           at == CHOOSE at : at = [k \in 0..n |-> IF k = 0 THEN start ELSE turn(at[k - 1])]
           step == [k \in 1..n |-> [v \in V |-> turn(v)]]
<1>1. Walk(ns, s) = at[n]
  BY DEF Walk
<1>2. n \in Nat /\ start \in V /\ \A v \in V : turn(v) \in V
  BY WalkStarts, WalkTurnStep
<1>3. \A v \in V : (turn(v) = v /\ Complete(v, ns, T, s)) \/ turn(v).cursor > v.cursor
  BY WalkTurnStep
<1>4. \A v \in V : v.cursor \in Nat
  BY DEF Walks
<1> HIDE DEF V, start, turn, n
<1>5. \E f : f = [k \in 0..n |-> IF k = 0 THEN start ELSE turn(f[k - 1])]
  <2>1. step \in [1..n -> [V -> V]]
    BY <1>2
  <2>2. PICK f : IsRecursion(f, V, start, n, step)
    <3> HIDE DEF step
    <3> QED
      BY <1>2, <2>1, RecursionExists
  <2>3. f \in [0..n -> V] /\ f[0] = start /\ \A k \in 1..n : f[k] = step[k][f[k - 1]]
    <3> HIDE DEF step
    <3> QED
      BY <2>2 DEF IsRecursion
  <2>4. ASSUME NEW k \in 1..n PROVE step[k][f[k - 1]] = turn(f[k - 1])
    <3>1. k - 1 \in 0..n
      BY <1>2
    <3> HIDE DEF step
    <3>2. f[k - 1] \in V
      BY <2>3, <3>1, Zenon
    <3> USE DEF step
    <3> QED
      BY <3>2, Zenon
  <2>5. \A k \in 0..n : k # 0 => k \in 1..n
    OBVIOUS
  <2> HIDE DEF step
  <2>6. f = [k \in 0..n |-> IF k = 0 THEN start ELSE turn(f[k - 1])]
    BY <2>3, <2>4, <2>5, Zenon
  <2> QED
    BY <2>6, Zenon
<1>6. at = [k \in 0..n |-> IF k = 0 THEN start ELSE turn(at[k - 1])]
  BY <1>5, Zenon
<1> HIDE DEF at
<1>7. at[0] = start /\ \A k \in 1..n : at[k] = turn(at[k - 1])
  <2>1. at[0] = start
    BY <1>2, <1>6
  <2>2. ASSUME NEW k \in 1..n PROVE at[k] = turn(at[k - 1])
    <3>1. k \in 0..n /\ k # 0
      OBVIOUS
    <3> QED
      BY <1>6, <3>1, Zenon
  <2> QED
    BY <2>1, <2>2
\* After k turns the walk has ended or consumed k tokens.
<1> DEFINE ended(v) == turn(v) = v /\ Complete(v, ns, T, s)
           S == {k \in 0..n : at[k] \in V /\ (ended(at[k]) \/ at[k].cursor >= k)}
<1>8. S = 0..n
  <2>1. S \in SUBSET (0..n)
    OBVIOUS
  <2>2. 0 \in S
    BY <1>2, <1>4, <1>7
  <2>3. ASSUME NEW k \in 1..n, k - 1 \in S PROVE k \in S
    <3>1. PICK v \in V : v = at[k - 1] /\ (ended(v) \/ v.cursor >= k - 1)
      BY <2>3
    <3>2. PICK w \in V : w = at[k] /\ w = turn(v)
      BY <1>2, <1>7, <3>1
    <3> k \in 0..n
      OBVIOUS
    <3> HIDE DEF ended
    <3>3. CASE w = v /\ ended(v)
      <4>1. at[k] \in V /\ ended(at[k])
        BY <3>2, <3>3, Zenon
      <4> QED
        BY <4>1
    <3>4. CASE w.cursor > v.cursor /\ v.cursor >= k - 1
      <4>1. PICK x \in Nat, y \in Nat : x = v.cursor /\ y = w.cursor
        BY <1>4
      <4>2. y >= k
        BY <3>4, <4>1
      <4>3. at[k] \in V /\ at[k].cursor >= k
        BY <3>2, <4>1, <4>2
      <4> QED
        BY <4>3
    <3>5. (w = v /\ ended(v)) \/ w.cursor > v.cursor
      BY <1>3, <3>1, <3>2 DEF ended
    <3>6. ended(v) => turn(v) = v
      BY DEF ended
    <3> QED
      BY <3>1, <3>2, <3>3, <3>4, <3>5, <3>6
  <2> HIDE DEF S
  <2> QED
    BY <1>2, <2>1, <2>2, <2>3, IntervalInduction
<1>9. at[n] \in V /\ (Complete(at[n], ns, T, s) \/ at[n].cursor >= n)
  <2>1. n \in S
    <3> HIDE DEF S
    <3> QED
      BY <1>2, <1>8
  <2> QED
    BY <2>1
<1> HIDE DEF S
<1>10. PICK w \in V : w = at[n] /\ (Complete(w, ns, T, s) \/ w.cursor >= n)
  BY <1>9
<1>11. /\ w.node \in 1..Len(ns) /\ w.cursor = Len(T[w.node]) /\ Begins(T[w.node], s)
       /\ w.visited = Passed(ns, T, T[w.node])
       /\ BestOf(w.best, ns, T, w.visited \cap WithHandle(ns))
  BY DEF V, Walks
<1>12. PICK x \in Seq(Tokens) : x = T[w.node]
  BY <1>11, LabelTypes
<1>13. \A i \in 1..Len(ns) : T[i] \in Seq(Tokens)
  BY LabelTypes
<1>14. w.visited \in SUBSET Passed(ns, T, s)
  <2>1. ASSUME NEW i \in 1..Len(ns), Begins(T[i], x) PROVE Begins(T[i], s)
    <3>1. PICK z \in Seq(Tokens) : z = T[i]
      BY <1>13
    <3>2. Begins(z, x) /\ Begins(x, s)
      BY <1>11, <1>12, <2>1, <3>1
    <3> QED
      BY <3>1, <3>2, BeginsTransitive
  <2> QED
    BY <1>11, <1>12, <2>1 DEF Passed
<1>15. Passed(ns, T, s) \in SUBSET w.visited
  <2>1. CASE Complete(w, ns, T, s)
    BY <2>1 DEF Complete
  <2>2. CASE w.cursor >= n
    <3>1. Len(x) >= Len(s) /\ Begins(x, s)
      BY <1>11, <1>12, <2>2 DEF n
    <3>2. PICK k \in Nat, l \in Nat : k = Len(x) /\ l = Len(s)
      OBVIOUS
    <3>3. k = l
      BY <3>1, <3>2 DEF Begins
    <3>4. x = s
      BY <3>1, <3>2, <3>3, BeginsEqual
    <3> QED
      BY <1>11, <1>12, <3>4
  <2> QED
    BY <1>10, <2>1, <2>2
<1>16. w.visited = Passed(ns, T, s)
  BY <1>14, <1>15
<1> QED
  BY <1>1, <1>10, <1>11, <1>16

\* The answer is that of the map.
LEMMA AnswerRefines ==
    ASSUME NEW m, NEW ns, NEW T, NEW tick, NEW capacity, Labelling(ns, T),
           IsMapOf(m, ns, T, tick, capacity), NEW s \in Seq(Tokens), NEW best,
           BestOf(best, ns, T, Passed(ns, T, s) \cap WithHandle(ns))
    PROVE  best = Abstract!LookupAnswer(m, s)
<1> DEFINE W == WithHandle(ns)
           S == Passed(ns, T, s) \cap W
           P == Abstract!CachedPrefixes(m, s)
           longest == CHOOSE t \in P : \A u \in P : Len(u) <= Len(t)
<1>1. /\ \A i \in W : i \in 1..Len(ns)
      /\ \A i \in 1..Len(ns) : T[i] \in Seq(Tokens) /\ Len(T[i]) \in Nat
      /\ Abstract!Cached(m) = Labels(T, W)
      /\ \A i \in W : m.entries[T[i]] = ns[i].handle.block_id
  BY LabelTypes, MapParts
<1>2. \A i \in W : i \in S <=> Begins(T[i], s)
  BY <1>1 DEF Passed
<1>3. P = Labels(T, S)
  <2>1. \A i \in W : Abstract!IsPrefix(T[i], s) <=> i \in S
    BY <1>1, <1>2, PrefixBegins
  <2>2. S \in SUBSET W
    OBVIOUS
  <2>3. P = {t \in Labels(T, W) : Abstract!IsPrefix(t, s)}
    BY <1>1 DEF Abstract!CachedPrefixes
  <2> HIDE DEF W, S, P
  <2> QED
    BY <2>1, <2>2, <2>3 DEF Labels
<1>4. Abstract!LookupAnswer(m, s) =
         IF P = {} THEN [matched_tokens |-> 0, handle |-> NoHandle]
         ELSE [matched_tokens |-> Len(longest), handle |-> m.entries[longest]]
  BY Zenon DEF Abstract!LookupAnswer
<1>5. S = {} => P = {}
  BY <1>3 DEF Labels
<1>6. ASSUME NEW i \in S, \A j \in S : Len(T[j]) <= Len(T[i])
      PROVE  P # {} /\ longest = T[i]
  <2>1. T[i] \in P /\ \A u \in P : Len(u) <= Len(T[i])
    BY <1>3, <1>6 DEF Labels
  <2>2. ASSUME NEW t \in P, \A u \in P : Len(u) <= Len(t) PROVE t = T[i]
    <3>1. PICK j \in S : t = T[j]
      BY <1>3 DEF Labels
    <3>2. PICK x \in Seq(Tokens), y \in Seq(Tokens) : x = T[i] /\ y = T[j]
      BY <1>1
    <3>3. Begins(x, s) /\ Begins(y, s)
      BY <1>2, <3>2
    <3>4. Len(x) <= Len(y) /\ Len(y) <= Len(x) /\ Len(x) \in Nat /\ Len(y) \in Nat
      BY <2>1, <2>2, <3>1, <3>2
    <3>5. Len(x) = Len(y)
      BY <3>4
    <3>6. x = y
      BY <3>3, <3>4, <3>5, BeginsCompare, BeginsEqual
    <3> QED
      BY <3>1, <3>2, <3>6
  <2> HIDE DEF P
  <2>3. longest = T[i]
    BY <2>1, <2>2, Zenon
  <2> QED
    BY <2>1, <2>3
<1> HIDE DEF P, longest
<1>7. CASE S = {} /\ best = [matched_tokens |-> 0, handle |-> NoHandle]
  BY <1>4, <1>5, <1>7
<1>8. CASE \E i \in S : /\ \A j \in S : Len(T[j]) <= Len(T[i])
                        /\ best = [matched_tokens |-> Len(T[i]),
                                   handle |-> ns[i].handle.block_id]
  <2>1. PICK i \in S : /\ \A j \in S : Len(T[j]) <= Len(T[i])
                       /\ best = [matched_tokens |-> Len(T[i]),
                                  handle |-> ns[i].handle.block_id]
    BY <1>8
  <2>2. P # {} /\ longest = T[i]
    BY <1>6, <2>1
  <2>3. m.entries[T[i]] = ns[i].handle.block_id
    BY <1>1
  <2> QED
    BY <1>4, <2>1, <2>2, <2>3, Zenon
<1> QED
  BY <1>7, <1>8, Zenon DEF BestOf

\* The ticks are set as in the map.
LEMMA TouchedRefines ==
    ASSUME NEW m, NEW ns, NEW T, NEW tick, NEW capacity, Labelling(ns, T),
           IsMapOf(m, ns, T, tick, capacity), NEW s \in Seq(Tokens), NEW ms,
           TicksSet(ms, ns, Passed(ns, T, s), tick + 1)
    PROVE  IsMapOf(Abstract!Touched(m, s), ms, T, tick + 1, capacity)
<1> DEFINE W == WithHandle(ns)
           C == Labels(T, W)
<1>1. PICK e, a : Entries(m, e, a, ns, T, tick, capacity)
  BY Zenon DEF IsMapOf
<1>2. /\ m = [entries |-> e, last_access |-> a, clock |-> tick, capacity |-> capacity]
      /\ e = [t \in C |-> e[t]]
      /\ \A i \in W : e[T[i]] = ns[i].handle.block_id
      /\ \A i \in W : a[T[i]] = ns[i].last_access_tick
  BY <1>1, Zenon DEF Entries
<1>3. Abstract!Cached(m) = C /\ m.last_access = a /\ m.clock = tick
  <2>1. Abstract!Cached(m) = C
    BY MapParts
  <2> QED
    BY <1>2, <2>1
<1>4. /\ \A i \in W : i \in 1..Len(ns)
      /\ \A i \in 1..Len(ns) : T[i] \in Seq(Tokens)
  BY LabelTypes
<1>5. /\ WithHandle(ms) = W
      /\ \A i \in W : ms[i].handle = ns[i].handle
      /\ \A i \in W : ms[i].last_access_tick =
            IF i \in Passed(ns, T, s) THEN tick + 1 ELSE ns[i].last_access_tick
  BY <1>4 DEF TicksSet
<1>6. \A i \in W : i \in Passed(ns, T, s) <=> Abstract!IsPrefix(T[i], s)
  BY <1>4, PrefixBegins DEF Passed
<1>7. \A i \in W : T[i] \in C
  BY DEF Labels
<1> DEFINE b == [t \in C |-> IF Abstract!IsPrefix(t, s) THEN tick + 1 ELSE a[t]]
<1> HIDE DEF W, C
<1>8. Abstract!Touched(m, s) =
         [entries |-> e, last_access |-> b, clock |-> tick + 1, capacity |-> capacity]
  <2>1. Abstract!Touched(m, s) = [m EXCEPT !.clock = @ + 1, !.last_access = b]
    BY <1>3, Zenon DEF Abstract!Touched
  <2> HIDE DEF b
  <2> QED
    BY <1>2, <2>1
<1>9. b = [t \in C |-> b[t]]
  OBVIOUS
<1>10. ASSUME NEW i \in W PROVE b[T[i]] = ms[i].last_access_tick
  <2>1. b[T[i]] = IF Abstract!IsPrefix(T[i], s) THEN tick + 1 ELSE a[T[i]]
    BY <1>7
  <2> HIDE DEF b
  <2> QED
    BY <1>2, <1>5, <1>6, <2>1
<1> HIDE DEF b
<1>11. \A i \in W : e[T[i]] = ms[i].handle.block_id
  BY <1>2, <1>5
<1>12. Entries(Abstract!Touched(m, s), e, b, ms, T, tick + 1, capacity)
  BY <1>2, <1>5, <1>8, <1>9, <1>10, <1>11, Zenon DEF Entries, C
<1> QED
  BY <1>12, Zenon DEF IsMapOf

-----------------------------------------------------------------------------
(***************************************************************************)
(* The operations of the cache are those of the map.                       *)
(***************************************************************************)

\* A lookup answers as the map does and refreshes the same entries.
LEMMA LookupRefines ==
    ASSUME CacheInv, NEW s \in Texts, Lookup(s)
    PROVE  Abstract!Lookup(s)
<1>1. PICK T : Labelling(nodes, T)
  BY DEF CacheInv
<1>2. PICK ns, tick, cap, m : /\ ns = nodes /\ tick = clock /\ cap = capacity_tokens
                              /\ m = MapOf(nodes, clock, capacity_tokens)
  OBVIOUS
<1>3. PICK ms, mm : ms = nodes' /\ mm = MapOf(nodes', clock', capacity_tokens')
  OBVIOUS
<1>4. s \in Seq(Tokens) /\ tick \in Nat /\ Labelling(ns, T)
  BY <1>1, <1>2, TextType DEF CacheInv, CacheTypes
<1>5. Walk(ns, s).visited = Passed(ns, T, s)
  BY <1>4, WalkFacts
<1>6. TicksSet(ms, ns, Passed(ns, T, s), tick + 1)
  <2>1. PICK V : V = Passed(ns, T, s)
    OBVIOUS
  <2>2. PICK next \in Nat : next = tick + 1
    BY <1>4
  <2>3. ms = [i \in DOMAIN ns |-> IF i \in V THEN [ns[i] EXCEPT !.last_access_tick = next]
                                  ELSE ns[i]]
    BY <1>2, <1>3, <1>5, <2>1, <2>2 DEF Lookup
  <2>4. ns \in Seq(NodeRecs)
    BY <1>4, LabelTypes
  <2>5. TicksSet(ms, ns, V, next)
    BY <2>3, <2>4, TicksSetFacts, Zenon
  <2> QED
    BY <2>1, <2>2, <2>5
<1>7. Labelling(ms, T)
  <2>1. /\ ns \in Seq(NodeRecs) /\ ms \in Seq(NodeRecs) /\ Tree(ns) /\ Labelled(ns, T)
        /\ Sized(ns, T)
    BY <1>4, <1>6, LabelTypes DEF Labelling, TicksSet
  <2>2. Tree(ms) /\ Labelled(ms, T)
    BY <1>6, <2>1, SameShape DEF TicksSet
  <2>3. \A i \in WithHandle(ns) : ms[i].handle = ns[i].handle
    BY <1>6, <2>1, HandleTypes DEF TicksSet
  <2>4. Sized(ms, T)
    BY <1>6, <2>1, <2>3 DEF Sized, TicksSet
  <2> QED
    BY <2>2, <2>4 DEF Labelling
<1>8. IsMapOf(m, ns, T, tick, cap)
  BY <1>2, <1>4, MapOfNodes
<1>9. clock < MaxClock /\ clock' = tick + 1 /\ capacity_tokens' = cap
      /\ call' = <<"lookup", s>> /\ answer' = Walk(ns, s).best
  BY <1>2 DEF Lookup
<1>10. mm = Abstract!Touched(m, s)
  <2>1. IsMapOf(mm, ms, T, tick + 1, cap)
    BY <1>3, <1>7, <1>9, MapOfNodes
  <2>2. IsMapOf(Abstract!Touched(m, s), ms, T, tick + 1, cap)
    BY <1>4, <1>6, <1>8, TouchedRefines
  <2> QED
    BY <2>1, <2>2, MapsEqual
<1>11. answer' = Abstract!LookupAnswer(m, s)
  <2>1. BestOf(Walk(ns, s).best, ns, T, Passed(ns, T, s) \cap WithHandle(ns))
    BY <1>4, WalkFacts
  <2> QED
    BY <1>4, <1>8, <1>9, <2>1, AnswerRefines
<1>12. m.clock < MaxClock
  BY <1>2, <1>8, <1>9, MapParts
<1> QED
  BY <1>2, <1>3, <1>9, <1>10, <1>11, <1>12 DEF Abstract!Lookup

\* evict_coldest drops entries that the map may drop, and returns their handles.
LEMMA EvictColdestRefines ==
    ASSUME CacheInv, NEW n \in Capacities, EvictColdest(n)
    PROVE  Abstract!EvictColdest(n)
<1>1. PICK T : Labelling(nodes, T)
  BY DEF CacheInv
<1>2. PICK ns, tick, cap, m, E : /\ ns = nodes /\ tick = clock /\ cap = capacity_tokens
                                 /\ m = MapOf(nodes, clock, capacity_tokens)
                                 /\ E = Coldest(nodes, n)
  OBVIOUS
<1>3. PICK mm : mm = MapOf(nodes', clock', capacity_tokens')
  OBVIOUS
<1>4. Labelling(ns, T) /\ ns \in Seq(NodeRecs) /\ n \in Nat
  BY <1>1, <1>2, LabelTypes, RadixCacheAssumption
<1>5. IsMapOf(m, ns, T, tick, cap)
  BY <1>2, <1>4, MapOfNodes
<1>6. /\ nodes' = Cleared(ns, E) /\ clock' = tick /\ capacity_tokens' = cap
      /\ call' = <<"evict", n>> /\ answer' = {ns[i].handle.block_id : i \in E}
  BY <1>2 DEF EvictColdest
<1>7. E = Coldest(ns, n)
  BY <1>2
<1>8. Labels(T, E) \in Abstract!Coldest(m, n)
  BY <1>4, <1>5, <1>7, ColdestRefines
<1>9. mm = Abstract!Without(m, Labels(T, E))
  BY <1>3, <1>4, <1>5, <1>6, <1>7, EvictionRefines
<1>10. {ns[i].handle.block_id : i \in E} = {m.entries[t] : t \in Labels(T, E)}
  <2>1. E \in SUBSET WithHandle(ns)
    BY <1>4, <1>7, ColdestFrees
  <2>2. \A i \in E : m.entries[T[i]] = ns[i].handle.block_id
    BY <1>5, <2>1, MapParts
  <2>3. \A i \in E : T[i] \in Labels(T, E)
    BY DEF Labels
  <2>4. \A t \in Labels(T, E) : \E i \in E : t = T[i]
    BY DEF Labels
  <2>5. ASSUME NEW i \in E PROVE ns[i].handle.block_id \in {m.entries[t] : t \in Labels(T, E)}
    BY <2>2, <2>3
  <2>6. ASSUME NEW t \in Labels(T, E) PROVE m.entries[t] \in {ns[i].handle.block_id : i \in E}
    BY <2>2, <2>4
  <2> QED
    BY <2>5, <2>6
<1> QED
  BY <1>2, <1>3, <1>6, <1>8, <1>9, <1>10 DEF Abstract!EvictColdest

\* Only the limit of the map changes with that of the cache.
LEMMA CapacityRefines ==
    ASSUME NEW m, NEW ns, NEW T, NEW tick, NEW capacity, NEW c,
           IsMapOf(m, ns, T, tick, capacity)
    PROVE  IsMapOf([m EXCEPT !.capacity = c], ns, T, tick, c)
<1>1. PICK e, a : Entries(m, e, a, ns, T, tick, capacity)
  BY Zenon DEF IsMapOf
<1>2. m = [entries |-> e, last_access |-> a, clock |-> tick, capacity |-> capacity]
  BY <1>1, Zenon DEF Entries
<1>3. [m EXCEPT !.capacity = c] =
         [entries |-> e, last_access |-> a, clock |-> tick, capacity |-> c]
  BY <1>2
<1>4. Entries([m EXCEPT !.capacity = c], e, a, ns, T, tick, c)
  BY <1>1, <1>3, Zenon DEF Entries
<1> QED
  BY <1>4, Zenon DEF IsMapOf

\* set_capacity_tokens changes the limit and trims to it.
LEMMA SetCapacityRefines ==
    ASSUME CacheInv, NEW c \in Capacities \cup {NoCapacity}, SetCapacity(c)
    PROVE  Abstract!SetCapacity(c)
<1>1. PICK T : Labelling(nodes, T)
  BY DEF CacheInv
<1>2. PICK ns, tick, cap, m, total :
         /\ ns = nodes /\ tick = clock /\ cap = capacity_tokens
         /\ m = MapOf(nodes, clock, capacity_tokens) /\ total = resident_tokens
  OBVIOUS
<1>3. PICK mm : mm = MapOf(nodes', clock', capacity_tokens')
  OBVIOUS
<1>4. Labelling(ns, T) /\ total = HandleTokens(ns, WithHandle(ns))
  BY <1>1, <1>2 DEF CacheInv, ResidentExact
<1>5. IsMapOf(m, ns, T, tick, cap)
  BY <1>2, <1>4, MapOfNodes
<1>6. /\ nodes' = Cleared(ns, Coldest(ns, Overflow(total, c)))
      /\ clock' = tick /\ capacity_tokens' = c /\ call' = <<"set_capacity", c>>
      /\ answer' = NoHandle
  BY <1>2 DEF SetCapacity, EvictToCapacity
<1>7. mm \in Abstract!Trimmed([m EXCEPT !.capacity = c])
  <2>1. IsMapOf([m EXCEPT !.capacity = c], ns, T, tick, c)
    BY <1>5, CapacityRefines
  <2> QED
    BY <1>3, <1>4, <1>6, <2>1, TrimmedRefines
<1> QED
  BY <1>2, <1>3, <1>6, <1>7 DEF Abstract!SetCapacity

LEMMA FieldsReplaced ==
    ASSUME NEW m, NEW e, NEW c, NEW tick, NEW capacity, NEW x, NEW y,
           m = [entries |-> e, last_access |-> c, clock |-> tick, capacity |-> capacity]
    PROVE  [m EXCEPT !.clock = @ + 1, !.entries = x, !.last_access = y] =
              [entries |-> x, last_access |-> y, clock |-> tick + 1, capacity |-> capacity]
<1>1. PICK z : z = tick + 1
  OBVIOUS
<1>2. PICK n : n = [m EXCEPT !.clock = z]
  OBVIOUS
<1>3. PICK o : o = [n EXCEPT !.entries = x]
  OBVIOUS
<1>4. [m EXCEPT !.clock = @ + 1, !.entries = x, !.last_access = y] =
         [o EXCEPT !.last_access = y]
  <2>1. m.clock + 1 = z
    BY <1>1
  <2> QED
    BY <1>2, <1>3, <2>1, Zenon
<1>5. o = [entries |-> x, last_access |-> c, clock |-> z, capacity |-> capacity]
  BY <1>2, <1>3
<1> QED
  BY <1>1, <1>4, <1>5

\* The map with the entry of s, before it is trimmed.
Added(m, s, h) ==
    [m EXCEPT
        !.clock = @ + 1,
        !.entries = [t \in Abstract!Cached(m) \cup {s} |->
                        IF t = s THEN h ELSE m.entries[t]],
        !.last_access = [t \in Abstract!Cached(m) \cup {s} |->
                            IF t \in {s, <<>>} THEN m.clock + 1 ELSE m.last_access[t]]]

\* insert adds one entry, or replaces it, and refreshes that of the root too:
\* the split and the new nodes add no other.
LEMMA PlacedRefines ==
    ASSUME NEW m, NEW ns, NEW T, NEW tick \in Nat, NEW capacity, Labelling(ns, T),
           IsMapOf(m, ns, T, tick, capacity), NEW s \in Seq(Tokens), NEW h \in Handles,
           NEW fs, NEW k, NEW L, Labelling(fs, L), IsPlaced(fs, k, L, ns, T, tick + 1, s, h)
    PROVE  IsMapOf(Added(m, s, h.block_id), fs, L, tick + 1, capacity)
<1>0. PICK b, a :
         /\ b = [t \in Abstract!Cached(m) \cup {s} |->
                    IF t = s THEN h.block_id ELSE m.entries[t]]
         /\ a = [t \in Abstract!Cached(m) \cup {s} |->
                    IF t \in {s, <<>>} THEN m.clock + 1 ELSE m.last_access[t]]
  OBVIOUS
<1> DEFINE W == WithHandle(ns)
           F == WithHandle(fs)
           C == Labels(T, W)
           D == Labels(L, F)
<1>1. /\ Abstract!Cached(m) = C
      /\ \A i \in W : m.entries[T[i]] = ns[i].handle.block_id
      /\ \A i \in W : m.last_access[T[i]] = ns[i].last_access_tick
      /\ m.clock = tick
  BY MapParts
<1>2. /\ Len(ns) \in Nat /\ Len(fs) \in Nat /\ DOMAIN ns = 1..Len(ns)
      /\ DOMAIN fs = 1..Len(fs)
      /\ \A i \in 1..Len(fs) : L[i] = <<>> <=> i = 1
  BY LabelTypes
<1>3. /\ k \in 1..Len(fs) /\ L[k] = s
      /\ fs[k].handle = h /\ fs[k].last_access_tick = tick + 1
      /\ Len(ns) <= Len(fs) /\ \A i \in 1..Len(ns) : L[i] = T[i]
      /\ \A i \in 1..Len(ns) : i # k =>
            /\ fs[i].handle = ns[i].handle
            /\ fs[i].last_access_tick = IF i = 1 THEN tick + 1 ELSE ns[i].last_access_tick
      /\ \A i \in (Len(ns) + 1)..Len(fs) : i # k => fs[i].handle = NoHandle
  BY DEF IsPlaced
<1>4. k \in F
  <2>1. h # NoHandle
    BY RadixCacheAssumption DEF Handles
  <2> QED
    BY <1>2, <1>3, <2>1 DEF WithHandle, HasHandle
<1>5. ASSUME NEW j \in F, j # k PROVE j \in W /\ j \in 1..Len(ns) /\ L[j] = T[j] /\ L[j] # s
  <2>1. j \in 1..Len(fs) /\ fs[j].handle # NoHandle
    BY <1>2 DEF WithHandle, HasHandle
  <2>2. j \in 1..Len(ns)
    BY <1>2, <1>3, <1>5, <2>1
  <2>3. j \in W
    BY <1>2, <1>3, <1>5, <2>1, <2>2 DEF WithHandle, HasHandle
  <2>4. L[j] # L[k]
    BY <1>3, <1>5, <2>1, TextsDiffer
  <2> QED
    BY <1>3, <2>2, <2>3, <2>4
<1>6. ASSUME NEW i \in W PROVE T[i] \in D
  <2>1. i \in 1..Len(ns) /\ ns[i].handle # NoHandle
    BY <1>2 DEF WithHandle, HasHandle
  <2>2. i \in F
    <3>1. CASE i = k
      BY <1>4, <3>1
    <3>2. CASE i # k
      BY <1>2, <1>3, <2>1, <3>2 DEF WithHandle, HasHandle
    <3> QED
      BY <3>1, <3>2
  <2>3. L[i] = T[i]
    BY <1>3, <2>1
  <2> QED
    BY <2>2, <2>3 DEF Labels
<1>7. C \cup {s} = D
  <2>1. s \in D
    BY <1>3, <1>4 DEF Labels
  <2>2. \A t \in C : t \in D
    BY <1>6 DEF Labels
  <2>3. \A t \in D : t \in C \/ t = s
    BY <1>3, <1>5 DEF Labels
  <2> QED
    BY <2>1, <2>2, <2>3
<1>8. \A j \in F : L[j] \in D
  BY DEF Labels
<1> HIDE DEF W, F, C, D
<1>9. b = [t \in D |-> b[t]] /\ a = [t \in D |-> a[t]]
  BY <1>0, <1>1, <1>7, Zenon
<1>10. ASSUME NEW j \in F PROVE b[L[j]] = fs[j].handle.block_id
  <2>1. b[L[j]] = IF L[j] = s THEN h.block_id ELSE m.entries[L[j]]
    BY <1>0, <1>1, <1>7, <1>8
  <2>2. CASE j = k
    BY <1>3, <2>1, <2>2
  <2>3. CASE j # k
    <3>1. m.entries[L[j]] = ns[j].handle.block_id /\ L[j] # s
      BY <1>1, <1>5, <2>3
    <3>2. fs[j].handle = ns[j].handle
      BY <1>3, <1>5, <2>3
    <3> QED
      BY <2>1, <3>1, <3>2
  <2> QED
    BY <2>2, <2>3
<1>11. ASSUME NEW j \in F PROVE a[L[j]] = fs[j].last_access_tick
  <2>1. a[L[j]] = IF L[j] \in {s, <<>>} THEN tick + 1 ELSE m.last_access[L[j]]
    BY <1>0, <1>1, <1>7, <1>8
  <2>2. CASE j = k
    BY <1>3, <2>1, <2>2
  <2>3. CASE j # k
    <3>1. m.last_access[L[j]] = ns[j].last_access_tick /\ L[j] # s /\ j \in 1..Len(ns)
      BY <1>1, <1>5, <2>3
    <3>2. fs[j].last_access_tick = IF j = 1 THEN tick + 1 ELSE ns[j].last_access_tick
      BY <1>3, <2>3, <3>1
    <3>3. L[j] = <<>> <=> j = 1
      BY <1>2, <1>3, <3>1
    <3> QED
      BY <2>1, <3>1, <3>2, <3>3, Zenon
  <2> QED
    BY <2>2, <2>3
<1>12. PICK e, c : Entries(m, e, c, ns, T, tick, capacity)
  BY Zenon DEF IsMapOf
<1>13. m = [entries |-> e, last_access |-> c, clock |-> tick, capacity |-> capacity]
  BY <1>12, Zenon DEF Entries
<1>14. Added(m, s, h.block_id) =
          [entries |-> b, last_access |-> a, clock |-> tick + 1, capacity |-> capacity]
  <2>1. Added(m, s, h.block_id) =
           [m EXCEPT !.clock = @ + 1, !.entries = b, !.last_access = a]
    BY <1>0, Zenon DEF Added
  <2> QED
    BY <1>13, <2>1, FieldsReplaced, Zenon
<1>15. Entries(Added(m, s, h.block_id), b, a, fs, L, tick + 1, capacity)
  BY <1>9, <1>10, <1>11, <1>14, Zenon DEF Entries, D, F
<1> QED
  BY <1>15, Zenon DEF IsMapOf

\* What the new node held before is what the map replaces.
LEMMA ReplacedRefines ==
    ASSUME NEW m, NEW ns, NEW T, NEW tick, NEW capacity, Labelling(ns, T),
           IsMapOf(m, ns, T, tick, capacity), NEW s \in Seq(Tokens), NEW h, NEW next,
           NEW fs, NEW k, NEW L, Labelling(fs, L), IsPlaced(fs, k, L, ns, T, next, s, h),
           NEW am, OldHandles(am, fs, ns)
    PROVE  (IF am[k].handle = NoHandle THEN NoHandle ELSE am[k].handle.block_id)
              = Abstract!Replaced(m, s)
<1> DEFINE W == WithHandle(ns)
<1>1. /\ Abstract!Cached(m) = Labels(T, W)
      /\ \A i \in W : m.entries[T[i]] = ns[i].handle.block_id
  BY MapParts
<1>2. /\ Len(ns) \in Nat /\ Len(fs) \in Nat /\ DOMAIN ns = 1..Len(ns)
      /\ DOMAIN fs = 1..Len(fs)
  BY LabelTypes
<1>3. /\ k \in 1..Len(fs) /\ L[k] = s
      /\ Len(ns) <= Len(fs) /\ \A i \in 1..Len(ns) : L[i] = T[i]
  BY DEF IsPlaced
<1>4. am[k].handle = IF k \in 1..Len(ns) THEN ns[k].handle ELSE NoHandle
  BY <1>3 DEF OldHandles
<1>5. Abstract!Replaced(m, s) = IF s \in Labels(T, W) THEN m.entries[s] ELSE NoHandle
  BY <1>1 DEF Abstract!Replaced
<1>6. CASE k \in W
  <2>1. k \in 1..Len(ns) /\ ns[k].handle # NoHandle
    BY <1>2, <1>6 DEF WithHandle, HasHandle
  <2>2. T[k] = s
    BY <1>3, <2>1
  <2>3. s \in Labels(T, W)
    BY <1>6, <2>2 DEF Labels
  <2>4. m.entries[s] = ns[k].handle.block_id
    BY <1>1, <1>6, <2>2
  <2> QED
    BY <1>4, <1>5, <2>1, <2>3, <2>4
<1>7. CASE k \notin W
  <2>1. am[k].handle = NoHandle
    BY <1>2, <1>4, <1>7 DEF WithHandle, HasHandle
  <2>2. ASSUME NEW i \in W, T[i] = s PROVE FALSE
    <3>1. i \in 1..Len(ns)
      BY <1>2 DEF WithHandle
    <3>2. i \in 1..Len(fs) /\ L[i] = L[k]
      BY <1>2, <1>3, <2>2, <3>1
    <3>3. i = k
      BY <1>3, <3>2, TextsDiffer
    <3> QED
      BY <1>7, <3>3
  <2>3. s \notin Labels(T, W)
    BY <2>2 DEF Labels
  <2> QED
    BY <1>5, <2>1, <2>3
<1> QED
  BY <1>6, <1>7

\* insert is that of the map.
LEMMA InsertRefines ==
    ASSUME CacheInv, NEW s \in Texts, Insert(s)
    PROVE  Abstract!Insert(s)
<1>1. PICK T : Labelling(nodes, T)
  BY DEF CacheInv
<1>2. PICK ns, tick, cap, m :
         /\ ns = nodes /\ tick = clock /\ cap = capacity_tokens
         /\ m = MapOf(nodes, clock, capacity_tokens)
  OBVIOUS
<1>3. PICK mm : mm = MapOf(nodes', clock', capacity_tokens')
  OBVIOUS
<1>4. /\ Labelling(ns, T) /\ ns \in Seq(NodeRecs) /\ s \in Seq(Tokens)
      /\ tick \in Nat /\ tick + 1 \in Nat /\ cap \in Capacities \cup {NoCapacity}
      /\ resident_tokens = HandleTokens(ns, WithHandle(ns))
  BY <1>1, <1>2, LabelTypes, TextType DEF CacheInv, CacheTypes, ResidentExact
<1>5. PICK h : h = [block_id |-> tick, token_len |-> Len(s)]
  OBVIOUS
<1>6. h \in Handles /\ h.token_len = Len(s) /\ h.block_id = tick
  BY <1>4, <1>5 DEF Handles
<1>7. PICK at : at = Into(ns, tick + 1, s)
  OBVIOUS
<1>8. PICK fs, k, am : fs = Placed(at, tick + 1, h) /\ k = at.node /\ am = at.nodes
  OBVIOUS
<1>9. PICK total : total = CountAfter(am[k].handle, h)
  OBVIOUS
<1>10. /\ nodes' = Cleared(fs, Coldest(fs, Overflow(total, cap)))
       /\ clock' = tick + 1 /\ capacity_tokens' = cap /\ clock < MaxClock
       /\ call' = <<"insert", s>>
       /\ answer' = IF am[k].handle = NoHandle THEN NoHandle ELSE am[k].handle.block_id
  BY <1>2, <1>5, <1>7, <1>8, <1>9
     DEF Insert, EvictToCapacity, Into, Refreshed, Placed, WithNew
<1>11. PICK L : /\ Labelling(fs, L) /\ IsPlaced(fs, k, L, ns, T, tick + 1, s, h)
                /\ OldHandles(am, fs, ns)
  BY <1>4, <1>6, <1>7, <1>8, PlacedFacts, Zenon
<1>12. total = HandleTokens(fs, WithHandle(fs))
  <2>1. fs \in Seq(NodeRecs) /\ am \in Seq(NodeRecs)
    BY <1>11, LabelTypes DEF OldHandles
  <2> QED
    BY <1>4, <1>6, <1>9, <1>11, <2>1, PlacedCount
<1>13. IsMapOf(m, ns, T, tick, cap)
  BY <1>2, <1>4, MapOfNodes
<1>14. PICK added : added = Added(m, s, h.block_id)
  OBVIOUS
<1>15. IsMapOf(added, fs, L, tick + 1, cap)
  BY <1>4, <1>6, <1>11, <1>13, <1>14, PlacedRefines, Zenon
<1>16. mm \in Abstract!Trimmed(added)
  BY <1>3, <1>4, <1>10, <1>11, <1>12, <1>15, TrimmedRefines
<1>17. m.clock = tick
  BY <1>13, MapParts
<1>18. Abstract!Trimmed(added) = Abstract!Inserted(m, s, m.clock)
  BY <1>6, <1>14, <1>17, Zenon DEF Added, Abstract!Inserted
<1>19. answer' = Abstract!Replaced(m, s)
  BY <1>4, <1>10, <1>11, <1>13, ReplacedRefines
<1> QED
  BY <1>2, <1>3, <1>10, <1>16, <1>17, <1>18, <1>19 DEF Abstract!Insert

\* A new cache is the empty map.
LEMMA InitRefines == Init => Abstract!Init
<1> SUFFICES ASSUME Init PROVE Abstract!Init
  OBVIOUS
<1>1. nodes = <<Node(<<>>, <<>>, 0)>> /\ clock = 1 /\ capacity_tokens = NoCapacity
  BY DEF Init
<1>2. PICK ns, m : ns = nodes /\ m = MapOf(nodes, clock, capacity_tokens)
  OBVIOUS
<1>3. WithHandle(ns) = {}
  BY <1>1, <1>2 DEF WithHandle, HasHandle, Node
<1>4. CachedTexts(ns) = {}
  BY <1>3 DEF CachedTexts
<1>5. m = [entries |-> [s \in CachedTexts(ns) |-> ns[Entry(ns, s)].handle.block_id],
           last_access |-> [s \in CachedTexts(ns) |-> ns[Entry(ns, s)].last_access_tick],
           clock |-> 1, capacity |-> NoCapacity]
  BY <1>1, <1>2, Zenon DEF MapOf
<1>6. /\ [s \in CachedTexts(ns) |-> ns[Entry(ns, s)].handle.block_id] = <<>>
      /\ [s \in CachedTexts(ns) |-> ns[Entry(ns, s)].last_access_tick] = <<>>
  BY <1>4
<1>7. m = Abstract!Empty
  BY <1>5, <1>6 DEF Abstract!Empty
<1> QED
  BY <1>2, <1>7 DEF Init, Abstract!Init

LEMMA StepRefines ==
    CacheInv /\ [Next]_vars =>
        [Abstract!Next]_<<MapOf(nodes, clock, capacity_tokens), call, answer>>
<1> SUFFICES ASSUME CacheInv, [Next]_vars
             PROVE  [Abstract!Next]_<<MapOf(nodes, clock, capacity_tokens), call, answer>>
  OBVIOUS
<1>1. ASSUME NEW s \in Texts, Lookup(s) PROVE Abstract!Next
  BY <1>1, LookupRefines DEF Abstract!Next
<1>2. ASSUME NEW s \in Texts, Insert(s) PROVE Abstract!Next
  BY <1>2, InsertRefines DEF Abstract!Next
<1>3. ASSUME NEW c \in Capacities \cup {NoCapacity}, SetCapacity(c) PROVE Abstract!Next
  BY <1>3, SetCapacityRefines DEF Abstract!Next
<1>4. ASSUME NEW n \in Capacities, EvictColdest(n) PROVE Abstract!Next
  BY <1>4, EvictColdestRefines DEF Abstract!Next
<1>5. CASE UNCHANGED vars
  BY <1>5 DEF vars
<1> QED
  BY <1>1, <1>2, <1>3, <1>4, <1>5 DEF Next

\* The trie implements the map: its lookups return the longest cached prefix,
\* an insert replaces the handle of exactly the same sequence and no other, and
\* eviction is in the order of last use, for every set of texts and limits,
\* every order of operations and every shape the tree can take.
THEOREM ImplementsPrefixMap == Spec => RefinesPrefixMap
BY InitRefines, StepRefines, CacheInvariance, PTL
   DEF Spec, RefinesPrefixMap, Abstract!Spec
=============================================================================
