------------------------- MODULE EngineBatchProofs -------------------------
(***************************************************************************)
(* Proofs about KvMemory, for every block size, number of pages, capacity  *)
(* and set of texts, and about EngineBatch, which computes on that memory, *)
(* for every model, grammar, draft window, number of slots and pages, and  *)
(* set of batches.                                                         *)
(*                                                                         *)
(* None of the properties of KvMemory is inductive alone.  Together they   *)
(* are, once the conservation of pages is stated without counting          *)
(* (PagesOnce): release needs that the replaced handle is mapped, which is *)
(* CachedIsBacked; CachedIsBacked needs that handles are distinct and      *)
(* smaller than the next block id; and that the new mapping takes only     *)
(* pages that nobody has is PagesOnce.                                     *)
(***************************************************************************)
EXTENDS EngineBatch, NaturalsLemmas, SequenceTheorems, FiniteSetTheorems

-----------------------------------------------------------------------------
(***************************************************************************)
(* The page pool.                                                          *)
(***************************************************************************)

\* Every page is at one place of the free queue F or of the mappings M.
PagesOnce(F, M) ==
    /\ \A i, j \in DOMAIN F : F[i] = F[j] => i = j
    /\ \A g, h \in DOMAIN M : \A i \in DOMAIN M[g], j \in DOMAIN M[h] :
          M[g][i] = M[h][j] => g = h /\ i = j
    /\ \A i \in DOMAIN F, h \in DOMAIN M : \A j \in DOMAIN M[h] : F[i] # M[h][j]
    /\ \A p \in Pages :
          \/ \E i \in DOMAIN F : F[i] = p
          \/ \E h \in DOMAIN M : \E j \in DOMAIN M[h] : M[h][j] = p

\* The front k of the free queue goes to the new handle h.
LEMMA TakePages ==
    ASSUME NEW F \in Seq(Pages), NEW M, NEW h, h \notin DOMAIN M,
           \A g \in DOMAIN M : M[g] \in Seq(Pages),
           NEW k \in Nat, k <= Len(F), PagesOnce(F, M)
    PROVE  LET rest == SubSeq(F, k + 1, Len(F))
               taken == SubSeq(F, 1, k)
           IN  /\ rest \in Seq(Pages) /\ taken \in Seq(Pages)
               /\ Len(taken) = k
               /\ PagesOnce(rest, Stored(M, h, taken))
<1> DEFINE rest == SubSeq(F, k + 1, Len(F))
           taken == SubSeq(F, 1, k)
           N == Stored(M, h, taken)
<1>1. /\ rest \in Seq(Pages) /\ Len(rest) = Len(F) - k
      /\ \A i \in 1..(Len(F) - k) : rest[i] = F[k + i]
  BY SubSeqProperties
<1>2. /\ taken \in Seq(Pages) /\ Len(taken) = k
      /\ \A i \in 1..k : taken[i] = F[i]
  BY SubSeqProperties
<1>3. /\ DOMAIN N = DOMAIN M \cup {h} /\ N[h] = taken
      /\ \A g \in DOMAIN M : N[g] = M[g]
  BY DEF Stored
<1>4. DOMAIN F = 1..Len(F) /\ DOMAIN rest = 1..(Len(F) - k) /\ DOMAIN taken = 1..k
  BY <1>1, <1>2
<1> HIDE DEF rest, taken, N
<1>a. \A i \in DOMAIN rest : k + i \in DOMAIN F /\ k + i > k /\ rest[i] = F[k + i]
  BY <1>1, <1>4
<1>b. \A i \in DOMAIN taken : i \in DOMAIN F /\ i <= k /\ taken[i] = F[i]
  BY <1>2, <1>4
<1>5. ASSUME NEW i \in DOMAIN rest, NEW j \in DOMAIN rest, rest[i] = rest[j]
      PROVE  i = j
  <2>1. k + i = k + j
    BY <1>5, <1>a DEF PagesOnce
  <2> QED
    BY <2>1, <1>4
<1>6. ASSUME NEW f \in DOMAIN N, NEW g \in DOMAIN N,
             NEW i \in DOMAIN N[f], NEW j \in DOMAIN N[g], N[f][i] = N[g][j]
      PROVE  f = g /\ i = j
  <2>1. CASE f = h /\ g = h
    BY <1>3, <1>b, <1>6, <2>1 DEF PagesOnce
  <2>2. CASE f = h /\ g # h
    BY <1>3, <1>b, <1>6, <2>2 DEF PagesOnce
  <2>3. CASE f # h /\ g = h
    BY <1>3, <1>b, <1>6, <2>3 DEF PagesOnce
  <2>4. CASE f # h /\ g # h
    BY <1>3, <1>6, <2>4 DEF PagesOnce
  <2> QED
    BY <2>1, <2>2, <2>3, <2>4
<1>7. ASSUME NEW i \in DOMAIN rest, NEW g \in DOMAIN N, NEW j \in DOMAIN N[g],
             rest[i] = N[g][j]
      PROVE  FALSE
  <2>1. CASE g = h
    <3>1. j \in DOMAIN F /\ k + i \in DOMAIN F /\ F[k + i] = F[j]
      BY <1>3, <1>a, <1>b, <1>7, <2>1
    <3>2. k + i = j
      BY <3>1 DEF PagesOnce
    <3> QED
      BY <3>2, <1>3, <1>a, <1>b, <2>1
  <2>2. CASE g # h
    BY <1>3, <1>a, <1>7, <2>2 DEF PagesOnce
  <2> QED
    BY <2>1, <2>2
<1>8. ASSUME NEW p \in Pages
      PROVE  \/ \E i \in DOMAIN rest : rest[i] = p
             \/ \E g \in DOMAIN N : \E j \in DOMAIN N[g] : N[g][j] = p
  <2>1. CASE \E i \in DOMAIN F : F[i] = p
    <3>1. PICK i \in DOMAIN F : F[i] = p
      BY <2>1
    <3>2. CASE i <= k
      <4>1. i \in DOMAIN N[h] /\ N[h][i] = p
        BY <1>2, <1>3, <1>4, <3>1, <3>2
      <4> QED
        BY <4>1, <1>3
    <3>3. CASE i > k
      <4>1. i - k \in DOMAIN rest /\ rest[i - k] = p
        BY <1>1, <1>4, <3>1, <3>3
      <4> QED
        BY <4>1
    <3> QED
      BY <3>2, <3>3, <1>4
  <2>2. CASE \E g \in DOMAIN M : \E j \in DOMAIN M[g] : M[g][j] = p
    BY <2>2, <1>3
  <2> QED
    BY <2>1, <2>2 DEF PagesOnce
<1>9. PagesOnce(rest, N)
  BY <1>5, <1>6, <1>7, <1>8 DEF PagesOnce
<1> QED
  BY <1>1, <1>2, <1>9 DEF rest, taken, N

\* The pages of the handle h go to the back of the free queue.
LEMMA GiveBackPages ==
    ASSUME NEW F \in Seq(Pages), NEW M, NEW h \in DOMAIN M,
           \A g \in DOMAIN M : M[g] \in Seq(Pages), PagesOnce(F, M)
    PROVE  /\ F \o M[h] \in Seq(Pages)
           /\ PagesOnce(F \o M[h], Removed(M, h))
<1> DEFINE all == F \o M[h]
           N == Removed(M, h)
<1>1. /\ all \in Seq(Pages) /\ Len(all) = Len(F) + Len(M[h])
      /\ \A i \in 1..Len(F) : all[i] = F[i]
      /\ \A i \in (Len(F) + 1)..Len(all) : all[i] = M[h][i - Len(F)]
  BY ConcatProperties
<1>2. DOMAIN N = DOMAIN M \ {h} /\ \A g \in DOMAIN N : N[g] = M[g]
  BY DEF Removed
<1>3. /\ DOMAIN F = 1..Len(F) /\ DOMAIN all = 1..Len(all)
      /\ DOMAIN M[h] = 1..Len(M[h])
      /\ Len(F) \in Nat /\ Len(M[h]) \in Nat
  BY <1>1
<1> HIDE DEF all, N
<1>4. \A i \in DOMAIN all : \/ i \in DOMAIN F /\ all[i] = F[i]
                            \/ /\ i - Len(F) \in DOMAIN M[h]
                               /\ i \notin DOMAIN F
                               /\ all[i] = M[h][i - Len(F)]
  BY <1>1, <1>3
<1>5. ASSUME NEW i \in DOMAIN all, NEW j \in DOMAIN all, all[i] = all[j]
      PROVE  i = j
  <2>1. CASE i \in DOMAIN F
    BY <1>4, <1>5, <2>1 DEF PagesOnce
  <2>2. CASE i \notin DOMAIN F
    <3>1. j \notin DOMAIN F
      BY <1>4, <1>5, <2>2 DEF PagesOnce
    <3>2. i - Len(F) = j - Len(F)
      BY <1>4, <1>5, <2>2, <3>1 DEF PagesOnce
    <3> QED
      BY <3>2, <1>3
  <2> QED
    BY <2>1, <2>2
<1>6. \A f, g \in DOMAIN N : \A i \in DOMAIN N[f], j \in DOMAIN N[g] :
         N[f][i] = N[g][j] => f = g /\ i = j
  BY <1>2 DEF PagesOnce
<1>7. \A i \in DOMAIN all, g \in DOMAIN N : \A j \in DOMAIN N[g] : all[i] # N[g][j]
  BY <1>2, <1>4 DEF PagesOnce
<1>8. ASSUME NEW p \in Pages
      PROVE  \/ \E i \in DOMAIN all : all[i] = p
             \/ \E g \in DOMAIN N : \E j \in DOMAIN N[g] : N[g][j] = p
  <2>1. CASE \E i \in DOMAIN F : F[i] = p
    <3>1. PICK i \in DOMAIN F : F[i] = p
      BY <2>1
    <3>2. i \in DOMAIN all /\ all[i] = p
      BY <1>1, <1>3, <3>1
    <3> QED
      BY <3>2
  <2>2. CASE \E j \in DOMAIN M[h] : M[h][j] = p
    <3>1. PICK j \in DOMAIN M[h] : M[h][j] = p
      BY <2>2
    <3>2. Len(F) + j \in DOMAIN all /\ all[Len(F) + j] = p
      BY <1>1, <1>3, <3>1
    <3> QED
      BY <3>2
  <2>3. CASE \E g \in DOMAIN M \ {h} : \E j \in DOMAIN M[g] : M[g][j] = p
    BY <2>3, <1>2
  <2> QED
    BY <2>1, <2>2, <2>3 DEF PagesOnce
<1>9. PagesOnce(all, N)
  BY <1>5, <1>6, <1>7, <1>8 DEF PagesOnce
<1> QED
  BY <1>1, <1>9 DEF all, N

-----------------------------------------------------------------------------
(***************************************************************************)
(* The prefix cache: what its operations do to the entries.                *)
(***************************************************************************)

\* The cache has its four fields.
IsMap(m) ==
    /\ DOMAIN m = {"entries", "last_access", "clock", "capacity"}
    /\ m.clock \in Nat
    /\ m.capacity \in Capacities \cup {NoCapacity}

\* A lookup changes ticks only.
LEMMA TouchedKeepsEntries ==
    ASSUME NEW m, IsMap(m), NEW s
    PROVE  /\ IsMap(Touched(m, s))
           /\ Touched(m, s).entries = m.entries
<1> DEFINE ticks == [t \in Cached(m) |->
                        IF IsPrefix(t, s) THEN m.clock + 1 ELSE m.last_access[t]]
<1>1. Touched(m, s) = [m EXCEPT !.clock = @ + 1, !.last_access = ticks]
  BY DEF Touched
<1> HIDE DEF ticks
<1> QED
  BY <1>1 DEF IsMap

\* An eviction only removes entries.
LEMMA TrimmedDropsEntries ==
    ASSUME NEW m, IsMap(m), NEW n \in Trimmed(m)
    PROVE  /\ IsMap(n)
           /\ Cached(n) \subseteq Cached(m)
           /\ \A t \in Cached(n) : n.entries[t] = m.entries[t]
<1>1. PICK E : n = Without(m, E)
  BY DEF Trimmed
<1> DEFINE left == [t \in Cached(m) \ E |-> m.entries[t]]
           ticks == [t \in Cached(m) \ E |-> m.last_access[t]]
<1>2. n = [m EXCEPT !.entries = left, !.last_access = ticks]
  BY <1>1 DEF Without
<1>3. DOMAIN left = Cached(m) \ E /\ \A t \in DOMAIN left : left[t] = m.entries[t]
  OBVIOUS
<1> HIDE DEF left, ticks
<1>4. IsMap(n) /\ n.entries = left
  BY <1>2 DEF IsMap
<1> QED
  BY <1>3, <1>4 DEF Cached

\* An insert of s keeps its handle h, keeps the other handles, and may evict.
LEMMA InsertedEntries ==
    ASSUME NEW m, IsMap(m), NEW s, NEW h, NEW n \in Inserted(m, s, h)
    PROVE  /\ IsMap(n)
           /\ Cached(n) \subseteq Cached(m) \cup {s}
           /\ \A t \in Cached(n) : n.entries[t] = IF t = s THEN h ELSE m.entries[t]
<1> DEFINE all == [t \in Cached(m) \cup {s} |-> IF t = s THEN h ELSE m.entries[t]]
           ticks == [t \in Cached(m) \cup {s} |->
                        IF t \in {s, <<>>} THEN m.clock + 1 ELSE m.last_access[t]]
           full == [m EXCEPT !.clock = @ + 1, !.entries = all, !.last_access = ticks]
<1>1. n \in Trimmed(full)
  BY DEF Inserted
<1>2. /\ DOMAIN all = Cached(m) \cup {s}
      /\ \A t \in DOMAIN all : all[t] = IF t = s THEN h ELSE m.entries[t]
  OBVIOUS
<1> HIDE DEF all, ticks
<1>3. IsMap(full) /\ full.entries = all
  BY DEF IsMap
<1> HIDE DEF full
<1>4. /\ IsMap(n) /\ Cached(n) \subseteq Cached(full)
      /\ \A t \in Cached(n) : n.entries[t] = full.entries[t]
  BY <1>1, <1>3, TrimmedDropsEntries
<1> QED
  BY <1>2, <1>3, <1>4 DEF Cached

\* A lookup answers with the longest cached prefix: it matches at least as
\* many tokens as any of them has.
LEMMA LookupIsLongest ==
    ASSUME NEW m, NEW s, Len(s) \in Nat, \A t \in Cached(m) : Len(t) \in Nat
    PROVE  \/ /\ CachedPrefixes(m, s) = {}
              /\ LookupAnswer(m, s) = [matched_tokens |-> 0, handle |-> NoHandle]
           \/ \E t \in CachedPrefixes(m, s) :
                 /\ LookupAnswer(m, s) =
                        [matched_tokens |-> Len(t), handle |-> m.entries[t]]
                 /\ \A u \in CachedPrefixes(m, s) : Len(u) <= Len(t)
<1> DEFINE P == CachedPrefixes(m, s)
           longest(t) == \A u \in P : Len(u) <= Len(t)
           L == {Len(t) : t \in P}
<1>1. CASE P = {}
  BY <1>1 DEF LookupAnswer
<1>2. CASE P # {}
  <2>1. L \in SUBSET Nat /\ \A x \in L : x <= Len(s)
    BY DEF CachedPrefixes, IsPrefix
  <2>2. L # {}
    BY <1>2
  <2>3. PICK x \in L : \A y \in L : y <= x
    BY <2>1, <2>2, GreatestNumber
  <2>4. \E t \in P : longest(t)
    BY <2>3
  <2>5. longest(CHOOSE t \in P : longest(t)) /\ (CHOOSE t \in P : longest(t)) \in P
    BY <2>4
  <2> QED
    BY <1>2, <2>5 DEF LookupAnswer
<1> QED
  BY <1>1, <1>2

-----------------------------------------------------------------------------
(***************************************************************************)
(* The inductive invariant, which asks no more of a text than a length.    *)
(***************************************************************************)
PoolOK ==
    /\ next_block_id \in Nat \ {0}
    /\ DOMAIN blocks \subseteq 1..(next_block_id - 1)
    /\ free_pages \in Seq(Pages)
    /\ \A h \in DOMAIN mappings : mappings[h] \in Seq(Pages)
    /\ PagesOnce(free_pages, mappings)

MemInv ==
    /\ IsMap(map) /\ \A s \in Cached(map) : Len(s) \in Nat
    /\ PoolOK
    /\ StoreMatchesAllocator
    /\ CachedIsBacked
    /\ span \in Seq(Pages)
    /\ result \in {"new", "ok", "OutOfPages", "UnknownBlock", "UnknownHandle"}

\* A new engine has all its pages in the free queue and nothing cached.
LEMMA InitMemInv == Init => MemInv
<1> SUFFICES ASSUME Init PROVE MemInv
  OBVIOUS
<1>1. IsMap(map) /\ Cached(map) = {}
  BY DEF Init, Empty, IsMap, Cached
<1>2. free_pages \in Seq(Pages) /\ DOMAIN free_pages = 1..TotalPages
  BY KvMemoryAssumption DEF Init, FreshPages, Pages
<1>3. \A i \in 1..TotalPages : free_pages[i] = i - 1
  BY KvMemoryAssumption DEF Init, FreshPages
<1>4. DOMAIN blocks = {} /\ DOMAIN mappings = {}
  BY DEF Init
<1>5. PagesOnce(free_pages, mappings)
  <2>1. \A i, j \in DOMAIN free_pages : free_pages[i] = free_pages[j] => i = j
    BY <1>2, <1>3, KvMemoryAssumption
  <2>2. \A p \in Pages : p + 1 \in DOMAIN free_pages /\ free_pages[p + 1] = p
    BY <1>2, <1>3, KvMemoryAssumption DEF Pages
  <2> QED
    BY <1>4, <2>1, <2>2 DEF PagesOnce
<1>6. PoolOK
  BY <1>2, <1>4, <1>5 DEF PoolOK, Init
<1> QED
  BY <1>1, <1>4, <1>6 DEF Init, MemInv, StoreMatchesAllocator, CachedIsBacked

\* What no operation does to the cache: give an entry a handle that was in use
\* before, be it for another text or again for the same.
EntriesKept ==
    /\ next_block_id' \in Nat /\ next_block_id <= next_block_id'
    /\ \A t \in Cached(map') :
          \/ t \in Cached(map) /\ map'.entries[t] = map.entries[t]
          \/ map'.entries[t] = next_block_id /\ next_block_id < next_block_id'

\* cache_sequence of s on a cache with the entries of the present one: what it
\* replaces is mapped, so it succeeds and releases that and nothing else.
LEMMA CacheSequenceStep ==
    ASSUME MemInv, NEW m, IsMap(m), m.entries = map.entries,
           NEW s, Len(s) \in Nat, CacheSequence(m, s)
    PROVE  /\ MemInv'
           /\ Cached(map') \subseteq Cached(map) \cup {s}
           /\ \A t \in Cached(map') :
                 map'.entries[t] = IF t = s THEN next_block_id ELSE map.entries[t]
           /\ result' = "ok"
           /\ Len(span') * BlockSize \in Len(s)..(Len(s) + BlockSize - 1)
           /\ DOMAIN mappings' =
                 (DOMAIN mappings \cup {next_block_id}) \ {Replaced(map, s)}
           /\ Replaced(map, s) # next_block_id
           /\ mappings'[next_block_id] = span'
           /\ \A h \in DOMAIN mappings \ {Replaced(map, s)} :
                 mappings'[h] = mappings[h]
           /\ EntriesKept /\ next_block_id' = next_block_id + 1
<1> DEFINE h == next_block_id
           k == PagesForTokens(Len(s))
           taken == SubSeq(free_pages, 1, k)
           rest == SubSeq(free_pages, Len(taken) + 1, Len(free_pages))
           old == Replaced(map, s)
           all == Stored(mappings, h, taken)
<1>1. Cached(m) = Cached(map) /\ Replaced(m, s) = old
  BY DEF Cached, Replaced
<1>2. h \in Nat \ {0} /\ h \notin DOMAIN mappings /\ h \notin DOMAIN blocks
  BY DEF MemInv, PoolOK, StoreMatchesAllocator
<1>3. \/ old = NoHandle
      \/ s \in Cached(map) /\ old = map.entries[s]
  BY DEF Replaced
<1>4. \/ old = NoHandle /\ s \notin Cached(map)
      \/ s \in Cached(map) /\ old = map.entries[s] /\ old \in DOMAIN mappings
  BY DEF Replaced, MemInv, CachedIsBacked
<1>5. old # h /\ (old = NoHandle => old \notin DOMAIN mappings)
  BY <1>2, <1>4, PrefixMapAssumption DEF MemInv, PoolOK, StoreMatchesAllocator
<1>6. k \in Nat /\ k * BlockSize \in Len(s)..(Len(s) + BlockSize - 1)
  BY RoundUp, KvMemoryAssumption DEF PagesForTokens
<1>7. k <= Len(free_pages)
  BY DEF CacheSequence, HasRoom
<1>8. /\ rest \in Seq(Pages) /\ taken \in Seq(Pages) /\ Len(taken) = k
      /\ PagesOnce(rest, all)
  <2>1. /\ free_pages \in Seq(Pages) /\ PagesOnce(free_pages, mappings)
        /\ \A g \in DOMAIN mappings : mappings[g] \in Seq(Pages)
    BY DEF MemInv, PoolOK
  <2>2. /\ SubSeq(free_pages, k + 1, Len(free_pages)) \in Seq(Pages)
        /\ taken \in Seq(Pages) /\ Len(taken) = k
        /\ PagesOnce(SubSeq(free_pages, k + 1, Len(free_pages)), all)
    BY <1>2, <1>6, <1>7, <2>1, TakePages
  <2> QED
    BY <2>2
<1>9. /\ DOMAIN all = DOMAIN mappings \cup {h} /\ all[h] = taken
      /\ \A g \in DOMAIN mappings : all[g] = mappings[g]
      /\ \A g \in DOMAIN all : all[g] \in Seq(Pages)
  <2>1. /\ DOMAIN all = DOMAIN mappings \cup {h} /\ all[h] = taken
        /\ \A g \in DOMAIN mappings : all[g] = mappings[g]
    BY <1>2 DEF Stored
  <2> QED
    BY <1>8, <2>1 DEF MemInv, PoolOK
<1>10. /\ map' \in Inserted(m, s, h)
       /\ span' = taken
       /\ next_block_id' = h + 1
       /\ blocks' = Removed(Stored(blocks, h, Len(s)), old)
  BY <1>1 DEF CacheSequence
<1>11. result' = "ok" /\ ReleasePages(taken, old)
  <2>1. old = NoHandle \/ (old \in DOMAIN blocks /\ old \in DOMAIN mappings)
    BY <1>4 DEF MemInv, StoreMatchesAllocator
  <2> QED
    BY <1>1, <2>1 DEF CacheSequence
<1>12. IF old \in DOMAIN all
       THEN mappings' = Removed(all, old) /\ free_pages' = rest \o all[old]
       ELSE mappings' = all /\ free_pages' = rest
  BY <1>11 DEF ReleasePages
<1>13. /\ DOMAIN blocks' = (DOMAIN blocks \cup {h}) \ {old}
       /\ blocks'[h] = Len(s)
       /\ \A g \in DOMAIN blocks \ {old} : blocks'[g] = blocks[g]
  BY <1>2, <1>5, <1>10 DEF Removed, Stored
<1> HIDE DEF h, k, taken, rest, old, all
<1>14. /\ free_pages' \in Seq(Pages)
       /\ PagesOnce(free_pages', mappings')
  <2>1. CASE old \in DOMAIN all
    BY <1>8, <1>9, <1>12, <2>1, GiveBackPages
  <2>2. CASE old \notin DOMAIN all
    BY <1>8, <1>12, <2>2
  <2> QED
    BY <2>1, <2>2
<1>15. /\ DOMAIN mappings' = (DOMAIN mappings \cup {h}) \ {old}
       /\ mappings'[h] = taken
       /\ \A g \in DOMAIN mappings \ {old} : mappings'[g] = mappings[g]
       /\ \A g \in DOMAIN mappings' : mappings'[g] \in Seq(Pages)
  BY <1>5, <1>9, <1>12 DEF Removed
<1>16. /\ IsMap(map') /\ Cached(map') \subseteq Cached(map) \cup {s}
       /\ \A t \in Cached(map') :
             map'.entries[t] = IF t = s THEN h ELSE map.entries[t]
  BY <1>1, <1>10, InsertedEntries
<1>17. PoolOK'
  BY <1>2, <1>10, <1>13, <1>14, <1>15 DEF PoolOK, MemInv, h
<1>18. StoreMatchesAllocator'
  BY <1>13, <1>15 DEF MemInv, StoreMatchesAllocator
<1>19. CachedIsBacked'
  <2> SUFFICES ASSUME NEW t \in Cached(map')
               PROVE  LET g == map'.entries[t]
                      IN  /\ g \in DOMAIN blocks' /\ blocks'[g] = Len(t)
                          /\ g \in DOMAIN mappings'
                          /\ Len(mappings'[g]) * BlockSize
                                 \in Len(t)..(Len(t) + BlockSize - 1)
                          /\ \A u \in Cached(map') : map'.entries[u] = g => u = t
    BY <1>11 DEF CachedIsBacked
  <2>1. \A u \in Cached(map) : /\ map.entries[u] \in DOMAIN mappings
                               /\ map.entries[u] # h
                               /\ u # s => map.entries[u] # old
    BY <1>2, <1>4, PrefixMapAssumption DEF MemInv, CachedIsBacked, PoolOK, StoreMatchesAllocator
  <2>2. CASE t = s
    BY <1>5, <1>6, <1>8, <1>13, <1>15, <1>16, <2>1, <2>2
  <2>3. CASE t # s
    BY <1>13, <1>15, <1>16, <2>1, <2>3 DEF MemInv, CachedIsBacked
  <2> QED
    BY <2>2, <2>3
<1>20. MemInv'
  BY <1>8, <1>10, <1>11, <1>16, <1>17, <1>18, <1>19 DEF MemInv
<1>21. EntriesKept /\ next_block_id' = next_block_id + 1
  BY <1>2, <1>10, <1>16 DEF EntriesKept, h
<1> QED
  BY <1>5, <1>6, <1>8, <1>10, <1>11, <1>15, <1>16, <1>20, <1>21 DEF h, old

\* cache_sequence without room for s: the block goes, the cache is as it was.
LEMMA CacheSequenceFailsStep ==
    ASSUME MemInv, NEW m, IsMap(m), m.entries = map.entries,
           NEW s, CacheSequenceFails(m, s)
    PROVE  /\ MemInv'
           /\ map'.entries = map.entries
           /\ result' = "OutOfPages"
           /\ UNCHANGED mappings
           /\ EntriesKept
<1>1. /\ map' = m /\ span' = <<>> /\ next_block_id' = next_block_id + 1
      /\ blocks' = Removed(Stored(blocks, next_block_id, Len(s)), next_block_id)
      /\ result' = "OutOfPages" /\ UNCHANGED <<free_pages, mappings>>
  BY DEF CacheSequenceFails, Rollback
<1>2. next_block_id \in Nat \ {0} /\ next_block_id \notin DOMAIN blocks
  BY DEF MemInv, PoolOK
<1>3. DOMAIN blocks' = DOMAIN blocks /\ \A g \in DOMAIN blocks : blocks'[g] = blocks[g]
  BY <1>1, <1>2 DEF Removed, Stored
<1>4. PoolOK'
  BY <1>1, <1>2, <1>3 DEF MemInv, PoolOK
<1>5. StoreMatchesAllocator'
  BY <1>1, <1>3 DEF MemInv, StoreMatchesAllocator
<1>6. Cached(map') = Cached(map) /\ map'.entries = map.entries
  BY <1>1 DEF Cached
<1>7. CachedIsBacked'
  BY <1>1, <1>3, <1>6 DEF MemInv, CachedIsBacked
<1> QED
  BY <1>1, <1>2, <1>4, <1>5, <1>6, <1>7 DEF MemInv, EntriesKept

\* A handle that a lookup answers with is mapped to pages for what it matched.
LEMMA LookupIsBacked ==
    ASSUME MemInv, NEW s, Len(s) \in Nat
    PROVE  LET a == LookupAnswer(map, s)
           IN  /\ a.matched_tokens \in 0..Len(s)
               /\ SpanOf(a.handle) \in Seq(Pages)
               /\ Len(SpanOf(a.handle)) * BlockSize >= a.matched_tokens
               /\ a.handle \in DOMAIN mappings \cup {NoHandle}
               /\ a.handle # NoHandle =>
                     \E t \in CachedPrefixes(map, s) :
                        a.handle = map.entries[t] /\ a.matched_tokens = Len(t)
<1>1. \A t \in Cached(map) : Len(t) \in Nat
  BY DEF MemInv
<1>2. CASE LookupAnswer(map, s) = [matched_tokens |-> 0, handle |-> NoHandle]
  <2>1. SpanOf(NoHandle) = <<>>
    BY PrefixMapAssumption DEF SpanOf, MemInv, PoolOK, StoreMatchesAllocator
  <2> QED
    BY <1>2, <2>1, KvMemoryAssumption
<1>3. ASSUME NEW t \in CachedPrefixes(map, s),
             LookupAnswer(map, s) = [matched_tokens |-> Len(t), handle |-> map.entries[t]]
      PROVE  LET a == LookupAnswer(map, s)
             IN  /\ a.matched_tokens \in 0..Len(s)
                 /\ SpanOf(a.handle) \in Seq(Pages)
                 /\ Len(SpanOf(a.handle)) * BlockSize >= a.matched_tokens
                 /\ a.handle \in DOMAIN mappings
  <2>1. t \in Cached(map) /\ Len(t) <= Len(s) /\ Len(t) \in Nat
    BY <1>1 DEF CachedPrefixes, IsPrefix
  <2>2. map.entries[t] \in DOMAIN mappings
    BY <2>1 DEF MemInv, CachedIsBacked
  <2>3. SpanOf(map.entries[t]) \in Seq(Pages)
    BY <2>2 DEF SpanOf, MemInv, PoolOK
  <2>4. Len(SpanOf(map.entries[t])) * BlockSize >= Len(t)
    BY <2>1, <2>2, KvMemoryAssumption DEF SpanOf, MemInv, CachedIsBacked
  <2> QED
    BY <1>3, <2>1, <2>2, <2>3, <2>4
<1> QED
  BY <1>1, <1>2, <1>3, LookupIsLongest

\* A prompt that prefill has to store is not cached.
LEMMA MissIsNotCached ==
    ASSUME MemInv, NEW s, Len(s) \in Nat, ~IsHit(s)
    PROVE  s \notin Cached(map)
<1> SUFFICES ASSUME s \in Cached(map) PROVE FALSE
  OBVIOUS
<1>1. s \in CachedPrefixes(map, s)
  BY DEF CachedPrefixes, IsPrefix
<1>2. \A t \in Cached(map) : Len(t) \in Nat
  BY DEF MemInv
<1>3. PICK t \in CachedPrefixes(map, s) :
        /\ LookupAnswer(map, s) = [matched_tokens |-> Len(t), handle |-> map.entries[t]]
        /\ \A u \in CachedPrefixes(map, s) : Len(u) <= Len(t)
  BY <1>1, <1>2, LookupIsLongest
<1>4. LookupAnswer(map, s).matched_tokens >= Len(s)
  BY <1>1, <1>2, <1>3 DEF CachedPrefixes
<1> QED
  BY <1>4 DEF IsHit

\* A prefill, successful or not, releases nothing; if it succeeds, it returns
\* the pages of a mapped handle, enough for the prompt.
LEMMA PrefillStep ==
    ASSUME MemInv, NEW s, Len(s) \in Nat, PrefillHit(s) \/ PrefillMiss(s)
    PROVE  /\ MemInv'
           /\ Cached(map') \subseteq Cached(map) \cup {s}
           /\ \A t \in Cached(map') \cap Cached(map) :
                 map'.entries[t] = map.entries[t]
           /\ \A g \in DOMAIN mappings :
                 g \in DOMAIN mappings' /\ mappings'[g] = mappings[g]
           /\ result' = "ok" => Len(span') * BlockSize >= Len(s)
           /\ (result' = "ok" /\ span' # <<>>) =>
                 \E g \in DOMAIN mappings' : mappings'[g] = span'
           /\ EntriesKept
<1> DEFINE m == Touched(map, s)
<1>1. IsMap(m) /\ m.entries = map.entries
  BY TouchedKeepsEntries DEF MemInv
<1>2. CASE PrefillHit(s)
  <2>1. /\ map' = m /\ span' = SpanOf(LookupAnswer(map, s).handle) /\ result' = "ok"
        /\ UNCHANGED <<next_block_id, blocks, free_pages, mappings>>
    BY <1>2 DEF PrefillHit
  <2>2. Cached(map') = Cached(map) /\ map'.entries = map.entries
    BY <1>1, <2>1 DEF Cached
  <2>3. /\ span' \in Seq(Pages)
        /\ Len(span') * BlockSize >= LookupAnswer(map, s).matched_tokens
        /\ LookupAnswer(map, s).matched_tokens \in Nat
    BY <2>1, LookupIsBacked
  <2>4. MemInv'
    BY <1>1, <2>1, <2>2, <2>3
       DEF MemInv, PoolOK, StoreMatchesAllocator, CachedIsBacked
  <2>5. Len(span') * BlockSize >= Len(s)
    <3>1. CASE s = <<>>
      BY <3>1, <2>3, KvMemoryAssumption
    <3>2. CASE LookupAnswer(map, s).matched_tokens >= Len(s)
      BY <3>2, <2>3, KvMemoryAssumption
    <3> QED
      BY <1>2, <3>1, <3>2 DEF PrefillHit, IsHit
  <2>6. span' # <<>> => \E g \in DOMAIN mappings' : mappings'[g] = span'
    BY <2>1 DEF SpanOf
  <2>7. EntriesKept
    BY <2>1, <2>2 DEF EntriesKept, MemInv, PoolOK
  <2> QED
    BY <2>1, <2>2, <2>4, <2>5, <2>6, <2>7
<1>3. CASE PrefillMiss(s) /\ CacheSequence(m, s)
  <2>1. s \notin Cached(map) /\ Replaced(map, s) = NoHandle
    BY <1>3, MissIsNotCached DEF PrefillMiss, Replaced
  <2>2. NoHandle \notin DOMAIN mappings
    BY PrefixMapAssumption DEF MemInv, PoolOK, StoreMatchesAllocator
  <2> HIDE DEF m
  <2>3. /\ MemInv' /\ result' = "ok"
        /\ Cached(map') \subseteq Cached(map) \cup {s}
        /\ \A t \in Cached(map') :
              map'.entries[t] = IF t = s THEN next_block_id ELSE map.entries[t]
        /\ Len(span') * BlockSize \in Len(s)..(Len(s) + BlockSize - 1)
        /\ DOMAIN mappings' =
              (DOMAIN mappings \cup {next_block_id}) \ {Replaced(map, s)}
        /\ Replaced(map, s) # next_block_id
        /\ mappings'[next_block_id] = span'
        /\ \A h \in DOMAIN mappings \ {Replaced(map, s)} : mappings'[h] = mappings[h]
        /\ EntriesKept
    BY <1>1, <1>3, CacheSequenceStep, ZenonT(40)
  <2>4. Len(span') * BlockSize >= Len(s)
    BY <2>3, KvMemoryAssumption DEF MemInv
  <2> QED
    BY <2>1, <2>2, <2>3, <2>4
<1>4. CASE CacheSequenceFails(m, s)
  <2> HIDE DEF m
  <2>1. /\ MemInv' /\ map'.entries = map.entries /\ result' = "OutOfPages"
        /\ UNCHANGED mappings /\ EntriesKept
    BY <1>1, <1>4, CacheSequenceFailsStep
  <2> QED
    BY <2>1 DEF Cached
<1> QED
  BY <1>2, <1>3, <1>4 DEF PrefillMiss

\* A limit on the cache evicts entries and touches no block and no page.
LEMMA SetCapacityStep ==
    ASSUME MemInv, NEW c \in Capacities, SetCapacity(c)
    PROVE  /\ MemInv'
           /\ Cached(map') \subseteq Cached(map)
           /\ UNCHANGED mappings
           /\ EntriesKept
<1> DEFINE m == [map EXCEPT !.capacity = c]
<1>1. IsMap(m) /\ m.entries = map.entries
  BY DEF MemInv, IsMap
<1>2. /\ map' \in Trimmed(m) /\ span' = <<>> /\ result' = "ok"
      /\ UNCHANGED <<next_block_id, blocks, free_pages, mappings>>
  BY DEF SetCapacity
<1> HIDE DEF m
<1>3. /\ IsMap(map') /\ Cached(map') \subseteq Cached(map)
      /\ \A t \in Cached(map') : map'.entries[t] = map.entries[t]
  BY <1>1, <1>2, TrimmedDropsEntries DEF Cached
<1>4. PoolOK' /\ StoreMatchesAllocator'
  BY <1>2 DEF MemInv, PoolOK, StoreMatchesAllocator
<1>5. CachedIsBacked'
  BY <1>2, <1>3 DEF MemInv, CachedIsBacked
<1>6. EntriesKept
  BY <1>2, <1>3 DEF EntriesKept, MemInv, PoolOK
<1> QED
  BY <1>2, <1>3, <1>4, <1>5, <1>6 DEF MemInv

-----------------------------------------------------------------------------
(***************************************************************************)
(* The theorems of the memory on its own.                                  *)
(***************************************************************************)
KvInv == MemInv /\ Cached(map) \subseteq Texts

\* The length of a text is a number.
LEMMA TextLength == \A s \in Texts : Len(s) \in Nat
BY KvMemoryAssumption

\* Every operation preserves the invariant.
LEMMA NextKvInv == KvInv /\ [Next]_kvVars => KvInv'
<1> SUFFICES ASSUME KvInv, [Next]_kvVars PROVE KvInv'
  OBVIOUS
<1>1. ASSUME NEW s \in Texts, PrefillHit(s) \/ PrefillMiss(s) PROVE KvInv'
  BY <1>1, TextLength, PrefillStep DEF KvInv
<1>2. ASSUME NEW s \in Texts, CacheOutput(s) PROVE KvInv'
  <2>1. IsMap(map)
    BY DEF KvInv, MemInv
  <2>2. CASE CacheSequence(map, s)
    <3>1. MemInv /\ Len(s) \in Nat
      BY TextLength DEF KvInv
    <3>2. MemInv' /\ Cached(map') \subseteq Cached(map) \cup {s}
      BY <2>1, <2>2, <3>1, CacheSequenceStep
    <3> QED
      BY <3>2 DEF KvInv
  <2>3. CASE CacheSequenceFails(map, s)
    BY <2>1, <2>3, CacheSequenceFailsStep DEF KvInv, Cached
  <2> QED
    BY <1>2, <2>2, <2>3 DEF CacheOutput
<1>3. ASSUME NEW c \in Capacities, SetCapacity(c) PROVE KvInv'
  BY <1>3, SetCapacityStep DEF KvInv
<1>4. CASE UNCHANGED kvVars
  <2>1. PoolOK' /\ StoreMatchesAllocator' /\ CachedIsBacked'
    BY <1>4 DEF kvVars, KvInv, MemInv, PoolOK, StoreMatchesAllocator, CachedIsBacked
  <2> QED
    BY <1>4, <2>1 DEF kvVars, KvInv, MemInv
<1> QED
  BY <1>1, <1>2, <1>3, <1>4 DEF Next

\* The invariant holds of every behaviour.
THEOREM MemoryInvariance == Spec => []KvInv
<1>1. Init => KvInv
  BY InitMemInv DEF KvInv, Init, Empty, Cached
<1> QED
  BY <1>1, NextKvInv, PTL DEF Spec

\* The block store, the page allocator and the cache keep their types.
THEOREM MemoryTypeCorrect == Spec => []TypeOK
<1>1. KvInv => TypeOK
  BY DEF KvInv, MemInv, IsMap, PoolOK, StoreMatchesAllocator, TypeOK
<1> QED
  BY <1>1, MemoryInvariance, PTL

\* No page is lost and none is handed out twice, for any number of pages and
\* whatever is prefilled, cached, replaced, evicted or refused.
THEOREM PagesAreConserved == Spec => []PagesConserved
<1>1. ASSUME KvInv PROVE PagesConserved
  <2> SUFFICES ASSUME NEW p \in Pages
               PROVE  Cardinality({i \in DOMAIN free_pages : free_pages[i] = p})
                      + Cardinality({o \in Owned : mappings[o[1]][o[2]] = p}) = 1
    BY DEF PagesConserved
  <2> DEFINE A == {i \in DOMAIN free_pages : free_pages[i] = p}
             B == {o \in Owned : mappings[o[1]][o[2]] = p}
  <2>1. PagesOnce(free_pages, mappings)
    BY <1>1 DEF KvInv, MemInv, PoolOK
  <2>2. \A o \in Owned : /\ o = <<o[1], o[2]>> /\ o[1] \in DOMAIN mappings
                         /\ o[2] \in DOMAIN mappings[o[1]]
    BY DEF Owned
  <2>3. CASE \E i \in DOMAIN free_pages : free_pages[i] = p
    <3>1. PICK i \in DOMAIN free_pages : free_pages[i] = p
      BY <2>3
    <3>2. A = {i}
      BY <2>1, <3>1 DEF PagesOnce
    <3>3. B = {}
      BY <2>1, <2>2, <3>1 DEF PagesOnce
    <3>4. Cardinality(A) = 1 /\ Cardinality(B) = 0
      BY <3>2, <3>3, FS_EmptySet, FS_Singleton, Zenon
    <3> QED
      BY <3>4
  <2>4. CASE \E h \in DOMAIN mappings : \E j \in DOMAIN mappings[h] : mappings[h][j] = p
    <3>1. PICK h \in DOMAIN mappings : \E j \in DOMAIN mappings[h] : mappings[h][j] = p
      BY <2>4
    <3>2. PICK j \in DOMAIN mappings[h] : mappings[h][j] = p
      BY <3>1
    <3>3. A = {}
      BY <2>1, <3>2 DEF PagesOnce
    <3>4. <<h, j>> \in Owned
      BY DEF Owned
    <3>5. \A o \in B : o = <<h, j>>
      BY <2>1, <2>2, <3>2 DEF PagesOnce
    <3>6. B = {<<h, j>>}
      BY <3>2, <3>4, <3>5
    <3>7. Cardinality(A) = 0 /\ Cardinality(B) = 1
      BY <3>3, <3>6, FS_EmptySet, FS_Singleton, Zenon
    <3> QED
      BY <3>7
  <2> QED
    BY <2>1, <2>3, <2>4 DEF PagesOnce
<1> QED
  BY <1>1, MemoryInvariance, PTL

\* A cached handle has its block and its pages, and its sequence alone has it.
THEOREM CachedHandlesAreBacked == Spec => []CachedIsBacked
<1>1. KvInv => CachedIsBacked
  BY DEF KvInv, MemInv
<1> QED
  BY <1>1, MemoryInvariance, PTL

\* The block store and the page allocator never disagree on the handles.
THEOREM StoreAndAllocatorAgree == Spec => []StoreMatchesAllocator
<1>1. KvInv => StoreMatchesAllocator
  BY DEF KvInv, MemInv
<1> QED
  BY <1>1, MemoryInvariance, PTL

\* A prefill that succeeds returns pages for the whole prompt.
THEOREM PrefillAlwaysResolvesPages == Spec => PrefillResolvesPages
<1>1. ASSUME KvInv
      PROVE  \A s \in Texts :
                ((PrefillHit(s) \/ PrefillMiss(s)) /\ result' = "ok") =>
                    Len(span') * BlockSize >= Len(s)
  BY <1>1, TextLength, PrefillStep DEF KvInv
<1> QED
  BY <1>1, MemoryInvariance, PTL DEF PrefillResolvesPages

\* No step moves the pages of a sequence that keeps its handle.
THEOREM CachedPagesNeverMove == Spec => CachedPagesStay
<1> DEFINE Stay == \A s \in Cached(map) \cap Cached(map') :
                      LET h == map.entries[s]
                      IN  map'.entries[s] = h =>
                              h \in DOMAIN mappings' /\ mappings'[h] = mappings[h]
<1>1. ASSUME KvInv, [Next]_kvVars PROVE Stay
  <2>1. \A t \in Cached(map) : map.entries[t] \in DOMAIN mappings
    BY <1>1 DEF KvInv, MemInv, CachedIsBacked
  <2>2. ASSUME NEW s \in Texts, PrefillHit(s) \/ PrefillMiss(s) PROVE Stay
    BY <1>1, <2>1, <2>2, TextLength, PrefillStep DEF KvInv
  <2>3. ASSUME NEW s \in Texts, CacheSequence(map, s) PROVE Stay
    <3>1. IsMap(map) /\ MemInv
      BY <1>1 DEF KvInv, MemInv
    <3>2. /\ DOMAIN mappings' =
                (DOMAIN mappings \cup {next_block_id}) \ {Replaced(map, s)}
          /\ \A t \in Cached(map') :
                map'.entries[t] = IF t = s THEN next_block_id ELSE map.entries[t]
          /\ \A h \in DOMAIN mappings \ {Replaced(map, s)} : mappings'[h] = mappings[h]
      BY <2>3, <3>1, TextLength, CacheSequenceStep, ZenonT(40)
    <3>3. next_block_id \notin DOMAIN mappings
      BY <3>1 DEF MemInv, PoolOK, StoreMatchesAllocator
    <3>4. \A t \in Cached(map) : t # s => map.entries[t] # Replaced(map, s)
      BY <2>1, <3>1, PrefixMapAssumption
         DEF Replaced, MemInv, CachedIsBacked, PoolOK, StoreMatchesAllocator
    <3> QED
      BY <2>1, <3>2, <3>3, <3>4
  <2>4. CASE UNCHANGED mappings
    BY <2>1, <2>4
  <2>5. ASSUME NEW s \in Texts, CacheOutput(s) PROVE Stay
    BY <2>3, <2>4, <2>5 DEF CacheOutput, CacheSequenceFails
  <2>6. ASSUME NEW c \in Capacities, SetCapacity(c) PROVE Stay
    BY <2>4, <2>6 DEF SetCapacity
  <2> QED
    BY <1>1, <2>2, <2>4, <2>5, <2>6 DEF Next, kvVars
<1> QED
  BY <1>1, MemoryInvariance, PTL DEF Spec, CachedPagesStay
-----------------------------------------------------------------------------
(***************************************************************************)
(* Matchers and models.                                                    *)
(***************************************************************************)
MatcherStates == Tokens \cup {Start, Broken, NoMatcher}

\* A greedy sampler chooses a token, whatever the logits and the mask.
LEMMA SampleType ==
    ASSUME NEW logits, NEW mask \in SUBSET Tokens
    PROVE  Sample(logits, mask) \in Tokens
<1> DEFINE best == {0} \cup {t \in mask : \A u \in mask : logits[u] <= logits[t]}
<1>1. VocabSize \in Nat \ {0}
  BY EngineBatchAssumption
<1>2. 0 \in Tokens
  BY <1>1 DEF Tokens
<1>3. best \in SUBSET Tokens /\ best # {}
  BY <1>2
<1>4. Sample(logits, mask) = Max(best)
  BY DEF Sample
<1> HIDE DEF best
<1>5. best \in SUBSET Nat /\ \A x \in best : x <= VocabSize
  BY <1>1, <1>3 DEF Tokens
<1>6. \E x \in best : \A y \in best : y <= x
  BY <1>1, <1>3, <1>5, GreatestNumber
<1>7. \E x \in best : \A y \in best : x >= y
  BY <1>5, <1>6
<1>8. Max(best) \in best
  BY <1>7 DEF Max
<1> QED
  BY <1>3, <1>4, <1>8

\* A matcher allows tokens only; a request without one, all of them.
LEMMA NextMaskType ==
    /\ \A q \in MatcherStates : NextMask(q) \in SUBSET Tokens
    /\ NextMask(NoMatcher) = Tokens
BY EngineBatchAssumption DEF NextMask, MatcherStates

\* A set of matcher states that advance does not leave is not left by a text.
LEMMA AdvanceOverStays ==
    ASSUME NEW V, NEW q \in V, NEW s \in Seq(Tokens),
           \A v \in V : \A t \in Tokens : Advance(v, t) \in V
    PROVE  AdvanceOver(q, s) \in V
<1> SUFFICES ASSUME NEW n \in Nat, n = Len(s) PROVE AdvanceOver(q, s) \in V
  OBVIOUS
<1> DEFINE a == CHOOSE a : a = [i \in 0..n |-> IF i = 0 THEN q
                                              ELSE Advance(a[i - 1], s[i])]
           step == [i \in 1..n |-> [v \in V |-> Advance(v, s[i])]]
<1>1. \A i \in 1..n : s[i] \in Tokens
  OBVIOUS
<1>2. AdvanceOver(q, s) = a[n]
  BY DEF AdvanceOver
<1>3. \E f : f = [i \in 0..n |-> IF i = 0 THEN q ELSE Advance(f[i - 1], s[i])]
  <2>1. step \in [1..n -> [V -> V]]
    BY <1>1
  <2>2. PICK f : IsRecursion(f, V, q, n, step)
    <3> HIDE DEF step
    <3> QED
      BY <2>1, RecursionExists
  <2>3. f \in [0..n -> V] /\ f[0] = q /\ \A i \in 1..n : f[i] = step[i][f[i - 1]]
    <3> HIDE DEF step
    <3> QED
      BY <2>2 DEF IsRecursion
  <2>4. \A i \in 1..n : step[i][f[i - 1]] = Advance(f[i - 1], s[i])
    BY <2>3
  <2>5. \A i \in 0..n : i # 0 => i \in 1..n
    OBVIOUS
  <2> HIDE DEF step
  <2>6. f = [i \in 0..n |-> IF i = 0 THEN q ELSE Advance(f[i - 1], s[i])]
    BY <2>3, <2>4, <2>5, Zenon
  <2> QED
    BY <2>6, Zenon
<1>4. a = [i \in 0..n |-> IF i = 0 THEN q ELSE Advance(a[i - 1], s[i])]
  BY <1>3, Zenon
<1> HIDE DEF a
<1> DEFINE S == {i \in 0..n : a[i] \in V}
<1>5. S = 0..n
  <2>1. S \in SUBSET (0..n) /\ 0 \in S
    BY <1>1, <1>4
  <2>2. ASSUME NEW i \in 1..n, i - 1 \in S PROVE i \in S
    <3>1. a[i] = Advance(a[i - 1], s[i])
      BY <1>1, <1>4
    <3> QED
      BY <1>1, <2>2, <3>1
  <2> HIDE DEF S
  <2> QED
    BY <2>1, <2>2, IntervalInduction
<1> QED
  BY <1>1, <1>2, <1>5

\* A request without a matcher stays without one, and one with a matcher
\* keeps it.
LEMMA AdvanceOverType ==
    ASSUME NEW q \in MatcherStates, NEW s \in Seq(Tokens)
    PROVE  /\ AdvanceOver(q, s) \in MatcherStates
           /\ AdvanceOver(q, s) = NoMatcher <=> q = NoMatcher
<1>1. \A v \in MatcherStates : \A t \in Tokens : Advance(v, t) \in MatcherStates
  BY DEF Advance, MatcherStates
<1>2. CASE q = NoMatcher
  <2>1. \A v \in {NoMatcher} : \A t \in Tokens : Advance(v, t) \in {NoMatcher}
    BY DEF Advance
  <2>2. AdvanceOver(q, s) \in {NoMatcher}
    BY <1>2, <2>1, AdvanceOverStays
  <2> QED
    BY <1>2, <2>2 DEF MatcherStates
<1>3. CASE q # NoMatcher
  <2>1. \A v \in MatcherStates \ {NoMatcher} : \A t \in Tokens :
           Advance(v, t) \in MatcherStates \ {NoMatcher}
    BY EngineBatchAssumption DEF Advance, MatcherStates
  <2>2. AdvanceOver(q, s) \in MatcherStates \ {NoMatcher}
    BY <1>3, <2>1, AdvanceOverStays
  <2> QED
    BY <1>3, <2>2
<1> QED
  BY <1>2, <1>3

\* The draft model drafts as many tokens as it is asked for.
LEMMA DraftedType ==
    ASSUME NEW context, NEW n \in Nat, NEW q \in MatcherStates
    PROVE  /\ Drafted(context, n, q) \in Seq(Tokens)
           /\ Len(Drafted(context, n, q)) = n
<1> DEFINE token(v) == Sample(DraftLogits(context \o v), NextMask(AdvanceOver(q, v)))
           d == CHOOSE d : d = [i \in 0..n |-> IF i = 0 THEN <<>>
                                              ELSE Append(d[i - 1], token(d[i - 1]))]
           V == Seq(Tokens)
           step == [i \in 1..n |-> [v \in V |-> Append(v, token(v))]]
<1>1. Drafted(context, n, q) = d[n]
  BY DEF Drafted
<1>2. \A v \in Seq(Tokens) : token(v) \in Tokens
  BY AdvanceOverType, NextMaskType, SampleType
<1> HIDE DEF token
<1>3. \E f : f = [i \in 0..n |-> IF i = 0 THEN <<>> ELSE Append(f[i - 1], token(f[i - 1]))]
  <2>1. step \in [1..n -> [V -> V]] /\ <<>> \in V
    BY <1>2
  <2>2. PICK f : IsRecursion(f, V, <<>>, n, step)
    <3> HIDE DEF step, V
    <3> QED
      BY <2>1, RecursionExists
  <2>3. f \in [0..n -> V] /\ f[0] = <<>> /\ \A i \in 1..n : f[i] = step[i][f[i - 1]]
    <3> HIDE DEF step, V
    <3> QED
      BY <2>2 DEF IsRecursion
  <2>4. ASSUME NEW i \in 1..n
        PROVE  step[i][f[i - 1]] = Append(f[i - 1], token(f[i - 1]))
    <3>1. f[i - 1] \in V
      BY <2>3
    <3> QED
      BY <3>1, Zenon
  <2>5. \A i \in 0..n : i # 0 => i \in 1..n
    OBVIOUS
  <2> HIDE DEF step
  <2>6. f = [i \in 0..n |-> IF i = 0 THEN <<>> ELSE Append(f[i - 1], token(f[i - 1]))]
    BY <2>3, <2>4, <2>5, Zenon
  <2> QED
    BY <2>6, Zenon
<1>4. d = [i \in 0..n |-> IF i = 0 THEN <<>> ELSE Append(d[i - 1], token(d[i - 1]))]
  BY <1>3, Zenon
<1> HIDE DEF d
<1> DEFINE S == {i \in 0..n : d[i] \in Seq(Tokens) /\ Len(d[i]) = i}
<1>5. S = 0..n
  <2>1. S \in SUBSET (0..n) /\ 0 \in S
    BY <1>4
  <2>2. ASSUME NEW i \in 1..n, i - 1 \in S PROVE i \in S
    <3>0. i \in 0..n /\ i # 0
      OBVIOUS
    <3>1. d[i] = Append(d[i - 1], token(d[i - 1]))
      BY <1>4, <3>0, Zenon
    <3>2. d[i - 1] \in Seq(Tokens) /\ Len(d[i - 1]) = i - 1
      BY <2>2
    <3>3. token(d[i - 1]) \in Tokens
      BY <1>2, <3>2
    <3>4. d[i] \in Seq(Tokens) /\ Len(d[i]) = i
      BY <3>1, <3>2, <3>3, AppendProperties
    <3> QED
      BY <3>0, <3>4
  <2> HIDE DEF S
  <2> QED
    BY <2>1, <2>2, IntervalInduction
<1> QED
  BY <1>1, <1>5

\* The target model expects one token for each drafted one: for a request
\* without a matcher, its own choice after the drafted tokens before it.
LEMMA ExpectedFacts ==
    ASSUME NEW context, NEW d \in Seq(Tokens), NEW q \in MatcherStates
    PROVE  /\ Expected(context, d, q) \in Seq(Tokens)
           /\ Len(Expected(context, d, q)) = Len(d)
           /\ q = NoMatcher =>
                 \A k \in 1..Len(d) :
                    Expected(context, d, q)[k] =
                        Sample(TargetLogits(context \o SubSeq(d, 1, k - 1)), Tokens)
<1> DEFINE V == Seq(Tokens)
<1> SUFFICES ASSUME NEW n \in Nat, n = Len(d)
             PROVE  /\ Expected(context, d, q) \in Seq(Tokens)
                    /\ Len(Expected(context, d, q)) = n
                    /\ q = NoMatcher =>
                          \A k \in 1..n :
                             Expected(context, d, q)[k] =
                                 Sample(TargetLogits(context \o SubSeq(d, 1, k - 1)), Tokens)
  OBVIOUS
<1> DEFINE token(i, v) == Sample(TargetLogits(context \o SubSeq(d, 1, i - 1)),
                                 NextMask(AdvanceOver(q, v)))
           e == CHOOSE e : e = [i \in 0..n |-> IF i = 0 THEN <<>>
                                              ELSE Append(e[i - 1], token(i, e[i - 1]))]
           step == [i \in 1..n |-> [v \in V |-> Append(v, token(i, v))]]
<1>1. Expected(context, d, q) = e[n]
  BY DEF Expected
<1>2. \A i \in 1..n : \A v \in Seq(Tokens) : token(i, v) \in Tokens
  BY AdvanceOverType, NextMaskType, SampleType
<1>3. q = NoMatcher =>
         \A i \in 1..n : \A v \in Seq(Tokens) :
            token(i, v) = Sample(TargetLogits(context \o SubSeq(d, 1, i - 1)), Tokens)
  BY AdvanceOverType, NextMaskType
<1> HIDE DEF token
<1>4. \E f : f = [i \in 0..n |-> IF i = 0 THEN <<>>
                                ELSE Append(f[i - 1], token(i, f[i - 1]))]
  <2>1. step \in [1..n -> [V -> V]] /\ <<>> \in V
    BY <1>2
  <2>2. PICK f : IsRecursion(f, V, <<>>, n, step)
    <3> HIDE DEF step, V
    <3> QED
      BY <2>1, RecursionExists
  <2>3. f \in [0..n -> V] /\ f[0] = <<>> /\ \A i \in 1..n : f[i] = step[i][f[i - 1]]
    <3> HIDE DEF step, V
    <3> QED
      BY <2>2 DEF IsRecursion
  <2>4. ASSUME NEW i \in 1..n
        PROVE  step[i][f[i - 1]] = Append(f[i - 1], token(i, f[i - 1]))
    <3>1. f[i - 1] \in V
      BY <2>3, SMTT(30)
    <3> QED
      BY <3>1, Zenon
  <2>5. \A i \in 0..n : i # 0 => i \in 1..n
    OBVIOUS
  <2> HIDE DEF step
  <2>6. f = [i \in 0..n |-> IF i = 0 THEN <<>> ELSE Append(f[i - 1], token(i, f[i - 1]))]
    BY <2>3, <2>4, <2>5, Zenon
  <2> QED
    BY <2>6, Zenon
<1>5. e = [i \in 0..n |-> IF i = 0 THEN <<>> ELSE Append(e[i - 1], token(i, e[i - 1]))]
  BY <1>4, Zenon
<1> HIDE DEF e
<1> DEFINE chosen(i) == Sample(TargetLogits(context \o SubSeq(d, 1, i - 1)), Tokens)
           S == {i \in 0..n : /\ e[i] \in Seq(Tokens) /\ Len(e[i]) = i
                              /\ q = NoMatcher => \A k \in 1..i : e[i][k] = chosen(k)}
<1>6. S = 0..n
  <2>1. S \in SUBSET (0..n) /\ 0 \in S
    BY <1>5
  <2>2. ASSUME NEW i \in 1..n, i - 1 \in S PROVE i \in S
    <3>0. i \in 0..n /\ i # 0
      OBVIOUS
    <3>1. e[i] = Append(e[i - 1], token(i, e[i - 1]))
      BY <1>5, <3>0, Zenon
    <3>2. /\ e[i - 1] \in Seq(Tokens) /\ Len(e[i - 1]) = i - 1
          /\ q = NoMatcher => \A k \in 1..(i - 1) : e[i - 1][k] = chosen(k)
      BY <2>2
    <3>3. q = NoMatcher => token(i, e[i - 1]) = chosen(i)
      BY <1>3, <3>2
    <3> HIDE DEF chosen
    <3>4. /\ e[i] \in Seq(Tokens) /\ Len(e[i]) = i
          /\ \A k \in 1..(i - 1) : e[i][k] = e[i - 1][k]
          /\ e[i][i] = token(i, e[i - 1])
      BY <1>2, <3>1, <3>2, AppendProperties
    <3>5. q = NoMatcher => \A k \in 1..i : e[i][k] = chosen(k)
      BY <3>2, <3>3, <3>4
    <3> QED
      BY <3>4, <3>5
  <2> HIDE DEF S
  <2> QED
    BY <2>1, <2>2, IntervalInduction
<1>7. n \in S
  BY <1>6
<1> QED
  BY <1>1, <1>7

\* What commit keeps of a draft: what the target expected, as far as the draft
\* was right, and the first token where it was not.
LEMMA KeptFacts ==
    ASSUME NEW d \in Seq(Tokens), NEW e \in Seq(Tokens), Len(e) = Len(d)
    PROVE  /\ Kept(d, e) \in Seq(Tokens)
           /\ Len(Kept(d, e)) <= Len(d)
           /\ \A k \in 1..Len(Kept(d, e)) :
                 /\ Kept(d, e)[k] = e[k]
                 /\ \A j \in 1..(k - 1) : Kept(d, e)[j] = d[j]
<1> DEFINE differ == {k \in DOMAIN d : d[k] # e[k]}
<1>1. DOMAIN d = 1..Len(d) /\ Len(d) \in Nat
  OBVIOUS
<1>2. CASE differ = {}
  <2>1. Kept(d, e) = d
    BY <1>2 DEF Kept
  <2> QED
    BY <1>1, <1>2, <2>1
<1>3. CASE differ # {}
  <2>1. Kept(d, e) = SubSeq(e, 1, Min(differ))
    BY <1>3 DEF Kept
  <2>2. Min(differ) \in differ /\ \A k \in differ : Min(differ) <= k
    <3>1. differ \in SUBSET Nat
      BY <1>1
    <3> HIDE DEF differ
    <3>2. \E x \in differ : \A y \in differ : x =< y
      BY <1>3, <3>1, LeastNumber
    <3> QED
      BY <3>2 DEF Min
  <2>3. PICK m \in 1..Len(d) : m = Min(differ)
    BY <1>1, <2>2
  <2>4. ASSUME NEW j \in 1..(m - 1) PROVE d[j] = e[j]
    <3>1. j \in DOMAIN d /\ ~(m <= j)
      BY <1>1
    <3>2. j \notin differ
      BY <2>2, <2>3, <3>1
    <3> QED
      BY <3>1, <3>2
  <2> HIDE DEF differ
  <2>5. /\ SubSeq(e, 1, m) \in Seq(Tokens) /\ Len(SubSeq(e, 1, m)) = m
        /\ \A j \in 1..m : SubSeq(e, 1, m)[j] = e[j]
    BY <1>1, SubSeqProperties
  <2> QED
    BY <1>1, <2>1, <2>3, <2>4, <2>5
<1> QED
  BY <1>2, <1>3

-----------------------------------------------------------------------------
(***************************************************************************)
(* A round, request by request.                                            *)
(***************************************************************************)
Lookups == [matched_tokens : Nat, handle : Nat \cup {NoHandle}]

Requests ==
    [prompt : Seq(Tokens), max_new_tokens : Nat, slot_id : Slots,
     generated : Seq(Tokens), matcher : MatcherStates, cached_prefix : Lookups]

\* Every request of a round has its own place in the batch.
LEMMA BatchPlaceFacts ==
    ASSUME active \in Seq(Requests), NEW i \in Wanting
    PROVE  /\ BatchPlace(ActiveIndices, i) \in DOMAIN ActiveIndices
           /\ ActiveIndices[BatchPlace(ActiveIndices, i)] = i
<1> SUFFICES ASSUME NEW n \in Nat, n = Len(active)
             PROVE  \E k \in DOMAIN ActiveIndices : ActiveIndices[k] = i
  BY DEF BatchPlace
<1> DEFINE V == Seq(Nat)
           next(j, v) == IF j \in Wanting THEN Append(v, j) ELSE v
           f == CHOOSE f : f = [j \in 0..n |-> IF j = 0 THEN <<>>
                                              ELSE IF j \in Wanting
                                                   THEN Append(f[j - 1], j)
                                                   ELSE f[j - 1]]
           step == [j \in 1..n |-> [v \in V |-> next(j, v)]]
<1>1. ActiveIndices = f[n]
  BY DEF ActiveIndices
<1>2. i \in 1..n
  BY DEF Wanting
<1>3. \E g : g = [j \in 0..n |-> IF j = 0 THEN <<>>
                                ELSE IF j \in Wanting THEN Append(g[j - 1], j)
                                     ELSE g[j - 1]]
  <2>1. step \in [1..n -> [V -> V]] /\ <<>> \in V
    OBVIOUS
  <2>2. PICK g : IsRecursion(g, V, <<>>, n, step)
    <3> HIDE DEF step, V
    <3> QED
      BY <2>1, RecursionExists
  <2>3. g \in [0..n -> V] /\ g[0] = <<>> /\ \A j \in 1..n : g[j] = step[j][g[j - 1]]
    <3> HIDE DEF step, V
    <3> QED
      BY <2>2 DEF IsRecursion
  <2>4. ASSUME NEW j \in 1..n PROVE step[j][g[j - 1]] = next(j, g[j - 1])
    <3>1. g[j - 1] \in V
      <4> HIDE DEF V
      <4> QED
        BY <2>3
    <3> QED
      BY <3>1, Zenon
  <2>5. \A j \in 0..n : j # 0 => j \in 1..n
    OBVIOUS
  <2> HIDE DEF step
  <2>6. g = [j \in 0..n |-> IF j = 0 THEN <<>> ELSE next(j, g[j - 1])]
    BY <2>3, <2>4, <2>5, Zenon
  <2> QED
    BY <2>6, Zenon
<1>4. f = [j \in 0..n |-> IF j = 0 THEN <<>>
                          ELSE IF j \in Wanting THEN Append(f[j - 1], j) ELSE f[j - 1]]
  BY <1>3, Zenon
<1> HIDE DEF f
<1> DEFINE has(j) == \A w \in Wanting : w <= j => \E k \in DOMAIN f[j] : f[j][k] = w
           S == {j \in 0..n : f[j] \in Seq(Nat) /\ has(j)}
<1>5. S = 0..n
  <2>1. S \in SUBSET (0..n) /\ 0 \in S
    <3>1. Wanting \subseteq 1..n
      BY DEF Wanting
    <3>2. f[0] = <<>>
      BY <1>4
    <3>3. f[0] \in Seq(Nat) /\ 0 \in 0..n
      BY <3>2
    <3>4. \A w \in Wanting : ~(w <= 0)
      BY <3>1
    <3> QED
      BY <3>3, <3>4, Zenon
  <2>2. ASSUME NEW j \in 1..n, j - 1 \in S PROVE j \in S
    <3>1. j \in 0..n /\ j # 0 /\ j \in Nat
      OBVIOUS
    <3>2. f[j] = next(j, f[j - 1])
      BY <1>4, <3>1, Zenon
    <3>3. f[j - 1] \in Seq(Nat) /\ has(j - 1) /\ Wanting \subseteq 1..n
      BY <2>2 DEF Wanting
    <3>4. CASE j \notin Wanting
      <4>1. f[j] = f[j - 1]
        BY <3>2, <3>4
      <4>2. \A w \in Wanting : w <= j => w <= j - 1
        BY <3>3, <3>4
      <4> QED
        BY <3>1, <3>3, <4>1, <4>2
    <3>5. CASE j \in Wanting
      <4>1. f[j] = Append(f[j - 1], j)
        BY <3>2, <3>5
      <4>2. /\ f[j] \in Seq(Nat) /\ Len(f[j]) = Len(f[j - 1]) + 1
            /\ \A k \in 1..Len(f[j - 1]) : f[j][k] = f[j - 1][k]
            /\ f[j][Len(f[j - 1]) + 1] = j
        BY <3>1, <3>3, <4>1, AppendProperties
      <4>3. /\ DOMAIN f[j - 1] = 1..Len(f[j - 1]) /\ Len(f[j - 1]) \in Nat
            /\ DOMAIN f[j] = 1..(Len(f[j - 1]) + 1)
        BY <3>3, <4>2
      <4>4. ASSUME NEW w \in Wanting, w <= j PROVE \E k \in DOMAIN f[j] : f[j][k] = w
        <5>1. CASE w = j
          <6>1. Len(f[j - 1]) + 1 \in DOMAIN f[j]
            BY <4>3
          <6> QED
            BY <4>2, <5>1, <6>1
        <5>2. CASE w # j
          <6>1. w <= j - 1
            BY <3>3, <4>4, <5>2
          <6>2. PICK k \in DOMAIN f[j - 1] : f[j - 1][k] = w
            BY <3>3, <6>1
          <6>3. k \in 1..Len(f[j - 1]) /\ k \in DOMAIN f[j]
            BY <4>3, <6>2
          <6> QED
            BY <4>2, <6>2, <6>3
        <5> QED
          BY <5>1, <5>2
      <4> QED
        BY <3>1, <4>2, <4>4
    <3> QED
      BY <3>4, <3>5
  <2> HIDE DEF S
  <2> QED
    BY <2>1, <2>2, IntervalInduction
<1>6. has(n)
  BY <1>5
<1> QED
  BY <1>1, <1>2, <1>6

\* What a round does to a request that wants tokens.
RoundDraft(r) ==
    Drafted(r.prompt \o r.generated,
            Smaller(r.max_new_tokens - Len(r.generated), DraftWindow), r.matcher)

RoundExpected(r) == Expected(r.prompt \o r.generated, RoundDraft(r), r.matcher)

AfterRound(r) ==
    [r EXCEPT !.generated = @ \o Kept(RoundDraft(r), RoundExpected(r)),
              !.matcher = AdvanceOver(@, RoundExpected(r))]

\* The round of a batch is the round of each of its requests: no request gets
\* the tokens of another.
LEMMA RoundIsPerRequest ==
    ASSUME active \in Seq(Requests), Round
    PROVE  active' = [i \in DOMAIN active |->
                         IF i \in Wanting THEN AfterRound(active[i]) ELSE active[i]]
<1> DEFINE indices == ActiveIndices
           context(i) == active[i].prompt \o active[i].generated
           requested(i) == Smaller(active[i].max_new_tokens - Len(active[i].generated),
                                   DraftWindow)
           draft_results == [k \in DOMAIN indices |->
               Drafted(context(indices[k]), requested(indices[k]),
                       active[indices[k]].matcher)]
           verify_results == [k \in DOMAIN indices |->
               Expected(context(indices[k]), draft_results[k],
                        active[indices[k]].matcher)]
           next(i) == [active[i] EXCEPT
                          !.generated = @ \o Kept(draft_results[BatchPlace(indices, i)],
                                                  verify_results[BatchPlace(indices, i)]),
                          !.matcher = AdvanceOver(@, verify_results[BatchPlace(indices, i)])]
<1>1. active' = [i \in DOMAIN active |-> IF i \notin Wanting THEN active[i] ELSE next(i)]
  BY DEF Round
<1>2. ASSUME NEW i \in Wanting PROVE next(i) = AfterRound(active[i])
  <2>1. /\ BatchPlace(indices, i) \in DOMAIN indices
        /\ indices[BatchPlace(indices, i)] = i
    BY BatchPlaceFacts
  <2> HIDE DEF indices
  <2>2. draft_results[BatchPlace(indices, i)] = RoundDraft(active[i])
    BY <2>1 DEF RoundDraft
  <2>3. verify_results[BatchPlace(indices, i)] = RoundExpected(active[i])
    BY <2>1, <2>2 DEF RoundExpected
  <2> QED
    BY <2>2, <2>3 DEF AfterRound
<1> HIDE DEF next
<1> QED
  BY <1>1, <1>2

\* The text of a request without a matcher is what the target alone would have
\* chosen, token by token.
Lossless(r) ==
    r.matcher = NoMatcher =>
        LET text == r.prompt \o r.generated
        IN  \A n \in Len(r.prompt)..(Len(text) - 1) :
                text[n + 1] = Sample(TargetLogits(SubSeq(text, 1, n)), Tokens)

\* A prefix of a text is one of the text with something appended.
LEMMA PrefixOfConcat ==
    ASSUME NEW T, NEW c \in Seq(T), NEW g \in Seq(T), NEW n \in 0..Len(c)
    PROVE  SubSeq(c \o g, 1, n) = SubSeq(c, 1, n)
<1>1. /\ c \o g \in Seq(T) /\ Len(c \o g) = Len(c) + Len(g)
      /\ \A i \in 1..Len(c) : (c \o g)[i] = c[i]
      /\ \A i \in 1..Len(g) : (c \o g)[Len(c) + i] = g[i]
      /\ Len(c) \in Nat /\ Len(g) \in Nat
  BY ConcatProperties
<1>2. /\ SubSeq(c, 1, n) \in Seq(T) /\ Len(SubSeq(c, 1, n)) = n
      /\ \A i \in 1..n : SubSeq(c, 1, n)[i] = c[i]
  BY <1>1, SubSeqProperties
<1>3. /\ SubSeq(c \o g, 1, n) \in Seq(T) /\ Len(SubSeq(c \o g, 1, n)) = n
      /\ \A i \in 1..n : SubSeq(c \o g, 1, n)[i] = (c \o g)[i]
  BY <1>1, SubSeqProperties
<1>4. \A i \in 1..n : SubSeq(c \o g, 1, n)[i] = SubSeq(c, 1, n)[i]
  BY <1>1, <1>2, <1>3
<1> QED
  BY <1>2, <1>3, <1>4, SeqEqual

\* A longer prefix is the text and a prefix of what is appended, which may be
\* taken from any sequence that agrees with it so far.
LEMMA PrefixOverConcat ==
    ASSUME NEW T, NEW c \in Seq(T), NEW g \in Seq(T), NEW d \in Seq(T),
           NEW k \in 0..Len(g), k <= Len(d), \A j \in 1..k : g[j] = d[j]
    PROVE  SubSeq(c \o g, 1, Len(c) + k) = c \o SubSeq(d, 1, k)
<1>1. /\ c \o g \in Seq(T) /\ Len(c \o g) = Len(c) + Len(g)
      /\ \A i \in 1..Len(c) : (c \o g)[i] = c[i]
      /\ \A i \in 1..Len(g) : (c \o g)[Len(c) + i] = g[i]
      /\ Len(c) \in Nat /\ Len(g) \in Nat /\ Len(d) \in Nat
  BY ConcatProperties
<1> DEFINE u == SubSeq(c \o g, 1, Len(c) + k)
           v == c \o SubSeq(d, 1, k)
<1>2. /\ SubSeq(d, 1, k) \in Seq(T) /\ Len(SubSeq(d, 1, k)) = k
      /\ \A i \in 1..k : SubSeq(d, 1, k)[i] = d[i]
  BY <1>1, SubSeqProperties
<1>3. /\ u \in Seq(T) /\ Len(u) = Len(c) + k
      /\ \A i \in 1..(Len(c) + k) : u[i] = (c \o g)[i]
  BY <1>1, SubSeqProperties
<1>4. /\ v \in Seq(T) /\ Len(v) = Len(c) + k
      /\ \A i \in 1..Len(c) : v[i] = c[i]
      /\ \A i \in 1..k : v[Len(c) + i] = SubSeq(d, 1, k)[i]
  BY <1>1, <1>2, ConcatProperties
<1> HIDE DEF u, v
<1>5. ASSUME NEW i \in 1..(Len(c) + k) PROVE u[i] = v[i]
  <2>1. CASE i <= Len(c)
    <3>1. i \in 1..Len(c)
      BY <1>1, <2>1
    <3>2. (c \o g)[i] = c[i] /\ v[i] = c[i]
      BY <1>1, <1>4, <3>1
    <3> QED
      BY <1>3, <3>2
  <2>2. CASE i > Len(c)
    <3>1. PICK j \in 1..k : i = Len(c) + j
      <4>1. i - Len(c) \in 1..k /\ i = Len(c) + (i - Len(c))
        BY <1>1, <2>2
      <4> QED
        BY <4>1
    <3>2. u[i] = g[j]
      <4>1. j \in 1..Len(g)
        BY <1>1
      <4>2. (c \o g)[Len(c) + j] = g[j]
        BY <1>1, <4>1
      <4> QED
        BY <1>3, <3>1, <4>2
    <3>3. v[i] = d[j]
      BY <1>2, <1>4, <3>1
    <3>4. g[j] = d[j]
      OBVIOUS
    <3> QED
      BY <3>2, <3>3, <3>4
  <2> QED
    BY <1>1, <2>1, <2>2
<1>6. u = v
  BY <1>3, <1>4, <1>5, SeqEqual
<1> QED
  BY <1>6 DEF u, v

\* A round keeps a request's slot, prompt and cached prefix, does not exceed
\* its budget, and keeps its text lossless.
LEMMA AfterRoundFacts ==
    ASSUME NEW r \in Requests, Len(r.generated) < r.max_new_tokens
    PROVE  /\ AfterRound(r) \in Requests
           /\ AfterRound(r).prompt = r.prompt
           /\ AfterRound(r).max_new_tokens = r.max_new_tokens
           /\ AfterRound(r).slot_id = r.slot_id
           /\ AfterRound(r).cached_prefix = r.cached_prefix
           /\ Len(AfterRound(r).generated) <= r.max_new_tokens
           /\ Lossless(r) => Lossless(AfterRound(r))
<1> DEFINE c == r.prompt \o r.generated
           m == Smaller(r.max_new_tokens - Len(r.generated), DraftWindow)
           d == RoundDraft(r)
           e == RoundExpected(r)
           g == Kept(d, e)
           q == AdvanceOver(r.matcher, e)
<1>1. /\ r.prompt \in Seq(Tokens) /\ r.generated \in Seq(Tokens)
      /\ r.matcher \in MatcherStates /\ r.max_new_tokens \in Nat
      /\ Len(r.prompt) \in Nat /\ Len(r.generated) \in Nat
  BY DEF Requests
<1>2. m \in Nat /\ m <= r.max_new_tokens - Len(r.generated)
  BY <1>1, EngineBatchAssumption DEF Smaller
<1>3. c \in Seq(Tokens) /\ Len(c) = Len(r.prompt) + Len(r.generated)
  BY <1>1, ConcatProperties
<1>4. d \in Seq(Tokens) /\ Len(d) = m
  <2> HIDE DEF m
  <2> QED
    BY <1>1, <1>2, DraftedType DEF RoundDraft, m
<1>5. /\ e \in Seq(Tokens) /\ Len(e) = Len(d)
      /\ r.matcher = NoMatcher =>
            \A k \in 1..Len(d) :
               e[k] = Sample(TargetLogits(c \o SubSeq(d, 1, k - 1)), Tokens)
  BY <1>1, <1>4, ExpectedFacts DEF RoundExpected
<1> HIDE DEF d, e, m
<1>6. /\ g \in Seq(Tokens) /\ Len(g) <= Len(d)
      /\ \A k \in 1..Len(g) : g[k] = e[k] /\ \A j \in 1..(k - 1) : g[j] = d[j]
  BY <1>4, <1>5, KeptFacts
<1>7. q \in MatcherStates /\ (q = NoMatcher <=> r.matcher = NoMatcher)
  BY <1>1, <1>5, AdvanceOverType
<1>8. AfterRound(r) = [r EXCEPT !.generated = @ \o g, !.matcher = q]
  BY DEF AfterRound, d, e
<1> HIDE DEF g, q, c
<1>9. /\ r.generated \o g \in Seq(Tokens)
      /\ Len(r.generated \o g) = Len(r.generated) + Len(g)
      /\ r.prompt \o (r.generated \o g) = c \o g
  <2>1. /\ r.generated \o g \in Seq(Tokens)
        /\ Len(r.generated \o g) = Len(r.generated) + Len(g)
    BY <1>1, <1>6, ConcatProperties
  <2>2. r.prompt \o (r.generated \o g) = (r.prompt \o r.generated) \o g
    <3>1. \A u, v, w \in Seq(Tokens) : u \o (v \o w) = (u \o v) \o w
      BY ConcatAssociative
    <3> QED
      BY <1>1, <1>6, <3>1, Zenon
  <2> QED
    BY <2>1, <2>2 DEF c
<1>10. /\ AfterRound(r) \in Requests
       /\ AfterRound(r).prompt = r.prompt
       /\ AfterRound(r).max_new_tokens = r.max_new_tokens
       /\ AfterRound(r).slot_id = r.slot_id
       /\ AfterRound(r).cached_prefix = r.cached_prefix
       /\ AfterRound(r).generated = r.generated \o g
       /\ AfterRound(r).matcher = q
  BY <1>7, <1>8, <1>9 DEF Requests
<1>11. Len(AfterRound(r).generated) <= r.max_new_tokens
  BY <1>1, <1>2, <1>4, <1>6, <1>9, <1>10
<1>12. ASSUME Lossless(r), r.matcher = NoMatcher,
              NEW n \in Len(r.prompt)..(Len(c \o g) - 1)
       PROVE  (c \o g)[n + 1] = Sample(TargetLogits(SubSeq(c \o g, 1, n)), Tokens)
  <2>1. /\ Len(c \o g) = Len(c) + Len(g)
        /\ \A i \in 1..Len(c) : (c \o g)[i] = c[i]
        /\ \A i \in 1..Len(g) : (c \o g)[Len(c) + i] = g[i]
        /\ Len(c) \in Nat /\ Len(g) \in Nat
    <3>1. c \in Seq(Tokens) /\ g \in Seq(Tokens)
      BY <1>3, <1>6
    <3>2. /\ Len(c \o g) = Len(c) + Len(g)
          /\ \A i \in 1..Len(c) : (c \o g)[i] = c[i]
          /\ \A i \in 1..Len(g) : (c \o g)[Len(c) + i] = g[i]
      BY <3>1, ConcatProperties
    <3> QED
      BY <3>1, <3>2
  <2>2. CASE n < Len(c)
    <3>1. c[n + 1] = Sample(TargetLogits(SubSeq(c, 1, n)), Tokens)
      <4>1. n \in Len(r.prompt)..(Len(c) - 1)
        BY <1>1, <2>1, <2>2
      <4>2. \A k \in Len(r.prompt)..(Len(c) - 1) :
               c[k + 1] = Sample(TargetLogits(SubSeq(c, 1, k)), Tokens)
        BY <1>12, Zenon DEF Lossless, c
      <4> QED
        BY <4>1, <4>2, Zenon
    <3>2. (c \o g)[n + 1] = c[n + 1]
      BY <1>1, <2>1, <2>2
    <3>3. n \in 0..Len(c)
      BY <1>1, <2>1, <2>2
    <3>4. SubSeq(c \o g, 1, n) = SubSeq(c, 1, n)
      BY <1>3, <1>4, <1>6, <3>3, PrefixOfConcat
    <3> QED
      BY <3>1, <3>2, <3>4
  <2>3. CASE n >= Len(c)
    <3>1. PICK k \in 0..(Len(g) - 1) : n = Len(c) + k
      <4>1. n - Len(c) \in 0..(Len(g) - 1) /\ n = Len(c) + (n - Len(c))
        BY <1>1, <2>1, <2>3
      <4> QED
        BY <4>1
    <3>2. /\ k + 1 \in 1..Len(g) /\ k + 1 \in 1..Len(d) /\ k \in 0..Len(g)
          /\ k <= Len(d) /\ (k + 1) - 1 = k /\ n + 1 = Len(c) + (k + 1)
      BY <1>2, <1>4, <1>6, <2>1, <3>1
    <3>3. (c \o g)[n + 1] = g[k + 1]
      BY <2>1, <3>2
    <3>4. g[k + 1] = e[k + 1] /\ \A j \in 1..k : g[j] = d[j]
      BY <1>6, <3>2
    <3>5. e[k + 1] = Sample(TargetLogits(c \o SubSeq(d, 1, k)), Tokens)
      BY <1>5, <1>12, <3>2
    <3>6. SubSeq(c \o g, 1, n) = c \o SubSeq(d, 1, k)
      <4>1. c \in Seq(Tokens) /\ g \in Seq(Tokens) /\ d \in Seq(Tokens)
        BY <1>3, <1>4, <1>6
      <4>2. SubSeq(c \o g, 1, Len(c) + k) = c \o SubSeq(d, 1, k)
        <5>1. k \in 0..Len(g) /\ k <= Len(d) /\ \A j \in 1..k : g[j] = d[j]
          BY <3>2, <3>4
        <5>2. \A x, y, z \in Seq(Tokens) : \A j \in 0..Len(y) :
                 (j <= Len(z) /\ \A i \in 1..j : y[i] = z[i]) =>
                     SubSeq(x \o y, 1, Len(x) + j) = x \o SubSeq(z, 1, j)
          BY PrefixOverConcat, SMTT(30)
        <5> QED
          BY <4>1, <5>1, <5>2, Zenon
      <4> QED
        BY <3>1, <4>2
    <3> QED
      BY <3>3, <3>4, <3>5, <3>6
  <2> QED
    BY <1>1, <2>1, <2>2, <2>3
<1>13. Lossless(r) => Lossless(AfterRound(r))
  BY <1>7, <1>9, <1>10, <1>12 DEF Lossless
<1> QED
  BY <1>10, <1>11, <1>13

-----------------------------------------------------------------------------
(***************************************************************************)
(* The inductive invariant.                                                *)
(***************************************************************************)
Pending == Seq([prompt : Seq(Tokens), max_new_tokens : Nat, constrained : BOOLEAN])

Outputs ==
    [prompt : Seq(Tokens), tokens : Seq(Tokens), cached_prefix : Lookups,
     inserted_handle : Nat, inserted_pages : Seq(Pages)]

EngineTypeOK ==
    /\ pc \in {"idle", "prepare", "decode", "finish"}
    /\ todo \in Pending
    /\ active \in Seq(Requests)
    /\ free_slots \in Seq(Slots)
    /\ rows \in [Slots -> Seq(Pages)]
    /\ outputs \in Seq(Outputs)
    /\ Cached(map) \subseteq Seq(Tokens)

\* The outputs come after the rounds, in the order of the requests.
PhasesOK ==
    /\ pc = "idle" => active = <<>>
    /\ pc \in {"prepare", "decode"} => outputs = <<>>
    /\ pc # "idle" => Len(outputs) <= Len(active)

\* The places of the requests that hold a slot.
Unfinished == (Len(outputs) + 1)..Len(active)

SlotsOK ==
    /\ \A i, j \in DOMAIN free_slots : free_slots[i] = free_slots[j] => i = j
    /\ \A i, j \in Unfinished : active[i].slot_id = active[j].slot_id => i = j
    /\ \A i \in DOMAIN free_slots, j \in Unfinished :
          free_slots[i] # active[j].slot_id

RequestsOK ==
    \A i \in DOMAIN active :
        /\ Len(active[i].generated) <= active[i].max_new_tokens
        /\ pc = "finish" => Len(active[i].generated) = active[i].max_new_tokens
        /\ Lossless(active[i])

\* Of a cache m, its next handle n and its mappings M, and a list of outputs:
\* the cache gives the handle h, if to any text, then to this one.
Names(m, n, h, text) ==
    /\ h < n
    /\ \A t \in Cached(m) : m.entries[t] = h => t = text

\* The cached prefix found for a prompt is still mapped, or it is the text of
\* an output.
PrefixOK(m, n, M, outs, prompt, found) ==
    LET text == SubSeq(prompt, 1, found.matched_tokens)
    IN  \/ found.handle = NoHandle
        \/ /\ Names(m, n, found.handle, text)
           /\ \/ found.handle \in DOMAIN M
              \/ \E j \in DOMAIN outs : Text(outs[j]) = text

\* An output is backed by its pages, or a later one has its text.
OutputOK(m, n, M, outs, i) ==
    LET o == outs[i]
    IN  /\ Names(m, n, o.inserted_handle, Text(o))
        /\ \/ \E j \in (i + 1)..Len(outs) : Text(outs[j]) = Text(o)
           \/ /\ o.inserted_handle \in DOMAIN M
              /\ M[o.inserted_handle] = o.inserted_pages
              /\ Len(o.inserted_pages) * BlockSize >= Len(Text(o))

HandlesOK ==
    /\ \A i \in DOMAIN active :
          PrefixOK(map, next_block_id, mappings, outputs,
                   active[i].prompt, active[i].cached_prefix)
    /\ \A i \in DOMAIN outputs :
          /\ PrefixOK(map, next_block_id, mappings, outputs,
                      outputs[i].prompt, outputs[i].cached_prefix)
          /\ OutputOK(map, next_block_id, mappings, outputs, i)

EngineInv ==
    /\ MemInv
    /\ EngineTypeOK
    /\ PhasesOK
    /\ SlotsOK
    /\ BoundPagesLive
    /\ RequestsOK
    /\ HandlesOK

-----------------------------------------------------------------------------
(***************************************************************************)
(* What the steps have in common.                                          *)
(***************************************************************************)

\* The invariant of the memory is about the memory only.
LEMMA MemUnchanged ==
    ASSUME MemInv, UNCHANGED kvVars
    PROVE  MemInv' /\ EntriesKept
BY DEF kvVars, MemInv, PoolOK, StoreMatchesAllocator, CachedIsBacked, EntriesKept

\* A queue without duplicates whose head is taken.
LEMMA TakeHead ==
    ASSUME NEW T, NEW s \in Seq(T), s # <<>>,
           \A i, j \in DOMAIN s : s[i] = s[j] => i = j
    PROVE  /\ Tail(s) \in Seq(T) /\ Head(s) \in T /\ Head(s) = s[1] /\ 1 \in DOMAIN s
           /\ \A i, j \in DOMAIN Tail(s) : Tail(s)[i] = Tail(s)[j] => i = j
           /\ \A i \in DOMAIN Tail(s) :
                 Tail(s)[i] # Head(s) /\ \E j \in DOMAIN s : Tail(s)[i] = s[j]
           /\ ToSet(s) = ToSet(Tail(s)) \cup {Head(s)}
<1>1. /\ Tail(s) \in Seq(T) /\ Head(s) \in T /\ Head(s) = s[1]
      /\ Len(Tail(s)) = Len(s) - 1 /\ Len(s) \in Nat /\ Len(s) # 0
      /\ \A i \in 1..(Len(s) - 1) : Tail(s)[i] = s[i + 1]
  BY HeadTailProperties
<1>2. /\ DOMAIN s = 1..Len(s) /\ DOMAIN Tail(s) = 1..(Len(s) - 1) /\ 1 \in DOMAIN s
  BY <1>1
<1>3. \A i \in DOMAIN Tail(s) : i + 1 \in DOMAIN s /\ i + 1 # 1 /\ Tail(s)[i] = s[i + 1]
  BY <1>1, <1>2
<1>4. \A i, j \in DOMAIN Tail(s) : i + 1 = j + 1 => i = j
  BY <1>2
<1>5. \A i \in DOMAIN s : i = 1 \/ \E j \in DOMAIN Tail(s) : Tail(s)[j] = s[i]
  <2> SUFFICES ASSUME NEW i \in DOMAIN s, i # 1
               PROVE  \E j \in DOMAIN Tail(s) : Tail(s)[j] = s[i]
    OBVIOUS
  <2>1. i - 1 \in DOMAIN Tail(s) /\ (i - 1) + 1 = i
    BY <1>2
  <2> QED
    BY <1>3, <2>1
<1>6. ToSet(s) = ToSet(Tail(s)) \cup {Head(s)}
  BY <1>1, <1>2, <1>3, <1>5 DEF ToSet
<1> QED
  BY <1>1, <1>2, <1>3, <1>4, <1>6

\* A queue to which something is added that it does not have.
LEMMA AddLast ==
    ASSUME NEW T, NEW s \in Seq(T), NEW x \in T, \A i \in DOMAIN s : s[i] # x,
           \A i, j \in DOMAIN s : s[i] = s[j] => i = j
    PROVE  /\ Append(s, x) \in Seq(T)
           /\ \A i, j \in DOMAIN Append(s, x) : Append(s, x)[i] = Append(s, x)[j] => i = j
           /\ \A i \in DOMAIN Append(s, x) :
                 Append(s, x)[i] = x \/ \E j \in DOMAIN s : Append(s, x)[i] = s[j]
           /\ ToSet(Append(s, x)) = ToSet(s) \cup {x}
<1>1. /\ Append(s, x) \in Seq(T) /\ Len(Append(s, x)) = Len(s) + 1
      /\ \A i \in 1..Len(s) : Append(s, x)[i] = s[i]
      /\ Append(s, x)[Len(s) + 1] = x /\ Len(s) \in Nat
  BY AppendProperties
<1>2. DOMAIN s = 1..Len(s) /\ DOMAIN Append(s, x) = 1..(Len(s) + 1)
  BY <1>1
<1>3. \A i \in DOMAIN Append(s, x) :
         \/ i = Len(s) + 1 /\ Append(s, x)[i] = x
         \/ i \in DOMAIN s /\ Append(s, x)[i] = s[i]
  BY <1>1, <1>2
<1>4. /\ Len(s) + 1 \in DOMAIN Append(s, x)
      /\ \A i \in DOMAIN s : i \in DOMAIN Append(s, x) /\ Append(s, x)[i] = s[i]
  BY <1>1, <1>2
<1>5. ToSet(Append(s, x)) = ToSet(s) \cup {x}
  BY <1>1, <1>3, <1>4 DEF ToSet
<1> QED
  BY <1>1, <1>3, <1>5

\* A handle once given is never given to another text.
LEMMA NamesPersist ==
    ASSUME EntriesKept, NEW h \in Nat, NEW text, next_block_id \in Nat,
           Names(map, next_block_id, h, text)
    PROVE  Names(map', next_block_id', h, text)
BY DEF EntriesKept, Names

\* A cached prefix that was found stays one, if what unmaps its handle is the
\* caching of an output with its text.
LEMMA PrefixPersists ==
    ASSUME EntriesKept, next_block_id \in Nat, NEW prompt, NEW found \in Lookups,
           NEW outs, NEW more, \A j \in DOMAIN outs : j \in DOMAIN more /\ more[j] = outs[j],
           PrefixOK(map, next_block_id, mappings, outs, prompt, found),
           found.handle \in DOMAIN mappings =>
              \/ found.handle \in DOMAIN mappings'
              \/ \E j \in DOMAIN more :
                    Text(more[j]) = SubSeq(prompt, 1, found.matched_tokens)
    PROVE  PrefixOK(map', next_block_id', mappings', more, prompt, found)
<1> DEFINE text == SubSeq(prompt, 1, found.matched_tokens)
<1> HIDE DEF text
<1>1. CASE found.handle = NoHandle
  BY <1>1 DEF PrefixOK
<1>2. CASE found.handle # NoHandle
  <2>1. Names(map, next_block_id, found.handle, text)
    BY <1>2 DEF PrefixOK, text
  <2>2. found.handle \in Nat
    BY <1>2 DEF Lookups
  <2>3. Names(map', next_block_id', found.handle, text)
    BY <2>1, <2>2, NamesPersist
  <2>4. \/ found.handle \in DOMAIN mappings
        \/ \E j \in DOMAIN outs : Text(outs[j]) = text
    BY <1>2 DEF PrefixOK, text
  <2>5. \/ found.handle \in DOMAIN mappings'
        \/ \E j \in DOMAIN more : Text(more[j]) = text
    BY <2>4 DEF text
  <2> QED
    BY <2>3, <2>5 DEF PrefixOK, text
<1> QED
  BY <1>1, <1>2

\* An error drops the requests; the memory and the free slots are in order.
LEMMA GiveUpStep ==
    ASSUME EngineInv, GiveUp, MemInv', Cached(map') \subseteq Seq(Tokens),
           UNCHANGED rows, free_slots' \in Seq(Slots),
           \A i, j \in DOMAIN free_slots' : free_slots'[i] = free_slots'[j] => i = j
    PROVE  EngineInv'
<1>1. /\ pc' = "idle" /\ todo' = <<>> /\ active' = <<>> /\ outputs' = <<>>
      /\ DOMAIN active' = {} /\ DOMAIN outputs' = {} /\ Len(active') = 0
  BY DEF GiveUp
<1>2. EngineTypeOK'
  BY <1>1 DEF EngineInv, EngineTypeOK, Pending
<1>3. PhasesOK' /\ BoundPagesLive'
  BY <1>1 DEF PhasesOK, BoundPagesLive
<1>4. Unfinished' = {}
  BY <1>1 DEF Unfinished
<1>5. SlotsOK'
  BY <1>4 DEF SlotsOK
<1>6. RequestsOK' /\ HandlesOK'
  BY <1>1 DEF RequestsOK, HandlesOK
<1> QED
  BY <1>2, <1>3, <1>5, <1>6 DEF EngineInv

-----------------------------------------------------------------------------
(***************************************************************************)
(* The steps, one by one.                                                  *)
(***************************************************************************)

\* A new engine: all slots are free, in order.
LEMMA EngineInitInv == EngineInit => EngineInv
<1> SUFFICES ASSUME EngineInit PROVE EngineInv
  OBVIOUS
<1>1. MemInv
  BY InitMemInv DEF EngineInit
<1>2. /\ pc = "idle" /\ todo = <<>> /\ active = <<>> /\ outputs = <<>>
      /\ DOMAIN active = {} /\ DOMAIN outputs = {} /\ Len(active) = 0
      /\ Len(outputs) = 0
  BY DEF EngineInit
<1>3. Cached(map) = {}
  BY DEF EngineInit, Init, Empty, Cached
<1>4. /\ free_slots \in Seq(Slots) /\ DOMAIN free_slots = 1..MaxSlots
      /\ \A i \in 1..MaxSlots : free_slots[i] = i - 1
  BY EngineBatchAssumption DEF EngineInit, Slots
<1>5. rows \in [Slots -> Seq(Pages)]
  BY DEF EngineInit
<1>6. EngineTypeOK
  BY <1>2, <1>3, <1>4, <1>5 DEF EngineTypeOK, Pending
<1>7. PhasesOK /\ BoundPagesLive
  BY <1>2 DEF PhasesOK, BoundPagesLive
<1>8. SlotsOK
  <2>1. Unfinished = {}
    BY <1>2 DEF Unfinished
  <2>2. \A i, j \in DOMAIN free_slots : free_slots[i] = free_slots[j] => i = j
    BY <1>4, EngineBatchAssumption
  <2> QED
    BY <2>1, <2>2 DEF SlotsOK
<1>9. RequestsOK /\ HandlesOK
  BY <1>2 DEF RequestsOK, HandlesOK
<1> QED
  BY <1>1, <1>6, <1>7, <1>8, <1>9 DEF EngineInv

\* A call starts.
LEMMA StartBatchStep ==
    ASSUME EngineInv, NEW requests \in Batches, StartBatch(requests)
    PROVE  EngineInv'
<1>1. /\ pc' = "prepare" /\ todo' = requests /\ active' = <<>> /\ outputs' = <<>>
      /\ UNCHANGED <<kvVars, free_slots, rows>>
      /\ DOMAIN active' = {} /\ DOMAIN outputs' = {} /\ Len(active') = 0
      /\ Len(outputs') = 0
  BY DEF StartBatch
<1>2. MemInv' /\ map' = map
  BY <1>1, MemUnchanged DEF EngineInv, kvVars
<1>3. EngineTypeOK'
  <2>1. requests \in Pending
    BY EngineBatchAssumption DEF Pending
  <2> QED
    BY <1>1, <1>2, <2>1 DEF EngineInv, EngineTypeOK
<1>4. PhasesOK' /\ BoundPagesLive'
  BY <1>1 DEF PhasesOK, BoundPagesLive
<1>5. Unfinished' = {}
  BY <1>1 DEF Unfinished
<1>6. SlotsOK'
  BY <1>1, <1>5 DEF EngineInv, SlotsOK
<1>7. RequestsOK' /\ HandlesOK'
  BY <1>1 DEF RequestsOK, HandlesOK
<1> QED
  BY <1>2, <1>3, <1>4, <1>6, <1>7 DEF EngineInv

\* What a lookup finds for a prompt, seen from the state after the prefill.
LEMMA FoundPrefix ==
    ASSUME EngineInv, NEW s \in Seq(Tokens), Prefill(s)
    PROVE  /\ LookupAnswer(map, s) \in Lookups
           /\ PrefixOK(map', next_block_id', mappings', <<>>, s, LookupAnswer(map, s))
<1> DEFINE found == LookupAnswer(map, s)
<1>1. MemInv /\ Len(s) \in Nat /\ Cached(map) \subseteq Seq(Tokens)
  BY DEF EngineInv, EngineTypeOK
<1>2. /\ EntriesKept
      /\ \A g \in DOMAIN mappings : g \in DOMAIN mappings' /\ mappings'[g] = mappings[g]
  BY <1>1, PrefillStep DEF Prefill
<1>3. next_block_id \in Nat /\ DOMAIN mappings \subseteq 1..(next_block_id - 1)
  BY <1>1 DEF MemInv, PoolOK, StoreMatchesAllocator
<1>4. /\ found.matched_tokens \in 0..Len(s)
      /\ found.handle \in DOMAIN mappings \cup {NoHandle}
      /\ found.handle # NoHandle =>
            \E t \in CachedPrefixes(map, s) :
               found.handle = map.entries[t] /\ found.matched_tokens = Len(t)
  BY <1>1, LookupIsBacked
<1>5. \E n \in Nat, h \in Nat \cup {NoHandle} : found = [matched_tokens |-> n, handle |-> h]
  <2>1. \A t \in Cached(map) : Len(t) \in Nat /\ map.entries[t] \in Nat
    BY <1>1, <1>3 DEF MemInv, CachedIsBacked
  <2>2. \A t \in CachedPrefixes(map, s) : t \in Cached(map)
    BY DEF CachedPrefixes
  <2>3. \/ found = [matched_tokens |-> 0, handle |-> NoHandle]
        \/ \E t \in CachedPrefixes(map, s) :
              found = [matched_tokens |-> Len(t), handle |-> map.entries[t]]
    BY <1>1, <2>1, LookupIsLongest
  <2> HIDE DEF found
  <2> QED
    BY <2>1, <2>2, <2>3
<1>6. found \in Lookups
  <2> HIDE DEF found
  <2> QED
    BY <1>5 DEF Lookups
<1>7. CASE found.handle = NoHandle
  BY <1>6, <1>7 DEF PrefixOK
<1>8. CASE found.handle # NoHandle
  <2>1. PICK t \in CachedPrefixes(map, s) :
           found.handle = map.entries[t] /\ found.matched_tokens = Len(t)
    BY <1>4, <1>8
  <2>2. t \in Cached(map) /\ t \in Seq(Tokens) /\ Len(t) <= Len(s)
        /\ SubSeq(t, 1, Len(t)) = SubSeq(s, 1, Len(t))
    BY <1>1, <2>1 DEF CachedPrefixes, IsPrefix
  <2>3. SubSeq(t, 1, Len(t)) = t
    BY <2>2, SubSeqFull
  <2>4. SubSeq(s, 1, found.matched_tokens) = t
    BY <2>1, <2>2, <2>3
  <2> HIDE DEF found
  <2>5. found.handle \in DOMAIN mappings /\ found.handle \in DOMAIN mappings'
        /\ found.handle \in Nat /\ found.handle < next_block_id
    BY <1>2, <1>3, <1>4, <1>8
  <2>6. \A u \in Cached(map) : map.entries[u] = found.handle => u = t
    BY <1>1, <2>1, <2>2 DEF MemInv, CachedIsBacked
  <2>7. Names(map, next_block_id, found.handle, t)
    BY <2>5, <2>6 DEF Names
  <2>8. Names(map', next_block_id', found.handle, t)
    BY <1>2, <1>3, <2>5, <2>7, NamesPersist
  <2> QED
    BY <1>6, <2>4, <2>5, <2>8 DEF PrefixOK, found
<1> QED
  BY <1>6, <1>7, <1>8

\* A request is prepared: the head of the free queue is its slot, the pages of
\* its prompt are the slot's row, and no pages of an earlier request are freed.
LEMMA PrepareStep ==
    ASSUME EngineInv, pc = "prepare", todo # <<>>, free_slots # <<>>,
           NEW q \in Matchers(Head(todo)), Prepare(q)
    PROVE  EngineInv'
<1> DEFINE req == Head(todo)
           slot == Head(free_slots)
           r == [prompt |-> req.prompt, max_new_tokens |-> req.max_new_tokens,
                 slot_id |-> slot, generated |-> <<>>, matcher |-> q,
                 cached_prefix |-> LookupAnswer(map, req.prompt)]
<1>1. /\ MemInv /\ active \in Seq(Requests) /\ free_slots \in Seq(Slots)
      /\ todo \in Pending /\ outputs = <<>> /\ rows \in [Slots -> Seq(Pages)]
      /\ Cached(map) \subseteq Seq(Tokens)
  BY DEF EngineInv, EngineTypeOK, PhasesOK
<1>2. /\ req.prompt \in Seq(Tokens) /\ req.max_new_tokens \in Nat
      /\ req.constrained \in BOOLEAN /\ Tail(todo) \in Pending
  <2> DEFINE R == [prompt : Seq(Tokens), max_new_tokens : Nat, constrained : BOOLEAN]
  <2>1. todo \in Seq(R)
    BY <1>1 DEF Pending
  <2> HIDE DEF R
  <2>2. req \in R /\ Tail(todo) \in Seq(R)
    BY <2>1, HeadTailProperties
  <2> QED
    BY <2>2 DEF R, Pending
<1>3. /\ Prefill(req.prompt) /\ result' = "ok" /\ span' # <<>>
      /\ rows' = [rows EXCEPT ![slot] = span']
      /\ active' = Append(active, r)
      /\ todo' = Tail(todo) /\ free_slots' = Tail(free_slots)
      /\ UNCHANGED <<pc, calls, outputs, outcome>>
  BY DEF Prepare, PagesToBind
<1>4. /\ MemInv'
      /\ Cached(map') \subseteq Cached(map) \cup {req.prompt}
      /\ \A g \in DOMAIN mappings : g \in DOMAIN mappings' /\ mappings'[g] = mappings[g]
      /\ Len(span') * BlockSize >= Len(req.prompt)
      /\ \E g \in DOMAIN mappings' : mappings'[g] = span'
      /\ EntriesKept
  <2>1. Len(req.prompt) \in Nat /\ (PrefillHit(req.prompt) \/ PrefillMiss(req.prompt))
    BY <1>2, <1>3 DEF Prefill
  <2> HIDE DEF req
  <2> QED
    BY <1>1, <1>3, <2>1, PrefillStep
<1>5. /\ LookupAnswer(map, req.prompt) \in Lookups
      /\ PrefixOK(map', next_block_id', mappings', <<>>, req.prompt,
                  LookupAnswer(map, req.prompt))
  BY <1>2, <1>3, FoundPrefix
<1>6. q \in MatcherStates
  <2>1. Start \in MatcherStates /\ NoMatcher \in MatcherStates
    BY DEF MatcherStates
  <2>2. AdvanceOver(Start, req.prompt) \in MatcherStates
    BY <1>2, <2>1, AdvanceOverType
  <2> QED
    BY <2>1, <2>2 DEF Matchers
<1>7. /\ free_slots' \in Seq(Slots) /\ slot \in Slots /\ slot = free_slots[1]
      /\ 1 \in DOMAIN free_slots
      /\ \A i, j \in DOMAIN free_slots' : free_slots'[i] = free_slots'[j] => i = j
      /\ \A i \in DOMAIN free_slots' :
            free_slots'[i] # slot /\ \E j \in DOMAIN free_slots : free_slots'[i] = free_slots[j]
  <2>1. \A i, j \in DOMAIN free_slots : free_slots[i] = free_slots[j] => i = j
    BY DEF EngineInv, SlotsOK
  <2>2. /\ Tail(free_slots) \in Seq(Slots) /\ slot \in Slots /\ slot = free_slots[1]
        /\ 1 \in DOMAIN free_slots
        /\ \A i, j \in DOMAIN Tail(free_slots) :
              Tail(free_slots)[i] = Tail(free_slots)[j] => i = j
        /\ \A i \in DOMAIN Tail(free_slots) :
              /\ Tail(free_slots)[i] # slot
              /\ \E j \in DOMAIN free_slots : Tail(free_slots)[i] = free_slots[j]
    BY <1>1, <2>1, TakeHead
  <2> QED
    BY <1>3, <2>2
<1>8. <<>> \in Seq(Tokens)
  OBVIOUS
<1> HIDE DEF req, slot
<1>9. /\ r \in Requests /\ r.slot_id = slot /\ r.prompt = req.prompt
      /\ r.generated = <<>> /\ r.max_new_tokens \in Nat
      /\ r.cached_prefix = LookupAnswer(map, req.prompt)
  BY <1>2, <1>5, <1>6, <1>7, <1>8 DEF Requests
<1>10. Lossless(r)
  <2>1. r.prompt \o r.generated = r.prompt /\ Len(r.prompt) \in Nat
    BY <1>2, <1>9
  <2> HIDE DEF r
  <2>2. \A n \in Len(r.prompt)..(Len(r.prompt \o r.generated) - 1) : FALSE
    BY <2>1
  <2> QED
    BY <2>2, Zenon DEF Lossless
<1> HIDE DEF r
<1>11. /\ active' \in Seq(Requests) /\ Len(active') = Len(active) + 1
       /\ \A i \in 1..Len(active) : active'[i] = active[i]
       /\ active'[Len(active) + 1] = r /\ Len(active) \in Nat
  BY <1>1, <1>3, <1>9, AppendProperties
<1>12. /\ DOMAIN active = 1..Len(active) /\ DOMAIN active' = 1..(Len(active) + 1)
       /\ outputs' = <<>> /\ Len(outputs) = 0 /\ Len(outputs') = 0
       /\ DOMAIN outputs' = {} /\ DOMAIN outputs = {}
  BY <1>1, <1>3, <1>11
<1>13. \A i \in DOMAIN active' :
          \/ i \in DOMAIN active /\ active'[i] = active[i]
          \/ i = Len(active) + 1 /\ active'[i] = r
  BY <1>11, <1>12
<1>14. Unfinished = DOMAIN active /\ Unfinished' = DOMAIN active'
  BY <1>11, <1>12 DEF Unfinished
<1>15. EngineTypeOK'
  <2>1. rows' \in [Slots -> Seq(Pages)]
    BY <1>1, <1>3, <1>4, <1>7 DEF MemInv
  <2>2. Cached(map') \subseteq Seq(Tokens)
    BY <1>1, <1>2, <1>4
  <2> QED
    BY <1>1, <1>2, <1>3, <1>7, <1>11, <2>1, <2>2 DEF EngineInv, EngineTypeOK
<1>16. PhasesOK'
  BY <1>3, <1>11, <1>12 DEF EngineInv, PhasesOK
<1>17. \A i \in DOMAIN active : active[i].slot_id # slot /\ active[i].slot_id \in Slots
  <2> SUFFICES ASSUME NEW i \in DOMAIN active
               PROVE  active[i].slot_id # slot /\ active[i].slot_id \in Slots
    OBVIOUS
  <2>1. active[i] \in Requests
    BY <1>1
  <2>2. free_slots[1] # active[i].slot_id
    BY <1>7, <1>14 DEF EngineInv, SlotsOK
  <2> QED
    BY <1>7, <2>1, <2>2 DEF Requests
<1>18. SlotsOK'
  <2>1. ASSUME NEW i \in DOMAIN free_slots', NEW j \in DOMAIN active'
        PROVE  free_slots'[i] # active'[j].slot_id
    <3>1. CASE j \in DOMAIN active /\ active'[j] = active[j]
      BY <1>7, <1>14, <3>1 DEF EngineInv, SlotsOK
    <3>2. CASE active'[j] = r
      BY <1>7, <1>9, <3>2
    <3> QED
      BY <1>13, <3>1, <3>2
  <2>2. ASSUME NEW i \in DOMAIN active', NEW j \in DOMAIN active',
               active'[i].slot_id = active'[j].slot_id
        PROVE  i = j
    BY <1>9, <1>13, <1>14, <1>17, <2>2 DEF EngineInv, SlotsOK
  <2> QED
    BY <1>7, <1>14, <2>1, <2>2 DEF SlotsOK
<1>19. BoundPagesLive'
  <2> SUFFICES ASSUME NEW i \in DOMAIN active'
               PROVE  /\ Len(rows'[active'[i].slot_id]) * BlockSize >= Len(active'[i].prompt)
                      /\ \E h \in DOMAIN mappings' : mappings'[h] = rows'[active'[i].slot_id]
    BY DEF BoundPagesLive
  <2>1. CASE i \in DOMAIN active /\ active'[i] = active[i]
    <3>1. rows'[active[i].slot_id] = rows[active[i].slot_id]
      BY <1>1, <1>3, <1>17, <2>1
    <3>2. /\ Len(rows[active[i].slot_id]) * BlockSize >= Len(active[i].prompt)
          /\ \E h \in DOMAIN mappings : mappings[h] = rows[active[i].slot_id]
      BY <2>1 DEF EngineInv, BoundPagesLive
    <3> QED
      BY <1>4, <2>1, <3>1, <3>2
  <2>2. CASE active'[i] = r
    <3>1. rows'[slot] = span'
      BY <1>1, <1>3, <1>7
    <3> QED
      BY <1>4, <1>9, <2>2, <3>1
  <2> QED
    BY <1>13, <2>1, <2>2
<1>20. RequestsOK'
  <2>1. Len(r.generated) <= r.max_new_tokens
    BY <1>9
  <2>2. pc' # "finish"
    BY <1>3
  <2> QED
    BY <1>10, <1>13, <2>1, <2>2 DEF EngineInv, RequestsOK
<1>21. HandlesOK'
  <2> SUFFICES ASSUME NEW i \in DOMAIN active'
               PROVE  PrefixOK(map', next_block_id', mappings', <<>>,
                               active'[i].prompt, active'[i].cached_prefix)
    BY <1>12 DEF HandlesOK
  <2>1. CASE i \in DOMAIN active /\ active'[i] = active[i]
    <3>1. PrefixOK(map, next_block_id, mappings, <<>>,
                   active[i].prompt, active[i].cached_prefix)
      BY <1>1, <2>1 DEF EngineInv, HandlesOK
    <3>2. active[i].cached_prefix \in Lookups /\ next_block_id \in Nat
      <4>1. active[i] \in Requests
        BY <1>1, <2>1
      <4> QED
        BY <1>1, <4>1 DEF Requests, MemInv, PoolOK
    <3>3. \A j \in DOMAIN <<>> : j \in DOMAIN <<>> /\ <<>>[j] = <<>>[j]
      OBVIOUS
    <3>4. PrefixOK(map', next_block_id', mappings', <<>>,
                   active[i].prompt, active[i].cached_prefix)
      BY <1>4, <3>1, <3>2, <3>3, PrefixPersists
    <3> QED
      BY <2>1, <3>4
  <2>2. CASE active'[i] = r
    BY <1>5, <1>9, <2>2
  <2> QED
    BY <1>13, <2>1, <2>2
<1> QED
  BY <1>4, <1>15, <1>16, <1>18, <1>19, <1>20, <1>21 DEF EngineInv

\* A request cannot be prepared: no slot, no pages, or nothing to bind.
LEMMA PrepareFailsStep ==
    ASSUME EngineInv, pc = "prepare", todo # <<>>, NoFreeSlots \/ PrefillFails
    PROVE  EngineInv'
<1>1. /\ MemInv /\ free_slots \in Seq(Slots) /\ todo \in Pending
      /\ Cached(map) \subseteq Seq(Tokens)
      /\ \A i, j \in DOMAIN free_slots : free_slots[i] = free_slots[j] => i = j
  BY DEF EngineInv, EngineTypeOK, SlotsOK
<1>2. CASE NoFreeSlots
  <2>1. GiveUp /\ UNCHANGED <<kvVars, free_slots, rows>>
    BY <1>2 DEF NoFreeSlots
  <2>2. MemInv' /\ map' = map
    BY <1>1, <2>1, MemUnchanged DEF kvVars
  <2> QED
    BY <1>1, <2>1, <2>2, GiveUpStep
<1>3. CASE PrefillFails
  <2> DEFINE s == Head(todo).prompt
  <2>1. /\ free_slots # <<>> /\ (PrefillHit(s) \/ PrefillMiss(s))
        /\ free_slots' = Tail(free_slots) /\ GiveUp /\ UNCHANGED rows
    BY <1>3 DEF PrefillFails, Prefill
  <2>2. s \in Seq(Tokens) /\ Len(s) \in Nat
    <3> DEFINE R == [prompt : Seq(Tokens), max_new_tokens : Nat, constrained : BOOLEAN]
    <3>1. todo \in Seq(R)
      BY <1>1 DEF Pending
    <3> HIDE DEF R
    <3>2. Head(todo) \in R
      BY <3>1, HeadTailProperties
    <3> QED
      BY <3>2 DEF R
  <2> HIDE DEF s
  <2>3. MemInv' /\ Cached(map') \subseteq Cached(map) \cup {s}
    BY <1>1, <2>1, <2>2, PrefillStep
  <2>4. /\ Tail(free_slots) \in Seq(Slots)
        /\ \A i, j \in DOMAIN Tail(free_slots) :
              Tail(free_slots)[i] = Tail(free_slots)[j] => i = j
    BY <1>1, <2>1, TakeHead
  <2>5. /\ free_slots' \in Seq(Slots)
        /\ \A i, j \in DOMAIN free_slots' : free_slots'[i] = free_slots'[j] => i = j
    BY <2>1, <2>4
  <2>6. Cached(map') \subseteq Seq(Tokens)
    BY <1>1, <2>2, <2>3
  <2> QED
    BY <2>1, <2>3, <2>5, <2>6, GiveUpStep
<1> QED
  BY <1>2, <1>3

\* The rounds begin, and end when no request wants more: with budgets kept,
\* every one then has what it asked for.
LEMMA PhaseStep ==
    ASSUME EngineInv, EndPrepare \/ EndRounds
    PROVE  EngineInv'
<1>1. /\ UNCHANGED <<kvVars, calls, todo, active, free_slots, rows, outputs, outcome>>
      /\ pc \in {"prepare", "decode"}
      /\ pc' = "decode" \/ (pc' = "finish" /\ Wanting = {})
  BY DEF EndPrepare, EndRounds
<1>2. MemInv'
  BY <1>1, MemUnchanged DEF EngineInv
<1>3. EngineTypeOK' /\ PhasesOK'
  BY <1>1 DEF EngineInv, EngineTypeOK, PhasesOK, kvVars
<1>4. SlotsOK'
  BY <1>1 DEF EngineInv, SlotsOK, Unfinished
<1>5. BoundPagesLive'
  BY <1>1 DEF EngineInv, BoundPagesLive, kvVars
<1>6. RequestsOK'
  <2> SUFFICES ASSUME NEW i \in DOMAIN active
               PROVE  /\ Len(active[i].generated) <= active[i].max_new_tokens
                      /\ pc' = "finish" => Len(active[i].generated) = active[i].max_new_tokens
                      /\ Lossless(active[i])
    BY <1>1 DEF RequestsOK
  <2>1. active[i] \in Requests
    BY DEF EngineInv, EngineTypeOK
  <2>2. Len(active[i].generated) \in Nat /\ active[i].max_new_tokens \in Nat
    BY <2>1 DEF Requests
  <2>3. Len(active[i].generated) <= active[i].max_new_tokens /\ Lossless(active[i])
    BY DEF EngineInv, RequestsOK
  <2>4. Wanting = {} => ~(Len(active[i].generated) < active[i].max_new_tokens)
    BY DEF Wanting
  <2> QED
    BY <1>1, <2>2, <2>3, <2>4
<1>7. HandlesOK'
  BY <1>1 DEF EngineInv, HandlesOK, kvVars
<1> QED
  BY <1>2, <1>3, <1>4, <1>5, <1>6, <1>7 DEF EngineInv

\* A round changes no request but in its tokens and its matcher.
LEMMA RoundStep ==
    ASSUME EngineInv, Round
    PROVE  /\ EngineInv'
           /\ DOMAIN active' = DOMAIN active /\ Len(active') = Len(active)
           /\ \A i \in DOMAIN active : active'[i].slot_id = active[i].slot_id
<1>1. /\ pc = "decode" /\ active \in Seq(Requests)
      /\ UNCHANGED <<kvVars, pc, calls, todo, free_slots, rows, outputs, outcome>>
  BY DEF Round, EngineInv, EngineTypeOK
<1>2. active' = [i \in DOMAIN active |->
                    IF i \in Wanting THEN AfterRound(active[i]) ELSE active[i]]
  BY <1>1, RoundIsPerRequest
<1>3. ASSUME NEW i \in DOMAIN active
      PROVE  /\ active'[i] \in Requests
             /\ active'[i].prompt = active[i].prompt
             /\ active'[i].slot_id = active[i].slot_id
             /\ active'[i].cached_prefix = active[i].cached_prefix
             /\ Len(active'[i].generated) <= active'[i].max_new_tokens
             /\ Lossless(active'[i])
  <2>1. /\ active[i] \in Requests /\ Lossless(active[i])
        /\ Len(active[i].generated) <= active[i].max_new_tokens
    BY <1>1 DEF EngineInv, RequestsOK
  <2>2. CASE i \in Wanting
    <3>1. active'[i] = AfterRound(active[i])
      BY <1>2, <2>2
    <3>2. Len(active[i].generated) < active[i].max_new_tokens
      BY <2>2 DEF Wanting
    <3>3. /\ AfterRound(active[i]) \in Requests
          /\ AfterRound(active[i]).prompt = active[i].prompt
          /\ AfterRound(active[i]).max_new_tokens = active[i].max_new_tokens
          /\ AfterRound(active[i]).slot_id = active[i].slot_id
          /\ AfterRound(active[i]).cached_prefix = active[i].cached_prefix
          /\ Len(AfterRound(active[i]).generated) <= active[i].max_new_tokens
          /\ Lossless(AfterRound(active[i]))
      BY <2>1, <3>2, AfterRoundFacts
    <3> QED
      BY <3>1, <3>3
  <2>3. CASE i \notin Wanting
    BY <1>2, <2>1, <2>3
  <2> QED
    BY <2>2, <2>3
<1>4. /\ DOMAIN active' = DOMAIN active /\ Len(active') = Len(active)
      /\ active' \in Seq(Requests)
  <2>1. DOMAIN active = 1..Len(active) /\ Len(active) \in Nat
    BY <1>1
  <2>2. DOMAIN active' = 1..Len(active)
    BY <1>2, <2>1
  <2>3. active' \in [1..Len(active) -> Requests]
    BY <1>2, <1>3, <2>1, <2>2
  <2> QED
    BY <2>1, <2>2, <2>3
<1>5. MemInv'
  BY <1>1, MemUnchanged DEF EngineInv
<1>6. EngineTypeOK' /\ PhasesOK'
  BY <1>1, <1>4 DEF EngineInv, EngineTypeOK, PhasesOK, kvVars
<1>7. SlotsOK'
  <2>1. /\ Unfinished' = Unfinished /\ Len(outputs) = 0 /\ DOMAIN active = 1..Len(active)
    BY <1>1, <1>4 DEF Unfinished, EngineInv, PhasesOK
  <2>2. \A i \in Unfinished : i \in DOMAIN active /\ active'[i].slot_id = active[i].slot_id
    BY <1>3, <2>1 DEF Unfinished
  <2> QED
    BY <1>1, <2>1, <2>2 DEF EngineInv, SlotsOK
<1>8. BoundPagesLive'
  BY <1>1, <1>3, <1>4 DEF EngineInv, BoundPagesLive, kvVars
<1>9. RequestsOK'
  BY <1>1, <1>3, <1>4 DEF RequestsOK
<1>10. HandlesOK'
  BY <1>1, <1>3, <1>4 DEF EngineInv, HandlesOK, kvVars
<1> QED
  BY <1>3, <1>4, <1>5, <1>6, <1>7, <1>8, <1>9, <1>10 DEF EngineInv

\* A model fails in a round.
LEMMA ModelFailsStep ==
    ASSUME EngineInv, ModelFails
    PROVE  EngineInv'
<1>1. GiveUp /\ UNCHANGED <<kvVars, free_slots, rows>>
  BY DEF ModelFails
<1>2. MemInv' /\ map' = map
  BY <1>1, MemUnchanged DEF EngineInv, kvVars
<1>3. /\ free_slots' \in Seq(Slots) /\ Cached(map') \subseteq Seq(Tokens)
      /\ \A i, j \in DOMAIN free_slots' : free_slots'[i] = free_slots'[j] => i = j
  BY <1>1, <1>2 DEF EngineInv, EngineTypeOK, SlotsOK
<1> QED
  BY <1>1, <1>2, <1>3, GiveUpStep

\* The slot that a finished request gives back is not in the queue, and its
\* request is the first of those that hold one.
LEMMA SlotGivenBack ==
    ASSUME EngineInv, FinishNext
    PROVE  /\ Len(outputs) + 1 \in DOMAIN active /\ Finishing \in Requests
           /\ Len(outputs) + 1 \in Unfinished
           /\ free_slots' = Append(free_slots, Finishing.slot_id)
           /\ free_slots' \in Seq(Slots)
           /\ \A i, j \in DOMAIN free_slots' : free_slots'[i] = free_slots'[j] => i = j
           /\ \A i \in DOMAIN free_slots' :
                 \/ free_slots'[i] = Finishing.slot_id
                 \/ \E j \in DOMAIN free_slots : free_slots'[i] = free_slots[j]
           /\ ToSet(free_slots') = ToSet(free_slots) \cup {Finishing.slot_id}
<1>1. /\ active \in Seq(Requests) /\ outputs \in Seq(Outputs)
      /\ free_slots \in Seq(Slots) /\ Len(outputs) < Len(active)
  BY DEF EngineInv, EngineTypeOK, FinishNext
<1>2. Len(outputs) + 1 \in DOMAIN active /\ Len(outputs) + 1 \in Unfinished
  <2>1. /\ Len(outputs) \in Nat /\ Len(active) \in Nat
        /\ DOMAIN active = 1..Len(active)
    BY <1>1
  <2> QED
    BY <1>1, <2>1 DEF Unfinished
<1>3. Finishing \in Requests
  BY <1>1, <1>2 DEF Finishing
<1>4. /\ \A i \in DOMAIN free_slots : free_slots[i] # Finishing.slot_id
      /\ \A i, j \in DOMAIN free_slots : free_slots[i] = free_slots[j] => i = j
  BY <1>2 DEF EngineInv, SlotsOK, Finishing
<1>5. free_slots' = Append(free_slots, Finishing.slot_id)
  BY DEF FinishNext, ReleaseSlot
<1>6. Finishing.slot_id \in Slots
  BY <1>3 DEF Requests
<1> DEFINE x == Finishing.slot_id
<1> HIDE DEF x
<1>7. /\ Append(free_slots, x) \in Seq(Slots)
      /\ \A i, j \in DOMAIN Append(free_slots, x) :
            Append(free_slots, x)[i] = Append(free_slots, x)[j] => i = j
      /\ \A i \in DOMAIN Append(free_slots, x) :
            \/ Append(free_slots, x)[i] = x
            \/ \E j \in DOMAIN free_slots : Append(free_slots, x)[i] = free_slots[j]
      /\ ToSet(Append(free_slots, x)) = ToSet(free_slots) \cup {x}
  BY <1>1, <1>4, <1>6, AddLast DEF x
<1> QED
  BY <1>2, <1>3, <1>5, <1>7 DEF x

\* An output is cached: the block it replaces has its text, so an output or a
\* cached prefix that loses its pages has that text too.
LEMMA OutputStep ==
    ASSUME EngineInv, FinishNext, result' = "ok"
    PROVE  /\ EngineInv'
           /\ UNCHANGED <<pc, active, outcome>> /\ outputs' \in Seq(Outputs)
           /\ Len(outputs') = Len(outputs) + 1
<1> DEFINE k == Len(outputs) + 1
           r == Finishing
           s == FullSequence(r)
           h == next_block_id
           o == [prompt |-> r.prompt, tokens |-> r.generated,
                 cached_prefix |-> r.cached_prefix,
                 inserted_handle |-> h, inserted_pages |-> span']
<1>1. /\ MemInv /\ active \in Seq(Requests) /\ outputs \in Seq(Outputs)
      /\ Cached(map) \subseteq Seq(Tokens) /\ pc = "finish"
  BY DEF EngineInv, EngineTypeOK, FinishNext
<1>2. /\ k \in DOMAIN active /\ r \in Requests /\ k \in Unfinished
      /\ free_slots' \in Seq(Slots)
      /\ \A i, j \in DOMAIN free_slots' : free_slots'[i] = free_slots'[j] => i = j
      /\ \A i \in DOMAIN free_slots' :
            \/ free_slots'[i] = r.slot_id
            \/ \E j \in DOMAIN free_slots : free_slots'[i] = free_slots[j]
  BY SlotGivenBack
<1>3. r = active[k]
  BY DEF Finishing
<1>4. /\ r.prompt \in Seq(Tokens) /\ r.generated \in Seq(Tokens)
      /\ r.cached_prefix \in Lookups
  BY <1>2 DEF Requests
<1>5. /\ CacheSequence(map, s) \/ CacheSequenceFails(map, s)
      /\ outputs' = Append(outputs, o)
      /\ UNCHANGED <<calls, rows, pc, todo, active, outcome>>
  BY DEF FinishNext, CacheOutput
<1> HIDE DEF r
<1>6. s \in Seq(Tokens) /\ Len(s) \in Nat
  <2>1. s \in Seq(Tokens)
    BY <1>4, ConcatProperties DEF FullSequence
  <2> QED
    BY <2>1
<1>7. s = r.prompt \o r.generated
  BY DEF FullSequence
<1> HIDE DEF s
<1>8. /\ MemInv'
      /\ Cached(map') \subseteq Cached(map) \cup {s}
      /\ \A t \in Cached(map') : map'.entries[t] = IF t = s THEN h ELSE map.entries[t]
      /\ Len(span') * BlockSize \in Len(s)..(Len(s) + BlockSize - 1)
      /\ DOMAIN mappings' = (DOMAIN mappings \cup {h}) \ {Replaced(map, s)}
      /\ Replaced(map, s) # h
      /\ mappings'[h] = span'
      /\ \A g \in DOMAIN mappings \ {Replaced(map, s)} : mappings'[g] = mappings[g]
      /\ EntriesKept /\ next_block_id' = h + 1
  <2>1. IsMap(map)
    BY <1>1 DEF MemInv
  <2>2. CacheSequence(map, s)
    <3>1. CacheSequenceFails(map, s) => result' = "OutOfPages"
      BY DEF CacheSequenceFails
    <3> QED
      BY <1>5, <3>1
  <2> QED
    BY <1>1, <1>6, <2>1, <2>2, CacheSequenceStep, ZenonT(40)
<1>9. /\ h \in Nat /\ DOMAIN mappings \subseteq 1..(h - 1) /\ span' \in Seq(Pages)
      /\ \A t \in Cached(map) : map.entries[t] \in 1..(h - 1)
      /\ BlockSize \in Nat
  BY <1>1, <1>8, KvMemoryAssumption
     DEF MemInv, PoolOK, StoreMatchesAllocator, CachedIsBacked
<1>10. /\ o \in Outputs /\ Text(o) = s /\ o.inserted_handle = h
       /\ o.inserted_pages = span' /\ o.prompt = r.prompt
       /\ o.cached_prefix = r.cached_prefix
  BY <1>4, <1>7, <1>9 DEF Outputs, Text
<1> HIDE DEF o
<1>11. /\ outputs' \in Seq(Outputs) /\ Len(outputs') = k /\ k \in Nat
       /\ \A i \in 1..Len(outputs) : outputs'[i] = outputs[i]
       /\ outputs'[k] = o
  BY <1>1, <1>5, <1>10, AppendProperties
<1>12. /\ DOMAIN outputs = 1..Len(outputs) /\ DOMAIN outputs' = 1..k
       /\ Len(outputs) = k - 1 /\ DOMAIN active = 1..Len(active) /\ Len(active) \in Nat
       /\ k <= Len(active)
  BY <1>1, <1>2, <1>11
<1>13. /\ \A i \in DOMAIN outputs : i \in DOMAIN outputs' /\ outputs'[i] = outputs[i]
       /\ \A i \in DOMAIN outputs' :
             \/ i \in DOMAIN outputs /\ outputs'[i] = outputs[i]
             \/ i = k /\ outputs'[i] = o
       /\ k \in DOMAIN outputs'
  BY <1>11, <1>12
<1>14. EngineTypeOK'
  <2>1. Cached(map') \subseteq Seq(Tokens)
    BY <1>1, <1>6, <1>8
  <2> QED
    BY <1>2, <1>5, <1>11, <2>1 DEF EngineInv, EngineTypeOK
<1>15. PhasesOK' /\ BoundPagesLive' /\ RequestsOK'
  BY <1>1, <1>5, <1>11, <1>12 DEF EngineInv, PhasesOK, BoundPagesLive, RequestsOK
<1>16. SlotsOK'
  <2>1. Unfinished' = (k + 1)..Len(active) /\ Unfinished = k..Len(active)
    BY <1>5, <1>11, <1>12 DEF Unfinished
  <2>2. \A i \in Unfinished' : i \in Unfinished /\ i # k
    BY <1>12, <2>1
  <2>3. ASSUME NEW i \in DOMAIN free_slots', NEW j \in Unfinished'
        PROVE  free_slots'[i] # active'[j].slot_id
    <3>1. active[j].slot_id # active[k].slot_id
      BY <1>2, <2>2 DEF EngineInv, SlotsOK
    <3>2. \A n \in DOMAIN free_slots : free_slots[n] # active[j].slot_id
      BY <2>2 DEF EngineInv, SlotsOK
    <3> QED
      BY <1>2, <1>3, <1>5, <3>1, <3>2
  <2> QED
    BY <1>2, <1>5, <2>2, <2>3 DEF EngineInv, SlotsOK
<1>17. ASSUME NEW g \in Nat, NEW text, Names(map, next_block_id, g, text),
              g \in DOMAIN mappings, g \notin DOMAIN mappings'
       PROVE  text = s
  <2>1. g = Replaced(map, s)
    BY <1>8, <1>17
  <2>2. s \in Cached(map) /\ map.entries[s] = g
    BY <1>17, <2>1, PrefixMapAssumption DEF Replaced
  <2> QED
    BY <1>17, <2>2 DEF Names
<1>18. ASSUME NEW prompt, NEW found \in Lookups,
              PrefixOK(map, next_block_id, mappings, outputs, prompt, found)
       PROVE  PrefixOK(map', next_block_id', mappings', outputs', prompt, found)
  <2> DEFINE text == SubSeq(prompt, 1, found.matched_tokens)
  <2>1. ASSUME found.handle \in DOMAIN mappings, found.handle \notin DOMAIN mappings'
        PROVE  Text(outputs'[k]) = text
    <3>1. found.handle \in Nat /\ found.handle # NoHandle
      BY <1>9, <2>1, PrefixMapAssumption
    <3>2. Names(map, next_block_id, found.handle, text)
      BY <1>18, <3>1 DEF PrefixOK
    <3> HIDE DEF text
    <3>3. text = s
      BY <1>17, <2>1, <3>1, <3>2
    <3> QED
      BY <1>10, <1>11, <3>3
  <2>2. next_block_id \in Nat /\ EntriesKept
    BY <1>8, <1>9
  <2> QED
    BY <1>13, <1>18, <2>1, <2>2, PrefixPersists
<1>19. ASSUME NEW i \in DOMAIN outputs
       PROVE  OutputOK(map', next_block_id', mappings', outputs', i)
  <2> DEFINE p == outputs[i]
             g == p.inserted_handle
  <2>1. p \in Outputs /\ OutputOK(map, next_block_id, mappings, outputs, i)
    BY <1>1 DEF EngineInv, HandlesOK
  <2>2. g \in Nat /\ Names(map, next_block_id, g, Text(p))
    BY <2>1 DEF Outputs, OutputOK
  <2>3. outputs'[i] = p
    BY <1>13
  <2> HIDE DEF p, g
  <2>4. Names(map', next_block_id', g, Text(p))
    BY <1>8, <1>9, <2>2, NamesPersist
  <2>5. CASE \E j \in (i + 1)..Len(outputs) : Text(outputs[j]) = Text(p)
    <3>1. PICK j \in (i + 1)..Len(outputs) : Text(outputs[j]) = Text(p)
      BY <2>5
    <3>2. j \in DOMAIN outputs /\ j \in (i + 1)..Len(outputs')
      BY <1>11, <1>12
    <3>3. Text(outputs'[j]) = Text(p)
      BY <1>13, <3>1, <3>2
    <3> QED
      BY <2>3, <2>4, <3>2, <3>3 DEF OutputOK, g
  <2>6. CASE /\ g \in DOMAIN mappings
             /\ mappings[g] = p.inserted_pages
             /\ Len(p.inserted_pages) * BlockSize >= Len(Text(p))
    <3>1. CASE g \in DOMAIN mappings'
      <4>1. mappings'[g] = mappings[g]
        BY <1>8, <2>6, <3>1
      <4> QED
        BY <2>3, <2>4, <2>6, <3>1, <4>1 DEF OutputOK, g
    <3>2. CASE g \notin DOMAIN mappings'
      <4>1. Text(p) = s
        BY <1>17, <2>2, <2>6, <3>2
      <4>2. k \in (i + 1)..Len(outputs') /\ Text(outputs'[k]) = Text(p)
        BY <1>10, <1>11, <1>12, <4>1
      <4> QED
        BY <2>3, <2>4, <4>2 DEF OutputOK, g
    <3> QED
      BY <3>1, <3>2
  <2> QED
    BY <2>1, <2>5, <2>6 DEF OutputOK, p, g
<1>20. OutputOK(map', next_block_id', mappings', outputs', k)
  <2>1. Names(map', next_block_id', h, s)
    BY <1>8, <1>9 DEF Names
  <2>2. h \in DOMAIN mappings' /\ mappings'[h] = span'
    BY <1>8
  <2>3. Len(span') * BlockSize >= Len(s)
    BY <1>6, <1>8, <1>9
  <2> QED
    BY <1>10, <1>11, <2>1, <2>2, <2>3 DEF OutputOK
<1>21. HandlesOK'
  <2>1. ASSUME NEW i \in DOMAIN active'
        PROVE  PrefixOK(map', next_block_id', mappings', outputs',
                        active'[i].prompt, active'[i].cached_prefix)
    <3>1. active' = active /\ active[i] \in Requests
      BY <1>1, <1>5
    <3>2. active[i].cached_prefix \in Lookups
      BY <3>1 DEF Requests
    <3>3. PrefixOK(map, next_block_id, mappings, outputs,
                   active[i].prompt, active[i].cached_prefix)
      BY <3>1 DEF EngineInv, HandlesOK
    <3> QED
      BY <1>18, <3>1, <3>2, <3>3
  <2>2. ASSUME NEW i \in DOMAIN outputs'
        PROVE  PrefixOK(map', next_block_id', mappings', outputs',
                        outputs'[i].prompt, outputs'[i].cached_prefix)
    <3>1. CASE i \in DOMAIN outputs /\ outputs'[i] = outputs[i]
      <4>1. outputs[i] \in Outputs
        BY <1>1, <3>1
      <4>2. outputs[i].cached_prefix \in Lookups
        BY <4>1 DEF Outputs
      <4>3. PrefixOK(map, next_block_id, mappings, outputs,
                     outputs[i].prompt, outputs[i].cached_prefix)
        BY <3>1 DEF EngineInv, HandlesOK
      <4> QED
        BY <1>18, <3>1, <4>2, <4>3
    <3>2. CASE outputs'[i] = o
      <4>1. PrefixOK(map, next_block_id, mappings, outputs, r.prompt, r.cached_prefix)
        BY <1>2, <1>3 DEF EngineInv, HandlesOK
      <4> QED
        BY <1>4, <1>10, <1>18, <3>2, <4>1
    <3> QED
      BY <1>13, <3>1, <3>2
  <2>3. \A i \in DOMAIN outputs' : OutputOK(map', next_block_id', mappings', outputs', i)
    BY <1>13, <1>19, <1>20
  <2> QED
    BY <2>1, <2>2, <2>3 DEF HandlesOK
<1> QED
  BY <1>5, <1>8, <1>11, <1>14, <1>15, <1>16, <1>21 DEF EngineInv

\* An output finds no pages: the call ends with an error.
LEMMA OutputFailsStep ==
    ASSUME EngineInv, FinishNext, result' # "ok"
    PROVE  EngineInv' /\ outcome' = "error"
<1> DEFINE s == FullSequence(Finishing)
<1>1. /\ GiveUp /\ UNCHANGED rows
      /\ CacheSequence(map, s) \/ CacheSequenceFails(map, s)
  BY DEF FinishNext, CacheOutput
<1>2. /\ MemInv /\ IsMap(map) /\ Cached(map) \subseteq Seq(Tokens)
  BY DEF EngineInv, EngineTypeOK, MemInv
<1>3. /\ Finishing \in Requests /\ free_slots' \in Seq(Slots)
      /\ \A i, j \in DOMAIN free_slots' : free_slots'[i] = free_slots'[j] => i = j
  BY SlotGivenBack
<1>4. s \in Seq(Tokens)
  <2>1. Finishing.prompt \in Seq(Tokens) /\ Finishing.generated \in Seq(Tokens)
    BY <1>3 DEF Requests
  <2> QED
    BY <2>1, ConcatProperties DEF FullSequence
<1>5. Len(s) \in Nat
  BY <1>4
<1> HIDE DEF s
<1>6. CASE CacheSequence(map, s)
  BY <1>2, <1>5, <1>6, CacheSequenceStep
<1>7. CASE CacheSequenceFails(map, s)
  <2>1. MemInv' /\ map'.entries = map.entries
    BY <1>2, <1>7, CacheSequenceFailsStep
  <2>2. Cached(map') \subseteq Seq(Tokens)
    BY <1>2, <2>1 DEF Cached
  <2> QED
    BY <1>1, <1>3, <2>1, <2>2, GiveUpStep DEF GiveUp
<1> QED
  BY <1>1, <1>6, <1>7

\* The call returns its outputs, and between calls the cache may be limited:
\* no page of an output is freed.
LEMMA BetweenCallsStep ==
    ASSUME EngineInv,
           Return \/ \E c \in Capacities : LimitCache(c)
    PROVE  EngineInv'
<1>1. /\ pc' = "idle" /\ active' = <<>>
      /\ UNCHANGED <<calls, todo, free_slots, rows, outputs>>
      /\ MemInv' /\ EntriesKept /\ UNCHANGED mappings /\ Cached(map') \subseteq Cached(map)
  <2>1. CASE Return
    <3>1. /\ pc' = "idle" /\ active' = <<>>
          /\ UNCHANGED <<kvVars, calls, todo, free_slots, rows, outputs>>
      BY <2>1 DEF Return
    <3>2. MemInv' /\ EntriesKept
      BY <3>1, MemUnchanged DEF EngineInv
    <3> QED
      BY <3>1, <3>2 DEF kvVars
  <2>2. CASE \E c \in Capacities : LimitCache(c)
    <3>1. PICK c \in Capacities : LimitCache(c)
      BY <2>2
    <3>2. SetCapacity(c) /\ pc = "idle" /\ UNCHANGED callVars
      BY <3>1 DEF LimitCache
    <3>3. MemInv' /\ Cached(map') \subseteq Cached(map) /\ UNCHANGED mappings /\ EntriesKept
      BY <3>2, SetCapacityStep DEF EngineInv
    <3> QED
      BY <3>2, <3>3 DEF callVars, EngineInv, PhasesOK
  <2> QED
    BY <2>1, <2>2
<1>2. DOMAIN active' = {} /\ Len(active') = 0 /\ outputs' = outputs
      /\ outputs \in Seq(Outputs) /\ next_block_id \in Nat
  BY <1>1 DEF EngineInv, EngineTypeOK, MemInv, PoolOK
<1>3. EngineTypeOK'
  BY <1>1 DEF EngineInv, EngineTypeOK
<1>4. PhasesOK' /\ BoundPagesLive'
  BY <1>1 DEF PhasesOK, BoundPagesLive
<1>5. Unfinished' = {}
  BY <1>2 DEF Unfinished
<1>6. SlotsOK'
  BY <1>1, <1>5 DEF EngineInv, SlotsOK
<1>7. RequestsOK'
  BY <1>2 DEF RequestsOK
<1>8. HandlesOK'
  <2> SUFFICES ASSUME NEW i \in DOMAIN outputs
               PROVE  /\ PrefixOK(map', next_block_id', mappings', outputs,
                                  outputs[i].prompt, outputs[i].cached_prefix)
                      /\ OutputOK(map', next_block_id', mappings', outputs, i)
    BY <1>2 DEF HandlesOK
  <2>1. outputs[i] \in Outputs
    BY <1>2
  <2>2. outputs[i].cached_prefix \in Lookups /\ outputs[i].inserted_handle \in Nat
    BY <2>1 DEF Outputs
  <2>3. /\ PrefixOK(map, next_block_id, mappings, outputs,
                    outputs[i].prompt, outputs[i].cached_prefix)
        /\ OutputOK(map, next_block_id, mappings, outputs, i)
    BY DEF EngineInv, HandlesOK
  <2>4. PrefixOK(map', next_block_id', mappings', outputs,
                 outputs[i].prompt, outputs[i].cached_prefix)
    BY <1>1, <1>2, <2>2, <2>3, PrefixPersists
  <2>5. Names(map', next_block_id', outputs[i].inserted_handle, Text(outputs[i]))
    BY <1>1, <1>2, <2>2, <2>3, NamesPersist DEF OutputOK
  <2>6. OutputOK(map', next_block_id', mappings', outputs, i)
    BY <1>1, <2>3, <2>5 DEF OutputOK
  <2> QED
    BY <2>4, <2>6
<1> QED
  BY <1>1, <1>3, <1>4, <1>6, <1>7, <1>8 DEF EngineInv

\* Every step of the engine preserves the invariant.
LEMMA NextEngineInv == EngineInv /\ [EngineNext]_engineVars => EngineInv'
<1> SUFFICES ASSUME EngineInv, [EngineNext]_engineVars PROVE EngineInv'
  OBVIOUS
<1>1. CASE UNCHANGED engineVars
  <2>1. /\ UNCHANGED <<kvVars, pc, todo, active, free_slots, rows, outputs>>
    BY <1>1 DEF engineVars, callVars
  <2>2. MemInv'
    BY <2>1, MemUnchanged DEF EngineInv
  <2>3. EngineTypeOK' /\ PhasesOK'
    BY <2>1 DEF EngineInv, EngineTypeOK, PhasesOK, kvVars
  <2>4. SlotsOK'
    BY <2>1 DEF EngineInv, SlotsOK, Unfinished
  <2>5. BoundPagesLive' /\ RequestsOK' /\ HandlesOK'
    BY <2>1 DEF EngineInv, BoundPagesLive, RequestsOK, HandlesOK, kvVars
  <2> QED
    BY <2>2, <2>3, <2>4, <2>5 DEF EngineInv
<1>2. CASE \E requests \in Batches : StartBatch(requests)
  BY <1>2, StartBatchStep
<1>3. CASE PrepareNext
  <2>1. pc = "prepare" /\ todo # <<>>
    BY <1>3 DEF PrepareNext
  <2>2. CASE \E q \in Matchers(Head(todo)) : free_slots # <<>> /\ Prepare(q)
    BY <2>1, <2>2, PrepareStep
  <2>3. CASE NoFreeSlots \/ PrefillFails
    BY <2>1, <2>3, PrepareFailsStep
  <2> QED
    BY <1>3, <2>2, <2>3 DEF PrepareNext
<1>4. CASE EndPrepare \/ EndRounds
  BY <1>4, PhaseStep
<1>5. CASE Round
  BY <1>5, RoundStep
<1>6. CASE ModelFails
  BY <1>6, ModelFailsStep
<1>7. CASE FinishNext
  BY <1>7, OutputStep, OutputFailsStep
<1>8. CASE Return \/ \E c \in Capacities : LimitCache(c)
  BY <1>8, BetweenCallsStep
<1> QED
  BY <1>1, <1>2, <1>3, <1>4, <1>5, <1>6, <1>7, <1>8 DEF EngineNext

-----------------------------------------------------------------------------
(***************************************************************************)
(* The theorems.                                                           *)
(***************************************************************************)

\* The inductive invariant of generate_batch.
THEOREM EngineInvariance == EngineSpec => []EngineInv
BY EngineInitInv, NextEngineInv, PTL DEF EngineSpec

\* The row of a slot names live pages for the whole prompt of its request,
\* whatever the requests after it prefill, replace or evict.
THEOREM BoundPagesStayLive == EngineSpec => []BoundPagesLive
<1>1. EngineInv => BoundPagesLive
  BY DEF EngineInv
<1> QED
  BY <1>1, EngineInvariance, PTL

\* A request without a matcher gets what the target model alone would choose,
\* for every pair of models, whatever the rest of the batch is.
THEOREM BatchingIsLossless == EngineSpec => []BatchLossless
<1>1. EngineInv => BatchLossless
  BY DEF EngineInv, RequestsOK, Lossless, BatchLossless
<1> QED
  BY <1>1, EngineInvariance, PTL

\* What a call returns can be used: its handles are mapped, or the text of the
\* lost one is that of an output which replaced it.
THEOREM ReturnedHandlesAreBacked == EngineSpec => []OutputsBacked
<1>1. ASSUME EngineInv PROVE OutputsBacked
  <2> SUFFICES ASSUME NEW i \in DOMAIN outputs
               PROVE  LET o == outputs[i]
                      IN  /\ \/ \E j \in (i + 1)..Len(outputs) : Text(outputs[j]) = Text(o)
                             \/ /\ o.inserted_handle \in DOMAIN mappings
                                /\ mappings[o.inserted_handle] = o.inserted_pages
                                /\ Len(o.inserted_pages) * BlockSize >= Len(Text(o))
                          /\ \/ o.cached_prefix.handle \in DOMAIN mappings \cup {NoHandle}
                             \/ \E j \in DOMAIN outputs : Text(outputs[j]) = CachedText(o)
    BY DEF OutputsBacked
  <2>1. /\ PrefixOK(map, next_block_id, mappings, outputs,
                    outputs[i].prompt, outputs[i].cached_prefix)
        /\ OutputOK(map, next_block_id, mappings, outputs, i)
    BY <1>1 DEF EngineInv, HandlesOK
  <2> QED
    BY <2>1 DEF PrefixOK, OutputOK, CachedText
<1> QED
  BY <1>1, EngineInvariance, PTL

\* The free queue and the requests share the slots without overlap.
SlotsDisjoint ==
    /\ IsInjective(free_slots) /\ ToSet(free_slots) \cap Held = {}
    /\ pc \in {"prepare", "decode"} => Cardinality(Held) = Len(active)

\* The invariant says so by the places in the queue and in the batch.
LEMMA SlotsAreDisjoint == EngineInv => SlotsDisjoint
<1> SUFFICES ASSUME EngineInv PROVE SlotsDisjoint
  OBVIOUS
<1>1. IsInjective(free_slots)
  BY DEF EngineInv, SlotsOK, IsInjective
<1>2. Held = {active[i].slot_id : i \in Unfinished}
  BY DEF Held, Unfinished
<1>3. ToSet(free_slots) \cap Held = {}
  BY <1>2 DEF EngineInv, SlotsOK, ToSet
<1>4. ASSUME pc \in {"prepare", "decode"} PROVE Cardinality(Held) = Len(active)
  <2> DEFINE f == [i \in 1..Len(active) |-> active[i].slot_id]
  <2>1. Unfinished = 1..Len(active) /\ Len(active) \in Nat
    BY <1>4 DEF EngineInv, EngineTypeOK, PhasesOK, Unfinished
  <2>2. f \in Bijection(1..Len(active), Held)
    BY <1>2, <2>1 DEF Bijection, Injection, Surjection, IsInjective, EngineInv, SlotsOK
  <2>3. IsFiniteSet(1..Len(active)) /\ Cardinality(1..Len(active)) = Len(active)
    BY <2>1, FS_Interval, SMTT(30)
  <2>4. ExistsBijection(1..Len(active), Held)
    BY <2>2 DEF ExistsBijection
  <2> QED
    BY <2>3, <2>4, FS_Bijection
<1> QED
  BY <1>1, <1>3, <1>4 DEF SlotsDisjoint

\* A slot leaves the queue for a request and comes back from it; only an error
\* loses one.
LEMMA SlotsLostByErrors ==
    ASSUME EngineInv, [EngineNext]_engineVars, outcome' # "error"
    PROVE  LostSlots' = LostSlots
<1> DEFINE used == ToSet(free_slots) \cup Held
<1> SUFFICES used' = used
  BY DEF LostSlots
<1>1. Held = {active[i].slot_id : i \in Unfinished}
  BY DEF Held, Unfinished
<1>2. Held' = {active'[i].slot_id : i \in Unfinished'}
  BY DEF Held, Unfinished
<1>3. CASE UNCHANGED <<free_slots, active, outputs>>
  BY <1>3 DEF Held
<1>4. CASE free_slots' = free_slots /\ Unfinished = {} /\ Unfinished' = {}
  BY <1>1, <1>2, <1>4
<1>5. CASE \E requests \in Batches : StartBatch(requests)
  <2>1. /\ free_slots' = free_slots /\ pc = "idle" /\ active' = <<>> /\ outputs' = <<>>
        /\ Len(active') = 0 /\ Len(outputs') = 0
    BY <1>5 DEF StartBatch
  <2>2. Len(active) = 0 /\ Len(outputs) \in Nat
    BY <2>1 DEF EngineInv, PhasesOK, EngineTypeOK
  <2>3. Unfinished = {} /\ Unfinished' = {}
    BY <2>1, <2>2 DEF Unfinished
  <2> QED
    BY <1>4, <2>1, <2>3
<1>6. CASE PrepareNext
  <2>1. pc = "prepare" /\ free_slots # <<>> /\ \E q \in Matchers(Head(todo)) : Prepare(q)
    BY <1>6 DEF PrepareNext, NoFreeSlots, PrefillFails, GiveUp
  <2>2. PICK r : r.slot_id = Head(free_slots) /\ active' = Append(active, r)
                 /\ free_slots' = Tail(free_slots) /\ outputs' = outputs
    <3>1. PICK q \in Matchers(Head(todo)) : Prepare(q)
      BY <2>1
    <3> DEFINE r == [prompt |-> Head(todo).prompt,
                     max_new_tokens |-> Head(todo).max_new_tokens,
                     slot_id |-> Head(free_slots), generated |-> <<>>, matcher |-> q,
                     cached_prefix |-> LookupAnswer(map, Head(todo).prompt)]
    <3>2. /\ active' = Append(active, r) /\ r.slot_id = Head(free_slots)
          /\ free_slots' = Tail(free_slots) /\ outputs' = outputs
      BY <3>1 DEF Prepare
    <3> HIDE DEF r
    <3> QED
      BY <3>2
  <2>3. /\ active \in Seq(Requests) /\ outputs = <<>> /\ Len(active) \in Nat
        /\ Len(outputs) = 0 /\ free_slots \in Seq(Slots)
    BY <2>1 DEF EngineInv, PhasesOK, EngineTypeOK
  <2>4. /\ Len(active') = Len(active) + 1 /\ active'[Len(active) + 1] = r
        /\ \A i \in 1..Len(active) : active'[i] = active[i]
    BY <2>2, <2>3
  <2>5. Unfinished = 1..Len(active) /\ Unfinished' = 1..(Len(active) + 1)
    BY <2>2, <2>3, <2>4 DEF Unfinished
  <2>6. \A i \in Unfinished' : i \in Unfinished \/ i = Len(active) + 1
    BY <2>3, <2>5
  <2>7. Len(active) + 1 \in Unfinished' /\ Unfinished \subseteq Unfinished'
    BY <2>3, <2>5
  <2>8. Held' = Held \cup {Head(free_slots)}
    BY <1>1, <1>2, <2>2, <2>4, <2>5, <2>6, <2>7
  <2>9. ToSet(free_slots) = ToSet(free_slots') \cup {Head(free_slots)}
    BY <2>1, <2>2, <2>3, TakeHead DEF EngineInv, SlotsOK
  <2> QED
    BY <2>8, <2>9
<1>7. CASE EndPrepare \/ EndRounds
  BY <1>3, <1>7 DEF EndPrepare, EndRounds
<1>8. CASE Round
  <2>1. /\ Len(active') = Len(active) /\ DOMAIN active' = DOMAIN active
        /\ \A i \in DOMAIN active : active'[i].slot_id = active[i].slot_id
    BY <1>8, RoundStep
  <2>2. /\ UNCHANGED <<free_slots, outputs>> /\ Len(outputs) = 0
        /\ DOMAIN active = 1..Len(active)
    <3>1. pc = "decode" /\ UNCHANGED <<free_slots, outputs>>
      BY <1>8 DEF Round
    <3>2. outputs = <<>> /\ active \in Seq(Requests)
      BY <3>1 DEF EngineInv, EngineTypeOK, PhasesOK
    <3> QED
      BY <3>1, <3>2
  <2>3. Unfinished' = Unfinished /\ Unfinished = DOMAIN active
    BY <2>1, <2>2 DEF Unfinished
  <2> QED
    BY <1>1, <1>2, <2>1, <2>2, <2>3
<1>9. CASE ModelFails
  BY <1>9 DEF ModelFails, GiveUp
<1>10. CASE FinishNext
  <2>1. result' = "ok"
    BY <1>10, OutputFailsStep
  <2>2. /\ active' = active /\ Len(outputs') = Len(outputs) + 1
    BY <1>10, <2>1, OutputStep
  <2>3. /\ Len(outputs) + 1 \in Unfinished
        /\ ToSet(free_slots') = ToSet(free_slots) \cup {Finishing.slot_id}
    BY <1>10, SlotGivenBack
  <2>4. Len(outputs) \in Nat /\ Len(active) \in Nat
    BY DEF EngineInv, EngineTypeOK
  <2>5. Unfinished' = (Len(outputs) + 2)..Len(active)
    BY <2>2, <2>4 DEF Unfinished
  <2>6. Unfinished = Unfinished' \cup {Len(outputs) + 1}
    BY <2>3, <2>4, <2>5 DEF Unfinished
  <2>7. Held = Held' \cup {Finishing.slot_id}
    BY <1>1, <1>2, <2>2, <2>6 DEF Finishing
  <2> QED
    BY <2>3, <2>7
<1>11. CASE Return
  <2>1. /\ free_slots' = free_slots /\ outputs' = outputs /\ active' = <<>>
        /\ Len(active') = 0 /\ Len(outputs) = Len(active) /\ Len(outputs) \in Nat
    BY <1>11 DEF Return, EngineInv, EngineTypeOK
  <2>2. Unfinished = {} /\ Unfinished' = {}
    BY <2>1 DEF Unfinished
  <2> QED
    BY <1>4, <2>1, <2>2
<1>12. CASE \E c \in Capacities : LimitCache(c)
  BY <1>3, <1>12 DEF LimitCache, callVars
<1>13. CASE UNCHANGED engineVars
  BY <1>3, <1>13 DEF engineVars, callVars
<1> QED
  BY <1>5, <1>6, <1>7, <1>8, <1>9, <1>10, <1>11, <1>12, <1>13 DEF EngineNext

\* No slot is handed out twice, and none is lost but by an error.
THEOREM SlotsAreSafe == EngineSpec => SlotsSafe
<1>1. ASSUME EngineInv, [EngineNext]_engineVars, SlotsDisjoint'
      PROVE  /\ IsInjective(free_slots') /\ ToSet(free_slots') \cap Held' = {}
             /\ pc' \in {"prepare", "decode"} => Cardinality(Held') = Len(active')
             /\ LostSlots' # LostSlots => outcome' = "error"
  BY <1>1, SlotsLostByErrors DEF SlotsDisjoint
<1> QED
  BY <1>1, EngineInvariance, SlotsAreDisjoint, PTL DEF EngineSpec, SlotsSafe
=============================================================================
