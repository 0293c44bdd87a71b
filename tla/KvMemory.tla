------------------------------ MODULE KvMemory ------------------------------
(***************************************************************************)
(* The memory behind the prefix cache: the block store of kv_store.rs, the *)
(* page allocator of paged_attention.rs, and the two operations of the     *)
(* engine that tie them to the cache, prefill and cache_sequence.  The     *)
(* cache itself is the map of PrefixMap, which RadixCache implements.      *)
(*                                                                         *)
(* A handle is its block id; its token_len is what the store keeps for it. *)
(***************************************************************************)
EXTENDS PrefixMap

CONSTANTS
    Texts,         \* the token sequences prefilled and cached
    BlockSize,     \* paged_block_size: tokens per page
    TotalPages,    \* paged_total_pages
    Capacities,    \* the limits the owner may set on the cache
    MaxClock,      \* bound: the clock of the cache, which counts its uses
    MaxBlocks      \* bound: the blocks ever allocated

ASSUME KvMemoryAssumption ==
    /\ \A s \in Texts : s \in Seq(ToSet(s))
    /\ BlockSize \in Nat \ {0}      \* PagedAttentionConfig::new refuses 0
    /\ TotalPages \in Nat
    /\ Capacities \subseteq Nat
    /\ MaxClock \in Nat /\ MaxBlocks \in Nat

VARIABLES
    map,            \* the prefix cache
    next_block_id,  \* InMemoryKvStore.next_block_id
    blocks,         \* InMemoryKvStore.blocks: block id to token length
    free_pages,     \* PagedAttentionBlockManager.free_pages
    mappings,       \* PagedAttentionBlockManager.mappings: block id to pages
    span,           \* the pages the last operation returned, as a PageSpan
    result          \* how the last operation ended

kvVars == <<map, next_block_id, blocks, free_pages, mappings, span, result>>

Pages == 0..(TotalPages - 1)

\* Mutant of PagesForTokens: a page that would not be filled is left out.
PagesForTokensFloor(n) == n \div BlockSize

PagesForTokens(n) == (n + BlockSize - 1) \div BlockSize

\* Mutant of FreshPages: page ids counted from one.
FreshPagesFromOne == [i \in 1..TotalPages |-> i]

\* PagedAttentionBlockManager::new.
FreshPages == [i \in 1..TotalPages |-> i - 1]

Init ==
    /\ map = Empty
    /\ next_block_id = 1
    /\ blocks = <<>>
    /\ free_pages = FreshPages
    /\ mappings = <<>>
    /\ span = <<>>
    /\ result = "new"

-----------------------------------------------------------------------------
(***************************************************************************)
(* cache_sequence on the cache m: allocate a block and its pages, insert   *)
(* the handle, free what it replaced.                                      *)
(***************************************************************************)
\* HashMap::insert and HashMap::remove.
Stored(f, h, v) == [x \in DOMAIN f \cup {h} |-> IF x = h THEN v ELSE f[x]]
Removed(f, h) == [x \in DOMAIN f \ {h} |-> f[x]]

HasRoom(s) == PagesForTokens(Len(s)) <= Len(free_pages)

\* Mutants: the block of a failed allocation stays in the store; the pages of
\* a replaced handle are free and mapped at once.
RollbackForgotten(h, n) == blocks' = Stored(blocks, h, n)
ReleasePagesStillMapped(taken, old) ==
    LET rest == SubSeq(free_pages, Len(taken) + 1, Len(free_pages))
        all == Stored(mappings, next_block_id, taken)
    IN  /\ mappings' = all
        /\ free_pages' = rest \o IF old \in DOMAIN all THEN all[old] ELSE <<>>

\* The allocator has no room: the block of handle h, of n tokens, goes again.
Rollback(h, n) == blocks' = Removed(Stored(blocks, h, n), h)

\* PagedAttentionBlockManager::release of the handle old, once the pages
\* `taken` have left the front of the free queue for the new handle.
ReleasePages(taken, old) ==
    LET rest == SubSeq(free_pages, Len(taken) + 1, Len(free_pages))
        all == Stored(mappings, next_block_id, taken)
    IN  IF old \in DOMAIN all
        THEN /\ mappings' = Removed(all, old)
             /\ free_pages' = rest \o all[old]
        ELSE /\ mappings' = all
             /\ free_pages' = rest

CacheSequence(m, s) ==
    LET h == next_block_id
        taken == SubSeq(free_pages, 1, PagesForTokens(Len(s)))
        old == Replaced(m, s)
    IN  /\ HasRoom(s)
        /\ map' \in Inserted(m, s, h)
        /\ span' = taken
        /\ next_block_id' = h + 1
        /\ blocks' = Removed(Stored(blocks, h, Len(s)), old)
        /\ IF old # NoHandle /\ old \notin DOMAIN blocks
           THEN \* the store does not know the replaced handle
                /\ ReleasePages(taken, NoHandle)
                /\ result' = "UnknownBlock"
           ELSE /\ ReleasePages(taken, old)
                /\ result' = IF old = NoHandle \/ old \in DOMAIN mappings
                             THEN "ok" ELSE "UnknownHandle"

CacheSequenceFails(m, s) ==
    /\ ~HasRoom(s)
    /\ map' = m
    /\ span' = <<>>
    /\ next_block_id' = next_block_id + 1
    /\ Rollback(next_block_id, Len(s))
    /\ result' = "OutOfPages"
    /\ UNCHANGED <<free_pages, mappings>>

-----------------------------------------------------------------------------
(***************************************************************************)
(* The operations.                                                         *)
(***************************************************************************)

\* Mutant of IsHit: a cached prefix of the prompt passes for the prompt.
IsHitByPrefix(s) == s = <<>> \/ LookupAnswer(map, s).matched_tokens > 0

\* prefill does not store the prompt: it is empty or found in full.
IsHit(s) == s = <<>> \/ LookupAnswer(map, s).matched_tokens >= Len(s)

\* materialize_span.
SpanOf(handle) == IF handle \in DOMAIN mappings THEN mappings[handle] ELSE <<>>

\* A request gets the pages of the longest cached prefix or, if its prompt had
\* to be stored, those of the stored prompt.
PrefillHit(s) ==
    /\ map.clock < MaxClock
    /\ IsHit(s)
    /\ map' = Touched(map, s)
    /\ span' = SpanOf(LookupAnswer(map, s).handle)
    /\ result' = "ok"
    /\ UNCHANGED <<next_block_id, blocks, free_pages, mappings>>

PrefillMiss(s) ==
    /\ map.clock < MaxClock /\ next_block_id <= MaxBlocks
    /\ ~IsHit(s)
    /\ CacheSequence(Touched(map, s), s) \/ CacheSequenceFails(Touched(map, s), s)

\* The end of generate_batch caches the prompt with what was generated.
CacheOutput(s) ==
    /\ map.clock < MaxClock /\ next_block_id <= MaxBlocks
    /\ s # <<>>
    /\ CacheSequence(map, s) \/ CacheSequenceFails(map, s)

\* cache_mut().set_capacity_tokens.
SetCapacity(c) ==
    /\ map' \in Trimmed([map EXCEPT !.capacity = c])
    /\ span' = <<>>
    /\ result' = "ok"
    /\ UNCHANGED <<next_block_id, blocks, free_pages, mappings>>

Next ==
    \/ \E s \in Texts : PrefillHit(s) \/ PrefillMiss(s) \/ CacheOutput(s)
    \/ \E c \in Capacities : SetCapacity(c)

Spec == Init /\ [][Next]_kvVars

-----------------------------------------------------------------------------
(***************************************************************************)
(* Properties.                                                             *)
(***************************************************************************)
TypeOK ==
    /\ Cached(map) \subseteq Texts
    /\ map.clock \in Nat
    /\ map.capacity \in Capacities \cup {NoCapacity}
    /\ next_block_id \in Nat \ {0}
    /\ DOMAIN blocks \subseteq 1..(next_block_id - 1)
    /\ DOMAIN mappings \subseteq 1..(next_block_id - 1)
    /\ free_pages \in Seq(Pages)
    /\ \A h \in DOMAIN mappings : mappings[h] \in Seq(Pages)
    /\ span \in Seq(Pages)
    /\ result \in {"new", "ok", "OutOfPages", "UnknownBlock", "UnknownHandle"}

Owned == UNION {{<<h, i>> : i \in DOMAIN mappings[h]} : h \in DOMAIN mappings}

\* The page pool loses no page and hands none out twice: at any time every
\* page is in the free queue once or in one position of one mapping.
PagesConserved ==
    /\ \A p \in Pages :
          Cardinality({i \in DOMAIN free_pages : free_pages[i] = p})
              + Cardinality({o \in Owned : mappings[o[1]][o[2]] = p}) = 1

\* A handle the cache returns can be used: its block and its pages are there,
\* for as many tokens as the sequence has, and belong to no other sequence.
\* Hence cache_sequence never fails to release what it replaced.
CachedIsBacked ==
    /\ result \notin {"UnknownBlock", "UnknownHandle"}
    /\ \A s \in Cached(map) :
          LET h == map.entries[s]
          IN  /\ h \in DOMAIN blocks /\ blocks[h] = Len(s)
              /\ h \in DOMAIN mappings
              /\ Len(mappings[h]) * BlockSize \in Len(s)..(Len(s) + BlockSize - 1)
              /\ \A t \in Cached(map) : map.entries[t] = h => t = s

\* The block store and the page allocator, which cache_sequence updates one
\* after the other with an error return between them, know the same handles.
StoreMatchesAllocator == DOMAIN blocks = DOMAIN mappings

\* generate_batch gives up with "Failed to resolve pages for prefill" if a
\* prefill returns no span.  One that succeeds returns pages for the whole of a
\* non-empty prompt, even if the cache is too small to keep it.
PrefillResolvesPages ==
    [][\A s \in Texts :
          ((PrefillHit(s) \/ PrefillMiss(s)) /\ result' = "ok") =>
              Len(span') * BlockSize >= Len(s)]_kvVars

\* The keys and values computed for a cached sequence live in its pages, so
\* none of them changes hands as long as the sequence keeps its handle,
\* whatever else is prefilled, cached, replaced, evicted or refused.
CachedPagesStay ==
    [][\A s \in Cached(map) \cap Cached(map') :
          LET h == map.entries[s]
          IN  map'.entries[s] = h =>
                  h \in DOMAIN mappings' /\ mappings'[h] = mappings[h]]_kvVars

\* "It implements a CLOCK-based eviction policy to manage GPU memory limits"
\* (radix_cache.rs): what the cache no longer holds no longer takes pages.
EvictionFreesPages == DOMAIN mappings = {map.entries[s] : s \in Cached(map)}
=============================================================================
