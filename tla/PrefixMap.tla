----------------------------- MODULE PrefixMap -----------------------------
(***************************************************************************)
(* What the prefix cache of radix_cache.rs promises: a finite map from     *)
(* token sequences to KV handles that answers a lookup with the handle of  *)
(* the longest cached prefix, remembers when each entry was last used and, *)
(* when its token capacity is exceeded, drops the entries used least       *)
(* recently.  RadixCache implements it with a compressed trie; KvMemory    *)
(* is built on these operators; PrefixMapSpec is the map on its own.       *)
(*                                                                         *)
(* The map is one record, so that operations can be written as operators   *)
(* from records to records and composed (a prefill is a lookup and then an *)
(* insert).  Where the order of entries with the same tick matters the     *)
(* operators return every allowed outcome.                                 *)
(***************************************************************************)
EXTENDS Integers, Sequences, FiniteSets, SequencesExt, FiniteSetsExt

CONSTANTS
    NoCapacity,   \* no limit: capacity_tokens is None
    NoHandle      \* a lookup found nothing, an insert replaced nothing

ASSUME PrefixMapAssumption == NoCapacity \notin Nat /\ NoHandle \notin Nat

\* Tokens of a set of sequences: resident_tokens if they are all the entries.
TokensOf(S) == Cardinality(UNION {{s} \X (1..Len(s)) : s \in S})

Empty ==
    [entries |-> <<>>, last_access |-> <<>>, clock |-> 1,
     capacity |-> NoCapacity]

Cached(m) == DOMAIN m.entries
Resident(m) == TokensOf(Cached(m))

-----------------------------------------------------------------------------
(***************************************************************************)
(* Lookup.                                                                 *)
(***************************************************************************)
CachedPrefixes(m, s) == {t \in Cached(m) : IsPrefix(t, s)}

LookupAnswer(m, s) ==
    IF CachedPrefixes(m, s) = {}
    THEN [matched_tokens |-> 0, handle |-> NoHandle]
    ELSE LET best == CHOOSE t \in CachedPrefixes(m, s) :
                         \A u \in CachedPrefixes(m, s) : Len(u) <= Len(t)
         IN  [matched_tokens |-> Len(best), handle |-> m.entries[best]]

\* A lookup refreshes every entry on the path it follows.
Touched(m, s) ==
    [m EXCEPT !.clock = @ + 1,
              !.last_access = [t \in Cached(m) |->
                  IF IsPrefix(t, s) THEN m.clock + 1 ELSE m.last_access[t]]]

-----------------------------------------------------------------------------
(***************************************************************************)
(* Eviction.                                                               *)
(***************************************************************************)
Without(m, E) ==
    [m EXCEPT !.entries = [t \in Cached(m) \ E |-> m.entries[t]],
              !.last_access = [t \in Cached(m) \ E |-> m.last_access[t]]]

\* The sets of entries that evict_coldest may drop to free n tokens: oldest
\* ticks first, and not one entry more than needed.
Coldest(m, n) ==
    {E \in SUBSET Cached(m) :
        /\ \A t \in E, u \in Cached(m) \ E : m.last_access[t] <= m.last_access[u]
        /\ TokensOf(E) >= n \/ E = Cached(m)
        /\ E # {} => \E t \in E :
              /\ \A u \in E : m.last_access[u] <= m.last_access[t]
              /\ TokensOf(E \ {t}) < n}

Overflow(m) ==
    IF m.capacity = NoCapacity \/ Resident(m) <= m.capacity THEN 0
    ELSE Resident(m) - m.capacity

\* evict_to_capacity.
Trimmed(m) == {Without(m, E) : E \in Coldest(m, Overflow(m))}

-----------------------------------------------------------------------------
(***************************************************************************)
(* Insert: of the entries on the path only the first and the last, the     *)
(* empty sequence and s itself, are refreshed.                             *)
(***************************************************************************)

\* Mutant of Replaced: a cached prefix of s counts as what s replaces.
ReplacedPrefix(m, s) == LookupAnswer(m, s).handle

Replaced(m, s) == IF s \in Cached(m) THEN m.entries[s] ELSE NoHandle

Inserted(m, s, h) ==
    Trimmed([m EXCEPT
        !.clock = @ + 1,
        !.entries = [t \in Cached(m) \cup {s} |-> IF t = s THEN h ELSE m.entries[t]],
        !.last_access = [t \in Cached(m) \cup {s} |->
                            IF t \in {s, <<>>} THEN m.clock + 1
                            ELSE m.last_access[t]]])

=============================================================================
