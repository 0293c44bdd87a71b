--------------------------- MODULE PrefixMapSpec ---------------------------
(***************************************************************************)
(* The prefix cache on its own, as its callers see it: which operation is  *)
(* called and what it returns.  Handles are numbered by the clock, so that *)
(* each insert brings a new one, as KvStore::allocate does.                *)
(***************************************************************************)
EXTENDS PrefixMap

CONSTANTS
    Texts,        \* the token sequences inserted and looked up
    Capacities,   \* the limits set_capacity_tokens may be called with
    MaxClock      \* bound: the number of lookups and inserts

VARIABLES
    map,       \* entries, last_access, clock and capacity_tokens
    call,      \* the last operation that was called, and its argument
    answer     \* what it returned to its caller

Init ==
    /\ map = Empty
    /\ call = <<"new">>
    /\ answer = NoHandle

Lookup(s) ==
    /\ call' = <<"lookup", s>>
    /\ map.clock < MaxClock
    /\ map' = Touched(map, s)
    /\ answer' = LookupAnswer(map, s)

Insert(s) ==
    /\ call' = <<"insert", s>>
    /\ map.clock < MaxClock
    /\ map' \in Inserted(map, s, map.clock)
    /\ answer' = Replaced(map, s)

SetCapacity(c) ==
    /\ call' = <<"set_capacity", c>>
    /\ map' \in Trimmed([map EXCEPT !.capacity = c])
    /\ answer' = NoHandle

EvictColdest(n) ==
    /\ call' = <<"evict", n>>
    /\ \E E \in Coldest(map, n) :
          /\ map' = Without(map, E)
          /\ answer' = {map.entries[t] : t \in E}

Next ==
    \/ \E s \in Texts : Lookup(s) \/ Insert(s)
    \/ \E c \in Capacities \cup {NoCapacity} : SetCapacity(c)
    \/ \E n \in Capacities : EvictColdest(n)

Spec == Init /\ [][Next]_<<map, call, answer>>
=============================================================================
