----------------------------- MODULE RadixCache -----------------------------
(***************************************************************************)
(* The prefix cache of radix_cache.rs as it is written: a vector of nodes  *)
(* that forms a compressed trie.  Node 1 is the root (NodeId(0)).  The hit *)
(* counters of the nodes are left out: the code writes but never reads     *)
(* them.  Loops and recursive calls are functions of the number of turns:  *)
(* every turn but the last consumes a token, so there are no more turns    *)
(* than tokens.                                                            *)
(***************************************************************************)
EXTENDS Integers, Sequences, FiniteSets, SequencesExt, FiniteSetsExt

CONSTANTS Texts, Capacities, NoCapacity, NoHandle, MaxClock

ASSUME RadixCacheAssumption ==
    /\ \A s \in Texts : s \in Seq(ToSet(s))
    /\ Capacities \subseteq Nat /\ MaxClock \in Nat
    /\ NoCapacity \notin Nat
    /\ NoHandle \notin [block_id : Nat, token_len : Nat]

VARIABLES nodes, capacity_tokens, resident_tokens, clock, call, answer

vars == <<nodes, capacity_tokens, resident_tokens, clock, call, answer>>

HasHandle(ns, i) == ns[i].handle # NoHandle
WithHandle(ns) == {i \in DOMAIN ns : HasHandle(ns, i)}

Node(edge, children, tick) ==
    [edge |-> edge, children |-> children, handle |-> NoHandle,
     last_access_tick |-> tick]

\* RadixCache::new.
Init ==
    /\ nodes = <<Node(<<>>, <<>>, 0)>>
    /\ capacity_tokens = NoCapacity
    /\ resident_tokens = 0
    /\ clock = 1
    /\ call = <<"new">>
    /\ answer = NoHandle

-----------------------------------------------------------------------------
CommonPrefixLen(l, r) ==
    Max({k \in 0..Len(l) : k <= Len(r) /\ \A i \in 1..k : l[i] = r[i]})

Drop(s, n) == SubSeq(s, n + 1, Len(s))

\* A child is filed under a token, in the place of the one there was.
Linked(children, t, i) ==
    [x \in DOMAIN children \cup {t} |-> IF x = t THEN i ELSE children[x]]

\* Mutant of SplitChild: the parent keeps its link to the old child.
SplitChildUnlinked(ns, tick, parent, child, at) ==
    LET edge == ns[child].edge
    IN  Append([ns EXCEPT ![child].edge = Drop(edge, at)],
               Node(SubSeq(edge, 1, at), Linked(<<>>, edge[at + 1], child), tick))

\* The first `at` tokens of the child's edge become a node of their own, the
\* new last node, between the child and its parent.
SplitChild(ns, tick, parent, child, at) ==
    LET edge == ns[child].edge
    IN  Append([ns EXCEPT
                   ![child].edge = Drop(edge, at),
                   ![parent].children = Linked(@, Head(edge), Len(ns) + 1)],
               Node(SubSeq(edge, 1, at), Linked(<<>>, edge[at + 1], child), tick))

\* One call of insert_from: the nodes, the node reached so far, and the tokens
\* that are left for the next call.
InsertCall(at, tick) ==
    LET ns == at.nodes
        tokens == at.tokens
        children == ns[at.node].children
        child == children[Head(tokens)]
        common == CommonPrefixLen(tokens, ns[child].edge)
    IN  IF tokens = <<>> THEN at
        ELSE IF Head(tokens) \notin DOMAIN children THEN
            [nodes |-> Append([ns EXCEPT ![at.node].children =
                                  Linked(@, Head(tokens), Len(ns) + 1)],
                              Node(tokens, <<>>, tick)),
             node |-> Len(ns) + 1, tokens |-> <<>>]
        ELSE IF common = Len(ns[child].edge) THEN
            [nodes |-> ns, node |-> child, tokens |-> Drop(tokens, common)]
        ELSE
            [nodes |-> SplitChild(ns, tick, at.node, child, common),
             node |-> Len(ns) + 1, tokens |-> Drop(tokens, common)]

\* Finds or makes the node of a sequence.
InsertFrom(ns, tick, tokens) ==
    LET at[k \in 0..Len(tokens)] ==
            IF k = 0 THEN [nodes |-> ns, node |-> 1, tokens |-> tokens]
            ELSE InsertCall(at[k - 1], tick)
    IN  at[Len(tokens)]

-----------------------------------------------------------------------------
HandleAt(ns, i) == IF HasHandle(ns, i) THEN ns[i].handle.block_id ELSE NoHandle

\* Before the loop of lookup.
WalkStart(ns) ==
    [node |-> 1, cursor |-> 0, visited |-> {1},
     best |-> [matched_tokens |-> 0, handle |-> HandleAt(ns, 1)]]

\* The walk goes on to a child after so many tokens.
WalkTo(ns, w, child, cursor) ==
    [node |-> child, cursor |-> cursor, visited |-> w.visited \cup {child},
     best |-> IF HasHandle(ns, child)
              THEN [matched_tokens |-> cursor, handle |-> HandleAt(ns, child)]
              ELSE w.best]

\* Mutant of WalkTurn: follows an edge that matches only in part.
WalkTurnPartial(ns, tokens, w) ==
    LET rest == Drop(tokens, w.cursor)
        children == ns[w.node].children
        child == children[Head(rest)]
    IN  IF rest = <<>> \/ Head(rest) \notin DOMAIN children THEN w
        ELSE WalkTo(ns, w, child, w.cursor + CommonPrefixLen(rest, ns[child].edge))

\* One turn of the loop, or none once it has ended.
WalkTurn(ns, tokens, w) ==
    LET rest == Drop(tokens, w.cursor)
        children == ns[w.node].children
        child == children[Head(rest)]
        matched == CommonPrefixLen(rest, ns[child].edge)
    IN  IF rest = <<>> \/ Head(rest) \notin DOMAIN children THEN w
        ELSE IF matched < Len(ns[child].edge) THEN w
        ELSE WalkTo(ns, w, child, w.cursor + matched)

\* Where a lookup ends, the nodes it visited and the last handle it met.
Walk(ns, tokens) ==
    LET at[k \in 0..Len(tokens)] ==
            IF k = 0 THEN WalkStart(ns) ELSE WalkTurn(ns, tokens, at[k - 1])
    IN  at[Len(tokens)]

-----------------------------------------------------------------------------
\* The number of tokens of the handles of the nodes S.
HandleTokens(ns, S) == Cardinality(UNION {{i} \X (1..ns[i].handle.token_len) : i \in S})

\* The order in which evict_coldest takes the nodes with a handle: by tick and,
\* the sort being stable, then by position.
Colder(ns, i, j) ==
    \/ ns[i].last_access_tick < ns[j].last_access_tick
    \/ ns[i].last_access_tick = ns[j].last_access_tick /\ i < j

\* A node is taken if those before it have freed fewer than n tokens.
Coldest(ns, n) ==
    {i \in WithHandle(ns) :
        HandleTokens(ns, {j \in WithHandle(ns) : Colder(ns, j, i)}) < n}

Cleared(ns, E) ==
    [i \in DOMAIN ns |-> IF i \in E THEN [ns[i] EXCEPT !.handle = NoHandle] ELSE ns[i]]

SaturatingSub(a, b) == IF a < b THEN 0 ELSE a - b

\* Mutant of Overflow: a capacity off by one.
OverflowLate(resident, capacity) ==
    IF capacity = NoCapacity THEN 0 ELSE SaturatingSub(resident, capacity + 1)

\* The number of tokens evict_to_capacity asks evict_coldest for.
Overflow(resident, capacity) ==
    IF capacity = NoCapacity THEN 0 ELSE SaturatingSub(resident, capacity)

\* evict_to_capacity, on the nodes ns with the given counter and limit.
EvictToCapacity(ns, resident, capacity) ==
    LET E == Coldest(ns, Overflow(resident, capacity))
    IN  /\ nodes' = Cleared(ns, E)
        /\ resident_tokens' = SaturatingSub(resident, HandleTokens(ns, E))

-----------------------------------------------------------------------------
Lookup(tokens) ==
    /\ call' = <<"lookup", tokens>>
    /\ clock < MaxClock
    /\ clock' = clock + 1
    /\ nodes' = [i \in DOMAIN nodes |->
                    IF i \in Walk(nodes, tokens).visited
                    THEN [nodes[i] EXCEPT !.last_access_tick = clock + 1]
                    ELSE nodes[i]]
    /\ answer' = Walk(nodes, tokens).best
    /\ UNCHANGED <<capacity_tokens, resident_tokens>>

\* Mutant of CountAfter: the replaced handle stays counted.
CountAfterAdding(old, new) == resident_tokens + new.token_len

\* resident_tokens once the handle `new` took the place of `old`.
CountAfter(old, new) ==
    new.token_len + IF old = NoHandle THEN resident_tokens
                    ELSE SaturatingSub(resident_tokens, old.token_len)

\* RadixCache::insert, with a new handle each time.
Insert(tokens) ==
    /\ call' = <<"insert", tokens>>
    /\ clock < MaxClock
    /\ clock' = clock + 1
    /\ LET handle == [block_id |-> clock, token_len |-> Len(tokens)]
           into == InsertFrom([nodes EXCEPT ![1].last_access_tick = clock + 1],
                              clock + 1, tokens)
           old == into.nodes[into.node].handle
       IN  /\ EvictToCapacity(
                  [into.nodes EXCEPT ![into.node].handle = handle,
                                     ![into.node].last_access_tick = clock + 1],
                  CountAfter(old, handle), capacity_tokens)
           /\ answer' = IF old = NoHandle THEN NoHandle ELSE old.block_id
    /\ UNCHANGED capacity_tokens

SetCapacity(c) ==
    /\ call' = <<"set_capacity", c>>
    /\ capacity_tokens' = c
    /\ EvictToCapacity(nodes, resident_tokens, c)
    /\ answer' = NoHandle
    /\ UNCHANGED clock

EvictColdest(n) ==
    LET E == Coldest(nodes, n)
    IN  /\ call' = <<"evict", n>>
        /\ nodes' = Cleared(nodes, E)
        /\ resident_tokens' = SaturatingSub(resident_tokens, HandleTokens(nodes, E))
        /\ answer' = {nodes[i].handle.block_id : i \in E}
        /\ UNCHANGED <<capacity_tokens, clock>>

Next ==
    \/ \E s \in Texts : Lookup(s) \/ Insert(s)
    \/ \E c \in Capacities \cup {NoCapacity} : SetCapacity(c)
    \/ \E n \in Capacities : EvictColdest(n)

Spec == Init /\ [][Next]_vars

-----------------------------------------------------------------------------
(***************************************************************************)
(* Properties.                                                             *)
(***************************************************************************)
Children(ns, i) == {ns[i].children[t] : t \in DOMAIN ns[i].children}

\* insert and split_child keep the vector a compressed trie: every node but
\* the root is filed exactly once, under the first token of its non-empty
\* edge, so no node gets lost and siblings never share a first token.
TreeWellFormed ==
    /\ \A i \in DOMAIN nodes, t \in UNION {DOMAIN nodes[j].children : j \in DOMAIN nodes} :
          t \in DOMAIN nodes[i].children =>
              LET c == nodes[i].children[t]
              IN  c \in 2..Len(nodes) /\ nodes[c].edge # <<>> /\ Head(nodes[c].edge) = t
    /\ \A c \in 2..Len(nodes) :
          Cardinality({i \in DOMAIN nodes : c \in Children(nodes, i)}) = 1

\* The counter that drives eviction is the number of tokens of the handles in
\* the tree, through replacements, splits and evictions: the saturating
\* subtractions never hide a difference.
ResidentExact ==
    resident_tokens = HandleTokens(nodes, WithHandle(nodes))

\* A cache with a limit holds no more tokens than the limit once an operation
\* is over, even if a single sequence is longer than the limit.
WithinCapacity ==
    capacity_tokens # NoCapacity => resident_tokens <= capacity_tokens

\* The sequence a node stands for: the edges from the root down to it.
TextOf(ns, i) ==
    LET text[j \in DOMAIN ns] ==
            IF j = 1 THEN <<>>
            ELSE text[CHOOSE p \in DOMAIN ns : j \in Children(ns, p)] \o ns[j].edge
    IN  text[i]

\* The nodes read as a map: from the text of each node with a handle to that
\* handle and the tick of the node.
CachedTexts(ns) == {TextOf(ns, i) : i \in WithHandle(ns)}
Entry(ns, s) == CHOOSE i \in WithHandle(ns) : TextOf(ns, i) = s

MapOf(ns, tick, capacity) ==
    [entries |-> [s \in CachedTexts(ns) |-> ns[Entry(ns, s)].handle.block_id],
     last_access |-> [s \in CachedTexts(ns) |-> ns[Entry(ns, s)].last_access_tick],
     clock |-> tick,
     capacity |-> capacity]

Abstract == INSTANCE PrefixMapSpec WITH map <- MapOf(nodes, clock, capacity_tokens)

\* The trie implements the map: lookups return the longest cached prefix,
\* inserts replace the handle of exactly the same sequence and no other, and
\* eviction is in the order of last use, whatever the order of operations and
\* the shape of the tree.
RefinesPrefixMap == Abstract!Spec
=============================================================================
