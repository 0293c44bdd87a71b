-------------------------------- MODULE Nixl --------------------------------
(***************************************************************************)
(* The cache transfer fabric of nixl.rs.  Agents share a registry, where   *)
(* every node reports its load, and a map of inboxes, each behind a lock   *)
(* of its own.  An agent that hands off a block looks for the least loaded *)
(* peer in the registry, stages the block in a region of its own and       *)
(* pushes it into the peer's inbox: two lock acquisitions, between which   *)
(* other agents run and nodes report.                                      *)
(*                                                                         *)
(* A payload is its length in bytes.  The wire format is a header of fixed *)
(* length and the payload; what is staged is never malformed, so that the  *)
(* outcome PeerFull of the code does not occur.                            *)
(***************************************************************************)
EXTENDS Integers, Sequences, FiniteSets, SequencesExt, FiniteSetsExt

CONSTANTS
    NodeCount,     \* agents of build_fabric
    BlockBytes,    \* block_bytes: the size of a region
    DmaPool,       \* regions an agent starts with
    Capacity,      \* free_tokens of a node that has not reported
    Reports,       \* the [utilisation, free_tokens] a node may report
    NoPeer         \* no peer is selected

Nodes == 0..(NodeCount - 1)
WireHeaderLen == 16

ASSUME NixlAssumption ==
    /\ NodeCount \in Nat /\ BlockBytes \in Nat /\ DmaPool \in Nat
    /\ Capacity \in Nat
    /\ Reports \subseteq [utilisation : Nat, free_tokens : Nat]
    /\ NoPeer \notin Nodes

VARIABLES
    peers,      \* NodeRegistry: what each node reported last
    inboxes,    \* the blocks delivered to each node
    jobs,       \* the handles and payloads left of each agent's handoff
    targets,    \* the nodes each agent's handoff may choose from
    peer,       \* the peer selected for the first of them
    regions,    \* each agent's DmaBlockManager: free regions and their number
    stats,      \* each agent's TransferStats
    log,        \* the outcomes each agent's handoffs returned
    received    \* the blocks each node has drained

fabricVars == <<peers, inboxes, jobs, targets, peer, regions, stats, log, received>>

FabricInit ==
    /\ peers = [n \in Nodes |-> [utilisation |-> 0, free_tokens |-> Capacity]]
    /\ inboxes = [n \in Nodes |-> <<>>]
    /\ jobs = [n \in Nodes |-> <<>>]
    /\ targets = [n \in Nodes |-> {}]
    /\ peer = [n \in Nodes |-> NoPeer]
    /\ regions = [n \in Nodes |->
                     [free |-> [i \in 1..DmaPool |-> i - 1], count |-> DmaPool]]
    /\ stats = [n \in Nodes |->
                   [blocks_sent |-> 0, blocks_dropped |-> 0, bytes_sent |-> 0]]
    /\ log = [n \in Nodes |-> <<>>]
    /\ received = [n \in Nodes |-> <<>>]

\* NodeRegistry::heartbeat.
Heartbeat(n, report) ==
    /\ peers' = [peers EXCEPT ![n] = report]
    /\ UNCHANGED <<inboxes, jobs, targets, peer, regions, stats, log, received>>

\* An agent starts to hand off the blocks b; S is targets, or all nodes.
StartHandoff(n, b, S) ==
    /\ jobs[n] = <<>>
    /\ jobs' = [jobs EXCEPT ![n] = b]
    /\ targets' = [targets EXCEPT ![n] = S]
    /\ UNCHANGED <<peers, inboxes, peer, regions, stats, log, received>>

-----------------------------------------------------------------------------
\* The peers of agent n that can take so many tokens.
Accepting(n, tokens) ==
    {p \in targets[n] \ {n} : peers[p].free_tokens >= tokens}

\* NodeRegistry::best_peer: of equally loaded nodes, any (a HashMap).
BestPeers(n, tokens) ==
    {p \in Accepting(n, tokens) :
        \A q \in Accepting(n, tokens) : peers[p].utilisation <= peers[q].utilisation}

Select(n) ==
    /\ jobs[n] # <<>> /\ peer[n] = NoPeer
    /\ \E p \in BestPeers(n, Head(jobs[n]).token_len) : peer' = [peer EXCEPT ![n] = p]
    /\ UNCHANGED <<peers, inboxes, jobs, targets, regions, stats, log, received>>

\* No peer: TransferOutcome::DroppedLocally.
DropLocally(n) ==
    /\ jobs[n] # <<>> /\ peer[n] = NoPeer
    /\ BestPeers(n, Head(jobs[n]).token_len) = {}
    /\ jobs' = [jobs EXCEPT ![n] = Tail(@)]
    /\ stats' = [stats EXCEPT ![n].blocks_dropped = @ + 1]
    /\ log' = [log EXCEPT ![n] = Append(@,
                  [block |-> Head(jobs[n]), sent_to |-> NoPeer, bytes |-> 0])]
    /\ UNCHANGED <<peers, inboxes, targets, peer, regions, received>>

\* DmaBlockManager::acquire, and the release of the same region: only a pool
\* without free regions grows.
AcquiredAndReleased(r) ==
    IF r.free # <<>> THEN r
    ELSE [free |-> <<r.count>>, count |-> r.count + 1]

\* Mutant of Staged: a payload that fills a region is cut too.
StagedShort(payload) == IF payload < BlockBytes THEN payload ELSE BlockBytes - 1

\* write_and_serialize: what does not fit the region is cut off.
Staged(payload) == IF payload < BlockBytes THEN payload ELSE BlockBytes

Ship(n) ==
    LET b == Head(jobs[n])
        bytes == WireHeaderLen + Staged(b.payload)
        remote == [block_id |-> b.block_id, token_len |-> b.token_len, origin |-> n,
                   payload |-> Staged(b.payload)]
    IN  /\ peer[n] # NoPeer
        /\ inboxes' = [inboxes EXCEPT ![peer[n]] = Append(@, remote)]
        /\ regions' = [regions EXCEPT ![n] = AcquiredAndReleased(@)]
        /\ stats' = [stats EXCEPT ![n].blocks_sent = @ + 1, ![n].bytes_sent = @ + bytes]
        /\ log' = [log EXCEPT ![n] = Append(@,
                      [block |-> b, sent_to |-> peer[n], bytes |-> bytes])]
        /\ jobs' = [jobs EXCEPT ![n] = Tail(@)]
        /\ peer' = [peer EXCEPT ![n] = NoPeer]
        /\ UNCHANGED <<peers, targets, received>>

\* mem::take of a node's inbox.
Taken(n) == [inboxes EXCEPT ![n] = <<>>]

\* drain_inbox.
Drain(n) ==
    /\ inboxes[n] # <<>>
    /\ inboxes' = Taken(n)
    /\ received' = [received EXCEPT ![n] = @ \o inboxes[n]]
    /\ UNCHANGED <<peers, jobs, targets, peer, regions, stats, log>>

-----------------------------------------------------------------------------
(***************************************************************************)
(* Properties.                                                             *)
(***************************************************************************)

\* The copies of a block, by the node that has them.
CopiesAt(n, origin, id) ==
    LET all == inboxes[n] \o received[n]
    IN  {i \in DOMAIN all : all[i].block_id = id /\ all[i].origin = origin}

\* A handoff tells the truth, in any interleaving with the handoffs of others,
\* their drains and load reports: a block it reports as sent to a peer is there
\* once, in the inbox or drained by the peer, is nowhere else, was never sent
\* to its sender, and has the start of its payload, all of it if it fits a
\* region; a block it reports as dropped is nowhere.
DeliveredOnce ==
    \A n \in Nodes : \A i \in DOMAIN log[n] :
        LET e == log[n][i]
            copies(m) == CopiesAt(m, n, e.block.block_id)
        IN  /\ e.sent_to # n
            /\ \A m \in Nodes \ {e.sent_to} : copies(m) = {}
            /\ e.sent_to # NoPeer =>
                   /\ Cardinality(copies(e.sent_to)) = 1
                   /\ \A k \in copies(e.sent_to) :
                          LET b == (inboxes[e.sent_to] \o received[e.sent_to])[k]
                          IN  /\ e.bytes = WireHeaderLen + b.payload
                              /\ e.block.payload <= BlockBytes =>
                                     b.payload = e.block.payload
=============================================================================
