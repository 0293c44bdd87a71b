------------------------------- MODULE Disagg -------------------------------
(***************************************************************************)
(* Disaggregated serving (disagg.rs) over the fabric of Nixl.  The first   *)
(* agents of the fabric belong to the prefill pool, the others to the      *)
(* decode pool; the DisaggPool owns them all and runs one call at a time,  *)
(* while other threads may report loads to its public registry.  The       *)
(* fabric can also be used without a pool, each agent in a thread of its   *)
(* own.                                                                    *)
(***************************************************************************)
EXTENDS Nixl

CONSTANTS
    PrefillCount,   \* agents of the prefill pool
    Tasks,          \* the [token_len, payload] of blocks
    MaxBlocks,      \* bound: blocks handed off without a pool
    MaxTasks        \* bound: tasks of a pool

ASSUME DisaggAssumption ==
    /\ PrefillCount \in 1..(NodeCount - 1)     \* asserted by build_disagg_pool
    /\ Tasks \subseteq [token_len : Nat, payload : Nat]
    /\ MaxBlocks \in Nat /\ MaxTasks \in Nat

VARIABLES
    mode,             \* "fabric" or "pool"
    blocks,           \* blocks handed off so far; the next one's block_id
    pc,               \* of run_prefill: "idle", "handoff" or "collect"
    prefill_cursor, decode_cursor,
    pool_stats,       \* DisaggStats
    decode_tasks,     \* what the last run_prefill returned
    ready,            \* decode tasks the caller has not dispatched
    dispatched        \* the tasks dispatched to each decode node

poolVars == <<mode, blocks, pc, prefill_cursor, decode_cursor, pool_stats,
              decode_tasks, ready, dispatched>>
disaggVars == <<fabricVars, poolVars>>

PrefillAgents == 0..(PrefillCount - 1)
DecodeAgents == PrefillCount..(NodeCount - 1)

Init ==
    /\ FabricInit
    /\ mode \in {"fabric", "pool"}
    /\ blocks = 0
    /\ pc = "idle"
    /\ prefill_cursor = 0
    /\ decode_cursor = 0
    /\ pool_stats = [prefill_tasks_routed |-> 0, decode_tasks_dispatched |-> 0,
                     kv_blocks_migrated |-> 0, migration_failures |-> 0]
    /\ decode_tasks = <<>>
    /\ ready = <<>>
    /\ dispatched = [n \in DecodeAgents |-> 0]

Block(id, task) ==
    [block_id |-> id, token_len |-> task.token_len, payload |-> task.payload]

-----------------------------------------------------------------------------
(***************************************************************************)
(* The fabric alone: handoff of one or two blocks to any node.             *)
(***************************************************************************)
EvictTo(n, tasks) ==
    /\ blocks + Len(tasks) <= MaxBlocks
    /\ StartHandoff(n, [i \in 1..Len(tasks) |-> Block(blocks + i, tasks[i])], Nodes)
    /\ blocks' = blocks + Len(tasks)
    /\ UNCHANGED <<mode, pc, prefill_cursor, decode_cursor, pool_stats, decode_tasks,
                   ready, dispatched>>

FabricNext ==
    /\ mode = "fabric"
    /\ \E n \in Nodes :
          \/ \E t \in Tasks, u \in Tasks : EvictTo(n, <<t>>) \/ EvictTo(n, <<t, u>>)
          \/ (Select(n) \/ DropLocally(n) \/ Ship(n) \/ Drain(n)) /\ UNCHANGED poolVars

-----------------------------------------------------------------------------
(***************************************************************************)
(* The pool: run_prefill, dispatch_decode; run_pipeline is one after the   *)
(* other.                                                                  *)
(***************************************************************************)
PrefillIdx == prefill_cursor % PrefillCount

\* The agent of the call that runs, or ran last: the cursor has moved on.
Caller == (prefill_cursor - 1) % PrefillCount

\* Mutant of HandoffTargets: the block may go to any node.
HandoffTargetsAny == Nodes

\* decode_node_ids.
HandoffTargets == DecodeAgents

RunPrefill(task) ==
    /\ pc = "idle" /\ blocks < MaxTasks
    /\ StartHandoff(PrefillIdx, <<Block(blocks + 1, task)>>, HandoffTargets)
    /\ blocks' = blocks + 1
    /\ pc' = "handoff"
    /\ pool_stats' = [pool_stats EXCEPT !.prefill_tasks_routed = @ + 1]
    /\ decode_tasks' = <<>>
    /\ prefill_cursor' = prefill_cursor + 1
    /\ UNCHANGED <<mode, decode_cursor, ready, dispatched>>

Handoff ==
    /\ pc = "handoff"
    /\ Select(Caller) \/ DropLocally(Caller) \/ Ship(Caller)
    /\ pc' = IF jobs'[Caller] = <<>> THEN "collect" ELSE "handoff"
    /\ UNCHANGED <<mode, blocks, prefill_cursor, decode_cursor, pool_stats,
                   decode_tasks, ready, dispatched>>

\* The blocks of an inbox that belong to the request id.
OfRequest(inbox, id) ==
    LET kept[i \in 0..Len(inbox)] ==
            IF i = 0 THEN <<>>
            ELSE IF inbox[i].block_id = id THEN Append(kept[i - 1], inbox[i])
            ELSE kept[i - 1]
    IN  kept[Len(inbox)]

\* Those of all decode agents' inboxes, one agent after the other.
Collected(boxes, id) ==
    LET found[i \in 0..(NodeCount - PrefillCount)] ==
            IF i = 0 THEN <<>>
            ELSE found[i - 1] \o OfRequest(boxes[PrefillCount + i - 1], id)
    IN  found[NodeCount - PrefillCount]

\* Every decode agent's inbox is drained; only blocks of this request count.
Collect ==
    LET outcome == Last(log[Caller])
        tasks == Collected(inboxes, blocks)
    IN  /\ pc = "collect"
        /\ pc' = "idle"
        /\ pool_stats' = IF outcome.sent_to = NoPeer
                         THEN [pool_stats EXCEPT !.migration_failures = @ + 1]
                         ELSE [pool_stats EXCEPT !.kv_blocks_migrated = @ + 1]
        /\ inboxes' = [n \in Nodes |-> IF n \in DecodeAgents THEN <<>> ELSE inboxes[n]]
        /\ received' = [n \in Nodes |-> IF n \in DecodeAgents
                                        THEN received[n] \o inboxes[n] ELSE received[n]]
        /\ decode_tasks' = tasks
        /\ ready' = ready \o tasks
        /\ UNCHANGED <<peers, jobs, targets, peer, regions, stats, log, mode, blocks,
                       prefill_cursor, decode_cursor, dispatched>>

\* Mutant of DecodeIdx: the cursor never gets to the last node.
DecodeIdxShort == PrefillCount + (decode_cursor % (NodeCount - PrefillCount - 1))

DecodeIdx == PrefillCount + (decode_cursor % (NodeCount - PrefillCount))

DispatchDecode ==
    /\ pc = "idle" /\ ready # <<>>
    /\ ready' = Tail(ready)
    /\ pool_stats' = [pool_stats EXCEPT !.decode_tasks_dispatched = @ + 1]
    /\ decode_cursor' = decode_cursor + 1
    /\ dispatched' = [dispatched EXCEPT ![DecodeIdx] = @ + 1]
    /\ UNCHANGED <<fabricVars, mode, blocks, pc, prefill_cursor, decode_tasks>>

PoolNext ==
    /\ mode = "pool"
    /\ \/ \E task \in Tasks : RunPrefill(task)
       \/ Handoff \/ Collect \/ DispatchDecode

Next ==
    \/ FabricNext \/ PoolNext
    \/ \E n \in Nodes, r \in Reports : Heartbeat(n, r) /\ UNCHANGED poolVars

Spec == Init /\ [][Next]_disaggVars

-----------------------------------------------------------------------------
(***************************************************************************)
(* Properties.                                                             *)
(***************************************************************************)

\* "one per successfully migrated block; empty on total migration failure"
\* (disagg.rs): between calls of the pool no block is left in an inbox, where
\* the next call would drain and discard it; the last call returned the block
\* it handed off, from the agent that ran it, if and only if it was sent; and
\* every task routed is counted as migrated or as failed.
PrefillAnswered ==
    mode = "pool" /\ pc = "idle" =>
        /\ \A n \in Nodes : inboxes[n] = <<>>
        /\ pool_stats.prefill_tasks_routed =
               pool_stats.kv_blocks_migrated + pool_stats.migration_failures
        /\ pool_stats.kv_blocks_migrated =
               pool_stats.decode_tasks_dispatched + Len(ready)
        /\ blocks > 0 =>
               IF Last(log[Caller]).sent_to = NoPeer THEN decode_tasks = <<>>
               ELSE /\ Len(decode_tasks) = 1
                    /\ decode_tasks[1].block_id = blocks
                    /\ decode_tasks[1].origin = Caller

Spread(f) == \A m, n \in DOMAIN f : f[m] - f[n] \in -1..1

\* The pool uses its nodes in turn: the tasks given to two prefill agents, sent
\* or dropped, and those dispatched to two decode nodes differ by at most one.
LoadsBalanced ==
    mode = "pool" =>
        /\ Spread([n \in PrefillAgents |->
                      stats[n].blocks_sent + stats[n].blocks_dropped])
        /\ Spread(dispatched)
=============================================================================
