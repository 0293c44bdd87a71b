# Velo-Core in TLA+

A model of the concurrent and stateful core of Velo-Core, the speculative
inference engine in `src/`: TLA+ modules translated from the Rust source, TLC
configurations that check them on small instances, and theorems that TLAPS
proves for every size. `PROJECT.json` maps each definition to the lines it
stands for.

## The system

| Component | State | Operations | Made hard by |
|---|---|---|---|
| `VeloScheduler` (`scheduler.rs`) | request and command channels, pending queue, active batch, metrics | `submit`; the worker's loop: commands, intake, admission, step, cleanup | clients on other threads submit and hang up between any two channel operations; admissions and steps that fail half way |
| `SlotPool` (`slot_manager.rs`) | FIFO of free slots | `alloc`, `release` | no check for double release |
| `VeloEngine` (`engine.rs`) | slot pool, prefix cache, memory runtime | `generate_batch`, `prefill`, `cache_sequence` | error returns between updates of three structures |
| `SpeculativeDecoder`, `SpeculativeSession` (`speculative.rs`) | context, adaptive window, pending correction, counters | `begin`, `draft`, `commit`, `take_rejected_token`, `generate` | budget and window edges; either model may fail or return the wrong number of tokens |
| `RadixCache` (`radix_cache.rs`) | node vector (compressed trie), resident count, clock, capacity | `insert`, `lookup`, `set_capacity_tokens`, `evict_coldest` | edge splits, ticks with ties, counters under saturating arithmetic |
| `InMemoryKvStore` (`kv_store.rs`) | blocks by id | `allocate`, `release` | must agree with the allocator |
| `PagedAttentionBlockManager` (`paged_attention.rs`) | free pages, mappings | `allocate`, `release`, `materialize_span` | pool at its limit, rounding to pages |
| Model adapters (`backend.rs`), constraints (`constraints.rs`) | grammar matcher | `draft`, `verify`, `next_mask`, `advance` | the matcher may run ahead of the committed text |
| `ModelPool` (`model_pool.rs`) | models by name | `prefetch` on a thread, `load_sync`, `get`, `remove` | loads that fail, panic or overtake each other; commands that wait while the worker sleeps |
| `DisaggPool`, NIXL (`disagg.rs`, `nixl.rs`) | agents, registry, inboxes, staging regions | `run_prefill`, `handoff`, `drain_inbox`, `dispatch_decode` | selection and delivery under different locks, load reports in between |
| Metal backend and runtime (`metal/backend.rs`, `metal/runtime.rs`) | bound slot and prefix, page table rows, KV pools | `bind_slot`, `bind_prefix_cache`, `sample_next`, `next_logits` | one pool for all slots, one binding for a whole batch |
| `LlamaTensorParallelModel` (`metal/tp_model.rs`, `metal/sharding.rs`) | shards and scratch buffers of each GPU, command queues | `new`, `run` | GPUs that run at their own pace |
| `LlamaCpuModel` (`llama_cpu.rs`), `velo-run` | weights, KV cache, position | `forward_sequence`, `next_logits`, `verify_logits` | one position counter for every kind of call |
| Loader (`gguf.rs`, `model_loader.rs`) | none; a weight store | `read`, `from_gguf`, `validate`, `load_gguf` | what is accepted is sliced without further checks |
| Speculative trees (`speculative.rs`, `backend.rs`) | nodes | `add_child`, `draft_tree`, `verify_tree`, `find_best_path` | branches in any order |
| Sampling, tokenizer, power governor | none | pure functions | |
| Server, benchmarks, FFI | none of their own | thin layers over the above | |

How they interact: the server calls `submit` and reads a token channel and a
one-shot `done` channel. The worker admits a request by taking a slot from the
engine, prefilling its prompt (a cache lookup and, on a miss, a block in the
store, pages from the allocator and an insert into the cache) and binding the
models to slot and prefix. Each step then drafts, verifies and commits one round
for every member of the batch and sends the tokens. `generate_batch` does the
same synchronously for a fixed batch and caches prompt and output at the end.
Apart from that path, a disaggregated pool moves KV blocks from prefill to decode
nodes, and the model side (loader, pool, CPU, Metal and tensor-parallel models)
stands behind the trait `CausalLmBackend`.

What makes each of them correct, and what could break it, is listed under
`hazards` in `PROJECT.json`, each at its line.

## Modules

| Module | Models | Checked by |
|---|---|---|
| `Scheduler` | `scheduler.rs`, `slot_manager.rs`, and prefill as far as admission depends on it | `MCScheduler` |
| `PrefixMap` | what the prefix cache promises: a map with longest-prefix lookup and eviction by last use, as operators on a record | through the next three |
| `PrefixMapSpec` | that map as a specification of its own | as the abstract side of `RadixCache` |
| `RadixCache` | `radix_cache.rs` as written, node by node | `MCRadixCache` |
| `KvMemory` | `kv_store.rs`, `paged_attention.rs`, `prefill` and `cache_sequence` of `engine.rs`, composed with `PrefixMap` | `MCKvMemory` |
| `GreedyDecoding` | what speculative decoding promises: the text the target model writes alone | as the abstract side of `Speculative` |
| `Speculative` | `speculative.rs` and the decoding loop of `generate_batch` | `MCSpeculative` |
| `EngineBatch` | `generate_batch` over `KvMemory`, with slots, page table rows, the greedy models of `backend.rs` and the matchers of `constraints.rs` | `MCEngineBatch` |
| `Nixl`, `Disagg` | `nixl.rs`; `disagg.rs` on top of it | `MCDisagg` |
| `ModelFile` | `gguf.rs`, `model_loader.rs` as operators on a file given as its fields | through the next five |
| `Transformer` | the arithmetic of the forward passes | |
| `CpuModel` | `llama_cpu.rs` and `bin/velo-run.rs` | `MCInference` |
| `MetalModel` | `metal/backend.rs`, `forward` of `metal/model.rs`, the slot mapping | `MCInference` |
| `TensorParallel` | `metal/tp_model.rs`, `metal/sharding.rs`, `forward_layer` | `MCInference` |
| `ModelPool` | `model_pool.rs`, the commands of `scheduler.rs` | `MCInference` |
| `SpeculativeTree` | trees of `speculative.rs`, `TreeDraftModel`, `sample_top_k` | `MCInference` |
| `Inference` | the five modules before it as alternatives: a behaviour is one of a single part | `MCInference` |
| `SchedulerProofs`, `SpeculativeProofs`, `RadixCacheProofs`, `EngineBatchProofs`, `DisaggProofs`, `InferenceProofs`, `TensorParallelProofs` | theorems and their lemmas | TLAPS |
| `NaturalsLemmas` | least numbers, induction over a set of numbers, recursive functions, rounding and remainders, for the proofs | TLAPS |

Each `MC` module only extends its specification and defines values for the
constants. Definitions named after a bug (`ReleaseSlotTwice`, `OverflowLate`,
`WalkPartial` ...) stand before the definition they distort and are used
by nothing; they serve to show that each property can fail.

### Scheduler

The worker is split at its channel operations: `pc` is its phase, `cursor` the
index of the commit and cleanup loops, `accepted` and `rejected` what the current
commit has still to send. Between any two such steps a client may `Submit`,
`HangUp` (drop its token receiver) or the owner may drop the scheduler
(`DropScheduler`). A whole `try_recv` drain is one action (`Intake`): a request
that arrives during it is one that arrived just before. Admission is one action
per outcome: `Admit`, `RefuseNoSlot`, `RefusePrefill`, `RefuseBind`; the last two
keep the slot, as the code does. A step is `DraftAndVerify` or `StepFails`, then
per request `Commit`, `SendAccepted` (one token each), `SendAcceptedFails`,
`SendRejected`, `EndSend`; cleanup is `Keep` or `Cleanup` per request. `done` is
the fate of the `done_tx` sender; clients cannot tell "dropped" from "refused",
the model can.

Data is abstract: tokens are counted, a commit accepts any number of the drafted
tokens, a prompt is an opaque value with a size in pages. Nothing here releases
pages, because the scheduler never calls `cache_sequence` for output and a
prompt's handle is never replaced. The command phase is in `ModelPool`; the sums
for time to first token are left out.

### RadixCache and PrefixMap

`nodes` is the vector of the code with node 1 as the root. `InsertCall` is one call of
`insert_from` and `WalkTurn` one turn of the loop of `lookup`; `InsertFrom` and `Walk`
run them as often as there are tokens, which is enough because each but the last
consumes one. `SplitChild` and `Coldest` follow `split_child` and `evict_coldest`. `call` and `answer` record the last operation and
what it returned, so that the refinement covers return values too: the property
`RefinesPrefixMap` says that the trie, read as a map from the text of a node to its
handle and tick (`MapOf`), behaves as `PrefixMapSpec`. Where `evict_coldest` depends on the
order of nodes with one tick, the map allows every order.

### KvMemory

One action per engine operation: `PrefillHit`, `PrefillMiss`, `CacheOutput` (the end
of `generate_batch`) and `SetCapacity`. `CacheSequence` and `CacheSequenceFails` are
the two outcomes of `cache_sequence`, with the early returns for a failed page
allocation and for a failed release of the replaced handle. Pages have identities,
and `free_pages` is the queue of the code.

### Speculative

One request. `mode` selects the loop: `generate` (session.draft, adaptive window,
`DraftReturnedTooMany`, stop at an empty draft) or `batch` (the engine's loop, fixed
window, no such checks). The draft model returns any tokens; in batch mode no more
than it was asked for, which `GreedyDraftModel` guarantees. The target model is a
function of the context, as `GreedyTargetModel` is without a grammar, or fails, or
returns a result of the wrong length. `Commit` models both copies of the commit code, the
one in `session.draft` and `session.commit`.

### EngineBatch

A call of `generate_batch` has the engine for itself (`&mut self`), so the
preparation of one request, one round of the whole batch and the end of one
request are one step each: `PrepareNext` (with `NoFreeSlots` and `PrefillFails`),
`Round` or `ModelFails`, `FinishNext`. Memory steps are those of `KvMemory`. Every
`?` is `GiveUp`: the local batch is dropped, its slots stay taken. `Drafted`,
`Expected` and `Kept` are `draft_batch`, `verify_batch` and `commit` on sequences of
tokens; the models are functions of the text. The grammar is a relation of tokens
that may follow each other, which is all that the matcher's interface shows.
`rows` is what `bind_slot` of the Metal runtime stores; the CPU runtime ignores it.

### Nixl and Disagg

`handoff` is split where another thread can come between: `Select` (the registry's
lock), then `Ship` (the inboxes' lock), or `DropLocally`. `Heartbeat` may happen at
any time, as the registry is public. `mode` chooses between agents that each run
in a thread of their own and a `DisaggPool` that owns all of them; `run_prefill` is
`RunPrefill`, the steps of its handoff, and `Collect`. A payload is its length.

### Transformer, CpuModel, MetalModel, TensorParallel

Numbers are the elements of a small prime field, so that sums and products are
exact and associative; the functions that are no polynomials (norm scale, sigmoid,
softmax, sine, cosine) are parameters. What is compared is where values come
from and go to: positions, heads, pages, shards, order. Two computations that
agree for generated weights and such functions use the same inputs in the same
places; rounding is outside the model.

`CpuModel` feeds a model token by token as `forward_sequence`, `next_logits` and
`verify_logits` do, and compares with `TextLogits`, which has no cache, on the text
that the call names: the context, or `context ++ drafted`. As `verify_logits` does
not look at its context, the two can agree only under a contract between caller
and model (`ContractKept`): each token of a text is fed exactly once, by whatever
calls. `GenerationExact` is an implication from that contract for callers of the
interface, and says that `velo-run` keeps it.

`MetalModel` keeps one pool of pages for all slots and, as the runtime does, one flat
`mapping` with a row of words for each. `SampleNext(r, len)` is a forward pass of
request `r` through the row of the slot that was bound last, whosever it is, at a
position that nobody compares with the row: past the bound pages it meets page 0,
past the row the next slot's row (`Rows`), as the kernels index it. A pass is in
place (`InPlace`) if the request's own slot is bound and the position has a page;
next to it a pass over a contiguous cache is kept as history. `own` says which
positions of a slot are its own: those from 0 that passes in place have written
since the row was bound, up to the first that another pass has written over. Two
limits: heads have at most 128 dimensions, the size of an array in the attention
kernel (`kernels.metal:464`; beyond it the pass is undefined), and the words that
follow the last row in memory name some page of the pool. `TensorParallel`
separates encoding, committing and waiting from the GPUs' own steps (`GpuStep`). What
a kernel computes is a function of the device it runs on (`Device`: architecture,
shard, degree, rank, position), so that the same functions say what the model
computes on one device (`OneDevice`, `FinalState`).

### ModelFile and ModelPool

A file is a record of what the parser meets in it, good or bad; `LoadGguf` gives
the first error in the order of the code or the weight store. The pool is used
in one of two ways (`owner`): by the scheduler's worker, through commands, or by a
caller with a `MetalBackend`. A load goes through the stages sent, started, read,
uploaded, loaded, or ends as failed or died (a panic).

### SpeculativeTree

A caller builds a tree, or has it drafted by `TreeDraftModel` or by the default
method, has it verified by the default method or by a target model that may
expect anything, and asks for the best path.

## Runs

| Run | Shows |
|---|---|
| `scheduler_safety` | slots isolated (`SlotIsolation`) and lost only by refused admissions (`SlotsAccountedFor`); no underflow of the budget (`GeneratedWithinBudget`); `Ok` only after all tokens (`DoneMeansComplete`); order of service (`NoOvertaking`); counters against channels (`MetricsAgree`) |
| `scheduler_live` | a hang-up frees the slot even if every step fails (`HangUpFreesSlot`); every request is resolved (`EveryRequestResolves`) |
| `scheduler_slot_leak` | counterexample to `FreeSlotWhenAdmitting`, see below |
| `radix_cache` | the trie stays a trie, its counter is exact, its limit is kept, and it implements the map |
| `kv_memory` | pages conserved, cached handles backed, store and allocator in step, prefill returns enough pages, cached pages never change hands |
| `kv_eviction_leak` | counterexample to `EvictionFreesPages`, see below |
| `speculative` | budget, output, window, counters; speculation is lossless; refinement of `GreedyDecoding`; `generate` ends |
| `engine_batch` | no slot is shared or lost by a call that succeeds (`SlotsSafe`); rows name live pages for the whole prompt (`BoundPagesLive`); outputs name pages that hold their text (`OutputsBacked`); batching changes no one's tokens (`BatchLossless`) |
| `engine_grammar` | counterexample to `GrammarRespected`, see below |
| `disagg` | blocks arrive once, where the sender says, with their payload (`DeliveredOnce`); a prefill returns the block it migrated and leaves no inbox behind (`PrefillAnswered`); nodes take turns (`LoadsBalanced`) |
| `inference` | the CPU cache is transparent if each token is fed once, which `velo-run` does, and `velo-run` generates the right tokens (`GenerationExact`); paging is transparent to passes in place, whatever the others do (`PagedCacheExact`); so is the number of GPUs (`DegreeIrrelevant`); resident models are accepted ones and stay in bounds (`PoolRunnable`); `find_best_path` is right for every tree (`BestPathMaximal`); prefetches end (`PrefetchSettles`) |
| `model_switch` | counterexample to `SwitchTakesEffect`, see below |

Bounds, and why they suffice for the cases of interest:

- Scheduler: three requests on two slots, so that one waits, slots are reused and
  two share a batch; two prompts and one page, so that both a hit and an
  `OutOfPages` happen; budgets 0 and 3 with a window of 2, so that a request needs
  several rounds and the last window is cut down. Prompts are symmetric. The
  liveness run uses one prompt and a budget of 2 and no symmetry.
- RadixCache: five texts with an extension, two ways to split one edge, a split
  exactly at a text, and the root; capacity 4 below the sum of all texts; five
  lookups or inserts in any order (`MaxClock` 6), with any number of calls
  of `set_capacity_tokens` and `evict_coldest` between them.
- KvMemory: three pages of two tokens; texts below, at and above a page, one a
  prefix of others; capacity 2, less than the longest text; five blocks and eight
  uses of the cache.
- Speculative: two tokens, budgets 0, 1 and 5, windows 2 to 3, every draft of every
  length, a target that depends on length and end of the context. `EmptyRounds`
  bounds only how often the batch loop sees an empty draft.

- EngineBatch: two calls (`MaxCalls`) on three slots, so that the second meets the
  cache and the slots the first left; batches of up to three requests that want 0, 1
  or 3 tokens with a window of 2, so that members leave the rounds at different
  times; prompts that are prefixes of each other and of outputs; seven pages and an
  optional capacity, so that allocation fails and eviction happens. `MaxBlocks` and
  `MaxClock` are above what two calls can reach.
- Disagg: two prefill and two decode nodes; loads that change the choice of peer and
  loads that rule a peer out; a block that just fills a region and one that does not
  fit; two blocks by agents of their own (`MaxBlocks`) or four tasks of a pool
  (`MaxTasks`, each node twice).
- Inference: two architectures with grouped heads and several layers; files with one
  flaw each; contexts up to their limit (`MaxFed`), and calls that keep the feed
  contract and that break it. Metal: two slots with rows of two pages of two
  tokens (`Pages`), two calls of `bind_slot` (`MaxBinds`) with rows that share pages
  or are too long, four passes (`MaxRuns`) of either request under either binding
  over contexts of 0, 1, 2, 3 and 5 tokens (`ContextLengths`): a slot crosses a page
  while the other interferes, and the fifth token is past the row, in the next
  slot's or after the mapping; error returns are tried before the first
  pass (`SetupRuns`). Tensor parallelism: six models, one of them without layers,
  on zero to three GPUs, two passes (`MaxPasses`) at positions up to 1 (`MaxPos`). Pool: two prefetches of one name (`MaxPrefetches`), one switch
  (`MaxSwitches`), one request at a time (`MaxRequests`), over files that load, fail and
  panic. Trees: every tree of four nodes (`MaxNodes`) over two tokens, every verdict.

Deadlock is not checked: the worker may park in `recv` for good or stop, the
decoding loop ends, and the cache runs are cut off by their bounds.

Fairness: the worker is a spawned task that the runtime polls again and again and
whose loop never waits except in `recv`, hence `WF(Worker)`; nothing is assumed of
clients. `EveryRequestResolves` assumes in addition that the models neither fail
nor draft nothing for ever (`FaultsAreTransient`, strong fairness of a successful
step and of a round that yields a token): without it the worker retries a failing
step for ever, by design of the loop. `HangUpFreesSlot` does not need it. The
decoding loop runs in its caller's thread, hence `WF(Next)`. In the pool the worker
and each loader thread keep running (`PoolFairness`); `PrefetchSettles` assumes no
more, and names the one way in which a prefetch may stay without an end: its
command reaches a worker that sleeps in `recv`, and no request ever comes
(`SleepsOn`), because a command does not wake the worker (`scheduler.rs:110`).

### Disagreements between code and documentation

- `admit_request` takes a slot first and returns on a failed prefill or bind without
  giving it back (`scheduler.rs:230-240`). The admission loop, "If we have free slots on
  the GPU, let waiting passengers (requests) on" (`scheduler.rs:128`), decides by the
  length of the batch; once slots are lost it pops requests that then fail with "No
  free slots". `scheduler_slot_leak` shows the shortest case.
- `evict_to_capacity` ignores the handles it evicts (`radix_cache.rs:260`), so eviction
  does not "manage GPU memory limits" (`radix_cache.rs:28`): blocks and pages of evicted
  sequences are never freed. `kv_eviction_leak` shows it.
- `verify_batch` moves the request's own matcher over all the target's choices, also
  those after the first rejection (`backend.rs:361`), so that masks no longer belong
  to the text that was kept, against "constrained generation ... with speculative
  state cloning support" (`README.md:18`). `engine_grammar` shows a text the grammar
  forbids.
- `switch_models` "Switches the default models" (`scheduler.rs:214`), but the call ends in
  the default method of the trait, which does nothing (`backend.rs:30`); the
  method of that name that `MetalBackend` has is not the trait's.
  `model_switch` shows it.

### Observations

What the models record and no property is about:

- `MetalBackend::next_logits` and `verify_logits` look pages up as blocks of no tokens,
  of which there are none, and always fail; `sample_next` does not.
- The Metal pass normalises its hidden state in place where the CPU pass keeps a
  residual, and its cells do not depend on the layer; tensor parallelism copies
  one element of the embedding and its feed-forward part sees the state before
  attention. `PagedCacheExact` and `DegreeIrrelevant` compare each with itself.
- On Metal only the last token of a context is run, so a position is exact only
  if all before it were run since the pages were bound; a row names only the
  prompt's pages, and decoding past them writes to page 0, or past the row to the
  pages of the next slot.
- A Metal backend has one bound slot for a whole batch: `generate_batch` binds the
  slots of all members before its first round (`engine.rs:313-319`), the last
  binding wins, and every member's pass goes through that row. `BatchLossless`
  and `BatchingIsLossless` take the models as functions of the text, so this is
  outside them; in `MetalModel` such passes are those not in place.
- `LlamaCpuModel::next_logits` runs only the last token of its context and
  `verify_logits` none (`let _ = context`, `llama_cpu.rs:416`), though its comment says
  "feed context + each drafted token" (`llama_cpu.rs:406`) and the trait promises one
  result "for each token in the context + drafted sequence" (`backend.rs:51-53`). It
  returns the logits after each drafted token, where the adapter's test expects the
  choice before each (`backend.rs:450-463`). The position never moves back, so
  `GreedyDraftModel` and `GreedyTargetModel`, which pass whole contexts and draft
  tokens that are then rejected, break the contract of `GenerationExact`.
- `velo-run --max-tokens 0` generates one token. Which of equal logits the GPU's
  argmax takes is up to the order in which its threads are reduced (`ArgMax` is the
  set of the best); the CPU's greedy sampler takes the last.
- `validate` does not look at element types, and a row that is no whole number of
  blocks is accepted (hence the condition in `PoolRunnable`).
- The default `verify_tree` gives a node the token expected before it, where
  `find_best_path` reads the one after it, and the root is never compared with
  anything. No loop of the crate uses trees.
- `TransferOutcome::PeerFull` does not occur, and a handoff does not reduce its
  peer's `free_tokens`.

## Proofs

`SchedulerProofs` proves, for any number of slots, pages, prompts and requests under
`ConstantsAssumption`: `TypeCorrect`, `SlotsAreIsolated`, `BudgetIsKept`, `OkIsComplete`
and `FirstComeFirstServed`. The inductive invariant joins the properties with
three facts that they need: a request that waits or is in the batch still holds
its `done` sender and a waiting one is not cancelled (`QueuedIsOpen`), a cancelled
request is passed over in the rest of its round (`CancelledIsSkipped`), and what a
round has left to send fits into the budget (`RoundFits`: this is why `generated`
never passes it). `NoOvertaking` is part of it because it implies that no request
is in two queues at once. Slot isolation follows
because a slot moves from the head of the free queue to one request and back
once.

Its second half adds what has to be counted: `SlotsAreAccountedFor` and
`MetricsAreRight`. Both follow from how each action changes one cardinality or
one sum by one; they need the invariant above, because a request that could be in
two places would be counted twice.

`SpeculativeProofs` proves, for any vocabulary, draft model, prompts, budgets and
windows under `SpeculativeAssumption` and `TargetReturnsTokens` (the target model
returns tokens): `TypeCorrect`, `BudgetIsKept`, `OutputIsWhatWasDecided`,
`WindowStaysInRange`, `SpeculationIsLossless` and `ImplementsGreedyDecoding`. The
strengthening says that a correction is pending only between `Commit` and `Take`,
that a drafted round fits the remaining budget, and that the verdict on hand was
computed for the present context (`VerdictIsCurrent`). With it, the accepted
prefix is what the target writes, by the definition of `Expected`, and the
correction is the target's token after that prefix. That a first rejected token
exists is the least-number principle, taken from well-foundedness of < on the
naturals. `StatsAlwaysAgree` adds `StatsInv`: how far each counter runs ahead of
another in each phase of a round.

`EngineBatchProofs` proves of `KvMemory` (under `KvMemoryAssumption` and `PrefixMapAssumption`)
`MemoryTypeCorrect`, `PagesAreConserved`, `CachedHandlesAreBacked`,
`StoreAndAllocatorAgree`, `PrefillAlwaysResolvesPages` and `CachedPagesNeverMove`. The
invariant `MemInv` says that no page is in two places, that blocks are numbered
below `next_block_id`, so that a new block meets no old one, and that a handle is
cached for one text only, so that a replaced handle can be released without
touching another entry. Its facts on lookup, insert and eviction are lemmas about the
operators of `PrefixMap`.

Of the batches on that memory (and under `EngineBatchAssumption`) it proves, for any
batch, models, grammar and number of calls, `SlotsAreSafe`, `BoundPagesStayLive`, `BatchingIsLossless` and
`ReturnedHandlesAreBacked`. `EngineInv` is `MemInv` and, for each member, what its
cached prefix and its output name in the memory (`HandlesOK`): still mapped, or
replaced by a later output with the same text. The budget part of `RequestsOK` is
what makes the rounds end exactly at `max_new_tokens`.

`DisaggProofs` (under `NixlAssumption` and `DisaggAssumption`) proves
`HandoffsTellTheTruth`, `EveryPrefillIsAnswered` and `LoadsAreBalanced`, for any number of
agents. `FabricInv` relates inboxes, drained blocks and logs in both directions
(`CopiesOK`, `ReportsOK`) over blocks that are numbered without repetition;
`PoolInv` says where the one block of a call of `run_prefill` is in each of its
phases, and that the loads are those of agents that take turns (`TurnsOK`).

`RadixCacheProofs` (under `RadixCacheAssumption`) proves, for any texts, capacities
and number of operations, `TreeStaysWellFormed`, `ResidentIsExact` and
`CapacityIsKept`. The properties are not inductive: that an insert finds the node of
its text, and that a handle is as long as the text it stands for, depends on the
whole path. `CacheInv` therefore asserts a labelling `T` of the nodes with texts such
that a node's text is its parent's with its edge (`Spelled`), no two nodes have one
text (`Distinct`), from each node a link leads towards every node whose text goes on
where its own ends (`Branching`), and a handle is as long as its node's text
(`Sized`). Each call of `insert_from` keeps this for the nodes it has made so far
(`InsertCallStep`), which covers the split of an edge in the middle of an insert.
Eviction reaches the limit because of the coldest node that was not taken: those
colder than it hold as many tokens as were asked for (`ColdestFrees`).

Its second part proves `ImplementsPrefixMap`: under the same assumption, the trie
implements `PrefixMapSpec`. The labelling of `CacheInv` is the refinement mapping: `TextOf`, the
text along the path, is the label (`TextOfNode`), and labels differ, so the nodes
with a handle are a map (`IsMapOf`). Then each operation maps to the operation of
the same name. For a lookup, the turns of the walk visit exactly the nodes whose
text is a prefix of the query (`WalkFacts`), which needs `Branching`: where the walk
ends, no longer prefix has a node. For an insert, the labels of the old nodes do not
change, so the split adds no entry (`PlacedRefines`). For an eviction, the sorted
order of the code with its ties is one of the orders that the map allows
(`ColdestRefines`).

`InferenceProofs` (under `CpuAssumption`, `MetalAssumption`, `PoolAssumption` and
`TreeAssumption`: tokens, lengths and widths are naturals, the numbers of a file are
unsigned, the vocabulary of the trees is finite) proves `PagingTransparent`, for any
architecture with heads of at most 128 dimensions, any weights, softmax and other
functions of the arithmetic, number of layers, slots, rows and texts, and contexts
of any length, also longer than a row. It is a statement about passes in place: of
a pass under another slot's binding, or at a position without a page, it says
only which positions of the slots it leaves alone. The arithmetic is never looked into: a layer is a
function of the hidden state and of what it reads from the cache. By induction over the layers
(`ForwardWrites`, `ForwardAgrees`), a pass writes the cell of its position and no other,
and two passes that read the same at the positions before return the same logits. `MetalInv` adds
to `PagedCacheExact` that the words of a slot's row are the pages last bound, which are
distinct, and then zeros (`MappingOK`; a word belongs to one row, `Word`), and that the
positions of a slot start at 0 and have pages (`SlotOK`). Two positions that have
pages share a place only if they are the same (`PlacesApart`), which is what a pass in
place needs (`OwnPass`); any other pass writes one cell of the pool, and the positions
before the one that lies there keep what they hold (`OtherPass`), wherever the
mapping, or the memory after it, sent it (`RowsHold`, `RowCell`).

`CachingExact`, for any files, weights, prompts and calls, compares the CPU model, under
the feed contract (which it shows `velo-run` to keep), with one that has no cache and
computes all positions of the text layer by layer. In that model the state of a
position depends on those up to it only (`Causal`), and it does so by the very function
that a layer of the code applies to its cache (`LayerAt`, `CpuLayerStep`). `CpuInv` says
that after n tokens the first n entries of every layer are those of the text fed so
far (`Serves`, `Filled`); a pass extends that by one position in every layer (`CpuPass`)
and a call by as many as it has tokens (`FeedKeeps`), so that calls can divide a text
anywhere. The mapping of the code from query heads to key-value heads is
`(h * n_head_kv) / n_head`, that of the model without a cache `h / (n_head / n_head_kv)`:
they agree if every key-value head serves equally many (`SameHeads`), which `Shared`
asks for and `validate` does not.

`TensorParallelProofs` (under `PrimeAssumption`, `TpAssumption` and `StoreAssumption`) proves
`DegreeDoesNotMatter`, for any architectures, weights, tokens, positions and numbers of
GPUs: whenever the degree divides an architecture (`Divides`: the heads make up the
state, every key-value head serves equally many, and heads and key-value heads divide
by the degree; `new` asks for none of that, only that the tensors can be cut),
`run` computes what one device computes. `TpAssumption` has the sizes positive and
elements, keys, values and results natural numbers; `StoreAssumption` has the weights
come from a store that `load_gguf` validated. Sums are modulo P and need only that
it is at least 2. The proof has three parts.

1. Arithmetic. A sum is the sum of the sums of its pieces (`TotalSplit`), so the product
   with a matrix cut along its rows is a piece of the product (`ColumnParallel`), and
   the products with a matrix cut along its columns add up to it (`RowParallel`). The heads
   of a rank are those of one device from its first head on, and read the rank's part of
   the pools (`AttendSplit`); hence the attention blocks of the ranks add up to the whole
   block (`AttnSplit`), and so do the feed-forward blocks (`MlpSplit`).
2. Sharding. What `shard_weight` returns without an error is that piece or those columns of
   the tensor, whose shape `validate` has compared (`ModelHere`, `RankRows`, `RankColumns`,
   `ShardsSplit`). So the partial results of the ranks have the sums of one device (`AttnSum`,
   `MlpSum`), and their logits are its logits, cut (`Gathered`).
3. Interleaving. `TpInv` says of every rank in a call of `run`: when the GPU has run what is
   queued and then what is being encoded, its buffers will be what the state of `run` asks for
   (`Reaches`, `Goal`), with the states of the pass on one device (`IsPass`). A step of a GPU
   changes nothing in that, a kernel that is encoded moves the goal, and where
   `run` waits, the goal is what the buffers hold (`RankDone`): only there are partial sums
   read. Without the wait this fails, as the mutant of `Completed` shows.

`ResidentModelsRun`, for any files and names, has two halves. `PoolInv` says that a
loader thread past its read has a file that `load_gguf` accepts, whatever happened to
other loads of its name. `LoadedInBounds` says what acceptance is worth: every matrix
that a forward pass multiplies with, and every norm, is among the entries that
`validate` compares (`ExpectedEntries`, `Validated`); then its slices fit if rows are whole
blocks (`RowsFit`, the arithmetic of rounding up to blocks), and no tensor ends after
the data that was read (`DataHolds`). The numbers of the model have no width: sizes
whose products leave 64 bits are outside of the theorem.

`BestPathIsMaximal`, for any vocabulary and models. `TreeInv` adds that every node comes
after its parent (`IsTree`), whether it was drafted as a bush with a stem (`BranchedIsTree`,
by induction over the depth), as a chain, or node by node by a caller; only then have
`get_path` and the pass over the agreed nodes solutions (`PathsExist`,
`AgreementExists`). The nodes of an agreed branch are agreed and their paths are its parts
(`BranchPath`), every agreed node ends such a branch (`BranchTo`), and so the last of the
longest paths, which exists (`LastLongest`), is as long as any branch.

The recursive functions of the models (`InsertFrom`, `Walk`, the texts of the target
model) are unfolded by `RecursionExists` or by the least number at which
they could fail, never by an assumption.

Only model-checked: liveness (`HangUpFreesSlot`, `EveryRequestResolves`,
`GenerateTerminates`, `PrefetchSettles`), which the prover cannot do. Every invariant and
action property of a passing run is a theorem, and so are both refinements.

## Plan

Done: scheduler, prefix cache, KV memory, speculative decoding, batches, transfer and
disaggregation, model pool and commands, loader, CPU, Metal and tensor-parallel
passes, trees; for every size, the safety of all of them and both refinements. Next:
the samplers' probabilities and the quantised kernels, for which the arithmetic
of `Transformer` would need numbers that round.

## Not modelled

- Floating point: rounding, random draws of the samplers (top-p, min-p), the power
  governor's thresholds, quantised kernels and `quant.rs`, `amx.rs`, `lora.rs`. They have no
  state, and TLC has no such numbers.
- `forward_tree` and the batched kernels of `metal/model.rs`, which nothing calls; the
  offsets of `MetalKvStore`, which are read only on the way to an error.
- The bytes of the GGUF format and of the wire format: conversion without state.
- Tokenizer: strings in, numbers out; tokens are opaque everywhere else.
- Server, FFI, benchmarks, the other command-line tools, mock backend: measuring,
  printing and wrapping what is modelled.
