----------------------------- MODULE MetalModel -----------------------------
(***************************************************************************)
(* MetalBackend and the slot mapping of MetalMemoryRuntime: what the GPU   *)
(* computes for a request whose keys and values lie in pages that a row of *)
(* the slot mapping names (metal/backend.rs, metal/model.rs, the slot      *)
(* mapping of metal/runtime.rs, and the kernels forward dispatches).  The  *)
(* cache is of type Fp32, and dispatch_matvec takes the f32 kernel.        *)
(*                                                                         *)
(* A kernel runs after the one before it in its command buffer, and run    *)
(* waits for the buffer, so a forward pass is one step; the rope kernel's  *)
(* accesses past the end of its buffers are left out.  A position past the *)
(* end of a row is found through the next slot's row, and past the last    *)
(* row through a word that follows the mapping in memory, which may name   *)
(* any page of the pool; that it names none, and the pass then writes      *)
(* outside the pool, is left out too.                                      *)
(***************************************************************************)
EXTENDS Transformer

CONSTANTS
    MetalMeta,      \* the architecture of the model
    MetalWeights,   \* its tensors, by <<part, layer>>
    Pages,          \* pages of the pool, also the length of a row
    BlockTokens,    \* tokens of a page
    SlotCount,      \* slots, which are numbered from 0
    RowChoices,     \* page lists that bind_slot is called with
    Handles,        \* handles of cached prefixes
    MetalText,      \* the tokens of the request that holds a slot
    ContextLengths, \* lengths of the contexts that are run
    SetupRuns,      \* bound: passes until which prefixes come and go and calls fail
    MaxRuns,        \* bound: forward passes
    MaxBinds        \* bound: calls of the runtime's bind_slot

\* The pages of a span are distinct (paged_attention.rs).  A head has at most
\* 128 dimensions: paged_attention_flash accumulates in an array of that size
\* (kernels.metal) and nothing checks it, so beyond it the pass is undefined.
ASSUME MetalAssumption ==
    /\ Pages \in Nat \ {0} /\ BlockTokens \in Nat \ {0} /\ SlotCount \in Nat
    /\ MetalMeta.n_layer \in Nat \ {0} /\ MetalMeta.head_dim <= 128
    /\ ContextLengths \subseteq Nat
    /\ \A pages \in RowChoices : Len(pages) <= Pages =>
          /\ pages \in Seq(0..(Pages - 1))
          /\ \A i, j \in DOMAIN pages : pages[i] = pages[j] => i = j

VARIABLES
    backend,        \* [model, wired, prefix, slot]
    mapping,        \* slot_mapping: a row of Pages words for each slot, in one buffer
    kvPool,         \* k_pool and v_pool: page to token to keys and values
    spans,          \* the handles the allocator has a span for
    result,         \* what the last call returned
    bound,          \* history: the pages last bound to a slot
    own,            \* history: the positions 0..n that are the slot's own
    contiguous,     \* history: each slot's cache if it were in pages of its own
    metalRuns, metalBinds

metalVars == <<backend, mapping, kvPool, spans, result, bound, own, contiguous,
               metalRuns, metalBinds>>

None == "none"
MetalSlots == 0..(SlotCount - 1)
NoSlot == SlotCount     \* no slot was bound

EmptyPool ==
    LET entry == [k |-> Zeros(MetalMeta.n_head_kv * MetalMeta.head_dim),
                  v |-> Zeros(MetalMeta.n_head_kv * MetalMeta.head_dim)]
    IN  [p \in 0..(Pages - 1) |-> [t \in 0..(BlockTokens - 1) |-> entry]]

EmptyMapping == [word \in 0..(SlotCount * Pages - 1) |-> 0]

MetalInit ==
    /\ backend = [model |-> FALSE, wired |-> FALSE, prefix |-> None, slot |-> NoSlot]
    /\ mapping = EmptyMapping
    /\ kvPool = EmptyPool
    /\ spans = Handles
    /\ result = [outcome |-> None]
    /\ bound = [s \in MetalSlots |-> <<>>]
    /\ own = [s \in MetalSlots |-> {}]
    /\ contiguous = [s \in MetalSlots |-> EmptyPool]
    /\ metalRuns = 0 /\ metalBinds = 0

-----------------------------------------------------------------------------
(***************************************************************************)
(* LlamaMetalModel::forward.                                               *)
(***************************************************************************)
\* The rope kernel: an element turns with its neighbour.
MetalRope(x, pos, head_dim) ==
    Vector(Len(x), LAMBDA j :
        LET i == ((j - 1) % head_dim) \div 2
        IN  IF j % 2 = 1
            THEN (x[j] * Cos(pos, i) + (P - Sin(pos, i)) * x[j + 1]) % P
            ELSE (x[j - 1] * Sin(pos, i) + x[j] * Cos(pos, i)) % P)

\* Where kv_update writes and paged_attention_flash reads a position.
Cell(row, pos) == <<row[pos \div BlockTokens], pos % BlockTokens>>

\* The attention of a layer on the state s = [hidden, pool], with the weights w
\* and hidden the normalised state: the norm overwrites the hidden state, and
\* the cells do not depend on the layer.
MetalAttention(w, l, pos, row, hidden, pool) ==
    LET m == MetalMeta
        q == MetalRope(MatVec(w[<<"wq", l>>], hidden, m.n_embd, m.n_embd), pos, m.head_dim)
        attn == Attend(q, [t \in 0..pos |-> pool[Cell(row, t)[1]][Cell(row, t)[2]]],
                       pos, m.n_head, m.head_dim,
                       [h \in 0..(m.n_head - 1) |-> h \div (m.n_head \div m.n_head_kv)])
    IN  [hidden |-> Add(hidden, MatVec(w[<<"wo", l>>], attn, m.n_embd, m.n_embd)), pool |-> pool]

\* The keys and values of a token go to the cell of its position.
KvUpdate(w, l, pos, row, hidden, pool) ==
    LET m == MetalMeta
        kvs == m.n_head_kv * m.head_dim
        c == Cell(row, pos)
    IN  [pool EXCEPT ![c[1]][c[2]] =
            [k |-> MetalRope(MatVec(w[<<"wk", l>>], hidden, kvs, m.n_embd), pos, m.head_dim),
             v |-> MatVec(w[<<"wv", l>>], hidden, kvs, m.n_embd)]]

\* The feed-forward part of a layer.
MetalMlp(w, l, x) ==
    Add(x, FeedForward(w[<<"w1", l>>], w[<<"w2", l>>], w[<<"w3", l>>],
                       RmsNorm(x, w[<<"ffn_norm", l>>]), MetalMeta.n_embd, MetalMeta.n_ff))

MetalLayer(w, l, pos, row, s) ==
    LET hidden == RmsNorm(s.hidden, w[<<"attention_norm", l>>])
        a == MetalAttention(w, l, pos, row, hidden, KvUpdate(w, l, pos, row, hidden, s.pool))
    IN  [a EXCEPT !.hidden = MetalMlp(w, l, @)]

MetalHead(w, x) ==
    MatVec(w[<<"output", 0>>], RmsNorm(x, w[<<"output_norm", 0>>]),
           MetalMeta.n_vocab, MetalMeta.n_embd)

\* The token's row of the embedding goes through the layers and the head.
MetalForward(w, token, pos, row, pool) ==
    LET s[l \in 0..MetalMeta.n_layer] ==
            IF l = 0
            THEN [hidden |-> EmbeddingRow(w[<<"token_embd", 0>>], token, MetalMeta.n_embd),
                  pool |-> pool]
            ELSE MetalLayer(w, l, pos, row, s[l - 1])
        ended(end) == [logits |-> MetalHead(w, end.hidden), pool |-> end.pool]
    IN  ended(s[MetalMeta.n_layer])

\* The tokens the argmax kernel may return: which of equal logits it keeps is up
\* to the order in which its threads are reduced.
ArgMax(logits) ==
    {i - 1 : i \in {j \in DOMAIN logits : \A k \in DOMAIN logits : logits[k] <= logits[j]}}

-----------------------------------------------------------------------------
(***************************************************************************)
(* The backend's calls.                                                    *)
(***************************************************************************)
Quiet == UNCHANGED <<mapping, kvPool, spans, result, bound, own, contiguous, metalRuns, metalBinds>>

\* with_model: a model without a runtime.
WithModel == ~backend.model /\ backend' = [backend EXCEPT !.model = TRUE] /\ Quiet

\* wire; a runtime without a device, a queue or a library changes nothing.
Wire == ~backend.wired /\ backend' = [backend EXCEPT !.model = TRUE, !.wired = TRUE] /\ Quiet

BindPrefixCache(h) == metalRuns <= SetupRuns /\ backend' = [backend EXCEPT !.prefix = h] /\ Quiet

BindSlot(s) == backend' = [backend EXCEPT !.slot = s] /\ Quiet

\* A call that returns an error changes nothing.
Fail ==
    /\ metalRuns <= SetupRuns
    /\ result' = [outcome |-> "error"]
    /\ UNCHANGED <<backend, mapping, kvPool, spans, bound, own, contiguous, metalRuns, metalBinds>>

\* MetalMemoryRuntime::bind_slot: the rest of a row is page 0.
RuntimeBindSlot(s, pages) ==
    IF Len(pages) > Pages THEN Fail
    ELSE /\ metalBinds < MaxBinds /\ metalBinds' = metalBinds + 1
         /\ mapping' = [word \in DOMAIN mapping |->
                IF word \div Pages # s THEN mapping[word]
                ELSE IF word % Pages < Len(pages) THEN pages[(word % Pages) + 1] ELSE 0]
         /\ bound' = [bound EXCEPT ![s] = pages]
         /\ own' = [own EXCEPT ![s] = {}]
         /\ UNCHANGED <<backend, kvPool, spans, result, contiguous, metalRuns>>

\* The allocator releases the pages of a prefix.
ReleaseSpan(h) ==
    /\ metalRuns <= SetupRuns /\ h \in spans
    /\ spans' = spans \ {h}
    /\ UNCHANGED <<backend, mapping, kvPool, result, bound, own, contiguous, metalRuns, metalBinds>>

\* The checks of sample_next, in its order.
SampleError(len) ==
    IF ~backend.model THEN "not initialized"
    ELSE IF ~backend.wired THEN "not wired"
    ELSE IF backend.prefix = None THEN "no prefix"
    ELSE IF backend.prefix = "no handle" THEN "no handle"
    ELSE IF backend.prefix \notin spans THEN "no span"
    ELSE IF len = 0 THEN "empty context"
    ELSE IF backend.slot = NoSlot THEN "no slot"
    ELSE None

\* The checks of next_logits and verify_logits: they look the pages of the span
\* up as blocks of no tokens, and there are none.  An empty context stops
\* next_logits only.
LogitsError(len) ==
    IF backend.wired /\ len = 0 THEN "empty context"
    ELSE IF SampleError(1) \in {None, "no slot"} THEN "no block"
    ELSE SampleError(1)

\* Mutant of Rows: every slot is looked up in the row of the first.
RowsOfFirst(s, pos) ==
    {row \in [0..(pos \div BlockTokens) -> 0..(Pages - 1)] :
        \A i \in DOMAIN row : i \in DOMAIN mapping => row[i] = mapping[i]}

\* What the words of a slot's row may be up to the one of pos, as the kernels
\* index them: without a bound.
Rows(s, pos) ==
    {row \in [0..(pos \div BlockTokens) -> 0..(Pages - 1)] :
        \A i \in DOMAIN row : s * Pages + i \in DOMAIN mapping => row[i] = mapping[s * Pages + i]}

\* The row of a contiguous cache.
OwnRow == [i \in 0..(Pages - 1) |-> i]

\* No page of the pool.
NoPage == Pages

\* The page of a position, as the caller of bind_slot meant it.
PageOf(s, pos) ==
    LET i == pos \div BlockTokens + 1
    IN  IF i \in DOMAIN bound[s] THEN bound[s][i] ELSE NoPage

\* The cell of a position, as the caller of bind_slot meant it.
CellOf(s, pos) == <<PageOf(s, pos), pos % BlockTokens>>

\* A pass of request r at pos is in its place if r's own slot is bound and the
\* position has a page.
InPlace(r, s, pos) == r = s /\ PageOf(s, pos) # NoPage

\* A forward pass of request r at pos ran through the row of slot s, with the
\* result f.  Passes in place are repeated over the contiguous cache, and make
\* the position the slot's own if those before it are.  Any other pass takes
\* from every slot the position whose cell it wrote, and those after it.
Ran(r, s, pos, row, f, repeated) ==
    LET cell == IF PageOf(s, pos) = NoPage THEN Cell(row, pos) ELSE CellOf(s, pos)
        kept(u) == {p \in own[u] : \A t \in 0..p : CellOf(u, t) # cell}
        right == InPlace(r, s, pos)
    IN  /\ metalRuns < MaxRuns /\ metalRuns' = metalRuns + 1
        /\ kvPool' = f.pool
        /\ contiguous' = IF right THEN [contiguous EXCEPT ![s] = repeated.pool] ELSE contiguous
        /\ own' = [u \in MetalSlots |->
                      IF u # s \/ ~right THEN kept(u)
                      ELSE own[s] \cup {p \in {pos} : 0..(pos - 1) \subseteq own[s]}]
        /\ result' = [outcome |-> "ran", logits |-> f.logits, tokens |-> ArgMax(f.logits),
                      exact |-> right /\ pos \in own'[s],
                      contiguous |-> IF right THEN repeated.logits ELSE <<>>]
        /\ UNCHANGED <<backend, mapping, spans, bound, metalBinds>>

\* sample_next on the first len tokens of request r: one forward pass of the
\* last one, for the slot that was bound last, whosever it is; the position is
\* not compared with the slot's pages.
SampleNext(r, len) ==
    IF SampleError(len) # None THEN Fail
    ELSE LET s == backend.slot
             forward(row, pool) == MetalForward(MetalWeights, MetalText[r][len], len - 1, row, pool)
         IN  \E row \in Rows(s, len - 1) :
                Ran(r, s, len - 1, row, forward(row, kvPool), forward(OwnRow, contiguous[s]))

\* next_logits and verify_logits.
Logits(len) == LogitsError(len) # None /\ Fail

MetalNext ==
    \/ WithModel \/ Wire
    \/ \E h \in Handles \cup {"no handle"} : BindPrefixCache(h) \/ ReleaseSpan(h)
    \/ \E s \in MetalSlots : BindSlot(s) \/ \E pages \in RowChoices : RuntimeBindSlot(s, pages)
    \/ \E len \in ContextLengths : Logits(len) \/ \E r \in MetalSlots : SampleNext(r, len)

-----------------------------------------------------------------------------
\* Paging is transparent: a forward pass of a slot computes what it would over
\* a contiguous cache of its own, and its own positions hold what its passes
\* wrote last, however the passes of the slots interleave; as long as every
\* position it reads is its own: run by the slot's request, through the slot's
\* row, since its pages were bound, with a page bound for it, and not written
\* over by another pass since.  A pass under another slot's binding, or at a
\* position past the bound pages, goes wherever the mapping says: its own
\* logits are not promised, and it spoils no more than the positions from the
\* one in the cell it wrote.
PagedCacheExact ==
    /\ result.outcome = "ran" /\ result.exact => result.logits = result.contiguous
    /\ \A s \in MetalSlots : \A pos \in own[s] :
          kvPool[PageOf(s, pos)][pos % BlockTokens]
              = contiguous[s][pos \div BlockTokens][pos % BlockTokens]
=============================================================================
