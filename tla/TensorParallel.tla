--------------------------- MODULE TensorParallel ---------------------------
(***************************************************************************)
(* LlamaTensorParallelModel (metal/tp_model.rs) over sharding.rs: the      *)
(* weights of a model are split over several GPUs, each with a command     *)
(* queue of its own; run encodes kernels into command buffers, commits     *)
(* them, and waits for them where it needs what they compute.  A tensor's  *)
(* elements are of equal size, so the byte ranges of shard_weight are      *)
(* ranges of elements.  The keys and values in the pools are the caller's. *)
(***************************************************************************)
EXTENDS Transformer

CONSTANTS
    TpModels,          \* [meta, tensors] by name; a tensor is [shape, data]
    Degrees,           \* how many devices may be there
    KvEntry(_, _),     \* keys and values of an architecture at a position, of all heads
    MaxPasses,         \* bound: calls of run
    MaxPos             \* bound: the position of a token

\* The sizes of an architecture are positive, but for the number of layers;
\* elements, keys and values, and what the functions return, are numbers.
ASSUME TpAssumption ==
    /\ Degrees \subseteq Nat /\ MaxPos \in Nat
    /\ \A s \in 0..(P - 1) : NormScale(s) \in Nat /\ Silu(s) \in Nat
    /\ \A n \in 1..(MaxPos + 1) : \A s \in [1..n -> 0..(P - 1)] : Softmax(s) \in [1..n -> Nat]
    /\ \A name \in DOMAIN TpModels :
          LET m == TpModels[name].meta
              tensors == TpModels[name].tensors
              kvs == m.n_head_kv * m.head_dim
          IN  /\ {m.n_vocab, m.n_embd, m.n_head, m.n_head_kv, m.head_dim, m.n_ff} \subseteq Nat \ {0}
              /\ m.n_layer \in Nat
              /\ \A n \in DOMAIN tensors : tensors[n].data \in Seq(Nat)
              /\ \A t \in 0..MaxPos : KvEntry(m, t) \in [k : [1..kvs -> Nat], v : [1..kvs -> Nat]]

VARIABLES
    tpPc,              \* "new", "failed", "idle" or where run is
    tpModel,           \* the model's name
    tpMeta,            \* its architecture (meta)
    degree,            \* tp_degree
    shards,            \* weights by rank
    pass,              \* run's token, position and layer
    encoded,           \* by rank: the command buffer that is being encoded
    queues,            \* by rank: what was committed and has not run yet
    gpu,               \* by rank: its scratch buffers
    logits,            \* what run returned last
    whole,             \* history: the hidden state of the model on one device
    passes

tpVars == <<tpPc, tpModel, tpMeta, degree, shards, pass, encoded, queues, gpu, logits, whole, passes>>

Ranks == 0..(degree - 1)

-----------------------------------------------------------------------------
(***************************************************************************)
(* sharding.rs.                                                            *)
(***************************************************************************)

ShardStrategy(part) ==
    IF part \in {"wq", "wk", "wv", "w1", "w3", "output"} THEN "Column"
    ELSE IF part \in {"wo", "w2"} THEN "Row"
    ELSE "Replicated"

QuantBlock(quantization) == IF quantization \in {"F32", "F16"} THEN 1 ELSE 32

\* What shard_weight fails with, or "none".
ShardError(part, shape, quantization, tp) ==
    LET strategy == ShardStrategy(part)
    IN  IF tp <= 1 \/ strategy = "Replicated" THEN "none"
        ELSE IF strategy = "Column" /\ shape[Len(shape)] % tp # 0 THEN "rows"
        ELSE IF strategy = "Row" /\ shape[1] % tp # 0 THEN "cols"
        ELSE IF strategy = "Row" /\ (shape[1] \div tp) % QuantBlock(quantization) # 0 THEN "blocks"
        ELSE "none"

\* shard_weight: a range of rows, or a range of every row.
Shard(part, tensor, tp, rank) ==
    LET size == Len(tensor.data)
        rows == tensor.shape[Len(tensor.shape)]
        row == size \div rows
        piece == row \div tp
    IN  IF tp <= 1 \/ ShardStrategy(part) = "Replicated" THEN tensor.data
        ELSE IF ShardStrategy(part) = "Column"
        THEN SubSeq(tensor.data, rank * (rows \div tp) * row + 1, (rank + 1) * (rows \div tp) * row)
        ELSE FlattenSeq(Vector(rows, LAMBDA r :
                 SubSeq(tensor.data, (r - 1) * row + rank * piece + 1,
                                     (r - 1) * row + (rank + 1) * piece)))

-----------------------------------------------------------------------------
TpInit ==
    /\ tpPc = "new"
    /\ tpModel \in DOMAIN TpModels
    /\ tpMeta = TpModels[tpModel].meta
    /\ degree = 1
    /\ shards = <<>>
    /\ pass = [token |-> 0, pos |-> 0, layer |-> 0]
    /\ encoded = <<>> /\ queues = <<>> /\ gpu = <<>>
    /\ logits = <<>>
    /\ whole = <<>>
    /\ passes = 0

\* The weights of a model by rank.
Sharded(tensors, tp) ==
    [r \in 0..(tp - 1) |-> [n \in DOMAIN tensors |-> Shard(n[1], tensors[n], tp, r)]]

ShardingFails(tensors, tp) ==
    \E n \in DOMAIN tensors :
        ShardError(n[1], tensors[n].shape, tpMeta.quantization, tp) # "none"

\* new: one shard for every device.  Scratch buffers start out as zeros.
New(tp) ==
    /\ tpPc = "new"
    /\ IF tp = 0 \/ ShardingFails(TpModels[tpModel].tensors, tp)
       THEN /\ tpPc' = "failed"
            /\ UNCHANGED <<degree, shards, encoded, queues, gpu, whole>>
       ELSE /\ tpPc' = "idle"
            /\ degree' = tp
            /\ shards' = Sharded(TpModels[tpModel].tensors, tp)
            /\ encoded' = [r \in 0..(tp - 1) |-> <<>>]
            /\ queues' = [r \in 0..(tp - 1) |-> <<>>]
            /\ whole' = Zeros(tpMeta.n_embd)
            /\ gpu' = [r \in 0..(tp - 1) |->
                          [hidden |-> whole', attn |-> whole', mlp |-> whole', tmp |-> whole',
                           logits |-> <<>>]]
    /\ UNCHANGED <<tpModel, tpMeta, pass, logits, passes>>

-----------------------------------------------------------------------------
(***************************************************************************)
(* What the kernels of forward_layer compute on the device d: the rank of  *)
(* a degree tp, with the weights w of its shard, that runs the position    *)
(* pos.  There is no rotation, and nothing is written to the pools.        *)
(***************************************************************************)
PoolEntry(d, t) ==
    LET size == (d.meta.n_head_kv \div d.tp) * d.meta.head_dim
        e == KvEntry(d.meta, t)
    IN  [k |-> SubSeq(e.k, d.rank * size + 1, (d.rank + 1) * size),
         v |-> SubSeq(e.v, d.rank * size + 1, (d.rank + 1) * size)]

AttnPartial(d, hidden, l) ==
    LET n_embd == d.meta.n_embd
        head_dim == d.meta.head_dim
        n_head == d.meta.n_head \div d.tp
        n_head_kv == d.meta.n_head_kv \div d.tp
        x == RmsNorm(hidden, d.w[<<"attention_norm", l>>])
        q == MatVec(d.w[<<"wq", l>>], x, n_head * head_dim, n_embd)
        attn == Attend(q, [t \in 0..d.pos |-> PoolEntry(d, t)], d.pos, n_head, head_dim,
                       [h \in 0..(n_head - 1) |-> h \div (n_head \div n_head_kv)])
    IN  MatVec(d.w[<<"wo", l>>], attn, n_embd, n_head * head_dim)

MlpPartial(d, hidden, l) ==
    FeedForward(d.w[<<"w1", l>>], d.w[<<"w2", l>>], d.w[<<"w3", l>>],
                RmsNorm(hidden, d.w[<<"ffn_norm", l>>]), d.meta.n_embd, d.meta.n_ff \div d.tp)

\* The embed_lookup of run: a grid of one thread copies one element.
Embedded(d, hidden, token) ==
    [hidden EXCEPT ![1] = EmbeddingRow(d.w[<<"token_embd", 0>>], token, d.meta.n_embd)[1]]

FinalNorm(d, hidden) == RmsNorm(hidden, d.w[<<"output_norm", 0>>])

OutputShard(d, hidden) ==
    MatVec(d.w[<<"output", 0>>], hidden, d.meta.n_vocab \div d.tp, d.meta.n_embd)

\* A kernel, or the kernels of one forward_layer, on the buffers b of a device.
Kernel(d, op, b) ==
    CASE op[1] = "embed" -> [b EXCEPT !.hidden = Embedded(d, @, op[2])]
      [] op[1] = "layer" -> [b EXCEPT !.attn = AttnPartial(d, b.hidden, op[2]),
                                      !.mlp = MlpPartial(d, b.hidden, op[2])]
      [] op[1] = "add" -> [b EXCEPT !.hidden = Add(@, b[op[2]])]
      [] op[1] = "head" -> [b EXCEPT !.hidden = FinalNorm(d, @),
                                     !.logits = OutputShard(d, FinalNorm(d, b.hidden))]

Device(rank) ==
    [meta |-> tpMeta, w |-> shards[rank], tp |-> degree, rank |-> rank, pos |-> pass.pos]

\* A GPU takes the next of what was committed to it.
GpuStep(rank) ==
    /\ queues[rank] # <<>>
    /\ gpu' = [gpu EXCEPT ![rank] = Kernel(Device(rank), Head(queues[rank]), @)]
    /\ queues' = [queues EXCEPT ![rank] = Tail(@)]
    /\ UNCHANGED <<tpPc, tpModel, tpMeta, degree, shards, pass, encoded, logits, whole, passes>>

-----------------------------------------------------------------------------
(***************************************************************************)
(* run.                                                                    *)
(***************************************************************************)
\* Where run goes on after l layers.
AfterLayer(l) == IF l < tpMeta.n_layer THEN "layer" ELSE "head"

StartPass(token, pos) ==
    /\ tpPc = "idle" /\ passes < MaxPasses
    /\ passes' = passes + 1
    /\ pass' = [token |-> token, pos |-> pos, layer |-> 1]
    /\ encoded' = [r \in Ranks |-> << <<"embed", token>> >>]
    /\ tpPc' = AfterLayer(0)
    /\ UNCHANGED <<tpModel, tpMeta, degree, shards, queues, gpu, logits, whole>>

\* commit on every command buffer, after a last kernel.
CommitAll(op) ==
    /\ queues' = [r \in Ranks |-> queues[r] \o encoded[r] \o <<op>>]
    /\ encoded' = [r \in Ranks |-> <<>>]

\* forward_layer on every rank.  On one device its results are added in the same
\* buffer; otherwise the all-reduce of the attention outputs begins.
EncodeLayer ==
    /\ tpPc = "layer"
    /\ IF degree > 1
       THEN /\ CommitAll(<<"layer", pass.layer>>)
            /\ tpPc' = "reduce attn"
            /\ UNCHANGED pass
       ELSE /\ encoded' = [r \in Ranks |-> encoded[r] \o
                   << <<"layer", pass.layer>>, <<"add", "attn">>, <<"add", "mlp">> >>]
            /\ tpPc' = AfterLayer(pass.layer)
            /\ pass' = [pass EXCEPT !.layer = @ + 1]
            /\ UNCHANGED queues
    /\ UNCHANGED <<tpModel, tpMeta, degree, shards, gpu, logits, whole, passes>>

\* Mutant of Completed: nobody waits.
CompletedAtOnce == TRUE

\* waitUntilCompleted on every command buffer.
Completed == \A r \in Ranks : queues[r] = <<>>

SumOf(part) ==
    Vector(tpMeta.n_embd, LAMBDA i : SumTo(degree, LAMBDA r : part[r - 1][i]))

\* all_reduce_sum_and_add after its wait: the sum goes to every rank, where a
\* new command buffer adds it.
Reduce(part) == gpu' = [r \in Ranks |-> [gpu[r] EXCEPT !.tmp = SumOf(part)]]

\* The attention outputs; the all-reduce of the others begins with a commit.
ReduceAttn ==
    /\ tpPc = "reduce attn" /\ Completed
    /\ Reduce([r \in Ranks |-> gpu[r].attn])
    /\ CommitAll(<<"add", "tmp">>)
    /\ tpPc' = "reduce mlp"
    /\ UNCHANGED <<tpModel, tpMeta, degree, shards, pass, logits, whole, passes>>

ReduceMlp ==
    /\ tpPc = "reduce mlp" /\ Completed
    /\ Reduce([r \in Ranks |-> gpu[r].mlp])
    /\ encoded' = [r \in Ranks |-> << <<"add", "tmp">> >>]
    /\ tpPc' = AfterLayer(pass.layer)
    /\ pass' = [pass EXCEPT !.layer = @ + 1]
    /\ UNCHANGED <<tpModel, tpMeta, degree, shards, queues, logits, whole, passes>>

\* The final norm and a shard of the logits.
EncodeHead ==
    /\ tpPc = "head"
    /\ CommitAll(<<"head", 0>>)
    /\ tpPc' = "gather"
    /\ UNCHANGED <<tpModel, tpMeta, degree, shards, pass, gpu, logits, whole, passes>>

\* The model on one device, with all of the weights.
OneDevice(tensors, pos) ==
    [meta |-> tpMeta, w |-> [n \in DOMAIN tensors |-> tensors[n].data], tp |-> 1, rank |-> 0,
     pos |-> pos]

LayerOn(d, x, l) == Add(Add(x, AttnPartial(d, x, l)), MlpPartial(d, x, l))

\* The final state after a token, from the hidden state that was there.
FinalState(d, hidden, token) ==
    LET x[l \in 0..d.meta.n_layer] ==
            IF l = 0 THEN Embedded(d, hidden, token) ELSE LayerOn(d, x[l - 1], l)
    IN  FinalNorm(d, x[d.meta.n_layer])

\* Wait, and the shards of the logits one after the other.
Gather ==
    /\ tpPc = "gather" /\ Completed
    /\ logits' = FlattenSeq(Vector(degree, LAMBDA r : gpu[r - 1].logits))
    /\ whole' = FinalState(OneDevice(TpModels[tpModel].tensors, pass.pos), whole, pass.token)
    /\ tpPc' = "idle"
    /\ UNCHANGED <<tpModel, tpMeta, degree, shards, pass, encoded, queues, gpu, passes>>

TpNext ==
    \/ \E tp \in Degrees : New(tp)
    \/ \E token \in 0..(tpMeta.n_vocab - 1), pos \in 0..MaxPos : StartPass(token, pos)
    \/ EncodeLayer \/ ReduceAttn \/ ReduceMlp \/ EncodeHead \/ Gather
    \/ \E rank \in DOMAIN queues : GpuStep(rank)

-----------------------------------------------------------------------------
\* A degree that divides an architecture: the heads make up the state, and
\* every device has the same number of key-value heads and of their heads.
Divides(tp, m) ==
    /\ Shared(m) /\ m.n_head * m.head_dim = m.n_embd
    /\ m.n_head % tp = 0 /\ m.n_head_kv % tp = 0

\* The number of devices does not change what is computed: if it divides the
\* architecture, then after every call of run the hidden state of every rank
\* and the logits are those of the model on one device, in whatever order the
\* GPUs execute what is committed to them.
DegreeIrrelevant ==
    (tpPc = "idle" /\ passes > 0 /\ Divides(degree, tpMeta)) =>
        /\ \A r \in Ranks : gpu[r].hidden = whole
        /\ logits = OutputShard(OneDevice(TpModels[tpModel].tensors, pass.pos), whole)
=============================================================================
