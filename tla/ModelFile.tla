----------------------------- MODULE ModelFile -----------------------------
(***************************************************************************)
(* Loading a model: the GGUF reader of gguf.rs and load_gguf of            *)
(* model_loader.rs, as a function from a file to a weight store or to the  *)
(* kind of error.  A file is                                               *)
(*    opens, magic, version, complete: whether it can be opened, starts    *)
(*        with the GGUF magic, its version, whether its header is whole;   *)
(*    meta: the metadata, by key, each value with its type; the value of   *)
(*        an array is its length;                                          *)
(*    tensors: its tensor table, in the order of the file;                 *)
(*    data: the bytes that follow the header and its padding.              *)
(* A tensor's name is <<part, layer>>, with layer 0 for those outside the  *)
(* layers.                                                                 *)
(***************************************************************************)
EXTENDS Naturals, Sequences, SequencesExt

\* The numbers of a file are unsigned.
Unsigned(file) ==
    /\ \A key \in DOMAIN file.meta :
          file.meta[key].type \in {"U32", "U64", "Array"} => file.meta[key].value \in Nat
    /\ Len(file.tensors) \in Nat /\ DOMAIN file.tensors = 1..Len(file.tensors)
    /\ \A i \in DOMAIN file.tensors :
          file.tensors[i].shape \in Seq(Nat) /\ file.tensors[i].offset \in Nat

\* GgmlType::block_params: bytes and elements of a block, for the types that
\* GgmlType::from_u32 knows.
BlockParams ==
    [F32 |-> <<4, 1>>, I32 |-> <<4, 1>>, F16 |-> <<2, 1>>, I16 |-> <<2, 1>>,
     BF16 |-> <<2, 1>>, Q4_0 |-> <<18, 32>>, Q4_1 |-> <<20, 32>>,
     Q5_0 |-> <<22, 32>>, Q5_1 |-> <<24, 32>>, Q8_0 |-> <<34, 32>>,
     Q8_1 |-> <<36, 32>>, Q2K |-> <<84, 256>>, Q3K |-> <<110, 256>>,
     Q4K |-> <<144, 256>>, Q5K |-> <<176, 256>>, Q6K |-> <<210, 256>>,
     Q8K |-> <<292, 256>>, I8 |-> <<1, 1>>, I64 |-> <<8, 1>>, F64 |-> <<8, 1>>]

\* The ? of a result: the first error counts.
Then(error, next) == IF error = "none" THEN next ELSE error

DivCeil(a, b) == (a + b - 1) \div b

NBytes(dtype, n) == DivCeil(n, BlockParams[dtype][2]) * BlockParams[dtype][1]

NElements(shape) ==
    LET product[i \in 0..Len(shape)] == IF i = 0 THEN 1 ELSE product[i - 1] * shape[i]
    IN  product[Len(shape)]

\* read_value and read_array_elem: the types of a value; an array has no arrays.
ElementTypes == {"U8", "I8", "U16", "I16", "U32", "I32", "F32", "Bool", "String",
                 "U64", "I64", "F64"}

ValueError(v) ==
    IF \/ v.type \in ElementTypes
       \/ v.type = "Array" /\ (v.value = 0 \/ v.elem \in ElementTypes)
    THEN "none" ELSE "UnknownType"

\* as_u32, as_u64 and as_array of a value that may be missing.
Has(meta, key, types) == key \in DOMAIN meta /\ meta[key].type \in types

Or(meta, key, types, default) == IF Has(meta, key, types) THEN meta[key].value ELSE default

U32 == {"U32"}
U64 == {"U64", "U32"}

TensorError(t) ==
    IF Len(t.shape) > 4 THEN "Malformed"
    ELSE IF t.dtype \notin DOMAIN BlockParams THEN "UnknownType"
    ELSE "none"

\* GgufFile::read: "none" or what it fails with.  An alignment of zero divides
\* by zero.
ReadError(file) ==
    LET bad == {i \in DOMAIN file.tensors : TensorError(file.tensors[i]) # "none"}
    IN  IF ~file.magic THEN "BadMagic"
        ELSE IF file.version \notin 1..3 THEN "UnsupportedVersion"
        ELSE IF \E k \in DOMAIN file.meta : ValueError(file.meta[k]) # "none" THEN "UnknownType"
        ELSE IF bad # {} THEN TensorError(file.tensors[Min(bad)])
        ELSE IF ~file.complete THEN "Io"
        ELSE IF Or(file.meta, "alignment", U64, 32) = 0 THEN "panic"
        ELSE "none"

\* GgufFile.tensors: the last entry of a name counts.
Index(file) ==
    [n \in {file.tensors[i].name : i \in DOMAIN file.tensors} |->
        LET e == file.tensors[Max({i \in DOMAIN file.tensors : file.tensors[i].name = n})]
        IN  [shape |-> e.shape, dtype |-> e.dtype, offset |-> e.offset,
             nbytes |-> NBytes(e.dtype, NElements(e.shape))]]

\* Where the last tensor ends; read_all_tensors reads that many bytes.
DataEnd(index) ==
    LET ends == {index[n].offset + index[n].nbytes : n \in DOMAIN index}
    IN  IF ends = {} THEN 0 ELSE CHOOSE e \in ends : \A f \in ends : f <= e

Required == {"embedding_length", "block_count", "head_count", "feed_forward_length"}

\* ModelMeta::from_gguf: "none" or what it fails with.
MetaError(meta) ==
    IF \/ ~Has(meta, "tokens", {"Array"}) /\ ~Has(meta, "vocab_size", U32)
       \/ \E key \in Required : ~Has(meta, key, U32)
    THEN "MissingMeta"
    ELSE IF meta.head_count.value = 0 THEN "panic"    \* head_dim = n_embd / n_head
    ELSE "none"

\* infer_quantization looks for a tensor name that validate does not know, then
\* at the embedding.
Quantization(index) ==
    LET probe == IF <<"blk.attn_q", 0>> \in DOMAIN index
                 THEN <<"blk.attn_q", 0>> ELSE <<"token_embd", 0>>
    IN  IF probe \in DOMAIN index /\ index[probe].dtype = "Q4K" THEN "Q4K" ELSE "Q4_0"

ModelMeta(meta, index) ==
    [n_vocab |-> Or(meta, "tokens", {"Array"}, Or(meta, "vocab_size", U32, 0)),
     n_embd |-> meta.embedding_length.value,
     n_layer |-> meta.block_count.value,
     n_head |-> meta.head_count.value,
     n_head_kv |-> Or(meta, "head_count_kv", U32, meta.head_count.value),
     n_ctx |-> Or(meta, "context_length", U32, 4096),
     n_ff |-> meta.feed_forward_length.value,
     head_dim |-> meta.embedding_length.value \div meta.head_count.value,
     quantization |-> Quantization(index)]

-----------------------------------------------------------------------------
(***************************************************************************)
(* WeightStore::validate.                                                  *)
(***************************************************************************)

\* The tensors of the architecture in the order they are checked.
Expected(m) ==
    LET kv == m.n_head_kv * m.head_dim
        layer(l) == << <<<<"attention_norm", l>>, <<m.n_embd>>>>,
                       <<<<"wq", l>>, <<m.n_embd, m.n_embd>>>>,
                       <<<<"wk", l>>, <<m.n_embd, kv>>>>,
                       <<<<"wv", l>>, <<m.n_embd, kv>>>>,
                       <<<<"wo", l>>, <<m.n_embd, m.n_embd>>>>,
                       <<<<"ffn_norm", l>>, <<m.n_embd>>>>,
                       <<<<"w1", l>>, <<m.n_embd, m.n_ff>>>>,
                       <<<<"w2", l>>, <<m.n_ff, m.n_embd>>>>,
                       <<<<"w3", l>>, <<m.n_embd, m.n_ff>>>> >>
    IN  << <<<<"token_embd", 0>>, <<m.n_embd, m.n_vocab>>>> >>
        \o [i \in 1..(9 * m.n_layer) |-> layer((i + 8) \div 9)[((i - 1) % 9) + 1]]
        \o << <<<<"output_norm", 0>>, <<m.n_embd>>>>,
              <<<<"output", 0>>, <<m.n_embd, m.n_vocab>>>> >>

CheckError(index, name, shape) ==
    IF name \notin DOMAIN index THEN "MissingTensor"
    ELSE IF index[name].shape # shape THEN "InvalidShape"
    ELSE "none"

\* Mutant of ValidateError: the tensors have to be there in any shape.
ValidateErrorPresence(m, index) ==
    IF \E i \in DOMAIN Expected(m) : Expected(m)[i][1] \notin DOMAIN index
    THEN "MissingTensor" ELSE "none"

ValidateError(m, index) ==
    LET list == Expected(m)
        failed == {i \in DOMAIN list : CheckError(index, list[i][1], list[i][2]) # "none"}
    IN  IF failed = {} THEN "none"
        ELSE CheckError(index, list[Min(failed)][1], list[Min(failed)][2])

\* load_gguf, from the open to validate, with the index that read builds.
LoadError(file, index) ==
    IF ~file.opens THEN "Io"
    ELSE Then(ReadError(file),
              Then(MetaError(file.meta),
                   IF DataEnd(index) > file.data THEN "Io"
                   ELSE ValidateError(ModelMeta(file.meta, index), index)))

LoadIndexed(file, index) ==
    LET error == LoadError(file, index)
    IN  IF error = "none"
        THEN [outcome |-> "ok", meta |-> ModelMeta(file.meta, index), index |-> index,
              data |-> DataEnd(index)]
        ELSE [outcome |-> error]

LoadGguf(file) == LoadIndexed(file, Index(file))

-----------------------------------------------------------------------------
(***************************************************************************)
(* What the forward passes read of a store.                                *)
(***************************************************************************)

\* The matrices forward_one multiplies with, with rows and columns as it
\* passes them to matvec_quant, and the embedding it takes one row of.
Multiplied(m) ==
    LET q == m.n_head * m.head_dim
        kv == m.n_head_kv * m.head_dim
    IN  {<<<<part, 0>>, m.n_vocab, m.n_embd>> : part \in {"token_embd", "output"}}
        \cup UNION {{<<<<"wq", l>>, q, m.n_embd>>, <<<<"wk", l>>, kv, m.n_embd>>,
                     <<<<"wv", l>>, kv, m.n_embd>>, <<<<"wo", l>>, m.n_embd, q>>,
                     <<<<"w1", l>>, m.n_ff, m.n_embd>>, <<<<"w3", l>>, m.n_ff, m.n_embd>>,
                     <<<<"w2", l>>, m.n_embd, m.n_ff>>} : l \in 1..m.n_layer}

Norms(m) == {<<"output_norm", 0>>}
    \cup {<<part, l>> : part \in {"attention_norm", "ffn_norm"}, l \in 1..m.n_layer}

\* A row of a quantised matrix is a whole number of blocks.
WholeBlocks(store) ==
    \A x \in Multiplied(store.meta) : x[3] % BlockParams[store.index[x[1]].dtype][2] = 0

\* Every slice that forward_one takes lies within the tensor, which lies
\* within the data, and every norm has a weight for each element.
InBounds(store) ==
    /\ \A x \in Multiplied(store.meta) :
          LET t == store.index[x[1]]
          IN  x[2] * NBytes(t.dtype, x[3]) <= t.nbytes
    /\ \A n \in Norms(store.meta) :
          NElements(store.index[n].shape) = store.meta.n_embd
    /\ \A n \in DOMAIN store.index :
          store.index[n].offset + store.index[n].nbytes <= store.data
=============================================================================
