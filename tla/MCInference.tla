---------------------------- MODULE MCInference ----------------------------
(***************************************************************************)
(* Instances of Inference for TLC: small architectures with weights from a *)
(* simple generator, numbers modulo a small prime, and functions that tell *)
(* different arguments apart for those that are no polynomials.            *)
(***************************************************************************)
EXTENDS Inference, TLC

MCNormScale(s) == (2 * s + 1) % P
MCSilu(x) == (x * x + x) % P
MCSoftmax(s) == Vector(Len(s), LAMBDA i : (s[i] * s[i] + i) % P)
MCCos(pos, i) == (1 + pos * (i + 2)) % P
MCSin(pos, i) == (pos + 3 * i) % P

Meta(vocab, embd, layers, heads, kv, ff, ctx) ==
    LET u32(n) == [type |-> "U32", value |-> n]
    IN  [tokens |-> [type |-> "Array", elem |-> "String", value |-> vocab],
         embedding_length |-> u32(embd), block_count |-> u32(layers), head_count |-> u32(heads),
         head_count_kv |-> u32(kv), feed_forward_length |-> u32(ff), context_length |-> u32(ctx)]

\* Tensors one after the other.
LaidOut(list, dtype) ==
    LET after(ts) == IF ts = <<>> THEN 0
                     ELSE Last(ts).offset + NBytes(dtype, NElements(Last(ts).shape))
    IN  FoldLeft(LAMBDA ts, e : Append(ts, [name |-> e[1], shape |-> e[2], dtype |-> dtype,
                                            offset |-> after(ts)]),
                 <<>>, list)

\* A file with the tensors an architecture asks for.
FileWith(meta, dtype, tensors) ==
    [opens |-> TRUE, magic |-> TRUE, version |-> 3, complete |-> TRUE, meta |-> meta,
     tensors |-> tensors,
     data |-> Last(tensors).offset + NBytes(dtype, NElements(Last(tensors).shape))]

TensorsOf(meta) == Expected(ModelMeta(meta, << >>))

FileOf(meta, dtype) == FileWith(meta, dtype, LaidOut(TensorsOf(meta), dtype))

Grouped == Meta(3, 4, 2, 2, 1, 2, 3)
Wide == Meta(2, 4, 1, 4, 2, 3, 4)

\* A file, and the same file with a flaw of each kind.
WithFlaws(file) ==
    [wide |-> file,
     closed |-> [file EXCEPT !.opens = FALSE],
     foreign |-> [file EXCEPT !.magic = FALSE],
     future |-> [file EXCEPT !.version = 4],
     cut |-> [file EXCEPT !.data = @ - 1],
     torn |-> [file EXCEPT !.complete = FALSE],
     deep |-> [file EXCEPT !.tensors[1].shape = <<1, 1, 1, 1, 1>>],
     unknown |-> [file EXCEPT !.tensors[1].dtype = "IQ4"],
     headless |-> [file EXCEPT !.meta.head_count.value = 0],
     signed |-> [file EXCEPT !.meta.block_count.type = "I32"],
     nested |-> [file EXCEPT !.meta.tokens.elem = "Array"],
     unaligned |-> [file EXCEPT !.meta = @ @@ ("alignment" :> [type |-> "U64", value |-> 0])],
     sized |-> [file EXCEPT !.meta = [x \in DOMAIN @ \ {"tokens"} |-> @[x]]
                                     @@ ("vocab_size" :> [type |-> "U32", value |-> 2])],
     narrow |-> [file EXCEPT !.tensors[3].shape = <<4, 2>>],
     partial |-> [file EXCEPT !.tensors = Tail(@)]]

Files == ("grouped" :> FileOf(Grouped, "F32")) @@ WithFlaws(FileOf(Wide, "F32"))
MCRunFiles == Files

Salt(part) == CHOOSE i \in 1..12 :
    <<"token_embd", "output", "output_norm", "attention_norm", "wq", "wk", "wv", "wo",
      "ffn_norm", "w1", "w2", "w3">>[i] = part

Generated(n, size) ==
    Vector(size, LAMBDA i : (i * i + Salt(n[1]) * i + 3 * n[2] + Salt(n[1])) % P)

\* The weights of an architecture, tabulated.
WeightsOf(list) ==
    FoldLeft(LAMBDA f, e : f @@ (e[1] :> Generated(e[1], NElements(e[2]))), << >>, list)

FileWeights(grouped, wide) == ("grouped" :> grouped) @@ ("wide" :> wide) @@ ("sized" :> wide)

Tabulated == FileWeights(WeightsOf(TensorsOf(Grouped)), WeightsOf(TensorsOf(Wide)))
MCWeights == Tabulated

MCRunArgs == {[prompt |-> <<>>, max_tokens |-> 1], [prompt |-> <<1>>, max_tokens |-> 0],
              [prompt |-> <<1, 0>>, max_tokens |-> 2], [prompt |-> <<0>>, max_tokens |-> 3],
              [prompt |-> <<2>>, max_tokens |-> 1]}
MCApiCalls == {<<>>, <<1>>, <<0, 1>>, <<1, 1, 0>>}

\* Two layers.
NarrowMeta == [n_vocab |-> 2, n_embd |-> 2, n_layer |-> 2, n_head |-> 1, n_head_kv |-> 1,
               n_ctx |-> 4, n_ff |-> 1, head_dim |-> 2]
NarrowWeights == WeightsOf(Expected(NarrowMeta))
MCMetalMeta == NarrowMeta
MCMetalWeights == NarrowWeights
MCMetalText == (0 :> <<1, 0, 1, 1, 0>>) @@ (1 :> <<0, 1, 1, 0, 0>>)
MCRowChoices == {<<0>>, <<1, 0>>, <<0, 1, 0>>}

\* A model with its tensors; the quantization is the one of dummy_llama.
TpModelWith(m, quantization, list) ==
    [meta |-> [m EXCEPT !.quantization = quantization],
     tensors |-> FoldLeft(LAMBDA f, e : f @@ (e[1] :> [shape |-> e[2],
                                                      data |-> Generated(e[1], NElements(e[2]))]),
                          << >>, list)]
TpModelOf(meta, quantization) ==
    TpModelWith(ModelMeta(meta, << >>), quantization, TensorsOf(meta))
Models ==
    [even |-> TpModelOf(Meta(2, 4, 1, 2, 2, 2, 4), "F32"),
     grouped |-> TpModelOf(Meta(2, 4, 2, 4, 2, 2, 4), "F32"),
     blocks |-> TpModelOf(Meta(2, 4, 1, 2, 2, 2, 4), "Q4_0"),
     triple |-> TpModelOf(Meta(3, 3, 1, 3, 3, 3, 4), "F32"),
     odd |-> TpModelOf(Meta(2, 6, 1, 3, 3, 2, 4), "F32"),
     shallow |-> TpModelOf(Meta(2, 2, 0, 2, 2, 2, 4), "F32")]
MCTpModels == Models

MCKvEntry(m, t) ==
    LET size == m.n_head_kv * m.head_dim
    IN  [k |-> Vector(size, LAMBDA i : (i + 2 * t + 1) % P),
         v |-> Vector(size, LAMBDA i : (i * i + t + 2) % P)]

\* What a loader thread may meet: files that load, with and without whole
\* blocks, one that fails, and one that panics.
Prefetched ==
    [quantised |-> FileOf(Meta(2, 32, 1, 1, 1, 32, 4), "Q4_0"),
     ragged |-> FileOf(Wide, "Q4_0"),
     narrow |-> WithFlaws(FileOf(Wide, "F32")).narrow,
     headless |-> WithFlaws(FileOf(Wide, "F32")).headless]
MCPoolFiles == Prefetched
StoresOf(files) ==
    FoldLeft(LAMBDA stores, f : stores @@ (f :> LoadGguf(files[f])), << >>,
             <<"quantised", "ragged", "narrow", "headless">>)
Stores == StoresOf(Prefetched)
MCLoaded == Stores

MCDraftScores(s) == [t \in TreeTokens |-> IF Len(s) % 2 = t THEN 1 ELSE Len(s) % 3]
MCTargetToken(s) == IF Len(s) % 3 = 0 THEN 0 ELSE 1
MCTreeContext == <<1>>
=============================================================================
