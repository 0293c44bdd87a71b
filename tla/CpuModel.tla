------------------------------ MODULE CpuModel ------------------------------
(***************************************************************************)
(* LlamaCpuModel (llama_cpu.rs) with its KV cache, used in one of two      *)
(* ways: by velo-run, which loads a file, feeds it the prompt and          *)
(* generates, and by a caller of the CausalLmBackend interface.            *)
(*                                                                         *)
(* A slice out of range panics; a panic ends the program.                  *)
(***************************************************************************)
EXTENDS Transformer, ModelFile

CONSTANTS
    Weights,      \* the values of a file's tensors: file to name to vector
    RunFiles,     \* the files velo-run may be given, by name
    RunArgs,      \* its other arguments: prompt and max_tokens
    ApiCalls,     \* what a caller may pass: token sequences
    MaxFed        \* bound: tokens fed to a model

ASSUME CpuAssumption ==
    /\ \A name \in DOMAIN RunFiles : Unsigned(RunFiles[name])
    /\ \A a \in RunArgs : a.prompt \in Seq(Nat) /\ a.max_tokens \in Nat
    /\ ApiCalls \subseteq Seq(Nat)

VARIABLES
    cpuPc,        \* "start", "prompt", "generate", "api", "done" or "failed"
    args,         \* of velo-run: [file, prompt, max_tokens]
    cpu,          \* the model: [file, meta, kv, pos], or no model yet
    generated,    \* velo-run's tokens
    fed,          \* history: the tokens fed at positions 0, 1, 2, ...
    returned      \* history: the logits of the last call and the text they were asked for

cpuVars == <<cpuPc, args, cpu, generated, fed, returned>>

NoModel == [file |-> "none"]

\* KvCache::new.
EmptyKv(m) ==
    LET entry == [k |-> Zeros(m.n_head_kv * m.head_dim), v |-> Zeros(m.n_head_kv * m.head_dim)]
    IN  [l \in 1..m.n_layer |-> [p \in 0..(m.n_ctx - 1) |-> entry]]

NewCpuModel(file, meta) == [file |-> file, meta |-> meta, kv |-> EmptyKv(meta), pos |-> 0]

-----------------------------------------------------------------------------
(***************************************************************************)
(* forward_one.                                                            *)
(***************************************************************************)

\* The key-value head of a query head.
KvHead(m, h) == (h * m.n_head_kv) \div m.n_head

\* The keys and values of the token at pos; w has the weights by name.
Projected(w, m, l, pos, xb) ==
    LET kvs == m.n_head_kv * m.head_dim
    IN  [k |-> ApplyRope(MatVec(w[<<"wk", l>>], xb, kvs, m.n_embd), pos, m.head_dim),
         v |-> MatVec(w[<<"wv", l>>], xb, kvs, m.n_embd)]

\* What the attention adds to the state.
CpuAttention(w, m, l, pos, xb, cache) ==
    LET heads == m.n_head * m.head_dim
        q == ApplyRope(MatVec(w[<<"wq", l>>], xb, heads, m.n_embd), pos, m.head_dim)
        attn == Attend(q, [t \in 0..pos |-> cache[t]], pos, m.n_head, m.head_dim,
                       [h \in 0..(m.n_head - 1) |-> KvHead(m, h)])
    IN  MatVec(w[<<"wo", l>>], attn, m.n_embd, heads)

CpuMlp(w, m, l, x) ==
    Add(x, FeedForward(w[<<"w1", l>>], w[<<"w2", l>>], w[<<"w3", l>>],
                       RmsNorm(x, w[<<"ffn_norm", l>>]), m.n_embd, m.n_ff))

\* A layer on the state s = [x, kv] of the token at pos, with xb the normalised
\* state and c the token's entry in the cache.
CpuLayerWith(w, m, l, pos, s, xb, c) ==
    LET cache == [s.kv[l] EXCEPT ![pos] = c]
    IN  [x |-> CpuMlp(w, m, l, Add(s.x, CpuAttention(w, m, l, pos, xb, cache))),
         kv |-> [s.kv EXCEPT ![l] = cache]]

CpuLayer(w, m, l, pos, s) ==
    LET xb == RmsNorm(s.x, w[<<"attention_norm", l>>])
    IN  CpuLayerWith(w, m, l, pos, s, xb, Projected(w, m, l, pos, xb))

\* validate wants an output.weight, so the head is never the embedding.
OutputHead(w, m, x) ==
    MatVec(w[<<"output", 0>>], RmsNorm(x, w[<<"output_norm", 0>>]), m.n_vocab, m.n_embd)

\* All layers on the row of the token.
CpuLayers(w, model, token, pos) ==
    LET s[l \in 0..model.meta.n_layer] ==
            IF l = 0
            THEN [x |-> EmbeddingRow(w[<<"token_embd", 0>>], token, model.meta.n_embd),
                  kv |-> model.kv]
            ELSE CpuLayer(w, model.meta, l, pos, s[l - 1])
    IN  s[model.meta.n_layer]

\* What f, the model and the logits so far, is after the token at pos.
ForwardOne(w, f, token, pos) ==
    LET ran(s) == [model |-> [f.model EXCEPT !.kv = s.kv],
                   logits |-> Append(f.logits, OutputHead(w, f.model.meta, s.x))]
    IN  ran(CpuLayers(w, f.model, token, pos))

\* The embedding has no such row, or the cache no such position.
Panics(model, tokens) ==
    \/ \E i \in DOMAIN tokens : tokens[i] >= model.meta.n_vocab
    \/ model.pos + Len(tokens) > model.meta.n_ctx

\* Mutant of Feed: every token is run at the position of the first.
FeedInPlace(model, tokens) ==
    LET f[i \in 0..Len(tokens)] ==
            IF i = 0 THEN [model |-> model, logits |-> <<>>]
            ELSE ForwardOne(Weights[model.file], f[i - 1], tokens[i], model.pos)
    IN  [f[Len(tokens)] EXCEPT !.model.pos = @ + Len(tokens)]

\* The tokens at the next positions of the cache, which moves on by as many:
\* forward_sequence, next_logits (one token) and verify_logits, which return
\* the last, the only and all of the logits.
Feed(model, tokens) ==
    LET f[i \in 0..Len(tokens)] ==
            IF i = 0 THEN [model |-> model, logits |-> <<>>]
            ELSE ForwardOne(Weights[model.file], f[i - 1], tokens[i], model.pos + i - 1)
    IN  [f[Len(tokens)] EXCEPT !.model.pos = @ + Len(tokens)]

-----------------------------------------------------------------------------
(***************************************************************************)
(* velo-run and the callers of the interface.                              *)
(***************************************************************************)
CpuInit ==
    /\ cpuPc \in {"start", "api"}
    /\ args = [file |-> "none", prompt |-> <<>>, max_tokens |-> 0]
    /\ cpu = NoModel
    /\ generated = <<>>
    /\ fed = <<>>
    /\ returned = [text |-> <<>>, logits |-> <<>>]

FailRun == cpuPc' = "failed" /\ UNCHANGED <<cpu, generated, fed, returned>>

\* parse_args wants at least one token.  A command line that it refuses for
\* another reason ends in the same way.
ParsesArgs(a) == a.prompt # <<>>

\* run up to the prompt; load_gguf may fail.
LoadAndRun(name, a) ==
    /\ cpuPc = "start"
    /\ args' = [file |-> name, prompt |-> a.prompt, max_tokens |-> a.max_tokens]
    /\ IF ~ParsesArgs(a) \/ LoadGguf(RunFiles[name]).outcome # "ok" THEN FailRun
       ELSE /\ cpuPc' = "prompt"
            /\ cpu' = NewCpuModel(name, LoadGguf(RunFiles[name]).meta)
            /\ UNCHANGED <<generated, fed, returned>>

\* The tokens go through the model, in a call for the logits after the last
\* positions of a text.
Fed(tokens, text) ==
    \E f \in {Feed(cpu, tokens)} :
        /\ cpu' = f.model
        /\ fed' = fed \o tokens
        /\ returned' = [text |-> text, logits |-> f.logits]

\* forward_sequence on the prompt; the first token comes from its logits.
RunPrompt ==
    /\ cpuPc = "prompt"
    /\ IF Panics(cpu, args.prompt) THEN FailRun
       ELSE /\ Fed(args.prompt, args.prompt)
            /\ generated' = <<BestToken(Last(returned'.logits))>>
            /\ cpuPc' = "generate"
    /\ UNCHANGED args

\* One next_logits on the last token; max_tokens of zero counts as one.
GenerateNext ==
    /\ cpuPc = "generate" /\ Len(generated) < args.max_tokens
    /\ IF Panics(cpu, <<Last(generated)>>) THEN FailRun
       ELSE /\ Fed(<<Last(generated)>>, args.prompt \o generated)
            /\ generated' = Append(generated, BestToken(Last(returned'.logits)))
            /\ UNCHANGED cpuPc
    /\ UNCHANGED args

EndRun ==
    /\ cpuPc = "generate" /\ Len(generated) >= args.max_tokens
    /\ cpuPc' = "done"
    /\ UNCHANGED <<args, cpu, generated, fed, returned>>

\* LlamaCpuModel::new by a caller that holds a loaded store.
OpenModel(name) ==
    /\ cpuPc = "api" /\ cpu = NoModel
    /\ LoadGguf(RunFiles[name]).outcome = "ok"
    /\ cpu' = NewCpuModel(name, LoadGguf(RunFiles[name]).meta)
    /\ UNCHANGED <<cpuPc, args, generated, fed, returned>>

ApiCall(tokens, text) ==
    /\ cpuPc = "api" /\ cpu # NoModel /\ Len(fed) + Len(tokens) <= MaxFed
    /\ IF Panics(cpu, tokens) THEN FailRun
       ELSE Fed(tokens, text) /\ UNCHANGED <<cpuPc, generated>>
    /\ UNCHANGED args

\* next_logits: of the context only the last token is run, at the position that
\* the cache has reached; no token at all is an error that changes nothing.
NextLogits(context) == context # <<>> /\ ApiCall(<<Last(context)>>, context)

\* verify_logits: the drafted tokens are run, and the context is not looked at.
VerifyLogits(context, drafted) == ApiCall(drafted, context \o drafted)

CpuNext ==
    \/ \E name \in DOMAIN RunFiles : OpenModel(name) \/ \E a \in RunArgs : LoadAndRun(name, a)
    \/ RunPrompt \/ GenerateNext \/ EndRun
    \/ \E context, drafted \in ApiCalls : NextLogits(context) \/ VerifyLogits(context, drafted)

-----------------------------------------------------------------------------
(***************************************************************************)
(* The model without a cache: all positions of a text, layer by layer.     *)
(***************************************************************************)

\* What the positions of a text are to the attention of a layer.
TextRows(w, m, l, xs) ==
    LET kvs == m.n_head_kv * m.head_dim
        heads == m.n_head * m.head_dim
        row(pos, xb) ==
            [q |-> ApplyRope(MatVec(w[<<"wq", l>>], xb, heads, m.n_embd), pos, m.head_dim),
             k |-> ApplyRope(MatVec(w[<<"wk", l>>], xb, kvs, m.n_embd), pos, m.head_dim),
             v |-> MatVec(w[<<"wv", l>>], xb, kvs, m.n_embd)]
    IN  Vector(Len(xs), LAMBDA t : row(t - 1, RmsNorm(xs[t], w[<<"attention_norm", l>>])))

TextLayer(w, m, l, xs, rows) ==
    LET attn(t) == Attend(rows[t].q, [u \in 0..(t - 1) |-> [k |-> rows[u + 1].k, v |-> rows[u + 1].v]],
                          t - 1, m.n_head, m.head_dim,
                          [h \in 0..(m.n_head - 1) |-> h \div (m.n_head \div m.n_head_kv)])
    IN  Vector(Len(xs), LAMBDA t :
            CpuMlp(w, m, l, Add(xs[t], MatVec(w[<<"wo", l>>], attn(t), m.n_embd,
                                              m.n_head * m.head_dim))))

\* The states of all positions after n layers.
TextStates(w, m, text, n) ==
    LET xs[l \in 0..m.n_layer] ==
            IF l = 0
            THEN Vector(Len(text), LAMBDA t : EmbeddingRow(w[<<"token_embd", 0>>], text[t], m.n_embd))
            ELSE TextLayer(w, m, l, xs[l - 1], TextRows(w, m, l, xs[l - 1]))
    IN  xs[n]

TextLogits(w, m, text) == OutputHead(w, m, Last(TextStates(w, m, text, m.n_layer)))

\* The feed contract: the tokens fed so far are the text of the last call.
\* velo-run keeps it.  Nothing makes another caller keep it: it has to feed each
\* token of a text exactly once, by whatever calls.
ContractKept == fed = returned.text

\* As long as the feed contract is kept, a call returns what the model without
\* a cache computes for its text: next_logits after the context, verify_logits
\* after each drafted token.  And velo-run keeps the contract, and the tokens it
\* generates are the best ones after the prompt and those before them, as many
\* as it was asked for, but at least one.
GenerationExact ==
    /\ ContractKept /\ returned.logits # <<>> /\ Shared(cpu.meta) =>
          \A i \in DOMAIN returned.logits :
              returned.logits[i] =
                  TextLogits(Weights[cpu.file], cpu.meta,
                             SubSeq(returned.text, 1,
                                    Len(returned.text) - Len(returned.logits) + i))
    /\ cpuPc \in {"generate", "done"} =>
          LET text == args.prompt \o generated
          IN  /\ fed = Front(text) /\ ContractKept
              /\ Shared(cpu.meta) =>
                     Last(generated) = BestToken(TextLogits(Weights[cpu.file], cpu.meta, fed))
              /\ cpuPc = "done" =>
                     Len(generated) = IF args.max_tokens = 0 THEN 1 ELSE args.max_tokens
=============================================================================
