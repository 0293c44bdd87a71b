---------------------------- MODULE Transformer ----------------------------
(***************************************************************************)
(* The arithmetic of the forward passes (llama_cpu.rs and kernels.metal).  *)
(* Numbers are the elements of a prime field, so that sums and products    *)
(* are exact; the functions that are not polynomials (the scale of a norm, *)
(* the sigmoid unit, softmax, sine and cosine) are parameters.  A vector   *)
(* is a sequence, a matrix is its rows one after the other.                *)
(***************************************************************************)
EXTENDS Naturals, Sequences, SequencesExt

CONSTANTS
    P,            \* the prime
    NormScale(_), \* 1 / sqrt(mean + eps), from the sum of the squares
    Silu(_),
    Softmax(_),   \* of a sequence of scores, with their 1 / sqrt(head_dim)
    Cos(_, _),    \* of the angle of a position and a pair of elements
    Sin(_, _)

ASSUME PrimeAssumption == P \in Nat \ {0, 1}

\* f(1) .. f(n) as a vector.
Vector(n, f(_)) == SubSeq([i \in 1..n |-> f(i)], 1, n)

\* The sum of a vector.
Total(v) ==
    LET s[i \in 0..Len(v)] == IF i = 0 THEN 0 ELSE (s[i - 1] + v[i]) % P
    IN  s[Len(v)]

SumTo(n, f(_)) == Total(Vector(n, f))

Zeros(n) == Vector(n, LAMBDA i : 0)

\* vec_add.
Add(x, y) == Vector(Len(x), LAMBDA i : (x[i] + y[i]) % P)

\* silu and vec_mul on the gate and the up projection.
SiluMul(gate, up) == Vector(Len(gate), LAMBDA i : (Silu(gate[i]) * up[i]) % P)

RmsNorm(x, w) ==
    LET scale == NormScale(SumTo(Len(x), LAMBDA i : x[i] * x[i]))
    IN  Vector(Len(x), LAMBDA i : (x[i] * scale * w[i]) % P)

MatVec(w, x, rows, cols) ==
    Vector(rows, LAMBDA r : SumTo(cols, LAMBDA c : w[(r - 1) * cols + c] * x[c]))

\* The row of a token in the embedding.
EmbeddingRow(w, token, n_embd) == SubSeq(w, token * n_embd + 1, (token + 1) * n_embd)

\* apply_rope: element i of a head turns with the element half a head further.
ApplyRope(x, pos, head_dim) ==
    LET half == head_dim \div 2
        turned(j) ==
            LET d == (j - 1) % head_dim
                i == d % half
                other == IF d < half THEN x[j + half] ELSE x[j - half]
            IN  IF d >= 2 * half THEN x[j]
                ELSE IF d < half
                THEN (x[j] * Cos(pos, i) + (P - Sin(pos, i)) * other) % P
                ELSE (x[j] * Cos(pos, i) + Sin(pos, i) * other) % P
    IN  IF half = 0 THEN x ELSE Vector(Len(x), turned)

\* Attention of a query q over the positions 0..pos; cache[t] has the keys and
\* values of position t, and kv_head[h] is the key-value head that serves h.
Attend(q, cache, pos, n_head, head_dim, kv_head) ==
    LET weights(h) ==
            Softmax(Vector(pos + 1, LAMBDA t :
                SumTo(head_dim, LAMBDA d :
                    q[h * head_dim + d] * cache[t - 1].k[kv_head[h] * head_dim + d])))
        head(h) ==
            LET w == weights(h)
            IN  Vector(head_dim, LAMBDA d :
                    SumTo(pos + 1, LAMBDA t : w[t] * cache[t - 1].v[kv_head[h] * head_dim + d]))
    IN  FlattenSeq(Vector(n_head, LAMBDA h : head(h - 1)))

\* Grouped-query attention: a key-value head serves equally many heads.
Shared(m) == m.n_head_kv > 0 /\ m.n_head % m.n_head_kv = 0

\* The feed-forward block on the normalised state xb.
FeedForward(w1, w2, w3, xb, n_embd, n_ff) ==
    LET gate == MatVec(w1, xb, n_ff, n_embd)
        up == MatVec(w3, xb, n_ff, n_embd)
    IN  MatVec(w2, SiluMul(gate, up), n_embd, n_ff)

\* GreedySampler without a mask: the last of the best.
BestToken(logits) ==
    CHOOSE t \in 0..(Len(logits) - 1) :
        /\ \A u \in 0..(Len(logits) - 1) : logits[u + 1] <= logits[t + 1]
        /\ \A u \in (t + 1)..(Len(logits) - 1) : logits[u + 1] < logits[t + 1]
=============================================================================
