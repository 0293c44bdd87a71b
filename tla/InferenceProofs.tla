--------------------------- MODULE InferenceProofs ---------------------------
(***************************************************************************)
(* Proofs about the parts that load a model and compute with it, for every *)
(* architecture and all weights.                                           *)
(***************************************************************************)
EXTENDS Inference, NaturalsLemmas, SequenceTheorems, FiniteSetTheorems

-----------------------------------------------------------------------------
(***************************************************************************)
(* The paged cache of MetalModel.                                          *)
(***************************************************************************)
Places == (0..(Pages - 1)) \X (0..(BlockTokens - 1))

\* A kv has a cell for every place.
IsPool(kv) ==
    /\ DOMAIN kv = 0..(Pages - 1)
    /\ \A p \in 0..(Pages - 1) : kv[p] = [t \in 0..(BlockTokens - 1) |-> kv[p][t]]
    /\ kv = [p \in 0..(Pages - 1) |-> kv[p]]

At(kv, c) == kv[c[1]][c[2]]

\* Nothing but the cell c differs.
SameBut(kv, new, c) ==
    /\ IsPool(new)
    /\ \A d \in Places : d # c => At(new, d) = At(kv, d)

\* One write.
Written(kv, c, e) == [kv EXCEPT ![c[1]][c[2]] = e]

LEMMA WrittenCell ==
    ASSUME NEW kv, IsPool(kv), NEW c \in Places, NEW e, NEW new,
           new = Written(kv, c, e)
    PROVE  SameBut(kv, new, c) /\ At(new, c) = e
<1>1. PICK p \in 0..(Pages - 1), t \in 0..(BlockTokens - 1) : c = <<p, t>>
  BY DEF Places
<1>2. new = [kv EXCEPT ![p] = [kv[p] EXCEPT ![t] = e]]
  BY <1>1 DEF Written
<1>3. PICK page : page = [kv[p] EXCEPT ![t] = e]
  OBVIOUS
<1>4. new = [kv EXCEPT ![p] = page]
  BY <1>2, <1>3
<1>5. /\ DOMAIN new = 0..(Pages - 1) /\ new = [q \in 0..(Pages - 1) |-> new[q]]
      /\ new[p] = page /\ \A q \in 0..(Pages - 1) : q # p => new[q] = kv[q]
  BY <1>4 DEF IsPool
<1>6. /\ page = [u \in 0..(BlockTokens - 1) |-> page[u]]
      /\ page[t] = e /\ \A u \in 0..(BlockTokens - 1) : u # t => page[u] = kv[p][u]
  BY <1>3 DEF IsPool
<1>7. IsPool(new)
  <2>1. ASSUME NEW q \in 0..(Pages - 1)
        PROVE  new[q] = [u \in 0..(BlockTokens - 1) |-> new[q][u]]
    <3>1. CASE q = p
      BY <1>5, <1>6, <3>1
    <3>2. CASE q # p
      <4>1. kv[q] = [u \in 0..(BlockTokens - 1) |-> kv[q][u]]
        BY DEF IsPool
      <4> QED
        BY <1>5, <3>2, <4>1
    <3> QED
      BY <3>1, <3>2
  <2> QED
    BY <1>5, <2>1 DEF IsPool
<1>8. ASSUME NEW d \in Places, d # c PROVE At(new, d) = At(kv, d)
  <2>1. PICK q \in 0..(Pages - 1), u \in 0..(BlockTokens - 1) : d = <<q, u>>
    BY DEF Places
  <2>2. q # p \/ u # t
    BY <1>1, <1>8, <2>1
  <2> QED
    BY <1>5, <1>6, <2>1, <2>2 DEF At
<1> QED
  BY <1>1, <1>5, <1>6, <1>7, <1>8 DEF SameBut, At

\* A layer writes to the cell of the position and to no other.
KvEntryOf(w, l, pos, hidden) ==
    LET m == MetalMeta
        kvs == m.n_head_kv * m.head_dim
    IN  [k |-> MetalRope(MatVec(w[<<"wk", l>>], hidden, kvs, m.n_embd), pos, m.head_dim),
         v |-> MatVec(w[<<"wv", l>>], hidden, kvs, m.n_embd)]

LEMMA UpdateWrites ==
    ASSUME NEW w, NEW l, NEW pos, NEW row, NEW hidden, NEW kv, IsPool(kv),
           Cell(row, pos) \in Places, NEW new, new = KvUpdate(w, l, pos, row, hidden, kv)
    PROVE  /\ SameBut(kv, new, Cell(row, pos))
           /\ At(new, Cell(row, pos)) = KvEntryOf(w, l, pos, hidden)
<1>1. new = Written(kv, Cell(row, pos), KvEntryOf(w, l, pos, hidden))
  BY Zenon DEF KvUpdate, KvEntryOf, Written
<1>2. PICK c, e : c = Cell(row, pos) /\ e = KvEntryOf(w, l, pos, hidden)
  OBVIOUS
<1>3. c \in Places /\ new = Written(kv, c, e)
  BY <1>1, <1>2
<1>4. SameBut(kv, new, c) /\ At(new, c) = e
  BY <1>3, WrittenCell
<1> QED
  BY <1>2, <1>4

\* What the attention reads.
Read(kv, row, pos) == [t \in 0..pos |-> At(kv, Cell(row, t))]

LEMMA AttentionReads ==
    ASSUME NEW w, NEW l, NEW pos, NEW hidden, NEW row, NEW kv, NEW other, NEW new,
           Read(kv, row, pos) = Read(new, other, pos)
    PROVE  /\ MetalAttention(w, l, pos, row, hidden, kv).hidden
                = MetalAttention(w, l, pos, other, hidden, new).hidden
           /\ MetalAttention(w, l, pos, row, hidden, kv).pool = kv
<1> DEFINE m == MetalMeta
           q == MetalRope(MatVec(w[<<"wq", l>>], hidden, m.n_embd, m.n_embd), pos, m.head_dim)
           heads == [h \in 0..(m.n_head - 1) |-> h \div (m.n_head \div m.n_head_kv)]
           attn(r) == Attend(q, r, pos, m.n_head, m.head_dim, heads)
           out(r) == Add(hidden, MatVec(w[<<"wo", l>>], attn(r), m.n_embd, m.n_embd))
<1>1. ASSUME NEW x, NEW y
      PROVE  MetalAttention(w, l, pos, y, hidden, x) =
                [hidden |-> out(Read(x, y, pos)), pool |-> x]
  BY Zenon DEF MetalAttention, Read, At
<1> HIDE DEF out
<1>2. /\ MetalAttention(w, l, pos, row, hidden, kv) =
            [hidden |-> out(Read(kv, row, pos)), pool |-> kv]
      /\ MetalAttention(w, l, pos, other, hidden, new) =
            [hidden |-> out(Read(kv, row, pos)), pool |-> new]
  BY <1>1, Zenon
<1> QED
  BY <1>2

\* A layer is its attention on the pool that has the position's entry, and then
\* the feed-forward part.
Normed(w, l, s) == RmsNorm(s.hidden, w[<<"attention_norm", l>>])
Updated(w, l, pos, row, s) == KvUpdate(w, l, pos, row, Normed(w, l, s), s.pool)
Attended(w, l, pos, row, s) ==
    MetalAttention(w, l, pos, row, Normed(w, l, s), Updated(w, l, pos, row, s))

LEMMA LayerParts ==
    ASSUME NEW w, NEW l, NEW pos, NEW row, NEW s
    PROVE  /\ MetalLayer(w, l, pos, row, s).hidden =
                 MetalMlp(w, l, Attended(w, l, pos, row, s).hidden)
           /\ MetalLayer(w, l, pos, row, s).pool = Updated(w, l, pos, row, s)
<1> DEFINE x == Normed(w, l, s)
           y == Updated(w, l, pos, row, s)
           a == Attended(w, l, pos, row, s)
<1>1. PICK h : a = [hidden |-> h, pool |-> y]
  BY Zenon DEF Attended, MetalAttention
<1>3. MetalLayer(w, l, pos, row, s) = [a EXCEPT !.hidden = MetalMlp(w, l, @)]
  BY Zenon DEF MetalLayer, Attended, Updated, Normed
<1> HIDE DEF a, y
<1>4. MetalLayer(w, l, pos, row, s) = [a EXCEPT !.hidden = MetalMlp(w, l, a.hidden)]
  BY <1>3
<1>5. PICK g : g = MetalMlp(w, l, a.hidden)
  OBVIOUS
<1>6. MetalLayer(w, l, pos, row, s) = [hidden |-> g, pool |-> y]
  BY <1>1, <1>4, <1>5
<1> QED
  BY <1>5, <1>6 DEF a, y

LEMMA LayerWrites ==
    ASSUME NEW w, NEW l, NEW pos, NEW row, NEW s, IsPool(s.pool), Cell(row, pos) \in Places
    PROVE  /\ SameBut(s.pool, MetalLayer(w, l, pos, row, s).pool, Cell(row, pos))
           /\ At(MetalLayer(w, l, pos, row, s).pool, Cell(row, pos))
                = KvEntryOf(w, l, pos, Normed(w, l, s))
<1>1. PICK kv, new, hidden : /\ kv = s.pool /\ new = Updated(w, l, pos, row, s)
                             /\ hidden = Normed(w, l, s)
  OBVIOUS
<1>2. new = KvUpdate(w, l, pos, row, hidden, kv)
  BY <1>1 DEF Updated
<1>3. SameBut(kv, new, Cell(row, pos)) /\ At(new, Cell(row, pos)) = KvEntryOf(w, l, pos, hidden)
  BY <1>1, <1>2, UpdateWrites
<1> QED
  BY <1>1, <1>3, LayerParts

\* The positions up to pos have cells, and none the cell of pos.
Apart(row, pos) ==
    \A t \in 0..pos : Cell(row, t) \in Places /\ (t # pos => Cell(row, t) # Cell(row, pos))

\* Two caches hold the same at the positions T.
Agree(kv, row, new, other, T) == \A t \in T : At(kv, Cell(row, t)) = At(new, Cell(other, t))

LEMMA LayerAgrees ==
    ASSUME NEW w, NEW l, NEW pos \in Nat, NEW row, NEW other, NEW s, NEW v,
           s.hidden = v.hidden, IsPool(s.pool), IsPool(v.pool),
           Apart(row, pos), Apart(other, pos),
           Agree(s.pool, row, v.pool, other, 0..(pos - 1))
    PROVE  /\ MetalLayer(w, l, pos, row, s).hidden = MetalLayer(w, l, pos, other, v).hidden
           /\ Agree(MetalLayer(w, l, pos, row, s).pool, row,
                    MetalLayer(w, l, pos, other, v).pool, other, 0..pos)
<1>1. PICK x, y : /\ x = MetalLayer(w, l, pos, row, s).pool
                  /\ y = MetalLayer(w, l, pos, other, v).pool
  OBVIOUS
<1>2. pos \in 0..pos /\ Cell(row, pos) \in Places /\ Cell(other, pos) \in Places
  BY DEF Apart
<1>3. PICK hidden : hidden = Normed(w, l, s) /\ hidden = Normed(w, l, v)
  BY DEF Normed
<1>4. /\ SameBut(s.pool, x, Cell(row, pos)) /\ SameBut(v.pool, y, Cell(other, pos))
      /\ At(x, Cell(row, pos)) = KvEntryOf(w, l, pos, hidden)
      /\ At(y, Cell(other, pos)) = KvEntryOf(w, l, pos, hidden)
  <2>1. /\ SameBut(s.pool, x, Cell(row, pos))
        /\ At(x, Cell(row, pos)) = KvEntryOf(w, l, pos, Normed(w, l, s))
    BY <1>1, <1>2, LayerWrites, Zenon
  <2>2. /\ SameBut(v.pool, y, Cell(other, pos))
        /\ At(y, Cell(other, pos)) = KvEntryOf(w, l, pos, Normed(w, l, v))
    BY <1>1, <1>2, LayerWrites, Zenon
  <2> QED
    BY <1>3, <2>1, <2>2
<1>5. Agree(x, row, y, other, 0..pos)
  <2>1. ASSUME NEW t \in 0..pos, t # pos PROVE At(x, Cell(row, t)) = At(y, Cell(other, t))
    <3>1. t \in 0..(pos - 1)
      BY <2>1
    <3>2. At(x, Cell(row, t)) = At(s.pool, Cell(row, t))
      BY <1>4, <2>1 DEF SameBut, Apart
    <3>3. At(y, Cell(other, t)) = At(v.pool, Cell(other, t))
      BY <1>4, <2>1 DEF SameBut, Apart
    <3>4. At(s.pool, Cell(row, t)) = At(v.pool, Cell(other, t))
      BY <3>1 DEF Agree
    <3> QED
      BY <3>2, <3>3, <3>4
  <2>2. At(x, Cell(row, pos)) = At(y, Cell(other, pos))
    BY <1>4
  <2> QED
    BY <2>1, <2>2 DEF Agree
<1>6. Read(x, row, pos) = Read(y, other, pos)
  BY <1>5 DEF Agree, Read
<1>7. Attended(w, l, pos, row, s).hidden = Attended(w, l, pos, other, v).hidden
  <2>1. x = Updated(w, l, pos, row, s) /\ y = Updated(w, l, pos, other, v)
    BY <1>1, LayerParts
  <2>2. /\ Attended(w, l, pos, row, s) = MetalAttention(w, l, pos, row, hidden, x)
        /\ Attended(w, l, pos, other, v) = MetalAttention(w, l, pos, other, hidden, y)
    BY <1>3, <2>1, Zenon DEF Attended
  <2> QED
    BY <1>6, <2>2, AttentionReads
<1> QED
  BY <1>1, <1>5, <1>7, LayerParts

\* The states of a forward pass, before the first layer and after each.
FirstState(w, token, kv) ==
    [hidden |-> EmbeddingRow(w[<<"token_embd", 0>>], token, MetalMeta.n_embd), pool |-> kv]

Runs(f, w, token, pos, row, kv, k) ==
    /\ f[0] = FirstState(w, token, kv)
    /\ \A l \in 1..k : f[l] = MetalLayer(w, l, pos, row, f[l - 1])

LEMMA RunExists ==
    ASSUME NEW w, NEW token, NEW pos, NEW row, NEW kv, NEW n \in Nat
    PROVE  \E f : Runs(f, w, token, pos, row, kv, n)
<1> DEFINE S == {k \in 0..n : \E f : Runs(f, w, token, pos, row, kv, k)}
<1>1. 0 \in S
  <2>1. PICK f : f = [l \in 0..0 |-> FirstState(w, token, kv)]
    OBVIOUS
  <2>2. f[0] = FirstState(w, token, kv)
    BY <2>1
  <2>3. Runs(f, w, token, pos, row, kv, 0)
    BY <2>2 DEF Runs
  <2> QED
    BY <2>3
<1>2. ASSUME NEW k \in 1..n, k - 1 \in S PROVE k \in S
  <2>1. PICK f : Runs(f, w, token, pos, row, kv, k - 1)
    BY <1>2
  <2>2. PICK next : next = MetalLayer(w, k, pos, row, f[k - 1])
    OBVIOUS
  <2>3. PICK g : g = [l \in 0..k |-> IF l = k THEN next ELSE f[l]]
    OBVIOUS
  <2>4. g[k] = next /\ \A l \in 0..(k - 1) : g[l] = f[l]
    BY <2>3
  <2>5. g[0] = FirstState(w, token, kv)
    BY <2>1, <2>4 DEF Runs
  <2>6. ASSUME NEW l \in 1..k PROVE g[l] = MetalLayer(w, l, pos, row, g[l - 1])
    <3>1. l - 1 \in 0..(k - 1) /\ g[l - 1] = f[l - 1]
      BY <2>4
    <3>2. CASE l = k
      BY <2>2, <2>4, <3>1, <3>2
    <3>3. CASE l # k
      <4>1. l \in 1..(k - 1) /\ l \in 0..(k - 1)
        BY <3>3
      <4> QED
        BY <2>1, <2>4, <3>1, <4>1 DEF Runs
    <3> QED
      BY <3>2, <3>3
  <2>7. Runs(g, w, token, pos, row, kv, k)
    BY <2>5, <2>6 DEF Runs
  <2> QED
    BY <2>7
<1> HIDE DEF S
<1>3. S = 0..n
  <2>1. S \in SUBSET (0..n)
    BY DEF S
  <2> QED
    BY <1>1, <1>2, <2>1, IntervalInduction
<1>4. n \in S
  BY <1>3
<1> QED
  BY <1>4 DEF S

LEMMA ForwardRuns ==
    ASSUME NEW w, NEW token, NEW pos, NEW row, NEW kv
    PROVE  \E f : /\ Runs(f, w, token, pos, row, kv, MetalMeta.n_layer)
                  /\ MetalForward(w, token, pos, row, kv) =
                        [logits |-> MetalHead(w, f[MetalMeta.n_layer].hidden),
                         pool |-> f[MetalMeta.n_layer].pool]
<1> DEFINE n == MetalMeta.n_layer
           start == FirstState(w, token, kv)
           layer(l, v) == MetalLayer(w, l, pos, row, v)
           s == CHOOSE s : s = [l \in 0..n |-> IF l = 0 THEN start ELSE layer(l, s[l - 1])]
<1>1. MetalForward(w, token, pos, row, kv) =
         [logits |-> MetalHead(w, s[n].hidden), pool |-> s[n].pool]
  BY Zenon DEF MetalForward, FirstState
<1>2. n \in Nat
  BY MetalAssumption
<1>3. PICK g : Runs(g, w, token, pos, row, kv, n)
  BY <1>2, RunExists
<1>4. /\ g[0] = start
      /\ \A l \in 1..n : g[l] = layer(l, g[l - 1])
  BY <1>3 DEF Runs
<1> HIDE DEF n, start, layer
<1>5. PICK f : f = [l \in 0..n |-> g[l]]
  OBVIOUS
<1>6. \A l \in 0..n : f[l] = g[l]
  BY <1>5
<1>7. f = [l \in 0..n |-> IF l = 0 THEN start ELSE layer(l, f[l - 1])]
  <2>1. ASSUME NEW l \in 0..n PROVE g[l] = IF l = 0 THEN start ELSE layer(l, f[l - 1])
    <3>1. CASE l = 0
      BY <1>4, <3>1
    <3>2. CASE l # 0
      <4>1. l \in 1..n /\ l - 1 \in 0..n
        BY <1>2, <3>2
      <4>2. f[l - 1] = g[l - 1] /\ g[l] = layer(l, g[l - 1])
        BY <1>4, <1>6, <4>1
      <4> QED
        BY <3>2, <4>2
    <3> QED
      BY <3>1, <3>2
  <2> QED
    BY <1>5, <2>1, Zenon
<1>8. s = [l \in 0..n |-> IF l = 0 THEN start ELSE layer(l, s[l - 1])]
  BY <1>7, Zenon
<1> HIDE DEF s
<1>9. s[0] = start /\ \A l \in 1..n : s[l] = layer(l, s[l - 1])
  <2>1. s[0] = start
    BY <1>2, <1>8
  <2>2. ASSUME NEW l \in 1..n PROVE s[l] = layer(l, s[l - 1])
    <3>1. l \in 0..n /\ l # 0
      OBVIOUS
    <3> QED
      BY <1>8, <3>1, Zenon
  <2> QED
    BY <2>1, <2>2
<1>10. Runs(s, w, token, pos, row, kv, n)
  BY <1>9, Zenon DEF Runs, start, layer
<1> QED
  BY <1>1, <1>10, Zenon DEF n

\* A forward pass writes to the cell of the position and to no other.
LEMMA ForwardWrites ==
    ASSUME NEW w, NEW token, NEW pos, NEW row, NEW kv, IsPool(kv), Cell(row, pos) \in Places
    PROVE  SameBut(kv, MetalForward(w, token, pos, row, kv).pool, Cell(row, pos))
<1> DEFINE n == MetalMeta.n_layer
<1>1. PICK f : /\ Runs(f, w, token, pos, row, kv, n)
               /\ MetalForward(w, token, pos, row, kv) =
                     [logits |-> MetalHead(w, f[n].hidden), pool |-> f[n].pool]
  BY ForwardRuns
<1>2. n \in Nat
  BY MetalAssumption
<1> HIDE DEF n
<1> DEFINE S == {l \in 0..n : SameBut(kv, f[l].pool, Cell(row, pos))}
<1>3. 0 \in S
  <2>1. f[0].pool = kv
    BY <1>1 DEF Runs, FirstState
  <2> QED
    BY <1>2, <2>1 DEF SameBut
<1>4. ASSUME NEW l \in 1..n, l - 1 \in S PROVE l \in S
  <2>1. PICK v, x : v = f[l - 1] /\ x = f[l].pool
    OBVIOUS
  <2>2. SameBut(kv, v.pool, Cell(row, pos))
    BY <1>4, <2>1
  <2>3. x = MetalLayer(w, l, pos, row, v).pool
    BY <1>1, <2>1 DEF Runs
  <2>4. IsPool(v.pool)
    BY <2>2 DEF SameBut
  <2>5. SameBut(v.pool, x, Cell(row, pos))
    BY <2>3, <2>4, LayerWrites, Zenon
  <2>6. SameBut(kv, x, Cell(row, pos))
    BY <2>2, <2>5 DEF SameBut
  <2> QED
    BY <2>1, <2>6
<1>5. n \in S
  <2>1. S \in SUBSET (0..n)
    OBVIOUS
  <2> HIDE DEF S
  <2>2. S = 0..n
    BY <1>2, <1>3, <1>4, <2>1, IntervalInduction
  <2> QED
    BY <1>2, <2>2
<1> QED
  BY <1>1, <1>5

\* Two passes of a token at a position return the same logits, and leave the
\* same in its cell, if they read the same at the positions before.
LEMMA ForwardAgrees ==
    ASSUME NEW w, NEW token, NEW pos \in Nat, NEW row, NEW other, NEW kv, NEW new,
           IsPool(kv), IsPool(new), Apart(row, pos), Apart(other, pos),
           Agree(kv, row, new, other, 0..(pos - 1))
    PROVE  /\ MetalForward(w, token, pos, row, kv).logits
                = MetalForward(w, token, pos, other, new).logits
           /\ Agree(MetalForward(w, token, pos, row, kv).pool, row,
                    MetalForward(w, token, pos, other, new).pool, other, 0..pos)
<1> DEFINE n == MetalMeta.n_layer
<1>1. PICK f : /\ Runs(f, w, token, pos, row, kv, n)
               /\ MetalForward(w, token, pos, row, kv) =
                     [logits |-> MetalHead(w, f[n].hidden), pool |-> f[n].pool]
  BY ForwardRuns
<1>2. PICK g : /\ Runs(g, w, token, pos, other, new, n)
               /\ MetalForward(w, token, pos, other, new) =
                     [logits |-> MetalHead(w, g[n].hidden), pool |-> g[n].pool]
  BY ForwardRuns
<1>3. n \in Nat /\ n > 0
  BY MetalAssumption
<1> HIDE DEF n
<1>4. Cell(row, pos) \in Places /\ Cell(other, pos) \in Places
  BY DEF Apart
<1> DEFINE same(l) ==
              /\ f[l].hidden = g[l].hidden /\ IsPool(f[l].pool) /\ IsPool(g[l].pool)
              /\ Agree(f[l].pool, row, g[l].pool, other, 0..(pos - 1))
           all(l) == l > 0 => Agree(f[l].pool, row, g[l].pool, other, 0..pos)
           S == {l \in 0..n : same(l) /\ all(l)}
<1>5. 0 \in S
  <2>1. f[0].pool = kv /\ g[0].pool = new /\ f[0].hidden = g[0].hidden
    BY <1>1, <1>2 DEF Runs, FirstState
  <2> QED
    BY <1>3, <2>1
<1>6. ASSUME NEW l \in 1..n, l - 1 \in S PROVE l \in S
  <2>1. PICK u, v, x, y : u = f[l - 1] /\ v = g[l - 1] /\ x = f[l] /\ y = g[l]
    OBVIOUS
  <2>2. /\ u.hidden = v.hidden /\ IsPool(u.pool) /\ IsPool(v.pool)
        /\ Agree(u.pool, row, v.pool, other, 0..(pos - 1))
    BY <1>6, <2>1
  <2>3. x = MetalLayer(w, l, pos, row, u) /\ y = MetalLayer(w, l, pos, other, v)
    BY <1>1, <1>2, <2>1 DEF Runs
  <2>4. x.hidden = y.hidden /\ Agree(x.pool, row, y.pool, other, 0..pos)
    <3>1. /\ MetalLayer(w, l, pos, row, u).hidden = MetalLayer(w, l, pos, other, v).hidden
          /\ Agree(MetalLayer(w, l, pos, row, u).pool, row,
                   MetalLayer(w, l, pos, other, v).pool, other, 0..pos)
      BY <2>2, LayerAgrees
    <3> QED
      BY <2>3, <3>1
  <2>5. IsPool(x.pool) /\ IsPool(y.pool)
    BY <1>4, <2>2, <2>3, LayerWrites, Zenon DEF SameBut
  <2>6. Agree(x.pool, row, y.pool, other, 0..(pos - 1))
    BY <2>4 DEF Agree
  <2>7. same(l) /\ all(l)
    BY <2>1, <2>4, <2>5, <2>6, Zenon
  <2> HIDE DEF same, all
  <2> QED
    BY <2>7
<1>7. n \in S
  <2>1. S \in SUBSET (0..n)
    OBVIOUS
  <2> HIDE DEF S
  <2>2. S = 0..n
    BY <1>3, <1>5, <1>6, <2>1, IntervalInduction
  <2> QED
    BY <1>3, <2>2
<1>8. f[n].hidden = g[n].hidden /\ Agree(f[n].pool, row, g[n].pool, other, 0..pos)
  BY <1>3, <1>7
<1> QED
  BY <1>1, <1>2, <1>8

-----------------------------------------------------------------------------
(***************************************************************************)
(* What the backend keeps.                                                 *)
(***************************************************************************)
Length == Pages * BlockTokens

\* The page of a position in a list of pages.
Page(b, pos) == IF pos \div BlockTokens + 1 \in DOMAIN b THEN b[pos \div BlockTokens + 1] ELSE NoPage

Offset(pos) == pos % BlockTokens

Place(b, pos) == <<Page(b, pos), Offset(pos)>>

\* Pages that were bound are distinct.
BoundOK(b) ==
    /\ b \in Seq(0..(Pages - 1)) /\ Len(b) <= Pages
    /\ \A i, j \in DOMAIN b : b[i] = b[j] => i = j

\* A row up to pos holds the pages that were bound, then page 0, and past its
\* end any pages.
RowOK(b, row, pos) ==
    \A i \in 0..(pos \div BlockTokens) :
        /\ row[i] \in 0..(Pages - 1)
        /\ i < Pages => row[i] = IF i < Len(b) THEN b[i + 1] ELSE 0

\* The mapping has a row for each slot.
MappingOK ==
    /\ mapping \in [0..(SlotCount * Pages - 1) -> 0..(Pages - 1)]
    /\ \A s \in MetalSlots : \A i \in 0..(Pages - 1) :
          mapping[s * Pages + i] = IF i < Len(bound[s]) THEN bound[s][i + 1] ELSE 0

\* The slot's own positions start at 0, have pages, and hold the same in the
\* pool as in the slot's contiguous cache.
SlotOK(b, o, kv, c) ==
    /\ BoundOK(b) /\ IsPool(c)
    /\ o \subseteq Nat
    /\ \A pos \in o : Page(b, pos) # NoPage /\ 0..pos \subseteq o
    /\ \A pos \in o : At(kv, Place(b, pos)) = At(c, <<pos \div BlockTokens, Offset(pos)>>)

ResultOK(res) == res.outcome = "ran" /\ res.exact => res.logits = res.contiguous

BoundPrefixes == Handles \cup {None, "no handle"}

BackendOK ==
    backend \in [model : BOOLEAN, wired : BOOLEAN, prefix : BoundPrefixes, slot : MetalSlots \cup {NoSlot}]

MetalInv ==
    /\ BackendOK
    /\ bound = [s \in MetalSlots |-> bound[s]]
    /\ own = [s \in MetalSlots |-> own[s]]
    /\ contiguous = [s \in MetalSlots |-> contiguous[s]]
    /\ MappingOK
    /\ IsPool(kvPool)
    /\ \A s \in MetalSlots : SlotOK(bound[s], own[s], kvPool, contiguous[s])
    /\ ResultOK(result)

\* A position is a page's index and a place in the page.
LEMMA Split ==
    ASSUME NEW pos \in Nat
    PROVE  /\ pos \div BlockTokens \in Nat /\ Offset(pos) \in 0..(BlockTokens - 1)
           /\ pos = BlockTokens * (pos \div BlockTokens) + Offset(pos)
           /\ pos < Length => pos \div BlockTokens \in 0..(Pages - 1)
<1> DEFINE B == BlockTokens
           d == pos \div B
<1>1. B \in Nat /\ B > 0 /\ Pages \in Nat
  BY MetalAssumption
<1>2. d \in Nat /\ Offset(pos) \in 0..(B - 1) /\ pos = B * d + Offset(pos)
  BY <1>1 DEF Offset
<1>3. ASSUME pos < Length PROVE d \in 0..(Pages - 1)
  <2>1. SUFFICES ASSUME d >= Pages PROVE FALSE
    BY <1>1, <1>2
  <2>2. PICK e \in Nat : d = Pages + e
    <3>1. d - Pages \in Nat /\ d = Pages + (d - Pages)
      BY <1>1, <1>2, <2>1
    <3> QED
      BY <3>1
  <2>3. B * d >= Length
    BY <1>1, <2>2 DEF Length
  <2> QED
    BY <1>1, <1>2, <1>3, <2>3 DEF Length
<1> QED
  BY <1>1, <1>2, <1>3

\* The positions of a page lie in it alone.
LEMMA SameCell ==
    ASSUME NEW t \in Nat, NEW pos \in Nat, t \div BlockTokens = pos \div BlockTokens,
           Offset(t) = Offset(pos)
    PROVE  t = pos
BY Split

\* Earlier positions lie in the same word of a row or an earlier one.
LEMMA EarlierWord ==
    ASSUME NEW pos \in Nat, NEW t \in 0..pos
    PROVE  t \in Nat /\ t \div BlockTokens \in 0..(pos \div BlockTokens)
<1>1. BlockTokens \in Nat /\ BlockTokens > 0 /\ t \in Nat
  BY MetalAssumption
<1>2. PICK d \in Nat, e \in Nat, x \in 0..(BlockTokens - 1), y \in 0..(BlockTokens - 1) :
         /\ d = t \div BlockTokens /\ t = BlockTokens * d + x
         /\ e = pos \div BlockTokens /\ pos = BlockTokens * e + y
  BY <1>1, Split
<1>3. SUFFICES ASSUME d > e PROVE FALSE
  BY <1>1, <1>2
<1>4. PICK g \in Nat : d = e + 1 + g
  <2>1. d - e - 1 \in Nat /\ d = e + 1 + (d - e - 1)
    BY <1>3
  <2> QED
    BY <2>1
<1>5. BlockTokens * d = BlockTokens * e + BlockTokens + BlockTokens * g /\ BlockTokens * g >= 0
  BY <1>1, <1>4
<1>6. PICK A \in Nat, G \in Nat : A = BlockTokens * e /\ G = BlockTokens * g
  BY <1>1, <1>4, <1>2
<1> QED
  BY <1>1, <1>2, <1>5, <1>6

\* A position with a page has it in the pool, and lies in the first row.
LEMMA PagedPosition ==
    ASSUME NEW b, BoundOK(b), NEW pos \in Nat, Page(b, pos) # NoPage
    PROVE  /\ pos \div BlockTokens + 1 \in DOMAIN b /\ Page(b, pos) = b[pos \div BlockTokens + 1]
           /\ Page(b, pos) \in 0..(Pages - 1)
           /\ pos \div BlockTokens < Len(b) /\ pos \div BlockTokens < Pages
           /\ Place(b, pos) \in Places
           /\ pos < Length
<1>1. PICK n \in Nat : /\ n = Len(b) /\ DOMAIN b = 1..n /\ n <= Pages
                       /\ \A j \in 1..n : b[j] \in 0..(Pages - 1)
  <2>1. PICK R : R = 0..(Pages - 1)
    OBVIOUS
  <2>2. b \in Seq(R) /\ Len(b) <= Pages
    BY <2>1 DEF BoundOK
  <2>3. Len(b) \in Nat /\ DOMAIN b = 1..Len(b) /\ \A j \in 1..Len(b) : b[j] \in R
    BY <2>2
  <2> QED
    BY <2>1, <2>2, <2>3
<1>2. PICK d \in Nat : d = pos \div BlockTokens
  BY Split
<1>3. d + 1 \in 1..n
  BY <1>1, <1>2 DEF Page
<1>4. BlockTokens \in Nat /\ BlockTokens > 0 /\ Pages \in Nat
  BY MetalAssumption
<1>5. Page(b, pos) = b[d + 1] /\ b[d + 1] \in 0..(Pages - 1)
  BY <1>1, <1>2, <1>3 DEF Page
<1>6. Place(b, pos) \in Places
  BY <1>5, Split DEF Place, Places
<1>7. PICK e \in Nat : Pages = d + 1 + e
  <2>1. Pages - (d + 1) \in Nat /\ Pages = d + 1 + (Pages - (d + 1))
    BY <1>1, <1>2, <1>3, <1>4
  <2> QED
    BY <2>1
<1>8. pos = BlockTokens * d + Offset(pos) /\ Offset(pos) \in 0..(BlockTokens - 1)
  BY <1>2, Split
<1>9. BlockTokens * e >= 0
  BY <1>4, <1>7
<1>10. Length = BlockTokens * d + BlockTokens + BlockTokens * e
  BY <1>4, <1>7 DEF Length
<1>11. pos < Length
  BY <1>2, <1>4, <1>7, <1>8, <1>9, <1>10
<1> QED
  BY <1>1, <1>2, <1>3, <1>5, <1>6, <1>7, <1>11

\* The cell of a position is in the pool, and in its page if it has one.
LEMMA RowCell ==
    ASSUME NEW b, BoundOK(b), NEW row, NEW pos \in Nat, RowOK(b, row, pos), NEW t \in 0..pos
    PROVE  /\ Cell(row, t) \in Places
           /\ Page(b, t) # NoPage => Cell(row, t) = Place(b, t)
<1>1. t \in Nat /\ Offset(t) \in 0..(BlockTokens - 1)
  BY Split
<1>2. PICK i \in 0..(pos \div BlockTokens) : i = t \div BlockTokens
  BY EarlierWord
<1>3. row[i] \in 0..(Pages - 1) /\ (i < Pages => row[i] = IF i < Len(b) THEN b[i + 1] ELSE 0)
  BY DEF RowOK
<1>4. Cell(row, t) = <<row[i], Offset(t)>>
  BY <1>2 DEF Cell, Offset
<1>5. ASSUME Page(b, t) # NoPage PROVE row[i] = Page(b, t)
  BY <1>1, <1>2, <1>3, <1>5, PagedPosition
<1> QED
  BY <1>1, <1>3, <1>4, <1>5 DEF Places, Place

LEMMA OwnCell ==
    ASSUME NEW pos \in Nat, pos < Length
    PROVE  /\ Cell(OwnRow, pos) \in Places
           /\ Cell(OwnRow, pos) = <<pos \div BlockTokens, Offset(pos)>>
<1>1. PICK i \in 0..(Pages - 1) : i = pos \div BlockTokens
  BY Split
<1>2. OwnRow[i] = i
  BY DEF OwnRow
<1> QED
  BY <1>1, <1>2, Split DEF Cell, Places, Offset

LEMMA OwnApart ==
    ASSUME NEW pos \in Nat, pos < Length
    PROVE  Apart(OwnRow, pos)
<1>1. ASSUME NEW t \in 0..pos
      PROVE  Cell(OwnRow, t) \in Places /\ (t # pos => Cell(OwnRow, t) # Cell(OwnRow, pos))
  <2>1. t \in Nat /\ t < Length /\ Length \in Nat
    BY MetalAssumption DEF Length
  <2>2. Cell(OwnRow, t) \in Places /\ Cell(OwnRow, t) = <<t \div BlockTokens, Offset(t)>>
    BY <2>1, OwnCell
  <2>3. Cell(OwnRow, pos) = <<pos \div BlockTokens, Offset(pos)>>
    BY OwnCell
  <2> QED
    BY <2>1, <2>2, <2>3, SameCell
<1> QED
  BY <1>1 DEF Apart

\* Positions that have pages have places of their own.
LEMMA PlacesApart ==
    ASSUME NEW b, BoundOK(b), NEW t \in Nat, NEW pos \in Nat, t # pos,
           Page(b, t) # NoPage, Page(b, pos) # NoPage
    PROVE  Place(b, t) # Place(b, pos)
<1>1. SUFFICES ASSUME Page(b, t) = Page(b, pos), Offset(t) = Offset(pos) PROVE FALSE
  BY DEF Place
<1>2. t \div BlockTokens + 1 = pos \div BlockTokens + 1
  BY <1>1, PagedPosition DEF BoundOK
<1>3. t \div BlockTokens = pos \div BlockTokens
  BY <1>2, Split
<1> QED
  BY <1>1, <1>3, SameCell

\* What is left of a slot's positions after a pass that is not its own, or not
\* in place.
Left(b, o, cell) == {p \in o : \A t \in 0..p : Place(b, t) # cell}

LEMMA OtherPass ==
    ASSUME NEW b, NEW o, NEW kv, NEW c, NEW new, NEW cell,
           SlotOK(b, o, kv, c), SameBut(kv, new, cell)
    PROVE  SlotOK(b, Left(b, o, cell), new, c)
<1>1. PICK left : left = Left(b, o, cell)
  OBVIOUS
<1>2. ASSUME NEW t \in left
      PROVE  t \in o /\ t \in Nat /\ Page(b, t) # NoPage /\ 0..t \subseteq left /\ Place(b, t) # cell
  <2>1. t \in o /\ \A u \in 0..t : Place(b, u) # cell
    BY <1>1 DEF Left
  <2>2. t \in Nat /\ Page(b, t) # NoPage /\ 0..t \subseteq o
    BY <2>1 DEF SlotOK
  <2>3. ASSUME NEW u \in 0..t PROVE u \in left
    <3>1. u \in o /\ 0..u \subseteq 0..t
      BY <2>2
    <3> QED
      BY <1>1, <2>1, <3>1 DEF Left
  <2>4. t \in 0..t
    BY <2>2
  <2> QED
    BY <2>1, <2>2, <2>3, <2>4
<1>3. ASSUME NEW t \in left
      PROVE  At(new, Place(b, t)) = At(c, <<t \div BlockTokens, Offset(t)>>)
  <2>1. Place(b, t) \in Places
    BY <1>2, PagedPosition DEF SlotOK
  <2>2. At(new, Place(b, t)) = At(kv, Place(b, t))
    BY <1>2, <2>1 DEF SameBut
  <2> QED
    BY <1>2, <2>2 DEF SlotOK
<1>4. BoundOK(b) /\ IsPool(c)
  BY DEF SlotOK
<1>5. SlotOK(b, left, new, c)
  BY <1>2, <1>3, <1>4 DEF SlotOK
<1> QED
  BY <1>1, <1>5

\* What a pass in place adds to the slot's positions.
Own(o, pos) == o \cup {p \in {pos} : 0..(pos - 1) \subseteq o}

LEMMA OwnPass ==
    ASSUME NEW w, NEW token, NEW b, NEW pos \in Nat, Page(b, pos) # NoPage,
           NEW row, NEW o, NEW kv, NEW c,
           RowOK(b, row, pos), SlotOK(b, o, kv, c), IsPool(kv),
           NEW r, r = MetalForward(w, token, pos, row, kv),
           NEW f, f = MetalForward(w, token, pos, OwnRow, c)
    PROVE  /\ SlotOK(b, Own(o, pos), r.pool, f.pool)
           /\ pos \in Own(o, pos) => r.logits = f.logits
<1>1. /\ BoundOK(b) /\ IsPool(c) /\ o \subseteq Nat
      /\ \A t \in o : Page(b, t) # NoPage /\ 0..t \subseteq o
      /\ \A t \in o : At(kv, Place(b, t)) = At(c, <<t \div BlockTokens, Offset(t)>>)
  BY Zenon DEF SlotOK
<1>2. /\ pos < Length /\ Cell(row, pos) = Place(b, pos) /\ Cell(row, pos) \in Places
      /\ Cell(OwnRow, pos) \in Places
      /\ Cell(OwnRow, pos) = <<pos \div BlockTokens, Offset(pos)>>
  <2>1. pos \in 0..pos
    OBVIOUS
  <2> QED
    BY <1>1, <2>1, PagedPosition, RowCell, OwnCell
<1>3. SameBut(kv, r.pool, Place(b, pos)) /\ SameBut(c, f.pool, Cell(OwnRow, pos))
  BY <1>1, <1>2, ForwardWrites
<1>4. IsPool(r.pool) /\ IsPool(f.pool)
  BY <1>3 DEF SameBut
<1>5. ASSUME NEW t \in Nat, t # pos, Page(b, t) # NoPage
      PROVE  /\ Place(b, t) \in Places /\ Place(b, t) # Place(b, pos)
             /\ Cell(OwnRow, t) \in Places /\ Cell(OwnRow, t) # Cell(OwnRow, pos)
             /\ Cell(OwnRow, t) = <<t \div BlockTokens, Offset(t)>>
  <2>1. t < Length /\ Place(b, t) \in Places /\ Place(b, t) # Place(b, pos)
    BY <1>1, <1>5, PagedPosition, PlacesApart
  <2>2. Cell(OwnRow, t) \in Places /\ Cell(OwnRow, t) = <<t \div BlockTokens, Offset(t)>>
    BY <2>1, OwnCell
  <2> QED
    BY <1>2, <1>5, <2>1, <2>2, SameCell
<1>6. ASSUME NEW t \in o, t # pos
      PROVE  At(r.pool, Place(b, t)) = At(f.pool, <<t \div BlockTokens, Offset(t)>>)
  <2>1. t \in Nat /\ Page(b, t) # NoPage
    BY <1>1
  <2>2. At(r.pool, Place(b, t)) = At(kv, Place(b, t))
    BY <1>3, <1>5, <1>6, <2>1 DEF SameBut
  <2>3. At(f.pool, Cell(OwnRow, t)) = At(c, Cell(OwnRow, t))
    BY <1>3, <1>5, <1>6, <2>1 DEF SameBut
  <2> QED
    BY <1>1, <1>5, <1>6, <2>1, <2>2, <2>3
<1>7. CASE 0..(pos - 1) \subseteq o
  <2>1. PICK new : new = Own(o, pos) /\ new = o \cup {pos}
    BY <1>7 DEF Own
  <2>2. Apart(row, pos) /\ Apart(OwnRow, pos)
    <3>1. ASSUME NEW t \in 0..pos, t # pos PROVE Cell(row, t) # Cell(row, pos)
      <4>1. t \in 0..(pos - 1) /\ t \in Nat
        BY <3>1
      <4>2. t \in o /\ Page(b, t) # NoPage
        BY <1>1, <1>7, <4>1
      <4>3. Cell(row, t) = Place(b, t)
        BY <1>1, <4>2, RowCell
      <4> QED
        BY <1>2, <1>5, <3>1, <4>1, <4>2, <4>3
    <3>2. \A t \in 0..pos : Cell(row, t) \in Places
      BY <1>1, RowCell
    <3> QED
      BY <1>2, <3>1, <3>2, OwnApart DEF Apart
  <2>3. Agree(kv, row, c, OwnRow, 0..(pos - 1))
    <3>1. ASSUME NEW t \in 0..(pos - 1) PROVE At(kv, Cell(row, t)) = At(c, Cell(OwnRow, t))
      <4>1. t \in Nat /\ t # pos /\ t \in o /\ t \in 0..pos /\ Page(b, t) # NoPage
        BY <1>1, <1>7
      <4>2. Cell(row, t) = Place(b, t)
        BY <1>1, <4>1, RowCell
      <4> QED
        BY <1>1, <1>5, <4>1, <4>2
    <3> QED
      BY <3>1 DEF Agree
  <2>4. /\ r.logits = f.logits
        /\ Agree(r.pool, row, f.pool, OwnRow, 0..pos)
    BY <1>1, <2>2, <2>3, ForwardAgrees
  <2>5. At(r.pool, Place(b, pos)) = At(f.pool, <<pos \div BlockTokens, Offset(pos)>>)
    <3>1. At(r.pool, Cell(row, pos)) = At(f.pool, Cell(OwnRow, pos))
      BY <2>4 DEF Agree
    <3> QED
      BY <1>2, <3>1
  <2>6. \A t \in new : At(r.pool, Place(b, t)) = At(f.pool, <<t \div BlockTokens, Offset(t)>>)
    BY <1>6, <2>1, <2>5
  <2>7. new \subseteq Nat /\ \A t \in new : Page(b, t) # NoPage /\ 0..t \subseteq new
    <3>1. 0..pos \subseteq new
      BY <1>7, <2>1
    <3> QED
      BY <1>1, <2>1, <3>1
  <2>8. SlotOK(b, new, r.pool, f.pool)
    BY <1>1, <1>4, <2>6, <2>7, Zenon DEF SlotOK
  <2> QED
    BY <2>1, <2>4, <2>8
<1>8. CASE ~(0..(pos - 1) \subseteq o)
  <2>1. Own(o, pos) = o
    BY <1>8 DEF Own
  <2>2. pos \notin o
    <3>1. SUFFICES ASSUME pos \in o PROVE FALSE
      OBVIOUS
    <3>2. 0..pos \subseteq o /\ 0..(pos - 1) \subseteq 0..pos
      BY <1>1, <3>1
    <3> QED
      BY <1>8, <3>2
  <2>3. \A t \in o : At(r.pool, Place(b, t)) = At(f.pool, <<t \div BlockTokens, Offset(t)>>)
    BY <1>6, <2>2
  <2>4. SlotOK(b, o, r.pool, f.pool)
    BY <1>1, <1>4, <2>3, Zenon DEF SlotOK
  <2> QED
    BY <2>1, <2>2, <2>4
<1> QED
  BY <1>7, <1>8

\* A word of the mapping is one of the row of a single slot.
LEMMA Word ==
    ASSUME NEW s \in MetalSlots, NEW i \in 0..(Pages - 1)
    PROVE  /\ s * Pages + i \in 0..(SlotCount * Pages - 1)
           /\ (s * Pages + i) \div Pages = s /\ (s * Pages + i) % Pages = i
<1>1. /\ Pages \in Nat /\ Pages > 0 /\ SlotCount \in Nat /\ s \in Nat /\ s < SlotCount
      /\ i \in Nat /\ i < Pages
  BY MetalAssumption DEF MetalSlots
<1>2. PICK e \in Nat : SlotCount = s + 1 + e
  <2>1. SlotCount - s - 1 \in Nat /\ SlotCount = s + 1 + (SlotCount - s - 1)
    BY <1>1
  <2> QED
    BY <2>1
<1>3. /\ SlotCount * Pages = s * Pages + Pages + e * Pages
      /\ s * Pages \in Nat /\ e * Pages \in Nat
  BY <1>1, <1>2
<1>4. PICK word \in Nat : word = s * Pages + i /\ word = Pages * s + i
  BY <1>1, <1>3
<1>5. word \div Pages = s
  BY <1>1, <1>4, DivUnique
<1>6. word = Pages * (word \div Pages) + (word % Pages) /\ word % Pages \in Nat
  BY <1>1
<1>7. word % Pages = i
  <2>1. PICK m \in Nat : m = word % Pages
    BY <1>6
  <2>2. word = Pages * s + m
    BY <1>5, <1>6, <2>1
  <2> QED
    BY <1>1, <1>4, <2>1, <2>2
<1>8. word \in 0..(SlotCount * Pages - 1)
  BY <1>1, <1>3, <1>4
<1> QED
  BY <1>4, <1>5, <1>7, <1>8

\* The kernels find the bound pages in the row of the slot.
LEMMA RowsHold ==
    ASSUME MappingOK, NEW s \in MetalSlots, NEW pos \in Nat, NEW row \in Rows(s, pos)
    PROVE  RowOK(bound[s], row, pos)
<1>1. /\ row \in [0..(pos \div BlockTokens) -> 0..(Pages - 1)]
      /\ \A i \in 0..(pos \div BlockTokens) :
            s * Pages + i \in DOMAIN mapping => row[i] = mapping[s * Pages + i]
  BY DEF Rows
<1>2. ASSUME NEW i \in 0..(pos \div BlockTokens), i < Pages
      PROVE  row[i] = IF i < Len(bound[s]) THEN bound[s][i + 1] ELSE 0
  <2>1. i \in 0..(Pages - 1)
    <3>1. Pages \in Nat /\ pos \div BlockTokens \in Nat
      BY Split, MetalAssumption
    <3> QED
      BY <1>2, <3>1
  <2>2. s * Pages + i \in DOMAIN mapping
    BY <2>1, Word DEF MappingOK
  <2> QED
    BY <1>1, <2>1, <2>2 DEF MappingOK
<1> QED
  BY <1>1, <1>2 DEF RowOK

LEMMA MetalStart == MetalInit => MetalInv
<1> SUFFICES ASSUME MetalInit PROVE MetalInv
  OBVIOUS
<1>1. IsPool(EmptyPool)
  <2>1. PICK e : EmptyPool = [p \in 0..(Pages - 1) |-> [t \in 0..(BlockTokens - 1) |-> e]]
    BY Zenon DEF EmptyPool
  <2> QED
    BY <2>1 DEF IsPool
<1>2. BoundOK(<<>>)
  BY MetalAssumption DEF BoundOK
<1>3. SlotOK(<<>>, {}, EmptyPool, EmptyPool)
  BY <1>1, <1>2 DEF SlotOK
<1>4. \A s \in MetalSlots : SlotOK(bound[s], own[s], kvPool, contiguous[s])
  BY <1>3, Zenon DEF MetalInit
<1>5. BackendOK
  <2>1. None \in BoundPrefixes
    BY Zenon DEF BoundPrefixes
  <2>2. backend = [model |-> FALSE, wired |-> FALSE, prefix |-> None, slot |-> NoSlot]
    BY Zenon DEF MetalInit
  <2> QED
    BY <2>1, <2>2 DEF BackendOK
<1>6. /\ bound = [s \in MetalSlots |-> bound[s]]
      /\ own = [s \in MetalSlots |-> own[s]] /\ contiguous = [s \in MetalSlots |-> contiguous[s]]
  BY DEF MetalInit
<1>7. IsPool(kvPool) /\ ResultOK(result)
  BY <1>1 DEF MetalInit, ResultOK, None
<1>8. MappingOK
  <2>1. /\ mapping = [word \in 0..(SlotCount * Pages - 1) |-> 0]
        /\ \A s \in MetalSlots : bound[s] = <<>>
    BY DEF MetalInit, EmptyMapping
  <2>2. mapping \in [0..(SlotCount * Pages - 1) -> 0..(Pages - 1)]
    BY <2>1, MetalAssumption
  <2>3. ASSUME NEW s \in MetalSlots, NEW i \in 0..(Pages - 1)
        PROVE  mapping[s * Pages + i] = IF i < Len(bound[s]) THEN bound[s][i + 1] ELSE 0
    BY <2>1, Word
  <2> QED
    BY <2>2, <2>3 DEF MappingOK
<1> QED
  BY <1>4, <1>5, <1>6, <1>7, <1>8, Zenon DEF MetalInv

\* A call that leaves the caches and the result alone.
LEMMA QuietKeeps ==
    ASSUME MetalInv, UNCHANGED <<mapping, kvPool, bound, own, contiguous>>, ResultOK(result)', BackendOK'
    PROVE  MetalInv'
BY Zenon DEF MetalInv, MappingOK

\* bind_slot of the runtime gives a slot new pages, and none of its positions
\* is its own before a pass ran there.
LEMMA BindKeeps ==
    ASSUME MetalInv, NEW s \in MetalSlots, NEW pages \in RowChoices, RuntimeBindSlot(s, pages)
    PROVE  MetalInv'
<1>1. CASE Len(pages) > Pages
  <2>1. result' = [outcome |-> "error"]
        /\ UNCHANGED <<backend, mapping, kvPool, bound, own, contiguous>>
    BY <1>1 DEF RuntimeBindSlot, Fail
  <2>2. ResultOK(result)'
    BY <2>1 DEF ResultOK
  <2>3. BackendOK'
    BY <2>1, Zenon DEF MetalInv, BackendOK
  <2> QED
    BY <2>1, <2>2, <2>3, QuietKeeps
<1>2. CASE ~(Len(pages) > Pages)
  <2>1. /\ mapping' = [word \in DOMAIN mapping |->
                IF word \div Pages # s THEN mapping[word]
                ELSE IF word % Pages < Len(pages) THEN pages[(word % Pages) + 1] ELSE 0]
        /\ bound' = [bound EXCEPT ![s] = pages] /\ own' = [own EXCEPT ![s] = {}]
        /\ UNCHANGED <<backend, kvPool, result, contiguous>>
    BY <1>2 DEF RuntimeBindSlot
  <2>2. Pages \in Nat /\ Pages > 0 /\ SlotCount \in Nat
    BY MetalAssumption
  <2>3. PICK n \in Nat : /\ n = Len(pages) /\ DOMAIN pages = 1..n /\ n <= Pages
                         /\ \A j \in 1..n : pages[j] \in 0..(Pages - 1)
    <3>1. PICK R : R = 0..(Pages - 1)
      OBVIOUS
    <3>2. ~(Len(pages) > Pages) => pages \in Seq(R)
      BY <3>1, MetalAssumption
    <3>3. Len(pages) \in Nat \/ Len(pages) > Pages
      BY <1>2, <3>2
    <3>4. pages \in Seq(R) /\ Len(pages) \in Nat /\ DOMAIN pages = 1..Len(pages)
          /\ \A j \in 1..Len(pages) : pages[j] \in R
      BY <1>2, <3>2
    <3>5. Len(pages) <= Pages
      BY <1>2, <2>2, <3>4
    <3> QED
      BY <3>1, <3>4, <3>5
  <2>4. BoundOK(pages)
    <3>1. Len(pages) <= Pages
      BY <2>2, <2>3
    <3> QED
      BY <3>1, MetalAssumption DEF BoundOK
  <2>5. /\ BackendOK /\ bound = [u \in MetalSlots |-> bound[u]]
        /\ own = [u \in MetalSlots |-> own[u]] /\ contiguous = [u \in MetalSlots |-> contiguous[u]]
        /\ \A u \in MetalSlots : SlotOK(bound[u], own[u], kvPool, contiguous[u])
        /\ MappingOK /\ IsPool(kvPool) /\ ResultOK(result)
    BY Zenon DEF MetalInv
  <2>6. /\ bound' = [u \in MetalSlots |-> bound'[u]] /\ bound'[s] = pages
        /\ own' = [u \in MetalSlots |-> own'[u]] /\ own'[s] = {}
        /\ \A u \in MetalSlots : u # s => bound'[u] = bound[u] /\ own'[u] = own[u]
    BY <2>1, <2>5
  <2>7. IsPool(contiguous[s])
    BY <2>5 DEF SlotOK
  <2>8. SlotOK(pages, {}, kvPool, contiguous[s])
    BY <2>4, <2>7 DEF SlotOK
  <2>9. ASSUME NEW u \in MetalSlots
        PROVE  SlotOK(bound'[u], own'[u], kvPool, contiguous[u])
    <3>1. CASE u = s
      BY <2>6, <2>8, <3>1
    <3>2. CASE u # s
      BY <2>5, <2>6, <3>2
    <3> QED
      BY <3>1, <3>2
  <2>10. backend' = backend /\ kvPool' = kvPool /\ contiguous' = contiguous /\ result' = result
    BY <2>1
  <2>11. /\ mapping \in [0..(SlotCount * Pages - 1) -> 0..(Pages - 1)]
         /\ \A u \in MetalSlots : \A i \in 0..(Pages - 1) :
               mapping[u * Pages + i] = IF i < Len(bound[u]) THEN bound[u][i + 1] ELSE 0
    BY <2>5 DEF MappingOK
  <2>12. mapping' \in [0..(SlotCount * Pages - 1) -> 0..(Pages - 1)]
    <3>1. ASSUME NEW word \in 0..(SlotCount * Pages - 1)
          PROVE  (IF word \div Pages # s THEN mapping[word]
                  ELSE IF word % Pages < Len(pages) THEN pages[(word % Pages) + 1] ELSE 0)
                    \in 0..(Pages - 1)
      <4>1. mapping[word] \in 0..(Pages - 1) /\ 0 \in 0..(Pages - 1)
        BY <2>2, <2>11
      <4>2. PICK m \in Nat : m = word % Pages
        BY <2>2
      <4>3. m < n => m + 1 \in 1..n
        BY <2>3, <4>2
      <4> QED
        BY <2>3, <4>1, <4>2, <4>3
    <3> QED
      BY <2>1, <2>11, <3>1
  <2>13. ASSUME NEW u \in MetalSlots, NEW i \in 0..(Pages - 1)
         PROVE  mapping'[u * Pages + i] = IF i < Len(bound'[u]) THEN bound'[u][i + 1] ELSE 0
    <3>1. PICK word \in DOMAIN mapping :
             word = u * Pages + i /\ word \div Pages = u /\ word % Pages = i
      BY <2>11, Word
    <3>2. mapping'[word] = IF word \div Pages # s THEN mapping[word]
                           ELSE IF word % Pages < Len(pages) THEN pages[(word % Pages) + 1] ELSE 0
      BY <2>1, <3>1
    <3>3. CASE u = s
      BY <2>6, <3>1, <3>2, <3>3
    <3>4. CASE u # s
      BY <2>6, <2>11, <3>1, <3>2, <3>4
    <3> QED
      BY <3>3, <3>4
  <2>14. MappingOK'
    BY <2>12, <2>13 DEF MappingOK
  <2>15. BackendOK'
    BY <2>5, <2>10, Zenon DEF BackendOK
  <2> QED
    BY <2>5, <2>6, <2>9, <2>10, <2>14, <2>15, Zenon DEF MetalInv
<1> QED
  BY <1>1, <1>2

\* A pass keeps what every slot has of its own, whatever row it went through.
LEMMA SampleKeeps ==
    ASSUME MetalInv, NEW r \in MetalSlots, NEW len \in ContextLengths, SampleNext(r, len)
    PROVE  MetalInv'
<1>1. CASE SampleError(len) # None
  <2>1. result' = [outcome |-> "error"]
        /\ UNCHANGED <<backend, mapping, kvPool, bound, own, contiguous>>
    BY <1>1 DEF SampleNext, Fail
  <2>2. ResultOK(result)'
    BY <2>1 DEF ResultOK
  <2>3. BackendOK'
    BY <2>1, Zenon DEF MetalInv, BackendOK
  <2> QED
    BY <2>1, <2>2, <2>3, QuietKeeps
<1>2. CASE SampleError(len) = None
  <2>1. len # 0 /\ len \in Nat /\ backend.slot \in MetalSlots
    <3>1. BackendOK
      BY Zenon DEF MetalInv
    <3>2. len \in Nat
      BY MetalAssumption
    <3>3. backend.slot \in MetalSlots \cup {NoSlot}
      BY <3>1 DEF BackendOK
    <3>4. len # 0 /\ backend.slot # NoSlot
      BY <1>2, Zenon DEF SampleError, None
    <3> QED
      BY <3>2, <3>3, <3>4
  <2>2. PICK s \in MetalSlots, pos \in Nat : s = backend.slot /\ pos = len - 1
    BY <2>1
  <2>3. PICK token : token = MetalText[r][len]
    OBVIOUS
  <2>4. PICK row \in Rows(s, pos) : \E f, g :
           /\ f = MetalForward(MetalWeights, token, pos, row, kvPool)
           /\ g = MetalForward(MetalWeights, token, pos, OwnRow, contiguous[s])
           /\ Ran(r, s, pos, row, f, g)
    BY <1>2, <2>2, <2>3, Zenon DEF SampleNext
  <2> PICK f, g : /\ f = MetalForward(MetalWeights, token, pos, row, kvPool)
                  /\ g = MetalForward(MetalWeights, token, pos, OwnRow, contiguous[s])
                  /\ Ran(r, s, pos, row, f, g)
    BY <2>4
  <2> DEFINE right == InPlace(r, s, pos)
             cell == IF PageOf(s, pos) = NoPage THEN Cell(row, pos) ELSE CellOf(s, pos)
             kept(u) == {p \in own[u] : \A t \in 0..p : CellOf(u, t) # cell}
             left(u) == IF u # s \/ ~right THEN kept(u)
                        ELSE own[s] \cup {p \in {pos} : 0..(pos - 1) \subseteq own[s]}
  <2>5. /\ right = InPlace(r, s, pos)
        /\ cell = IF PageOf(s, pos) = NoPage THEN Cell(row, pos) ELSE CellOf(s, pos)
    OBVIOUS
  <2>6. /\ kvPool' = f.pool
        /\ contiguous' = IF right THEN [contiguous EXCEPT ![s] = g.pool] ELSE contiguous
        /\ own' = [u \in MetalSlots |-> left(u)]
        /\ result' = [outcome |-> "ran", logits |-> f.logits, tokens |-> ArgMax(f.logits),
                      exact |-> right /\ pos \in own'[s],
                      contiguous |-> IF right THEN g.logits ELSE <<>>]
        /\ UNCHANGED <<backend, mapping, bound>>
    BY Zenon DEF Ran
  <2> HIDE DEF right, cell
  <2>7. \A u \in MetalSlots : \A t \in Nat : PageOf(u, t) = Page(bound[u], t)
                                             /\ CellOf(u, t) = Place(bound[u], t)
    BY DEF PageOf, Page, CellOf, Place, Offset
  <2>8. /\ BackendOK /\ bound = [u \in MetalSlots |-> bound[u]]
        /\ contiguous = [u \in MetalSlots |-> contiguous[u]] /\ IsPool(kvPool) /\ MappingOK
        /\ \A u \in MetalSlots : SlotOK(bound[u], own[u], kvPool, contiguous[u])
    BY Zenon DEF MetalInv
  <2>9. BoundOK(bound[s]) /\ RowOK(bound[s], row, pos)
    BY <2>8, RowsHold DEF SlotOK
  <2>10. Cell(row, pos) \in Places /\ cell = Cell(row, pos)
    <3>1. pos \in 0..pos
      OBVIOUS
    <3>2. /\ Cell(row, pos) \in Places
          /\ Page(bound[s], pos) # NoPage => Cell(row, pos) = Place(bound[s], pos)
      BY <2>9, <3>1, RowCell
    <3> QED
      BY <2>5, <2>7, <3>2
  <2>11. SameBut(kvPool, f.pool, cell)
    BY <2>4, <2>8, <2>10, ForwardWrites, Zenon
  <2>12. IsPool(f.pool)
    BY <2>11 DEF SameBut
  <2>13. \A u \in MetalSlots : own'[u] = left(u)
    BY <2>6
  <2>14. ASSUME NEW u \in MetalSlots, u # s \/ ~right
         PROVE  SlotOK(bound[u], own'[u], f.pool, contiguous[u])
    <3>1. own'[u] = kept(u)
      BY <2>13, <2>14
    <3>2. own[u] \subseteq Nat
      BY <2>8 DEF SlotOK
    <3>3. kept(u) = Left(bound[u], own[u], cell)
      <4>1. ASSUME NEW p \in own[u], NEW t \in 0..p PROVE CellOf(u, t) = Place(bound[u], t)
        BY <2>7, <3>2
      <4> QED
        BY <4>1 DEF Left
    <3>4. PICK b, o, c : b = bound[u] /\ o = own[u] /\ c = contiguous[u]
      OBVIOUS
    <3>5. SlotOK(b, o, kvPool, c)
      BY <2>8, <3>4
    <3>6. SlotOK(b, Left(b, o, cell), f.pool, c)
      BY <2>11, <3>5, OtherPass
    <3> QED
      BY <3>1, <3>3, <3>4, <3>6, Zenon
  <2>15. CASE ~right
    <3>1. contiguous' = contiguous /\ result'.exact = FALSE
      BY <2>6, <2>15
    <3>2. \A u \in MetalSlots : SlotOK(bound'[u], own'[u], kvPool', contiguous'[u])
      BY <2>6, <2>14, <2>15, <3>1
    <3>3. ResultOK(result)'
      BY <3>1 DEF ResultOK
    <3>4. own' = [u \in MetalSlots |-> own'[u]] /\ MappingOK' /\ IsPool(kvPool')
      BY <2>6, <2>8, <2>12, Zenon DEF MappingOK
    <3>5. BackendOK' /\ bound' = bound
      BY <2>6, <2>8, Zenon DEF BackendOK
    <3> QED
      BY <2>8, <3>1, <3>2, <3>3, <3>4, <3>5, Zenon DEF MetalInv
  <2>16. CASE right
    <3>1. Page(bound[s], pos) # NoPage
      BY <2>5, <2>7, <2>16 DEF InPlace
    <3>2. own'[s] = Own(own[s], pos)
      BY <2>13, <2>16 DEF Own
    <3>3. /\ SlotOK(bound[s], own'[s], f.pool, g.pool)
          /\ pos \in own'[s] => f.logits = g.logits
      <4>1. PICK b, o, kv, c : b = bound[s] /\ o = own[s] /\ kv = kvPool /\ c = contiguous[s]
        OBVIOUS
      <4>2. /\ SlotOK(b, o, kv, c) /\ IsPool(kv) /\ RowOK(b, row, pos) /\ Page(b, pos) # NoPage
            /\ f = MetalForward(MetalWeights, token, pos, row, kv)
            /\ g = MetalForward(MetalWeights, token, pos, OwnRow, c)
        BY <2>4, <2>8, <2>9, <3>1, <4>1
      <4>3. SlotOK(b, Own(o, pos), f.pool, g.pool) /\ (pos \in Own(o, pos) => f.logits = g.logits)
        BY <4>2, OwnPass
      <4> QED
        BY <3>2, <4>1, <4>3
    <3>4. contiguous' = [contiguous EXCEPT ![s] = g.pool]
      BY <2>6, <2>16
    <3>5. /\ contiguous' = [u \in MetalSlots |-> contiguous'[u]] /\ contiguous'[s] = g.pool
          /\ \A u \in MetalSlots : u # s => contiguous'[u] = contiguous[u]
      BY <2>8, <3>4
    <3>6. ASSUME NEW u \in MetalSlots
          PROVE  SlotOK(bound[u], own'[u], f.pool, contiguous'[u])
      <4>1. CASE u = s
        BY <3>3, <3>5, <4>1
      <4>2. CASE u # s
        BY <2>14, <3>5, <4>2
      <4> QED
        BY <4>1, <4>2
    <3>7. \A u \in MetalSlots : SlotOK(bound'[u], own'[u], kvPool', contiguous'[u])
      BY <2>6, <3>6
    <3>8. ResultOK(result)'
      BY <2>6, <2>16, <3>3 DEF ResultOK
    <3>9. own' = [u \in MetalSlots |-> own'[u]] /\ MappingOK' /\ IsPool(kvPool')
      BY <2>6, <2>8, <2>12, Zenon DEF MappingOK
    <3>10. BackendOK' /\ bound' = bound
      BY <2>6, <2>8, Zenon DEF BackendOK
    <3> QED
      BY <2>8, <3>5, <3>7, <3>8, <3>9, <3>10, Zenon DEF MetalInv
  <2>17. right \in BOOLEAN
    BY <2>5 DEF InPlace
  <2> QED
    BY <2>15, <2>16, <2>17
<1> QED
  BY <1>1, <1>2

LEMMA MetalStep == MetalInv /\ [MetalNext]_metalVars => MetalInv'
<1> SUFFICES ASSUME MetalInv, [MetalNext]_metalVars PROVE MetalInv'
  OBVIOUS
<1>1. BackendOK /\ ResultOK(result)
  BY Zenon DEF MetalInv
<1>2. ASSUME Fail PROVE MetalInv'
  <2>1. result' = [outcome |-> "error"] /\ backend' = backend
        /\ UNCHANGED <<mapping, kvPool, bound, own, contiguous>>
    BY <1>2 DEF Fail
  <2>2. ResultOK(result)'
    BY <2>1 DEF ResultOK
  <2>3. BackendOK'
    BY <1>1, <2>1, Zenon DEF BackendOK
  <2> QED
    BY <2>1, <2>2, <2>3, QuietKeeps
<1>3. ASSUME UNCHANGED <<mapping, kvPool, bound, own, contiguous, result>>, BackendOK'
      PROVE  MetalInv'
  <2>1. result' = result /\ UNCHANGED <<mapping, kvPool, bound, own, contiguous>>
    BY <1>3
  <2>2. ResultOK(result)'
    BY <1>1, <2>1, Zenon DEF ResultOK
  <2> QED
    BY <1>3, <2>1, <2>2, QuietKeeps
<1>4. CASE WithModel \/ Wire
  <2>1. BackendOK' /\ UNCHANGED <<mapping, kvPool, bound, own, contiguous, result>>
    BY <1>1, <1>4 DEF WithModel, Wire, Quiet, BackendOK
  <2> QED
    BY <1>3, <2>1
<1>5. CASE \E h \in Handles \cup {"no handle"} : BindPrefixCache(h) \/ ReleaseSpan(h)
  <2>1. \E h \in BoundPrefixes : BindPrefixCache(h) \/ ReleaseSpan(h)
    BY <1>5, Zenon DEF BoundPrefixes
  <2>2. BackendOK' /\ UNCHANGED <<mapping, kvPool, bound, own, contiguous, result>>
    BY <1>1, <2>1 DEF BindPrefixCache, ReleaseSpan, Quiet, BackendOK
  <2> QED
    BY <1>3, <2>2
<1>6. CASE \E s \in MetalSlots : BindSlot(s)
  <2>1. BackendOK' /\ UNCHANGED <<mapping, kvPool, bound, own, contiguous, result>>
    BY <1>1, <1>6 DEF BindSlot, Quiet, BackendOK
  <2> QED
    BY <1>3, <2>1
<1>7. CASE \E s \in MetalSlots : \E pages \in RowChoices : RuntimeBindSlot(s, pages)
  BY <1>7, BindKeeps
<1>8. CASE \E len \in ContextLengths : Logits(len) \/ \E r \in MetalSlots : SampleNext(r, len)
  BY <1>2, <1>8, SampleKeeps DEF Logits
<1>9. CASE UNCHANGED metalVars
  <2>1. UNCHANGED <<backend, mapping, kvPool, bound, own, contiguous, result>>
    BY <1>9 DEF metalVars
  <2>2. BackendOK'
    BY <1>1, <2>1, Zenon DEF BackendOK
  <2> QED
    BY <1>3, <2>1, <2>2
<1> QED
  BY <1>4, <1>5, <1>6, <1>7, <1>8, <1>9, Zenon DEF MetalNext

\* Paging is transparent (bind_slot, sample_next, kv_update and
\* paged_attention_flash): a pass of a request under its own slot's binding, at a
\* position with a page, returns the logits of the same pass over a contiguous
\* cache, as long as the positions before it are its own.  For all weights, every
\* architecture whose heads have at most 128 dimensions, any rows, overlapping or
\* not, contexts of any length and passes of any request under any binding: those
\* that are not in place are promised nothing, and take from the slots only the
\* positions from the one they wrote over.
THEOREM PagingTransparent == Spec => []PagedCacheExact
<1>1. InferenceInit => MetalInv
  BY MetalStart, Zenon DEF InferenceInit
<1>2. MetalInv /\ [InferenceNext]_inferenceVars => MetalInv'
  <2>1. [InferenceNext]_inferenceVars => [MetalNext]_metalVars
    BY Zenon DEF InferenceNext, inferenceVars
  <2> QED
    BY <2>1, MetalStep
<1>3. MetalInv => PagedCacheExact
  <2> SUFFICES ASSUME MetalInv PROVE PagedCacheExact
    OBVIOUS
  <2>1. ASSUME NEW s \in MetalSlots, NEW pos \in own[s]
        PROVE  kvPool[PageOf(s, pos)][pos % BlockTokens]
                  = contiguous[s][pos \div BlockTokens][pos % BlockTokens]
    <3>1. At(kvPool, Place(bound[s], pos))
             = At(contiguous[s], <<pos \div BlockTokens, Offset(pos)>>)
      BY Zenon DEF MetalInv, SlotOK
    <3>2. PageOf(s, pos) = Page(bound[s], pos)
      BY DEF PageOf, Page
    <3> QED
      BY <3>1, <3>2 DEF At, Place, Offset
  <2>2. ResultOK(result)
    BY Zenon DEF MetalInv
  <2> QED
    BY <2>1, <2>2 DEF PagedCacheExact, ResultOK
<1> QED
  BY <1>1, <1>2, <1>3, PTL DEF Spec

-----------------------------------------------------------------------------
(***************************************************************************)
(* What load_gguf accepts.                                                 *)
(***************************************************************************)

\* The products of the first dimensions of a shape.
Products(f, shape) ==
    /\ \A i \in 0..Len(shape) : f[i] \in Nat
    /\ f[0] = 1 /\ \A i \in 1..Len(shape) : f[i] = f[i - 1] * shape[i]

LEMMA ElementsExist ==
    ASSUME NEW shape \in Seq(Nat)
    PROVE  \E f : Products(f, shape) /\ NElements(shape) = f[Len(shape)]
<1> DEFINE product == CHOOSE product : product =
                         [i \in 0..Len(shape) |-> IF i = 0 THEN 1 ELSE product[i - 1] * shape[i]]
<1>1. NElements(shape) = product[Len(shape)]
  BY Zenon DEF NElements
<1>2. PICK n \in Nat : n = Len(shape) /\ \A i \in 1..n : shape[i] \in Nat
  OBVIOUS
<1>3. PICK step : step = [i \in 1..n |-> [v \in Nat |-> v * shape[i]]]
  OBVIOUS
<1>4. step \in [1..n -> [Nat -> Nat]]
  <2>1. ASSUME NEW i \in 1..n PROVE [v \in Nat |-> v * shape[i]] \in [Nat -> Nat]
    <3>1. PICK d \in Nat : d = shape[i]
      BY <1>2
    <3>2. [v \in Nat |-> v * d] \in [Nat -> Nat]
      OBVIOUS
    <3> QED
      BY <3>1, <3>2
  <2> QED
    BY <1>3, <2>1
<1>5. PICK g : IsRecursion(g, Nat, 1, n, step)
  BY <1>4, RecursionExists
<1>6. /\ g \in [0..n -> Nat] /\ g[0] = 1 /\ \A i \in 1..n : g[i] = g[i - 1] * shape[i]
  <2>1. g \in [0..n -> Nat] /\ g[0] = 1
    BY <1>5 DEF IsRecursion
  <2>2. ASSUME NEW i \in 1..n PROVE g[i] = g[i - 1] * shape[i]
    <3>1. g[i] = step[i][g[i - 1]] /\ g[i - 1] \in Nat
      BY <1>5, <2>1 DEF IsRecursion
    <3>2. step[i] = [v \in Nat |-> v * shape[i]]
      BY <1>3
    <3> QED
      BY <3>1, <3>2
  <2> QED
    BY <2>1, <2>2
<1>7. g = [i \in 0..Len(shape) |-> IF i = 0 THEN 1 ELSE g[i - 1] * shape[i]]
  BY <1>2, <1>6
<1>8. product = [i \in 0..Len(shape) |-> IF i = 0 THEN 1 ELSE product[i - 1] * shape[i]]
  BY <1>7, Zenon
<1> HIDE DEF product
<1>9. product[0] = 1 /\ \A i \in 1..n : product[i] = product[i - 1] * shape[i]
  <2>1. product[0] = 1
    BY <1>2, <1>8
  <2>2. ASSUME NEW i \in 1..n PROVE product[i] = product[i - 1] * shape[i]
    <3>1. i \in 0..Len(shape) /\ i # 0
      BY <1>2
    <3> QED
      BY <1>8, <3>1, Zenon
  <2> QED
    BY <2>1, <2>2
<1>10. \A i \in 0..n : product[i] \in Nat
  <2> DEFINE S == {i \in 0..n : product[i] \in Nat}
  <2>1. S \in SUBSET (0..n) /\ 0 \in S
    BY <1>9
  <2>2. ASSUME NEW i \in 1..n, i - 1 \in S PROVE i \in S
    BY <1>2, <1>9, <2>2
  <2> HIDE DEF S
  <2>3. S = 0..n
    BY <2>1, <2>2, IntervalInduction
  <2> QED
    BY <2>3 DEF S
<1>11. Products(product, shape)
  BY <1>2, <1>9, <1>10 DEF Products
<1> QED
  BY <1>1, <1>11

\* The elements of a vector and of a matrix.
LEMMA Elements ==
    ASSUME NEW shape \in Seq(Nat)
    PROVE  /\ NElements(shape) \in Nat
           /\ \A a \in Nat : shape = <<a>> => NElements(shape) = a
           /\ \A a, b \in Nat : shape = <<a, b>> => NElements(shape) = a * b
<1>1. PICK f : Products(f, shape) /\ NElements(shape) = f[Len(shape)]
  BY ElementsExist
<1>2. NElements(shape) \in Nat
  <2>1. PICK n \in Nat : n = Len(shape)
    OBVIOUS
  <2> QED
    BY <1>1, <2>1 DEF Products
<1>3. ASSUME NEW a \in Nat, shape = <<a>> PROVE NElements(shape) = a
  <2>1. Len(shape) = 1 /\ shape[1] = a
    BY <1>3
  <2>2. f[0] = 1 /\ f[1] = f[0] * a
    BY <1>1, <2>1 DEF Products
  <2> QED
    BY <1>1, <2>1, <2>2
<1>4. ASSUME NEW a \in Nat, NEW b \in Nat, shape = <<a, b>> PROVE NElements(shape) = a * b
  <2>1. Len(shape) = 2 /\ shape[1] = a /\ shape[2] = b
    BY <1>4
  <2>2. f[0] = 1 /\ f[1] = f[0] * a /\ f[2] = f[1] * b
    BY <1>1, <2>1 DEF Products
  <2>3. f[1] = a
    BY <2>2
  <2> QED
    BY <1>1, <2>1, <2>2, <2>3
<1> QED
  BY <1>2, <1>3, <1>4

LEMMA BlockNumbers ==
    ASSUME NEW dtype \in DOMAIN BlockParams
    PROVE  BlockParams[dtype][1] \in Nat /\ BlockParams[dtype][2] \in Nat \ {0}
BY DEF BlockParams

LEMMA BytesAreNumbers ==
    ASSUME NEW dtype \in DOMAIN BlockParams, NEW n \in Nat
    PROVE  NBytes(dtype, n) \in Nat
<1>1. PICK S \in Nat, B \in Nat \ {0} : S = BlockParams[dtype][1] /\ B = BlockParams[dtype][2]
  BY BlockNumbers
<1>2. PICK d \in Nat : d = (n + B - 1) \div B
  BY RoundUp
<1> QED
  BY <1>1, <1>2 DEF NBytes, DivCeil

\* Rows of whole blocks take no more bytes than the tensor they are in.
LEMMA RowsFit ==
    ASSUME NEW dtype \in DOMAIN BlockParams, NEW rows \in Nat, NEW cols \in Nat, NEW n \in Nat,
           rows * cols <= n, cols % BlockParams[dtype][2] = 0
    PROVE  rows * NBytes(dtype, cols) <= NBytes(dtype, n)
<1>1. PICK S \in Nat, B \in Nat \ {0} : S = BlockParams[dtype][1] /\ B = BlockParams[dtype][2]
  BY BlockNumbers
<1>2. PICK k \in Nat : k = cols \div B
  OBVIOUS
<1>3. cols = B * k
  <2>1. cols % B = 0
    BY <1>1
  <2>2. cols = B * (cols \div B) + (cols % B)
    OBVIOUS
  <2> QED
    BY <1>2, <2>1, <2>2
<1>4. (cols + B - 1) \div B = k
  <2>1. PICK d \in Nat : d = (cols + B - 1) \div B
    BY RoundUp
  <2>2. d * B \in cols..(cols + B - 1)
    BY <2>1, RoundUp
  <2>3. ~(d < k)
    <3>1. SUFFICES ASSUME d < k PROVE FALSE
      OBVIOUS
    <3>2. PICK e \in Nat : k = d + 1 + e
      <4>1. k - d - 1 \in Nat /\ k = d + 1 + (k - d - 1)
        BY <3>1
      <4> QED
        BY <4>1
    <3>3. B * k = d * B + B + B * e /\ B * e \in Nat
      BY <3>2
    <3> QED
      BY <1>3, <2>2, <3>3
  <2>4. ~(d > k)
    <3>1. SUFFICES ASSUME d > k PROVE FALSE
      OBVIOUS
    <3>2. PICK e \in Nat : d = k + 1 + e
      <4>1. d - k - 1 \in Nat /\ d = k + 1 + (d - k - 1)
        BY <3>1
      <4> QED
        BY <4>1
    <3>3. d * B = B * k + B + B * e /\ B * e \in Nat
      BY <3>2
    <3> QED
      BY <1>3, <2>2, <3>3
  <2> QED
    BY <2>1, <2>3, <2>4
<1>5. PICK d \in Nat : d = (n + B - 1) \div B
  BY RoundUp
<1>6. d * B \in n..(n + B - 1)
  BY <1>5, RoundUp
<1>7. rows * k <= d
  <2>1. PICK m \in Nat : m = rows * k
    OBVIOUS
  <2>2. rows * cols = B * m
    BY <1>3, <2>1
  <2>3. SUFFICES ASSUME d < m PROVE FALSE
    BY <2>1
  <2>4. PICK e \in Nat : m = d + 1 + e
    <3>1. m - d - 1 \in Nat /\ m = d + 1 + (m - d - 1)
      BY <2>3
    <3> QED
      BY <3>1
  <2>5. B * m = d * B + B + B * e /\ B * e \in Nat
    BY <2>4
  <2> QED
    BY <1>6, <2>2, <2>5
<1>8. (rows * k) * S <= d * S
  <2>1. PICK m \in Nat : m = rows * k
    OBVIOUS
  <2>2. PICK e \in Nat : d = m + e
    <3>1. d - m \in Nat /\ d = m + (d - m)
      BY <1>7, <2>1
    <3> QED
      BY <3>1
  <2>3. d * S = m * S + e * S /\ e * S \in Nat /\ m * S \in Nat
    BY <2>2
  <2> QED
    BY <2>1, <2>3
<1>9. rows * (k * S) = (rows * k) * S
  OBVIOUS
<1> QED
  BY <1>1, <1>4, <1>5, <1>8, <1>9 DEF NBytes, DivCeil

\* What a file of the right architecture has for sizes.
IsArch(m) ==
    /\ m.n_vocab \in Nat /\ m.n_embd \in Nat /\ m.n_layer \in Nat /\ m.n_ff \in Nat
    /\ m.n_ctx \in Nat
    /\ m.n_head \in Nat /\ m.n_head_kv \in Nat /\ m.head_dim \in Nat
    /\ m.n_head * m.head_dim <= m.n_embd

LEMMA ArchOf ==
    ASSUME NEW meta, NEW index, MetaError(meta) = "none",
           \A key \in DOMAIN meta :
              meta[key].type \in {"U32", "U64", "Array"} => meta[key].value \in Nat
    PROVE  IsArch(ModelMeta(meta, index))
<1>1. /\ \A key \in Required : key \in DOMAIN meta /\ meta[key].type = "U32"
      /\ meta.head_count.value # 0
  <2>1. \A key \in Required : Has(meta, key, U32)
    BY SMT DEF MetaError
  <2>2. meta.head_count.value # 0
    BY SMT DEF MetaError
  <2> QED
    BY <2>1, <2>2 DEF Has, U32
<1>2. /\ meta.embedding_length.value \in Nat /\ meta.block_count.value \in Nat
      /\ meta.head_count.value \in Nat /\ meta.feed_forward_length.value \in Nat
  <2>1. \A key \in Required : meta[key].value \in Nat
    BY <1>1 DEF Required
  <2> QED
    BY <2>1 DEF Required
<1>3. ASSUME NEW key, NEW types, types \subseteq {"U32", "U64", "Array"}, NEW d \in Nat
      PROVE  Or(meta, key, types, d) \in Nat
  BY <1>3 DEF Or, Has
<1>4. PICK embd \in Nat, heads \in Nat \ {0} :
         embd = meta.embedding_length.value /\ heads = meta.head_count.value
  BY <1>1, <1>2
<1>5. PICK dim \in Nat : dim = embd \div heads /\ heads * dim <= embd
  <2>1. embd \div heads \in Nat /\ heads * (embd \div heads) <= embd
    <3>1. embd = heads * (embd \div heads) + (embd % heads)
      BY <1>4
    <3>2. embd % heads \in Nat /\ embd \div heads \in Nat
      BY <1>4
    <3> QED
      BY <3>1, <3>2
  <2> QED
    BY <2>1
<1>6. PICK m : m = ModelMeta(meta, index)
  OBVIOUS
<1>7. /\ m.n_embd = embd /\ m.n_head = heads /\ m.head_dim = dim
      /\ m.n_layer = meta.block_count.value /\ m.n_ff = meta.feed_forward_length.value
      /\ m.n_vocab = Or(meta, "tokens", {"Array"}, Or(meta, "vocab_size", U32, 0))
      /\ m.n_head_kv = Or(meta, "head_count_kv", U32, meta.head_count.value)
      /\ m.n_ctx = Or(meta, "context_length", U32, 4096)
  BY <1>4, <1>5, <1>6 DEF ModelMeta
<1>8. m.n_vocab \in Nat /\ m.n_head_kv \in Nat /\ m.n_ctx \in Nat
  <2>1. Or(meta, "vocab_size", U32, 0) \in Nat
    BY <1>3 DEF U32
  <2> QED
    BY <1>2, <1>3, <1>7, <2>1 DEF U32
<1> QED
  BY <1>2, <1>4, <1>5, <1>6, <1>7, <1>8 DEF IsArch

\* A list between one entry and two others.
LEMMA Framed ==
    ASSUME NEW a, NEW y, NEW z, NEW n \in Nat, NEW M, M = [i \in 1..n |-> M[i]],
           NEW s, s = <<a>> \o M \o <<y, z>>
    PROVE  /\ DOMAIN s = 1..(n + 3) /\ s[1] = a /\ s[n + 2] = y /\ s[n + 3] = z
           /\ \A i \in 1..n : s[i + 1] = M[i]
<1>1. PICK S : S = {a, y, z} \cup {M[i] : i \in 1..n}
  OBVIOUS
<1>2. M \in Seq(S) /\ Len(M) = n
  <2>1. M \in [1..n -> S]
    BY <1>1
  <2>2. M \in Seq(S)
    BY <2>1, SeqDef
  <2> QED
    BY <2>1, <2>2
<1>3. PICK p \in Seq(S), q \in Seq(S) : p = <<a>> /\ q = <<y, z>>
  <2>1. a \in S /\ y \in S /\ z \in S
    BY <1>1
  <2>2. <<a>> \in Seq(S) /\ <<y, z>> \in Seq(S)
    BY <2>1
  <2> QED
    BY <2>2
<1>4. PICK r \in Seq(S) : r = p \o M
  BY <1>2, <1>3, ConcatProperties
<1>5. s = r \o q
  BY <1>3, <1>4
<1>6. Len(r) = n + 1 /\ r[1] = a /\ \A i \in 1..n : r[i + 1] = M[i]
  BY <1>2, <1>3, <1>4
<1>7. Len(s) = n + 3 /\ s \in Seq(S)
  BY <1>3, <1>4, <1>5, <1>6
<1>8. \A i \in 1..(n + 1) : s[i] = r[i]
  BY <1>3, <1>4, <1>5, <1>6
<1>9. s[n + 2] = y /\ s[n + 3] = z
  <2>1. Len(q) = 2 /\ q[1] = y /\ q[2] = z
    BY <1>3
  <2>2. \A i \in 1..(Len(r) + Len(q)) : s[i] = IF i <= Len(r) THEN r[i] ELSE q[i - Len(r)]
    <3>1. \A i \in 1..(Len(r) + Len(q)) :
             (r \o q)[i] = IF i <= Len(r) THEN r[i] ELSE q[i - Len(r)]
      BY ConcatProperties, Zenon
    <3> QED
      BY <1>5, <3>1
  <2>3. n + 2 \in 1..(Len(r) + Len(q)) /\ n + 3 \in 1..(Len(r) + Len(q))
    BY <1>6, <2>1
  <2>4. ASSUME NEW i \in 1..(Len(r) + Len(q)), i > n + 1 PROVE s[i] = q[i - (n + 1)]
    <3>1. ~(i <= Len(r))
      BY <1>6, <2>4
    <3>2. s[i] = q[i - Len(r)]
      BY <2>2, <3>1, Zenon
    <3> QED
      BY <1>6, <3>2
  <2>5. PICK i, j : i = n + 2 /\ j = n + 3
    OBVIOUS
  <2>6. s[i] = q[1] /\ s[j] = q[2]
    <3>1. i - (n + 1) = 1 /\ j - (n + 1) = 2 /\ i > n + 1 /\ j > n + 1
      BY <2>5
    <3>2. i \in 1..(Len(r) + Len(q)) /\ j \in 1..(Len(r) + Len(q))
      BY <2>3, <2>5
    <3>3. s[i] = q[i - (n + 1)] /\ s[j] = q[j - (n + 1)]
      BY <2>4, <3>1, <3>2, Zenon
    <3> QED
      BY <3>1, <3>3
  <2> QED
    BY <2>1, <2>5, <2>6
<1>10. DOMAIN s = 1..(n + 3)
  BY <1>7
<1>11. s[1] = a /\ \A i \in 1..n : s[i + 1] = M[i]
  BY <1>6, <1>8
<1> QED
  BY <1>9, <1>10, <1>11

\* The entries that validate checks.
LayerList(m, l) ==
    LET kv == m.n_head_kv * m.head_dim
    IN  << <<<<"attention_norm", l>>, <<m.n_embd>>>>,
           <<<<"wq", l>>, <<m.n_embd, m.n_embd>>>>,
           <<<<"wk", l>>, <<m.n_embd, kv>>>>,
           <<<<"wv", l>>, <<m.n_embd, kv>>>>,
           <<<<"wo", l>>, <<m.n_embd, m.n_embd>>>>,
           <<<<"ffn_norm", l>>, <<m.n_embd>>>>,
           <<<<"w1", l>>, <<m.n_embd, m.n_ff>>>>,
           <<<<"w2", l>>, <<m.n_ff, m.n_embd>>>>,
           <<<<"w3", l>>, <<m.n_embd, m.n_ff>>>> >>

Demands(m, e) == \E i \in DOMAIN Expected(m) : Expected(m)[i] = e

LEMMA ExpectedEntries ==
    ASSUME NEW m, m.n_layer \in Nat
    PROVE  /\ DOMAIN Expected(m) \subseteq Nat
           /\ Demands(m, <<<<"token_embd", 0>>, <<m.n_embd, m.n_vocab>>>>)
           /\ Demands(m, <<<<"output_norm", 0>>, <<m.n_embd>>>>)
           /\ Demands(m, <<<<"output", 0>>, <<m.n_embd, m.n_vocab>>>>)
           /\ \A l \in 1..m.n_layer : \A j \in 1..9 : Demands(m, LayerList(m, l)[j])
<1>1. PICK a, y, z : /\ a = <<<<"token_embd", 0>>, <<m.n_embd, m.n_vocab>>>>
                     /\ y = <<<<"output_norm", 0>>, <<m.n_embd>>>>
                     /\ z = <<<<"output", 0>>, <<m.n_embd, m.n_vocab>>>>
  OBVIOUS
<1>2. PICK n \in Nat : n = 9 * m.n_layer
  OBVIOUS
<1>3. PICK M : M = [i \in 1..n |-> LayerList(m, (i + 8) \div 9)[((i - 1) % 9) + 1]]
  OBVIOUS
<1>4. Expected(m) = <<a>> \o M \o <<y, z>>
  BY <1>1, <1>2, <1>3, Zenon DEF Expected, LayerList
<1>5. PICK s : s = Expected(m)
  OBVIOUS
<1>6. /\ DOMAIN s = 1..(n + 3) /\ s[1] = a /\ s[n + 2] = y /\ s[n + 3] = z
      /\ \A i \in 1..n : s[i + 1] = M[i]
  <2>1. M = [i \in 1..n |-> M[i]] /\ s = <<a>> \o M \o <<y, z>>
    BY <1>3, <1>4, <1>5
  <2> QED
    BY <2>1, Framed, SMTT(30)
<1>7. ASSUME NEW l \in 1..m.n_layer, NEW j \in 1..9
      PROVE  \E i \in DOMAIN s : s[i] = LayerList(m, l)[j]
  <2>1. PICK i \in 1..n : i = 9 * (l - 1) + j
    BY <1>2
  <2>2. (i + 8) \div 9 = l /\ ((i - 1) % 9) + 1 = j
    BY <2>1
  <2>3. M[i] = LayerList(m, l)[j]
    BY <1>3, <2>2
  <2>4. i + 1 \in DOMAIN s /\ s[i + 1] = M[i]
    BY <1>6
  <2> QED
    BY <2>3, <2>4
<1>8. 1 \in DOMAIN s /\ n + 2 \in DOMAIN s /\ n + 3 \in DOMAIN s
  BY <1>6
<1>9. DOMAIN s \subseteq Nat
  BY <1>6
<1> QED
  BY <1>1, <1>5, <1>6, <1>7, <1>8, <1>9, Zenon DEF Demands

\* What validate accepts has every entry, in its shape.
LEMMA Validated ==
    ASSUME NEW m, m.n_layer \in Nat, NEW index, ValidateError(m, index) = "none",
           NEW name, NEW shape, Demands(m, <<name, shape>>)
    PROVE  name \in DOMAIN index /\ index[name].shape = shape
<1> DEFINE list == Expected(m)
           error(i) == CheckError(index, list[i][1], list[i][2])
           failed == {i \in DOMAIN list : error(i) # "none"}
<1>1. ValidateError(m, index) = IF failed = {} THEN "none" ELSE error(Min(failed))
  BY Zenon DEF ValidateError
<1>2. DOMAIN list \subseteq Nat
  BY ExpectedEntries
<1>3. failed \in SUBSET Nat /\ \A i \in failed : error(i) # "none"
  BY <1>2
<1>4. \A i \in DOMAIN list : i \notin failed => error(i) = "none"
  OBVIOUS
<1>5. PICK i \in DOMAIN list : list[i] = <<name, shape>>
  BY DEF Demands
<1>6. error(i) = CheckError(index, name, shape)
  BY <1>5
<1> HIDE DEF error, failed, list
<1>7. failed = {}
  <2>1. SUFFICES ASSUME failed # {} PROVE FALSE
    OBVIOUS
  <2>2. PICK x \in failed : \A y \in failed : x <= y
    BY <1>3, <2>1, LeastNumber
  <2>3. Min(failed) \in failed
    BY <2>2 DEF Min
  <2> QED
    BY <1>1, <1>3, <2>1, <2>3
<1>8. CheckError(index, name, shape) = "none"
  BY <1>4, <1>5, <1>6, <1>7
<1> QED
  BY <1>8 DEF CheckError

\* Finitely many numbers have an upper bound.
LEMMA Bounded ==
    ASSUME NEW k \in Nat, NEW g, \A i \in 1..k : g[i] \in Nat
    PROVE  \E b \in Nat : \A i \in 1..k : g[i] <= b
<1> DEFINE S == {n \in 0..k : \E b \in Nat : \A i \in 1..n : g[i] <= b}
<1>1. 0 \in S
  OBVIOUS
<1>2. ASSUME NEW n \in 1..k, n - 1 \in S PROVE n \in S
  <2>1. PICK b \in Nat : \A i \in 1..(n - 1) : g[i] <= b
    BY <1>2
  <2>2. PICK c \in Nat : c >= b /\ c >= g[n]
    <3>1. g[n] \in Nat
      OBVIOUS
    <3>2. b + g[n] \in Nat /\ b + g[n] >= b /\ b + g[n] >= g[n]
      BY <3>1
    <3> QED
      BY <3>2
  <2>3. \A i \in 1..n : g[i] <= c
    <3>1. ASSUME NEW i \in 1..n PROVE g[i] <= c
      <4>1. CASE i = n
        BY <2>2, <4>1
      <4>2. CASE i # n
        <5>1. i \in 1..(n - 1) /\ i \in 1..k
          BY <4>2
        <5> QED
          BY <2>1, <2>2, <5>1
      <4> QED
        BY <4>1, <4>2
    <3> QED
      BY <3>1
  <2> QED
    BY <2>3
<1>3. k \in S
  <2>1. S \in SUBSET (0..k)
    OBVIOUS
  <2> HIDE DEF S
  <2>2. S = 0..k
    BY <1>1, <1>2, <2>1, IntervalInduction
  <2> QED
    BY <2>2
<1> QED
  BY <1>3

\* The tensor table of a file as the reader takes it.
IsTable(tensors) ==
    /\ Len(tensors) \in Nat /\ DOMAIN tensors = 1..Len(tensors)
    /\ \A i \in DOMAIN tensors :
          tensors[i].shape \in Seq(Nat) /\ tensors[i].offset \in Nat /\ tensors[i].dtype \in DOMAIN BlockParams

EntryOf(t) ==
    [shape |-> t.shape, dtype |-> t.dtype, offset |-> t.offset,
     nbytes |-> NBytes(t.dtype, NElements(t.shape))]

LEMMA IndexEntries ==
    ASSUME NEW file, IsTable(file.tensors)
    PROVE  /\ DOMAIN Index(file) = {file.tensors[i].name : i \in DOMAIN file.tensors}
           /\ \A n \in DOMAIN Index(file) :
                 \E i \in DOMAIN file.tensors : Index(file)[n] = EntryOf(file.tensors[i])
<1> DEFINE ts == file.tensors
           named(n) == {i \in DOMAIN ts : ts[i].name = n}
           names == {ts[i].name : i \in DOMAIN ts}
<1>1. Index(file) = [n \in names |-> EntryOf(ts[Max(named(n))])]
  BY Zenon DEF Index, EntryOf
<1>2. PICK k \in Nat : k = Len(ts) /\ DOMAIN ts = 1..k
  BY DEF IsTable
<1>3. ASSUME NEW n \in names PROVE Max(named(n)) \in DOMAIN ts
  <2>1. named(n) # {} /\ named(n) \in SUBSET Nat /\ \A i \in named(n) : i <= k
    BY <1>2
  <2>2. named(n) \subseteq DOMAIN ts
    OBVIOUS
  <2> HIDE DEF named
  <2>3. PICK x \in named(n) : \A y \in named(n) : y <= x
    BY <2>1, GreatestNumber
  <2>4. \A y \in named(n) : x >= y
    BY <2>1, <2>3
  <2>5. Max(named(n)) \in named(n)
    BY <2>4, Zenon DEF Max
  <2> QED
    BY <2>2, <2>5
<1> HIDE DEF named, names
<1>4. DOMAIN Index(file) = names
  BY <1>1
<1>5. \A n \in names : Index(file)[n] = EntryOf(ts[Max(named(n))])
  BY <1>1
<1> QED
  BY <1>3, <1>4, <1>5, Zenon DEF names

\* No tensor ends after the data.
LEMMA DataHolds ==
    ASSUME NEW file, IsTable(file.tensors), NEW n \in DOMAIN Index(file)
    PROVE  /\ Index(file)[n].offset \in Nat /\ Index(file)[n].nbytes \in Nat
           /\ Index(file)[n].offset + Index(file)[n].nbytes <= DataEnd(Index(file))
<1> DEFINE index == Index(file)
           end(t) == t.offset + NBytes(t.dtype, NElements(t.shape))
           ends == {index[x].offset + index[x].nbytes : x \in DOMAIN index}
<1>1. PICK ts : ts = file.tensors
  OBVIOUS
<1>2. PICK k \in Nat : k = Len(ts) /\ DOMAIN ts = 1..k
  BY <1>1 DEF IsTable
<1>3. ASSUME NEW i \in 1..k
      PROVE  NBytes(ts[i].dtype, NElements(ts[i].shape)) \in Nat /\ ts[i].offset \in Nat
  <2>1. ts[i].shape \in Seq(Nat) /\ ts[i].offset \in Nat /\ ts[i].dtype \in DOMAIN BlockParams
    BY <1>1, <1>2 DEF IsTable
  <2>2. NElements(ts[i].shape) \in Nat
    BY <2>1, Elements
  <2> QED
    BY <2>1, <2>2, BytesAreNumbers
<1>4. PICK g : g = [i \in 1..k |-> end(ts[i])]
  OBVIOUS
<1>5. \A i \in 1..k : g[i] \in Nat /\ g[i] = end(ts[i])
  BY <1>3, <1>4
<1>6. PICK b \in Nat : \A i \in 1..k : g[i] <= b
  BY <1>5, Bounded
<1>7. ASSUME NEW x \in DOMAIN index
      PROVE  \E i \in 1..k : index[x] = EntryOf(ts[i])
  BY <1>1, <1>2, IndexEntries
<1>8. ASSUME NEW x \in DOMAIN index
      PROVE  /\ index[x].offset \in Nat /\ index[x].nbytes \in Nat
             /\ index[x].offset + index[x].nbytes <= b
  <2>1. PICK i \in 1..k : index[x] = EntryOf(ts[i])
    BY <1>7
  <2>2. index[x].offset = ts[i].offset /\ index[x].nbytes = NBytes(ts[i].dtype, NElements(ts[i].shape))
    BY <2>1 DEF EntryOf
  <2> QED
    BY <1>3, <1>5, <1>6, <2>2
<1>9. ends \in SUBSET Nat /\ (\A e \in ends : e <= b) /\ index[n].offset + index[n].nbytes \in ends
  BY <1>8
<1>10. DataEnd(index) = IF ends = {} THEN 0 ELSE CHOOSE e \in ends : \A f \in ends : f <= e
  BY Zenon DEF DataEnd
<1>11. index[n].offset \in Nat /\ index[n].nbytes \in Nat
  BY <1>8
<1> HIDE DEF index, ends
<1>12. ends # {}
  BY <1>9
<1>13. \E e \in ends : \A f \in ends : f <= e
  BY <1>9, <1>12, GreatestNumber
<1>14. DataEnd(index) \in ends /\ \A f \in ends : f <= DataEnd(index)
  BY <1>10, <1>12, <1>13, Zenon
<1> QED
  BY <1>9, <1>11, <1>14 DEF index

\* Every slice of a tensor that validate has seen lies within it.
LEMMA SlicesFit ==
    ASSUME NEW m, IsArch(m), NEW index, ValidateError(m, index) = "none",
           \A n \in DOMAIN index :
              /\ index[n].shape \in Seq(Nat) /\ index[n].dtype \in DOMAIN BlockParams
              /\ index[n].nbytes = NBytes(index[n].dtype, NElements(index[n].shape)),
           \A x \in Multiplied(m) : x[3] % BlockParams[index[x[1]].dtype][2] = 0
    PROVE  /\ \A x \in Multiplied(m) : x[2] * NBytes(index[x[1]].dtype, x[3]) <= index[x[1]].nbytes
           /\ \A n \in Norms(m) : NElements(index[n].shape) = m.n_embd
<1> DEFINE q == m.n_head * m.head_dim
           kv == m.n_head_kv * m.head_dim
<1>1. /\ m.n_vocab \in Nat /\ m.n_embd \in Nat /\ m.n_layer \in Nat /\ m.n_ff \in Nat
      /\ q \in Nat /\ kv \in Nat /\ q <= m.n_embd
  BY DEF IsArch
<1> HIDE DEF q, kv
<1>2. ASSUME NEW name, NEW rows \in Nat, NEW cols \in Nat, <<name, rows, cols>> \in Multiplied(m),
             NEW a \in Nat, NEW b \in Nat, Demands(m, <<name, <<a, b>>>>), rows * cols <= a * b
      PROVE  rows * NBytes(index[name].dtype, cols) <= index[name].nbytes
  <2>1. name \in DOMAIN index /\ index[name].shape = <<a, b>>
    BY <1>1, <1>2, Validated
  <2>2. NElements(index[name].shape) = a * b
    BY <2>1, Elements
  <2>3. cols % BlockParams[index[name].dtype][2] = 0
    BY <1>2
  <2>4. PICK n \in Nat : n = a * b
    OBVIOUS
  <2>5. rows * NBytes(index[name].dtype, cols) <= NBytes(index[name].dtype, n)
    BY <1>2, <2>1, <2>3, <2>4, RowsFit
  <2> QED
    BY <2>1, <2>2, <2>4, <2>5
<1>3. ASSUME NEW l \in 1..m.n_layer
      PROVE  /\ Demands(m, <<<<"attention_norm", l>>, <<m.n_embd>>>>)
             /\ Demands(m, <<<<"wq", l>>, <<m.n_embd, m.n_embd>>>>)
             /\ Demands(m, <<<<"wk", l>>, <<m.n_embd, kv>>>>)
             /\ Demands(m, <<<<"wv", l>>, <<m.n_embd, kv>>>>)
             /\ Demands(m, <<<<"wo", l>>, <<m.n_embd, m.n_embd>>>>)
             /\ Demands(m, <<<<"ffn_norm", l>>, <<m.n_embd>>>>)
             /\ Demands(m, <<<<"w1", l>>, <<m.n_embd, m.n_ff>>>>)
             /\ Demands(m, <<<<"w2", l>>, <<m.n_ff, m.n_embd>>>>)
             /\ Demands(m, <<<<"w3", l>>, <<m.n_embd, m.n_ff>>>>)
  <2>1. \A j \in 1..9 : Demands(m, LayerList(m, l)[j])
    BY <1>1, ExpectedEntries
  <2>2. PICK s : s = LayerList(m, l)
    OBVIOUS
  <2>3. /\ Demands(m, s[1]) /\ Demands(m, s[2]) /\ Demands(m, s[3]) /\ Demands(m, s[4])
        /\ Demands(m, s[5]) /\ Demands(m, s[6]) /\ Demands(m, s[7]) /\ Demands(m, s[8])
        /\ Demands(m, s[9])
    BY <2>1, <2>2
  <2>4. s = << <<<<"attention_norm", l>>, <<m.n_embd>>>>,
               <<<<"wq", l>>, <<m.n_embd, m.n_embd>>>>,
               <<<<"wk", l>>, <<m.n_embd, kv>>>>,
               <<<<"wv", l>>, <<m.n_embd, kv>>>>,
               <<<<"wo", l>>, <<m.n_embd, m.n_embd>>>>,
               <<<<"ffn_norm", l>>, <<m.n_embd>>>>,
               <<<<"w1", l>>, <<m.n_embd, m.n_ff>>>>,
               <<<<"w2", l>>, <<m.n_ff, m.n_embd>>>>,
               <<<<"w3", l>>, <<m.n_embd, m.n_ff>>>> >>
    BY <2>2, Zenon DEF LayerList, kv
  <2> QED
    BY <2>3, <2>4
<1>4. PICK e \in Nat : e = m.n_embd
  BY <1>1
<1>5. /\ m.n_vocab * e <= e * m.n_vocab /\ q * e <= e * e /\ e * q <= e * e
      /\ kv * e <= e * kv /\ m.n_ff * e <= e * m.n_ff /\ e * m.n_ff <= m.n_ff * e
  <2>1. PICK d \in Nat : e = q + d
    <3>1. e - q \in Nat /\ e = q + (e - q)
      BY <1>1, <1>4
    <3> QED
      BY <3>1
  <2>2. e * e = q * e + d * e /\ d * e \in Nat /\ q * e \in Nat /\ e * q = q * e
    BY <1>1, <2>1
  <2>3. q * e <= e * e /\ e * q <= e * e
    BY <2>2
  <2>4. m.n_vocab * e = e * m.n_vocab /\ kv * e = e * kv /\ m.n_ff * e = e * m.n_ff
    BY <1>1
  <2>5. m.n_vocab * e \in Nat /\ kv * e \in Nat /\ m.n_ff * e \in Nat
    <3>1. \A x, y \in Nat : x * y \in Nat
      OBVIOUS
    <3> QED
      BY <1>1, <3>1
  <2> QED
    BY <2>3, <2>4, <2>5
<1> DEFINE fits(x) == x[2] * NBytes(index[x[1]].dtype, x[3]) <= index[x[1]].nbytes
           in(l) == {<<<<"wq", l>>, q, e>>, <<<<"wk", l>>, kv, e>>, <<<<"wv", l>>, kv, e>>,
                     <<<<"wo", l>>, e, q>>, <<<<"w1", l>>, m.n_ff, e>>,
                     <<<<"w3", l>>, m.n_ff, e>>, <<<<"w2", l>>, e, m.n_ff>>}
<1>6. Multiplied(m) = {<<<<part, 0>>, m.n_vocab, e>> : part \in {"token_embd", "output"}}
                        \cup UNION {in(l) : l \in 1..m.n_layer}
  BY <1>4, Zenon DEF Multiplied, q, kv
<1>7. ASSUME NEW name, NEW rows \in Nat, NEW cols \in Nat, <<name, rows, cols>> \in Multiplied(m),
             NEW a \in Nat, NEW b \in Nat, Demands(m, <<name, <<a, b>>>>), rows * cols <= a * b
      PROVE  fits(<<name, rows, cols>>)
  BY <1>2, <1>7
<1>8. ASSUME NEW l \in 1..m.n_layer, NEW x \in in(l) PROVE fits(x)
  <2>1. x \in Multiplied(m)
    BY <1>6
  <2> HIDE DEF fits
  <2>2. CASE x = <<<<"wq", l>>, q, e>>
    BY <1>1, <1>3, <1>4, <1>5, <1>7, <2>1, <2>2
  <2>3. CASE x = <<<<"wk", l>>, kv, e>>
    BY <1>1, <1>3, <1>4, <1>5, <1>7, <2>1, <2>3
  <2>4. CASE x = <<<<"wv", l>>, kv, e>>
    BY <1>1, <1>3, <1>4, <1>5, <1>7, <2>1, <2>4
  <2>5. CASE x = <<<<"wo", l>>, e, q>>
    BY <1>1, <1>3, <1>4, <1>5, <1>7, <2>1, <2>5
  <2>6. CASE x = <<<<"w1", l>>, m.n_ff, e>>
    BY <1>1, <1>3, <1>4, <1>5, <1>7, <2>1, <2>6
  <2>7. CASE x = <<<<"w3", l>>, m.n_ff, e>>
    BY <1>1, <1>3, <1>4, <1>5, <1>7, <2>1, <2>7
  <2>8. CASE x = <<<<"w2", l>>, e, m.n_ff>>
    BY <1>1, <1>3, <1>4, <1>5, <1>7, <2>1, <2>8
  <2> QED
    BY <2>2, <2>3, <2>4, <2>5, <2>6, <2>7, <2>8
<1>9. ASSUME NEW part \in {"token_embd", "output"} PROVE fits(<<<<part, 0>>, m.n_vocab, e>>)
  <2>1. <<<<part, 0>>, m.n_vocab, e>> \in Multiplied(m)
    BY <1>6
  <2>2. Demands(m, <<<<part, 0>>, <<e, m.n_vocab>>>>)
    BY <1>1, <1>4, ExpectedEntries
  <2> HIDE DEF fits
  <2> QED
    BY <1>1, <1>5, <1>7, <2>1, <2>2
<1>10. ASSUME NEW n \in Norms(m) PROVE NElements(index[n].shape) = m.n_embd
  <2>1. Demands(m, <<n, <<e>>>>)
    <3>1. CASE n = <<"output_norm", 0>>
      BY <1>1, <1>4, <3>1, ExpectedEntries
    <3>2. CASE \E l \in 1..m.n_layer : n = <<"attention_norm", l>> \/ n = <<"ffn_norm", l>>
      BY <1>3, <1>4, <3>2
    <3> QED
      BY <3>1, <3>2 DEF Norms
  <2>2. n \in DOMAIN index /\ index[n].shape = <<e>>
    BY <1>1, <2>1, Validated
  <2> QED
    BY <1>4, <2>2, Elements
<1> HIDE DEF in
<1>11. ASSUME NEW x \in Multiplied(m) PROVE fits(x)
  BY <1>6, <1>8, <1>9
<1> QED
  BY <1>10, <1>11

\* No error is called "ok".
LEMMA NoErrorIsOk ==
    ASSUME NEW file, NEW index
    PROVE  LoadError(file, index) # "ok"
<1>1. \A t : TensorError(t) # "ok"
  BY SMT DEF TensorError
<1>2. \A name, shape : CheckError(index, name, shape) # "ok"
  BY SMT DEF CheckError
<1>3. ReadError(file) # "ok"
  <2>1. PICK t : t = file.tensors[Min({i \in DOMAIN file.tensors : TensorError(file.tensors[i]) # "none"})]
    OBVIOUS
  <2>2. ReadError(file) \in {"BadMagic", "UnsupportedVersion", "UnknownType", TensorError(t), "Io",
                            "panic", "none"}
    BY <2>1, Zenon DEF ReadError
  <2> QED
    BY <1>1, <2>2
<1>4. MetaError(file.meta) # "ok"
  BY SMT DEF MetaError
<1>5. ASSUME NEW m PROVE ValidateError(m, index) # "ok"
  <2> DEFINE list == Expected(m)
             first == Min({i \in DOMAIN list : CheckError(index, list[i][1], list[i][2]) # "none"})
  <2>1. ValidateError(m, index) \in {"none", CheckError(index, list[first][1], list[first][2])}
    BY Zenon DEF ValidateError
  <2> HIDE DEF list, first
  <2> QED
    BY <1>2, <2>1
<1>6. LoadError(file, index) \in {"Io", ReadError(file), MetaError(file.meta),
                                  ValidateError(ModelMeta(file.meta, index), index)}
  BY Zenon DEF LoadError, Then
<1> QED
  BY <1>3, <1>4, <1>5, <1>6

\* What was read passed every check.
LEMMA NoError ==
    ASSUME NEW file, NEW index, LoadError(file, index) = "none", DOMAIN file.tensors \subseteq Nat
    PROVE  /\ \A i \in DOMAIN file.tensors : file.tensors[i].dtype \in DOMAIN BlockParams
           /\ MetaError(file.meta) = "none"
           /\ ValidateError(ModelMeta(file.meta, index), index) = "none"
<1>1. /\ ReadError(file) = "none" /\ MetaError(file.meta) = "none"
      /\ ValidateError(ModelMeta(file.meta, index), index) = "none"
  BY SMT DEF LoadError, Then
<1> DEFINE bad == {i \in DOMAIN file.tensors : TensorError(file.tensors[i]) # "none"}
<1>2. bad = {}
  <2>1. SUFFICES ASSUME bad # {} PROVE FALSE
    OBVIOUS
  <2>2. TensorError(file.tensors[Min(bad)]) = "none"
    BY <1>1, <2>1, SMT DEF ReadError
  <2>3. bad \in SUBSET Nat /\ \A i \in bad : TensorError(file.tensors[i]) # "none"
    OBVIOUS
  <2> HIDE DEF bad
  <2>4. PICK x \in bad : \A y \in bad : x <= y
    BY <2>1, <2>3, LeastNumber
  <2>5. Min(bad) \in bad
    BY <2>4 DEF Min
  <2> QED
    BY <2>2, <2>3, <2>5
<1>3. ASSUME NEW i \in DOMAIN file.tensors PROVE file.tensors[i].dtype \in DOMAIN BlockParams
  <2>1. TensorError(file.tensors[i]) = "none"
    BY <1>2
  <2>2. PICK t : t = file.tensors[i]
    OBVIOUS
  <2>3. TensorError(t) = "none"
    BY <2>1, <2>2
  <2>4. t.dtype \in DOMAIN BlockParams
    BY <2>3 DEF TensorError
  <2> QED
    BY <2>2, <2>4
<1> QED
  BY <1>1, <1>3

\* The forward passes stay within a store that load_gguf returns.
LEMMA LoadedInBounds ==
    ASSUME NEW name \in DOMAIN PoolFiles, Loaded[name].outcome = "ok", WholeBlocks(Loaded[name])
    PROVE  InBounds(Loaded[name])
<1>1. PICK store, file, index, m :
         /\ store = Loaded[name] /\ file = PoolFiles[name] /\ index = Index(file)
         /\ m = ModelMeta(file.meta, index)
  OBVIOUS
<1>2. store = LoadIndexed(file, index)
  BY <1>1, LoadedAssumption DEF LoadGguf
<1>3. /\ LoadError(file, index) = "none"
      /\ store = [outcome |-> "ok", meta |-> m, index |-> index, data |-> DataEnd(index)]
  <2>1. CASE LoadError(file, index) = "none"
    BY <1>1, <1>2, <2>1, Zenon DEF LoadIndexed
  <2>2. CASE LoadError(file, index) # "none"
    <3>1. PICK error : error = LoadError(file, index)
      OBVIOUS
    <3>2. store = [outcome |-> error]
      BY <1>2, <2>2, <3>1, Zenon DEF LoadIndexed
    <3>3. error = "ok"
      BY <1>1, <3>2
    <3> QED
      BY <3>1, <3>3, NoErrorIsOk
  <2> QED
    BY <2>1, <2>2
<1>4. /\ \A key \in DOMAIN file.meta :
            file.meta[key].type \in {"U32", "U64", "Array"} => file.meta[key].value \in Nat
      /\ Len(file.tensors) \in Nat /\ DOMAIN file.tensors = 1..Len(file.tensors)
      /\ \A i \in DOMAIN file.tensors :
            file.tensors[i].shape \in Seq(Nat) /\ file.tensors[i].offset \in Nat
  BY <1>1, PoolAssumption, Zenon DEF Unsigned
<1>5. DOMAIN file.tensors \subseteq Nat
  BY <1>4
<1>6. /\ \A i \in DOMAIN file.tensors : file.tensors[i].dtype \in DOMAIN BlockParams
      /\ MetaError(file.meta) = "none" /\ ValidateError(m, index) = "none"
  BY <1>1, <1>3, <1>5, NoError
<1>7. IsTable(file.tensors)
  BY <1>4, <1>6, Zenon DEF IsTable
<1>8. IsArch(m)
  BY <1>1, <1>4, <1>6, ArchOf
<1>9. ASSUME NEW n \in DOMAIN index
      PROVE  /\ index[n].shape \in Seq(Nat) /\ index[n].dtype \in DOMAIN BlockParams
             /\ index[n].nbytes = NBytes(index[n].dtype, NElements(index[n].shape))
             /\ index[n].offset + index[n].nbytes <= DataEnd(index)
  <2>1. PICK i \in DOMAIN file.tensors : index[n] = EntryOf(file.tensors[i])
    BY <1>1, <1>7, IndexEntries
  <2>2. PICK t : t = file.tensors[i]
    OBVIOUS
  <2>3. t.shape \in Seq(Nat) /\ t.dtype \in DOMAIN BlockParams
    BY <1>4, <1>6, <2>2
  <2>4. /\ index[n].shape = t.shape /\ index[n].dtype = t.dtype
        /\ index[n].nbytes = NBytes(t.dtype, NElements(t.shape))
    BY <2>1, <2>2 DEF EntryOf
  <2>5. index[n].offset + index[n].nbytes <= DataEnd(index)
    BY <1>1, <1>7, DataHolds
  <2> QED
    BY <2>3, <2>4, <2>5
<1>10. store.meta = m /\ store.index = index /\ store.data = DataEnd(index)
  BY <1>3
<1>11. \A x \in Multiplied(m) : x[3] % BlockParams[index[x[1]].dtype][2] = 0
  BY <1>1, <1>10 DEF WholeBlocks
<1>12. /\ \A x \in Multiplied(m) : x[2] * NBytes(index[x[1]].dtype, x[3]) <= index[x[1]].nbytes
       /\ \A n \in Norms(m) : NElements(index[n].shape) = m.n_embd
  BY <1>6, <1>8, <1>9, <1>11, SlicesFit
<1>13. InBounds(store)
  BY <1>9, <1>10, <1>12, Zenon DEF InBounds
<1> QED
  BY <1>1, <1>13

-----------------------------------------------------------------------------
(***************************************************************************)
(* The models that are resident and in service.                            *)
(***************************************************************************)
Accepted(file) == file \in DOMAIN PoolFiles /\ Loaded[file].outcome = "ok"

LoadOK(load) ==
    /\ load = [name |-> load.name, file |-> load.file, stage |-> load.stage]
    /\ load.name \in Names /\ load.file \in DOMAIN PoolFiles
    /\ load.stage \in {"read", "uploaded"} => Accepted(load.file)

LoadsOK(s) ==
    /\ Len(s) \in Nat /\ s \in Seq({s[i] : i \in 1..Len(s)}) /\ \A i \in 1..Len(s) : LoadOK(s[i])

\* A thread that read its file has an accepted one.
PoolInv ==
    /\ pool = [n \in Names |-> pool[n]]
    /\ \A n \in Names : pool[n] = Absent \/ Accepted(pool[n])
    /\ LoadsOK(loads)
    /\ service = [target |-> service.target, draft |-> service.draft]
    /\ \A file \in {service.target, service.draft} : file = FirstModel \/ Accepted(file)

LEMMA LoadAdded ==
    ASSUME NEW s, LoadsOK(s), NEW load, LoadOK(load)
    PROVE  LoadsOK(Append(s, load))
<1>1. PICK n \in Nat : n = Len(s)
  BY DEF LoadsOK
<1> DEFINE S == {s[i] : i \in 1..Len(s)} \cup {load}
<1>2. s \in Seq(S)
  <2>1. {s[i] : i \in 1..Len(s)} \subseteq S
    OBVIOUS
  <2> QED
    BY <2>1, SeqMonotonic DEF LoadsOK
<1>3. PICK r : r = Append(s, load)
  OBVIOUS
<1>4. /\ r \in Seq(S) /\ Len(r) = n + 1 /\ r[n + 1] = load /\ \A i \in 1..n : r[i] = s[i]
  BY <1>1, <1>2, <1>3
<1>5. r \in Seq({r[i] : i \in 1..Len(r)})
  <2>1. r \in [1..Len(r) -> {r[i] : i \in 1..Len(r)}] /\ Len(r) \in Nat
    BY <1>4
  <2>2. PICK R : R = {r[i] : i \in 1..Len(r)}
    OBVIOUS
  <2>3. r \in Seq(R)
    BY <2>1, <2>2, SeqDef
  <2> QED
    BY <2>2, <2>3
<1>6. \A i \in 1..Len(r) : LoadOK(r[i])
  <2>1. ASSUME NEW i \in 1..(n + 1) PROVE LoadOK(r[i])
    <3>1. CASE i = n + 1
      BY <1>4, <3>1
    <3>2. CASE i # n + 1
      <4>1. i \in 1..n
        BY <3>2
      <4> QED
        BY <1>1, <1>4, <4>1 DEF LoadsOK
    <3> QED
      BY <3>1, <3>2
  <2> QED
    BY <1>4, <2>1
<1>7. LoadsOK(r)
  BY <1>4, <1>5, <1>6 DEF LoadsOK
<1> QED
  BY <1>3, <1>7

\* A load goes to another stage.
LEMMA LoadMoved ==
    ASSUME NEW s, LoadsOK(s), NEW k, NEW stage,
           stage \in {"read", "uploaded"} /\ k \in 1..Len(s) => Accepted(s[k].file)
    PROVE  LoadsOK([s EXCEPT ![k].stage = stage])
<1>1. PICK n \in Nat : n = Len(s)
  BY DEF LoadsOK
<1>2. s = [i \in 1..n |-> s[i]] /\ DOMAIN s = 1..n
  BY <1>1 DEF LoadsOK
<1>3. PICK r : r = [s EXCEPT ![k].stage = stage]
  OBVIOUS
<1>4. PICK load : load = [s[k] EXCEPT !.stage = stage]
  OBVIOUS
<1>5. r = [s EXCEPT ![k] = load]
  BY <1>3, <1>4
<1>6. DOMAIN r = 1..n /\ r = [i \in 1..n |-> r[i]] /\ \A i \in 1..n : r[i] = IF i = k THEN load ELSE s[i]
  BY <1>2, <1>5
<1>7. ASSUME NEW i \in 1..n PROVE LoadOK(r[i])
  <2>1. LoadOK(s[i])
    BY <1>1 DEF LoadsOK
  <2>2. CASE i = k
    <3>1. PICK t : t = s[k]
      OBVIOUS
    <3>2. t = [name |-> t.name, file |-> t.file, stage |-> t.stage]
      BY <2>1, <2>2, <3>1 DEF LoadOK
    <3>3. load = [t EXCEPT !.stage = stage]
      BY <1>4, <3>1
    <3>4. load = [name |-> t.name, file |-> t.file, stage |-> stage]
      BY <3>2, <3>3
    <3>5. /\ t.name \in Names /\ t.file \in DOMAIN PoolFiles
          /\ stage \in {"read", "uploaded"} => Accepted(t.file)
      BY <1>1, <2>1, <2>2, <3>1 DEF LoadOK
    <3>6. LoadOK(load)
      BY <3>4, <3>5 DEF LoadOK
    <3> QED
      BY <1>6, <2>2, <3>6
  <2>3. CASE i # k
    BY <1>6, <2>1, <2>3
  <2> QED
    BY <2>2, <2>3
<1>8. r \in Seq({r[i] : i \in 1..n}) /\ Len(r) = n
  <2>1. r \in [1..n -> {r[i] : i \in 1..n}]
    BY <1>6
  <2>2. r \in Seq({r[i] : i \in 1..n})
    BY <2>1, SeqDef
  <2> QED
    BY <2>1, <2>2
<1> QED
  BY <1>3, <1>7, <1>8 DEF LoadsOK

LEMMA PoolStart == PoolInit => PoolInv
<1> SUFFICES ASSUME PoolInit PROVE PoolInv
  OBVIOUS
<1>1. pool = [n \in Names |-> pool[n]] /\ \A n \in Names : pool[n] = Absent
  BY DEF PoolInit
<1>2. loads = <<>> /\ service = [target |-> FirstModel, draft |-> FirstModel]
  BY DEF PoolInit
<1>3. LoadsOK(loads)
  BY <1>2 DEF LoadsOK
<1> QED
  BY <1>1, <1>2, <1>3 DEF PoolInv

LEMMA PoolStep == PoolInv /\ [PoolNext]_poolVars => PoolInv'
<1> SUFFICES ASSUME PoolInv, [PoolNext]_poolVars PROVE PoolInv'
  OBVIOUS
<1> DEFINE poolOK == /\ pool = [n \in Names |-> pool[n]]
                     /\ \A n \in Names : pool[n] = Absent \/ Accepted(pool[n])
           serviceOK == /\ service = [target |-> service.target, draft |-> service.draft]
                        /\ \A file \in {service.target, service.draft} :
                              file = FirstModel \/ Accepted(file)
<1>1. poolOK /\ serviceOK /\ LoadsOK(loads)
  BY DEF PoolInv
<1>2. ASSUME poolOK', serviceOK', LoadsOK(loads)' PROVE PoolInv'
  BY <1>2 DEF PoolInv
<1>3. ASSUME UNCHANGED pool PROVE poolOK'
  BY <1>1, <1>3
<1>4. ASSUME UNCHANGED service PROVE serviceOK'
  BY <1>1, <1>4
<1>5. ASSUME UNCHANGED loads PROVE LoadsOK(loads)'
  BY <1>1, <1>5 DEF LoadsOK
<1>6. ASSUME NEW name \in Names, NEW file, pool' = [pool EXCEPT ![name] = file],
             file = Absent \/ Accepted(file)
      PROVE  poolOK'
  <2>1. \A n \in Names : pool'[n] = IF n = name THEN file ELSE pool[n]
    BY <1>1, <1>6
  <2>2. pool' = [n \in Names |-> pool'[n]]
    BY <1>1, <1>6
  <2> QED
    BY <1>1, <1>6, <2>1, <2>2
<1>7. ASSUME NEW name \in Names, NEW file \in DOMAIN PoolFiles, NEW stage \in {"sent", "started"},
             loads' = Append(loads, [name |-> name, file |-> file, stage |-> stage])
      PROVE  LoadsOK(loads)'
  <2>1. PICK load : load = [name |-> name, file |-> file, stage |-> stage]
    OBVIOUS
  <2>2. LoadOK(load)
    BY <2>1 DEF LoadOK
  <2>3. LoadsOK(Append(loads, load))
    BY <1>1, <2>2, LoadAdded
  <2> QED
    BY <1>7, <2>1, <2>3 DEF LoadsOK
<1>8. ASSUME NEW k, NEW stage, loads' = [loads EXCEPT ![k].stage = stage],
             stage \in {"read", "uploaded"} /\ k \in 1..Len(loads) => Accepted(loads[k].file)
      PROVE  LoadsOK(loads)'
  <2>1. LoadsOK([loads EXCEPT ![k].stage = stage])
    BY <1>1, <1>8, LoadMoved
  <2> QED
    BY <1>8, <2>1 DEF LoadsOK
<1>9. \A i \in DOMAIN loads : i \in 1..Len(loads) /\ LoadOK(loads[i])
  BY <1>1 DEF LoadsOK
<1> HIDE DEF poolOK, serviceOK
<1>10. ASSUME UNCHANGED <<pool, service>> PROVE poolOK' /\ serviceOK'
  BY <1>3, <1>4, <1>10
<1>11. CASE SubmitRequest \/ EndCommands \/ Intake \/ Wake \/ Round \/ UNCHANGED poolVars
  <2>1. UNCHANGED <<pool, service, loads>>
    BY <1>11 DEF SubmitRequest, EndCommands, Intake, Wake, Round, poolVars
  <2> QED
    BY <1>2, <1>5, <1>10, <2>1
<1>12. CASE TakeCommand
  <2>1. CASE Head(commands).kind = "Prefetch"
    <3>1. UNCHANGED <<pool, service>>
      BY <1>12, <2>1 DEF TakeCommand
    <3>2. PICK k : loads' = [loads EXCEPT ![k].stage = "started"]
      BY <1>12, <2>1 DEF TakeCommand, Spawned
    <3>3. LoadsOK(loads)'
      BY <1>8, <3>2
    <3> QED
      BY <1>2, <1>10, <3>1, <3>3
  <2>2. CASE Head(commands).kind # "Prefetch"
    <3>1. UNCHANGED <<pool, loads>>
      BY <1>12, <2>2 DEF TakeCommand
    <3>2. service' = [target |-> service.target, draft |-> service.draft]
      BY <1>12, <2>2 DEF TakeCommand, SwitchedByTrait
    <3>3. UNCHANGED service
      BY <1>1, <3>2 DEF serviceOK
    <3> QED
      BY <1>2, <1>3, <1>4, <1>5, <3>1, <3>3
  <2> QED
    BY <2>1, <2>2
<1>13. CASE \E name \in Names, file \in DOMAIN PoolFiles :
               SendPrefetch(name, file) \/ Prefetch(name, file) \/ LoadSync(name, file)
  <2>1. PICK name \in Names, file \in DOMAIN PoolFiles :
           SendPrefetch(name, file) \/ Prefetch(name, file) \/ LoadSync(name, file)
    BY <1>13
  <2>2. CASE SendPrefetch(name, file) \/ Prefetch(name, file)
    <3>1. UNCHANGED <<pool, service>>
      BY <2>2 DEF SendPrefetch, Prefetch
    <3>2. \E stage \in {"sent", "started"} :
             loads' = Append(loads, [name |-> name, file |-> file, stage |-> stage])
      BY <2>2 DEF SendPrefetch, Prefetch
    <3>3. LoadsOK(loads)'
      BY <1>7, <3>2
    <3> QED
      BY <1>2, <1>10, <3>1, <3>3
  <2>3. CASE LoadSync(name, file)
    <3>1. /\ pool' = [pool EXCEPT ![name] = file] /\ Accepted(file)
          /\ UNCHANGED <<loads, service>>
      BY <2>3 DEF LoadSync, Accepted
    <3>2. poolOK'
      BY <1>6, <3>1
    <3> QED
      BY <1>2, <1>4, <1>5, <3>1, <3>2
  <2> QED
    BY <2>1, <2>2, <2>3
<1>14. CASE \E name \in Names : RemoveModel(name) \/ SwitchModel(name)
  <2>1. PICK name \in Names : RemoveModel(name) \/ SwitchModel(name)
    BY <1>14
  <2>2. CASE RemoveModel(name)
    <3>1. pool' = [pool EXCEPT ![name] = Absent] /\ UNCHANGED <<loads, service>>
      BY <2>2 DEF RemoveModel
    <3>2. poolOK'
      BY <1>6, <3>1
    <3> QED
      BY <1>2, <1>4, <1>5, <3>1, <3>2
  <2>3. CASE SwitchModel(name)
    <3>1. /\ service' = [service EXCEPT !.target = pool[name]] /\ pool[name] # Absent
          /\ UNCHANGED <<loads, pool>>
      BY <2>3 DEF SwitchModel
    <3>2. Accepted(pool[name])
      BY <1>1, <3>1 DEF poolOK
    <3>3. PICK t, d : service = [target |-> t, draft |-> d] /\ (d = FirstModel \/ Accepted(d))
      <4>1. service = [target |-> service.target, draft |-> service.draft]
        BY <1>1 DEF serviceOK
      <4>2. service.draft = FirstModel \/ Accepted(service.draft)
        BY <1>1 DEF serviceOK
      <4> QED
        BY <4>1, <4>2
    <3>4. PICK file : file = pool[name]
      OBVIOUS
    <3>5. service' = [target |-> file, draft |-> d]
      BY <3>1, <3>3, <3>4
    <3>6. serviceOK'
      BY <3>2, <3>3, <3>4, <3>5 DEF serviceOK
    <3> QED
      BY <1>2, <1>3, <1>5, <3>1, <3>6
  <2> QED
    BY <2>1, <2>2, <2>3
<1>15. CASE \E name \in Names, draft \in Names \cup {Absent} : SendSwitch(name, draft)
  <2>1. UNCHANGED <<pool, service, loads>>
    BY <1>15 DEF SendSwitch
  <2> QED
    BY <1>2, <1>5, <1>10, <2>1
<1>16. CASE \E i \in DOMAIN loads : Thread(i)
  <2>1. PICK i \in DOMAIN loads : ThreadLoad(i) \/ ThreadUpload(i) \/ ThreadInsert(i)
    BY <1>16 DEF Thread
  <2>2. i \in 1..Len(loads) /\ LoadOK(loads[i])
    BY <1>9
  <2>3. CASE ThreadLoad(i)
    <3>1. UNCHANGED <<pool, service>>
      BY <2>3 DEF ThreadLoad, ThreadRest
    <3>2. PICK stage : /\ loads' = [loads EXCEPT ![i].stage = stage]
                       /\ \/ stage \in {"failed", "died"}
                          \/ stage = "read" /\ Loaded[loads[i].file].outcome = "ok"
      <4>1. PICK outcome : outcome = Loaded[loads[i].file].outcome
        OBVIOUS
      <4>2. PICK stage : stage = IF ~handles THEN "failed"
                                 ELSE IF outcome = "panic" THEN "died"
                                 ELSE IF outcome = "ok" THEN "read" ELSE "failed"
        OBVIOUS
      <4>3. loads' = [loads EXCEPT ![i].stage = stage]
        BY <2>3, <4>1, <4>2, Zenon DEF ThreadLoad, MoveLoad
      <4>4. stage \in {"failed", "died"} \/ (stage = "read" /\ outcome = "ok")
        BY <4>2
      <4> QED
        BY <4>1, <4>3, <4>4
    <3>3. stage \in {"read", "uploaded"} => Accepted(loads[i].file)
      BY <2>2, <3>2 DEF LoadOK, Accepted
    <3>4. LoadsOK(loads)'
      BY <1>8, <3>2, <3>3
    <3> QED
      BY <1>2, <1>10, <3>1, <3>4
  <2>4. CASE ThreadUpload(i)
    <3>1. UNCHANGED <<pool, service>>
      BY <2>4 DEF ThreadUpload, ThreadRest
    <3>2. PICK stage : loads' = [loads EXCEPT ![i].stage = stage] /\ loads[i].stage = "read"
      BY <2>4 DEF ThreadUpload, MoveLoad
    <3>3. Accepted(loads[i].file)
      BY <2>2, <3>2 DEF LoadOK
    <3>4. LoadsOK(loads)'
      BY <1>8, <3>2, <3>3
    <3> QED
      BY <1>2, <1>10, <3>1, <3>4
  <2>5. CASE ThreadInsert(i)
    <3>1. /\ pool' = [pool EXCEPT ![loads[i].name] = loads[i].file]
          /\ loads' = [loads EXCEPT ![i].stage = "loaded"] /\ loads[i].stage = "uploaded"
          /\ UNCHANGED service
      BY <2>5 DEF ThreadInsert, ThreadRest, MoveLoad
    <3>2. Accepted(loads[i].file) /\ loads[i].name \in Names
      BY <2>2, <3>1 DEF LoadOK
    <3>3. poolOK'
      BY <1>6, <3>1, <3>2
    <3>4. LoadsOK(loads)'
      BY <1>8, <3>1
    <3> QED
      BY <1>2, <1>4, <3>1, <3>3, <3>4
  <2> QED
    BY <2>1, <2>3, <2>4, <2>5
<1> QED
  BY <1>11, <1>12, <1>13, <1>14, <1>15, <1>16 DEF PoolNext, Worker

\* No load that failed leaves a model behind, and what load_gguf accepts can be
\* run: for any files and names, any number of prefetches, and any order of the
\* threads, the worker and the callers.
THEOREM ResidentModelsRun == Spec => []PoolRunnable
<1>1. InferenceInit => PoolInv
  BY PoolStart DEF InferenceInit
<1>2. PoolInv /\ [InferenceNext]_inferenceVars => PoolInv'
  <2>1. [InferenceNext]_inferenceVars => [PoolNext]_poolVars
    BY DEF InferenceNext, inferenceVars
  <2> QED
    BY <2>1, PoolStep
<1>3. PoolInv => PoolRunnable
  <2> SUFFICES ASSUME PoolInv, NEW file \in DOMAIN PoolFiles, Resident(file)
               PROVE  /\ Loaded[file].outcome = "ok"
                      /\ WholeBlocks(Loaded[file]) => InBounds(Loaded[file])
    BY Zenon DEF PoolRunnable
  <2>1. file # Absent
    BY PoolAssumption DEF Absent
  <2>2. Accepted(file)
    BY <2>1 DEF PoolInv, Resident
  <2> QED
    BY <2>2, LoadedInBounds DEF Accepted
<1> QED
  BY <1>1, <1>2, <1>3, PTL DEF Spec

-----------------------------------------------------------------------------
(***************************************************************************)
(* Trees of drafted tokens.                                                *)
(***************************************************************************)

\* Node 1 is the root, and every other node comes after its parent.
IsTree(t) ==
    /\ Len(t) \in Nat /\ DOMAIN t = 1..Len(t) /\ Len(t) > 0
    /\ t[1].parent = NoParent
    /\ \A i \in 2..Len(t) : t[i].parent \in 1..(i - 1)

\* The path of every node up to k is its parent's with its token.
Paths(f, t, k) ==
    \A i \in 1..k : f[i] = IF t[i].parent = NoParent THEN <<t[i].token>>
                           ELSE Append(f[t[i].parent], t[i].token)

\* The recursion of get_path has a solution in a tree.
LEMMA PathsExist ==
    ASSUME NEW t, IsTree(t)
    PROVE  \E f : Paths(f, t, Len(t))
<1>1. PICK n \in Nat : n = Len(t)
  BY DEF IsTree
<1> DEFINE S == {k \in 0..n : \E f : Paths(f, t, k)}
<1>2. 0 \in S
  BY DEF Paths
<1>3. ASSUME NEW k \in 1..n, k - 1 \in S PROVE k \in S
  <2>1. PICK f : Paths(f, t, k - 1)
    BY <1>3
  <2>2. PICK next : next = IF t[k].parent = NoParent THEN <<t[k].token>>
                           ELSE Append(f[t[k].parent], t[k].token)
    OBVIOUS
  <2>3. PICK g : g = [i \in 1..k |-> IF i = k THEN next ELSE f[i]]
    OBVIOUS
  <2>4. g[k] = next /\ \A i \in 1..(k - 1) : g[i] = f[i]
    BY <2>3
  <2>5. \A i \in 1..k : t[i].parent = NoParent \/ t[i].parent \in 1..(i - 1)
    <3>1. ASSUME NEW i \in 1..k PROVE t[i].parent = NoParent \/ t[i].parent \in 1..(i - 1)
      <4>1. i = 1 \/ i \in 2..n
        OBVIOUS
      <4> QED
        BY <1>1, <4>1 DEF IsTree
    <3> QED
      BY <3>1
  <2>6. ASSUME NEW i \in 1..k
        PROVE  g[i] = IF t[i].parent = NoParent THEN <<t[i].token>>
                      ELSE Append(g[t[i].parent], t[i].token)
    <3>1. t[i].parent # NoParent => g[t[i].parent] = f[t[i].parent]
      <4>1. SUFFICES ASSUME t[i].parent # NoParent PROVE g[t[i].parent] = f[t[i].parent]
        OBVIOUS
      <4>2. t[i].parent \in 1..(k - 1)
        BY <2>5, <4>1
      <4> QED
        BY <2>4, <4>2
    <3>2. CASE i = k
      BY <2>2, <2>4, <3>1, <3>2
    <3>3. CASE i # k
      <4>1. i \in 1..(k - 1)
        BY <3>3
      <4>2. f[i] = IF t[i].parent = NoParent THEN <<t[i].token>>
                   ELSE Append(f[t[i].parent], t[i].token)
        BY <2>1, <4>1 DEF Paths
      <4> QED
        BY <2>4, <3>1, <4>1, <4>2
    <3> QED
      BY <3>2, <3>3
  <2>7. Paths(g, t, k)
    BY <2>6, Zenon DEF Paths
  <2> QED
    BY <2>7
<1>4. n \in S
  <2>1. S \in SUBSET (0..n)
    OBVIOUS
  <2> HIDE DEF S
  <2>2. S = 0..n
    BY <1>2, <1>3, <2>1, IntervalInduction
  <2> QED
    BY <2>2
<1> QED
  BY <1>1, <1>4

\* get_path of a node is that of its parent, and its token.
LEMMA PathOf ==
    ASSUME NEW t, IsTree(t)
    PROVE  \A i \in 1..Len(t) :
              GetPath(t, i) = IF t[i].parent = NoParent THEN <<t[i].token>>
                              ELSE Append(GetPath(t, t[i].parent), t[i].token)
<1>1. DOMAIN t = 1..Len(t)
  BY DEF IsTree
<1> DEFINE path == CHOOSE path : path =
                      [i \in DOMAIN t |-> IF t[i].parent = NoParent THEN <<t[i].token>>
                                          ELSE Append(path[t[i].parent], t[i].token)]
<1>2. \A i : GetPath(t, i) = path[i]
  BY Zenon DEF GetPath
<1>3. PICK f : Paths(f, t, Len(t))
  BY PathsExist
<1>4. PICK g : g = [i \in DOMAIN t |-> f[i]]
  OBVIOUS
<1>5. g = [i \in DOMAIN t |-> IF t[i].parent = NoParent THEN <<t[i].token>>
                              ELSE Append(g[t[i].parent], t[i].token)]
  <2>1. ASSUME NEW i \in DOMAIN t
        PROVE  f[i] = IF t[i].parent = NoParent THEN <<t[i].token>>
                      ELSE Append(g[t[i].parent], t[i].token)
    <3>1. t[i].parent = NoParent \/ t[i].parent \in DOMAIN t
      <4>1. i = 1 \/ i \in 2..Len(t)
        BY <1>1 DEF IsTree
      <4> QED
        BY <1>1, <4>1 DEF IsTree
    <3>2. t[i].parent # NoParent => g[t[i].parent] = f[t[i].parent]
      BY <1>4, <3>1
    <3>3. f[i] = IF t[i].parent = NoParent THEN <<t[i].token>>
                 ELSE Append(f[t[i].parent], t[i].token)
      BY <1>1, <1>3 DEF Paths
    <3> QED
      BY <3>2, <3>3
  <2> QED
    BY <1>4, <2>1, Zenon
<1>6. path = [i \in DOMAIN t |-> IF t[i].parent = NoParent THEN <<t[i].token>>
                                 ELSE Append(path[t[i].parent], t[i].token)]
  BY <1>5, Zenon
<1> HIDE DEF path
<1>7. \A i \in DOMAIN t : path[i] = IF t[i].parent = NoParent THEN <<t[i].token>>
                                    ELSE Append(path[t[i].parent], t[i].token)
  BY <1>6, Zenon
<1> QED
  BY <1>1, <1>2, <1>7, Zenon

\* A node up to k is agreed when its parent is and it was expected there.
Agrees(f, t, e, k) ==
    \A i \in 1..k : f[i] <=> (i = 1 \/ (f[t[i].parent] /\ t[i].token = e[t[i].parent]))

\* The agreement of the nodes has the recursion it is written with.
LEMMA AgreementExists ==
    ASSUME NEW t, NEW e, IsTree(t)
    PROVE  \E f : f \in [1..Len(t) -> BOOLEAN] /\ Agrees(f, t, e, Len(t))
<1>1. PICK n \in Nat : n = Len(t)
  BY DEF IsTree
<1> DEFINE S == {k \in 0..n : \E f : f \in [1..k -> BOOLEAN] /\ Agrees(f, t, e, k)}
<1>2. 0 \in S
  <2>1. PICK f : f = [i \in 1..0 |-> TRUE]
    OBVIOUS
  <2>2. f \in [1..0 -> BOOLEAN] /\ Agrees(f, t, e, 0)
    BY <2>1 DEF Agrees
  <2>3. 0 \in 0..n
    OBVIOUS
  <2> QED
    BY <2>2, <2>3, Zenon
<1>3. ASSUME NEW k \in 1..n, k - 1 \in S PROVE k \in S
  <2>1. PICK f : f \in [1..(k - 1) -> BOOLEAN] /\ Agrees(f, t, e, k - 1)
    BY <1>3
  <2>2. PICK next \in BOOLEAN :
           next <=> (k = 1 \/ (f[t[k].parent] /\ t[k].token = e[t[k].parent]))
    BY Zenon
  <2>3. PICK g : g = [i \in 1..k |-> IF i = k THEN next ELSE f[i]]
    OBVIOUS
  <2>4. g[k] = next /\ \A i \in 1..(k - 1) : g[i] = f[i]
    BY <2>3
  <2>5. g \in [1..k -> BOOLEAN]
    <3>1. ASSUME NEW i \in 1..k PROVE (IF i = k THEN next ELSE f[i]) \in BOOLEAN
      <4>1. i # k => i \in 1..(k - 1)
        OBVIOUS
      <4> QED
        BY <2>1, <2>2, <4>1, Zenon
    <3> QED
      BY <2>3, <3>1, Zenon
  <2>6. ASSUME NEW i \in 1..k
        PROVE  g[i] <=> (i = 1 \/ (g[t[i].parent] /\ t[i].token = e[t[i].parent]))
    <3>1. i # 1 => g[t[i].parent] = f[t[i].parent]
      <4>1. SUFFICES ASSUME i # 1 PROVE g[t[i].parent] = f[t[i].parent]
        OBVIOUS
      <4>2. t[i].parent \in 1..(k - 1)
        BY <1>1, <4>1 DEF IsTree
      <4> QED
        BY <2>4, <4>2
    <3>2. CASE i = k
      BY <2>2, <2>4, <3>1, <3>2, Zenon
    <3>3. CASE i # k
      <4>1. i \in 1..(k - 1)
        BY <3>3
      <4>2. f[i] <=> (i = 1 \/ (f[t[i].parent] /\ t[i].token = e[t[i].parent]))
        BY <2>1, <4>1, Zenon DEF Agrees
      <4>3. g[i] = f[i]
        BY <2>4, <4>1
      <4> QED
        BY <3>1, <4>2, <4>3, Zenon
    <3> QED
      BY <3>2, <3>3
  <2>7. Agrees(g, t, e, k)
    BY <2>6, Zenon DEF Agrees
  <2> QED
    BY <2>5, <2>7
<1>4. n \in S
  <2>1. S \in SUBSET (0..n)
    OBVIOUS
  <2> HIDE DEF S
  <2>2. S = 0..n
    BY <1>2, <1>3, <2>1, IntervalInduction
  <2> QED
    BY <2>2
<1> QED
  BY <1>1, <1>4

\* A node is agreed when it is the root, or its parent is agreed and it has the
\* token that was expected after it.
LEMMA ValidNodes ==
    ASSUME NEW t, NEW e, IsTree(t)
    PROVE  /\ Valid(t, e) \subseteq 1..Len(t)
           /\ \A i \in 1..Len(t) :
                 i \in Valid(t, e) <=>
                    (i = 1 \/ (t[i].parent \in Valid(t, e) /\ t[i].token = e[t[i].parent]))
<1>1. DOMAIN t = 1..Len(t)
  BY DEF IsTree
<1> DEFINE valid == CHOOSE valid : valid =
                       [i \in DOMAIN t |->
                           i = 1 \/ (valid[t[i].parent] /\ t[i].token = e[t[i].parent])]
<1>2. Valid(t, e) = {i \in DOMAIN t : valid[i]}
  BY Zenon DEF Valid
<1>3. PICK f : f \in [1..Len(t) -> BOOLEAN] /\ Agrees(f, t, e, Len(t))
  BY AgreementExists
<1>4. f = [i \in DOMAIN t |-> i = 1 \/ (f[t[i].parent] /\ t[i].token = e[t[i].parent])]
  <2>1. ASSUME NEW i \in DOMAIN t
        PROVE  f[i] = (i = 1 \/ (f[t[i].parent] /\ t[i].token = e[t[i].parent]))
    <3>1. i \in 1..Len(t)
      BY <1>1
    <3>2. f[i] \in BOOLEAN
      BY <1>3, <3>1, Zenon
    <3>3. f[i] <=> (i = 1 \/ (f[t[i].parent] /\ t[i].token = e[t[i].parent]))
      BY <1>3, <3>1, Zenon DEF Agrees
    <3> QED
      BY <3>2, <3>3, Zenon
  <2>2. f = [i \in DOMAIN t |-> f[i]]
    BY <1>1, <1>3, Zenon
  <2> QED
    BY <2>1, <2>2, Zenon
<1>5. valid = [i \in DOMAIN t |-> i = 1 \/ (valid[t[i].parent] /\ t[i].token = e[t[i].parent])]
  BY <1>4, Zenon
<1> HIDE DEF valid
<1>6. \A i \in DOMAIN t :
         valid[i] = (i = 1 \/ (valid[t[i].parent] /\ t[i].token = e[t[i].parent]))
  BY <1>5, Zenon
<1>7. ASSUME NEW i \in 1..Len(t), i # 1 PROVE t[i].parent \in DOMAIN t
  <2>1. i \in 2..Len(t)
    BY <1>7 DEF IsTree
  <2>2. t[i].parent \in 1..(i - 1)
    BY <2>1 DEF IsTree
  <2> QED
    BY <1>1, <2>1, <2>2 DEF IsTree
<1>8. ASSUME NEW i \in 1..Len(t)
      PROVE  i \in Valid(t, e) <=>
                (i = 1 \/ (t[i].parent \in Valid(t, e) /\ t[i].token = e[t[i].parent]))
  <2>1. i \in Valid(t, e) <=> valid[i]
    BY <1>1, <1>2, Zenon
  <2>2. valid[i] <=> (i = 1 \/ (valid[t[i].parent] /\ t[i].token = e[t[i].parent]))
    BY <1>1, <1>6, Zenon
  <2>3. i # 1 => (t[i].parent \in Valid(t, e) <=> valid[t[i].parent])
    BY <1>2, <1>7, Zenon
  <2> QED
    BY <2>1, <2>2, <2>3, Zenon
<1> QED
  BY <1>1, <1>2, <1>8, Zenon

\* A token more.
LEMMA Extended ==
    ASSUME NEW V, NEW m \in Nat, NEW p \in [1..m -> V], NEW v \in V
    PROVE  Append(p, v) = [l \in 1..(m + 1) |-> IF l = m + 1 THEN v ELSE p[l]]
<1>1. p \in Seq(V) /\ Len(p) = m
  BY SeqDef
<1>2. Append(p, v) \in Seq(V) /\ Len(Append(p, v)) = m + 1
      /\ Append(p, v)[m + 1] = v /\ \A l \in 1..m : Append(p, v)[l] = p[l]
  BY <1>1, AppendProperties
<1>3. PICK s \in Seq(V) : s = Append(p, v) /\ Len(s) = m + 1
                          /\ s[m + 1] = v /\ \A l \in 1..m : s[l] = p[l]
  BY <1>2
<1>4. s = [l \in 1..(m + 1) |-> s[l]]
  BY <1>3, LenProperties
<1>5. \A l \in 1..(m + 1) : s[l] = IF l = m + 1 THEN v ELSE p[l]
  BY <1>3
<1>6. s = [l \in 1..(m + 1) |-> IF l = m + 1 THEN v ELSE p[l]]
  BY <1>4, <1>5, Zenon
<1> QED
  BY <1>3, <1>6

\* The branch of the first k places of b is agreed.
Agreed(t, e, k, b) ==
    /\ k \in 1..Len(t) /\ b \in [1..k -> 1..Len(t)] /\ b[1] = 1
    /\ \A j \in 2..k : t[b[j]].parent = b[j - 1] /\ t[b[j]].token = e[b[j - 1]]

TokensOf(t, b, k) == [l \in 1..k |-> t[b[l]].token]

\* The tokens of a branch up to a place are those before it, and its own.
LEMMA TokensGrow ==
    ASSUME NEW t, NEW k \in Nat, NEW b \in [1..k -> 1..Len(t)], NEW j \in 2..k
    PROVE  TokensOf(t, b, j) = Append(TokensOf(t, b, j - 1), t[b[j]].token)
<1> DEFINE V == {t[i].token : i \in 1..Len(t)}
<1>1. \A l \in 1..k : t[b[l]].token \in V
  OBVIOUS
<1>2. PICK m \in Nat : m = j - 1 /\ m + 1 = j
  OBVIOUS
<1>3. PICK p : p = TokensOf(t, b, m)
  OBVIOUS
<1>4. p \in [1..m -> V]
  BY <1>1, <1>2, <1>3 DEF TokensOf
<1>5. PICK v \in V : v = t[b[j]].token
  BY <1>1
<1> HIDE DEF V
<1>6. Append(p, v) = [l \in 1..(m + 1) |-> IF l = m + 1 THEN v ELSE p[l]]
  BY <1>4, Extended
<1>7. TokensOf(t, b, j) = [l \in 1..(m + 1) |-> IF l = m + 1 THEN v ELSE p[l]]
  <2>1. \A l \in 1..j : t[b[l]].token = IF l = m + 1 THEN v ELSE p[l]
    <3>1. ASSUME NEW l \in 1..j PROVE t[b[l]].token = IF l = m + 1 THEN v ELSE p[l]
      <4>1. CASE l = m + 1
        BY <1>2, <1>5, <4>1
      <4>2. CASE l # m + 1
        <5>1. l \in 1..m
          BY <1>2, <4>2
        <5> QED
          BY <1>3, <4>2, <5>1 DEF TokensOf
      <4> QED
        BY <4>1, <4>2
    <3> QED
      BY <3>1
  <2> QED
    BY <1>2, <2>1, Zenon DEF TokensOf
<1> QED
  BY <1>2, <1>3, <1>5, <1>6, <1>7, Zenon

\* The nodes of an agreed branch are agreed, and their paths are its parts.
LEMMA BranchPath ==
    ASSUME NEW t, NEW e, NEW k, NEW b, IsTree(t), Agreed(t, e, k, b)
    PROVE  \A j \in 1..k : b[j] \in Valid(t, e) /\ GetPath(t, b[j]) = TokensOf(t, b, j)
<1>1. k \in Nat /\ k >= 1 /\ Len(t) \in Nat /\ b \in [1..k -> 1..Len(t)] /\ b[1] = 1
  BY DEF Agreed, IsTree
<1> DEFINE Follows(j) == b[j] \in Valid(t, e) /\ GetPath(t, b[j]) = TokensOf(t, b, j)
<1> DEFINE S == {j \in 0..k : j = 0 \/ Follows(j)}
<1>2. Follows(1)
  <2>1. t[1].parent = NoParent
    BY DEF IsTree
  <2>2. 1 \in 1..Len(t)
    BY DEF IsTree
  <2>3. 1 \in Valid(t, e)
    BY <2>2, ValidNodes, Zenon
  <2>4. GetPath(t, 1) = <<t[1].token>>
    BY <2>1, <2>2, PathOf, Zenon
  <2>5. TokensOf(t, b, 1) = <<t[1].token>>
    BY <1>1 DEF TokensOf
  <2> QED
    BY <1>1, <2>3, <2>4, <2>5, Zenon
<1>3. ASSUME NEW j \in 2..k, Follows(j - 1) PROVE Follows(j)
  <2>1. PICK u \in 1..Len(t) : u = b[j]
    BY <1>1
  <2>2. PICK w \in 1..Len(t) : w = b[j - 1]
    BY <1>1
  <2>3. t[u].parent = w /\ t[u].token = e[w]
    BY <2>1, <2>2 DEF Agreed
  <2>4. w # NoParent
    BY <1>1, <2>2 DEF NoParent
  <2>5. u \in Valid(t, e)
    BY <1>3, <2>1, <2>2, <2>3, ValidNodes, Zenon
  <2>6. GetPath(t, u) = Append(GetPath(t, w), t[u].token)
    BY <2>1, <2>3, <2>4, PathOf, Zenon
  <2>7. TokensOf(t, b, j) = Append(TokensOf(t, b, j - 1), t[b[j]].token)
    BY <1>1, TokensGrow, Zenon
  <2> QED
    BY <1>3, <2>1, <2>2, <2>5, <2>6, <2>7, Zenon
<1> HIDE DEF Follows
<1>4. ASSUME NEW j \in 1..k, j - 1 \in S PROVE j \in S
  BY <1>2, <1>3, <1>4
<1>5. S \in SUBSET (0..k) /\ 0 \in S
  BY <1>1
<1>6. S = 0..k
  <2> HIDE DEF S
  <2> QED
    BY <1>1, <1>4, <1>5, IntervalInduction
<1>7. \A j \in 1..k : Follows(j)
  BY <1>6
<1> QED
  BY <1>7, Zenon DEF Follows

\* Every agreed node ends an agreed branch, which is no longer than its place.
LEMMA BranchTo ==
    ASSUME NEW t, NEW e, IsTree(t)
    PROVE  \A i \in Valid(t, e) : \E k, b : Agreed(t, e, k, b) /\ b[k] = i /\ k <= i
<1>1. PICK n \in Nat : n = Len(t) /\ n > 0
  BY DEF IsTree
<1> DEFINE Ends(i) == \E k, b : Agreed(t, e, k, b) /\ b[k] = i /\ k <= i
<1> DEFINE S == {m \in 0..n : \A i \in 1..m : i \in Valid(t, e) => Ends(i)}
<1>2. Ends(1)
  <2>1. PICK b : b = [j \in 1..1 |-> 1]
    OBVIOUS
  <2>2. Agreed(t, e, 1, b) /\ b[1] = 1
    BY <1>1, <2>1 DEF Agreed
  <2> QED
    BY <2>2
<1>3. ASSUME NEW i \in 2..n, i \in Valid(t, e), \A j \in 1..(i - 1) : j \in Valid(t, e) => Ends(j)
      PROVE  Ends(i)
  <2>1. PICK w \in 1..(i - 1) : w = t[i].parent
    BY <1>1 DEF IsTree
  <2>2. w \in Valid(t, e) /\ t[i].token = e[w]
    <3>1. i \in 1..Len(t) /\ i # 1
      BY <1>1
    <3>2. i \in Valid(t, e)
      BY <1>3
    <3>3. \A j \in 1..Len(t) :
             j \in Valid(t, e) <=>
                (j = 1 \/ (t[j].parent \in Valid(t, e) /\ t[j].token = e[t[j].parent]))
      BY ValidNodes
    <3>4. i = 1 \/ (t[i].parent \in Valid(t, e) /\ t[i].token = e[t[i].parent])
      BY <3>1, <3>2, <3>3, Zenon
    <3> QED
      BY <2>1, <3>1, <3>4
  <2>3. PICK k, b : Agreed(t, e, k, b) /\ b[k] = w /\ k <= w
    BY <1>3, <2>2
  <2>4. k \in 1..w /\ b \in [1..k -> 1..n] /\ b[1] = 1
        /\ \A j \in 2..k : t[b[j]].parent = b[j - 1] /\ t[b[j]].token = e[b[j - 1]]
    BY <1>1, <2>3 DEF Agreed
  <2>5. PICK c : c = [j \in 1..(k + 1) |-> IF j = k + 1 THEN i ELSE b[j]]
    OBVIOUS
  <2>6. c[k + 1] = i /\ \A j \in 1..k : c[j] = b[j]
    BY <2>4, <2>5
  <2>7. c \in [1..(k + 1) -> 1..n]
    BY <2>4, <2>5
  <2>8. ASSUME NEW j \in 2..(k + 1)
        PROVE  t[c[j]].parent = c[j - 1] /\ t[c[j]].token = e[c[j - 1]]
    <3>1. CASE j = k + 1
      <4>1. c[j] = i /\ c[j - 1] = w
        BY <2>3, <2>4, <2>6, <3>1
      <4> QED
        BY <2>1, <2>2, <4>1
    <3>2. CASE j # k + 1
      <4>1. j \in 2..k /\ c[j] = b[j] /\ c[j - 1] = b[j - 1]
        BY <2>4, <2>6, <3>2
      <4> QED
        BY <2>4, <4>1
    <3> QED
      BY <3>1, <3>2
  <2>9. Agreed(t, e, k + 1, c) /\ c[k + 1] = i /\ k + 1 <= i
    <3>1. k + 1 \in 1..Len(t) /\ k + 1 <= i
      BY <1>1, <2>1, <2>4
    <3>2. c[1] = 1
      BY <2>4, <2>6
    <3> QED
      BY <1>1, <2>6, <2>7, <2>8, <3>1, <3>2 DEF Agreed
  <2> QED
    BY <2>9
<1> HIDE DEF Ends
<1>4. ASSUME NEW m \in 1..n, m - 1 \in S PROVE m \in S
  BY <1>2, <1>3, <1>4
<1>5. S \in SUBSET (0..n) /\ 0 \in S
  OBVIOUS
<1>6. S = 0..n
  <2> HIDE DEF S
  <2> QED
    BY <1>4, <1>5, IntervalInduction
<1>7. \A i \in 1..n : i \in Valid(t, e) => Ends(i)
  BY <1>6
<1>8. \A i \in Valid(t, e) : i \in 1..n
  BY <1>1, ValidNodes
<1> QED
  BY <1>7, <1>8, Zenon DEF Ends

\* The path of an agreed node is the branch that ends there.
LEMMA PathLength ==
    ASSUME NEW t, NEW e, IsTree(t)
    PROVE  \A i \in Valid(t, e) :
              \E k, b : /\ Agreed(t, e, k, b) /\ b[k] = i /\ k <= i
                        /\ GetPath(t, i) = TokensOf(t, b, k) /\ Len(GetPath(t, i)) = k
<1>1. ASSUME NEW i \in Valid(t, e)
      PROVE  \E k, b : /\ Agreed(t, e, k, b) /\ b[k] = i /\ k <= i
                       /\ GetPath(t, i) = TokensOf(t, b, k) /\ Len(GetPath(t, i)) = k
  <2>1. PICK k, b : Agreed(t, e, k, b) /\ b[k] = i /\ k <= i
    BY BranchTo
  <2>2. k \in Nat /\ k \in 1..k
    <3>1. Len(t) \in Nat /\ k \in 1..Len(t)
      BY <2>1 DEF Agreed, IsTree
    <3> QED
      BY <3>1
  <2>3. GetPath(t, i) = TokensOf(t, b, k)
    BY <2>1, <2>2, BranchPath, Zenon
  <2>4. Len(TokensOf(t, b, k)) = k
    BY <2>2 DEF TokensOf
  <2> QED
    BY <2>1, <2>3, <2>4, Zenon
<1> QED
  BY <1>1

\* Among finitely many nodes one is the last of the longest.
LEMMA LastLongest ==
    ASSUME NEW n \in Nat, NEW nodes \in SUBSET (1..n), nodes # {}, NEW l \in [nodes -> Nat],
           \A i \in nodes : l[i] <= i
    PROVE  \E i \in nodes : \A j \in nodes : l[j] < l[i] \/ (l[j] = l[i] /\ j <= i)
<1> DEFINE lengths == {l[i] : i \in nodes}
<1>1. lengths \in SUBSET Nat /\ lengths # {} /\ \A x \in lengths : x <= n
  <2>1. PICK i \in nodes : TRUE
    OBVIOUS
  <2>2. l[i] \in lengths
    OBVIOUS
  <2>3. \A x \in lengths : x \in Nat /\ x <= n
    <3>1. ASSUME NEW j \in nodes PROVE l[j] \in Nat /\ l[j] <= n
      OBVIOUS
    <3> QED
      BY <3>1
  <2> HIDE DEF lengths
  <2> QED
    BY <2>2, <2>3
<1>2. PICK m \in lengths : \A y \in lengths : y <= m
  <2> HIDE DEF lengths
  <2> QED
    BY <1>1, GreatestNumber
<1>3. m \in Nat /\ \A i \in nodes : l[i] <= m
  BY <1>1, <1>2
<1> DEFINE longest == {i \in nodes : l[i] = m}
<1>4. longest \in SUBSET Nat /\ longest # {} /\ \A x \in longest : x <= n
  <2>1. PICK i \in nodes : l[i] = m
    BY <1>2
  <2>2. i \in longest
    BY <2>1
  <2>3. \A x \in longest : x \in Nat /\ x <= n
    OBVIOUS
  <2> HIDE DEF longest
  <2> QED
    BY <2>2, <2>3
<1>5. PICK i \in longest : \A y \in longest : y <= i
  <2> HIDE DEF longest
  <2> QED
    BY <1>4, GreatestNumber
<1>6. i \in nodes /\ l[i] = m
  BY <1>5
<1>7. ASSUME NEW j \in nodes PROVE l[j] < l[i] \/ (l[j] = l[i] /\ j <= i)
  <2>1. CASE l[j] = m
    BY <1>5, <1>6, <2>1
  <2>2. CASE l[j] # m
    BY <1>3, <1>6, <2>2
  <2> QED
    BY <2>1, <2>2
<1> QED
  BY <1>6, <1>7

\* The node find_best_path takes.
IsLast(t, e, last) ==
    /\ last \in Valid(t, e)
    /\ \A j \in Valid(t, e) :
          \/ Len(GetPath(t, j)) < Len(GetPath(t, last))
          \/ Len(GetPath(t, j)) = Len(GetPath(t, last)) /\ j <= last

\* The choice of find_best_path is never from nothing.
LEMMA LastExists ==
    ASSUME NEW t, NEW e, IsTree(t)
    PROVE  \E last : IsLast(t, e, last)
<1>1. PICK n \in Nat : n = Len(t) /\ n > 0
  BY DEF IsTree
<1>2. PICK nodes : nodes = Valid(t, e)
  OBVIOUS
<1>3. nodes \in SUBSET (1..n)
  BY <1>1, <1>2, ValidNodes
<1>4. 1 \in nodes
  <2>1. 1 \in 1..Len(t)
    BY <1>1
  <2> QED
    BY <1>2, <2>1, ValidNodes, Zenon
<1>5. PICK l : l = [i \in nodes |-> Len(GetPath(t, i))]
  OBVIOUS
<1>6. \A i \in nodes : Len(GetPath(t, i)) \in Nat /\ Len(GetPath(t, i)) <= i
  <2>1. ASSUME NEW i \in nodes PROVE Len(GetPath(t, i)) \in Nat /\ Len(GetPath(t, i)) <= i
    <3>1. PICK k, b : Agreed(t, e, k, b) /\ k <= i /\ Len(GetPath(t, i)) = k
      BY <1>2, PathLength
    <3>2. k \in Nat
      BY <1>1, <3>1 DEF Agreed
    <3> QED
      BY <3>1, <3>2
  <2> QED
    BY <2>1
<1>7. l \in [nodes -> Nat] /\ \A i \in nodes : l[i] <= i
  BY <1>5, <1>6
<1>8. PICK i \in nodes : \A j \in nodes : l[j] < l[i] \/ (l[j] = l[i] /\ j <= i)
  BY <1>3, <1>4, <1>7, LastLongest
<1>9. \A j \in nodes : l[j] = Len(GetPath(t, j))
  BY <1>5
<1>10. \A j \in nodes : \/ Len(GetPath(t, j)) < Len(GetPath(t, i))
                        \/ Len(GetPath(t, j)) = Len(GetPath(t, i)) /\ j <= i
  BY <1>8, <1>9, Zenon
<1>11. IsLast(t, e, i)
  BY <1>2, <1>8, <1>10, Zenon DEF IsLast
<1> QED
  BY <1>11

\* It ends an agreed branch, and none is longer.
LEMMA LastIsLongest ==
    ASSUME NEW t, NEW e, NEW last, IsTree(t), IsLast(t, e, last)
    PROVE  \E k, b : /\ Agreed(t, e, k, b) /\ b[k] = last
                     /\ GetPath(t, last) = TokensOf(t, b, k)
                     /\ \A m, c : Agreed(t, e, m, c) => m <= k
<1>1. last \in Valid(t, e)
  BY DEF IsLast
<1>2. PICK k, b : /\ Agreed(t, e, k, b) /\ b[k] = last /\ GetPath(t, last) = TokensOf(t, b, k)
                  /\ Len(GetPath(t, last)) = k
  BY <1>1, PathLength
<1>3. ASSUME NEW m, NEW c, Agreed(t, e, m, c) PROVE m <= k
  <2>1. Len(t) \in Nat /\ m \in 1..Len(t) /\ k \in 1..Len(t)
    BY <1>2, <1>3 DEF Agreed, IsTree
  <2>2. m \in 1..m /\ m \in Nat /\ k \in Nat
    BY <2>1
  <2>3. c[m] \in Valid(t, e) /\ GetPath(t, c[m]) = TokensOf(t, c, m)
    BY <1>3, <2>2, BranchPath, Zenon
  <2>4. Len(TokensOf(t, c, m)) = m
    BY <2>2 DEF TokensOf
  <2>5. PICK x : x = Len(GetPath(t, c[m]))
    OBVIOUS
  <2>6. x < Len(GetPath(t, last)) \/ x = Len(GetPath(t, last))
    BY <2>3, <2>5, Zenon DEF IsLast
  <2>7. x = m
    BY <2>3, <2>4, <2>5, Zenon
  <2> QED
    BY <1>2, <2>2, <2>6, <2>7
<1> QED
  BY <1>2, <1>3

\* The agreed branches of a tree, with their lengths.
LEMMA BranchesAgree ==
    ASSUME IsTree(tree)
    PROVE  /\ \A b \in AgreedBranches : Agreed(tree, expected, Len(b), b)
           /\ \A k, b : Agreed(tree, expected, k, b) =>
                 b \in AgreedBranches /\ Len(b) = k /\ Last(b) = b[k] /\ DOMAIN b = 1..k
<1>1. Len(tree) \in Nat /\ DOMAIN tree = 1..Len(tree)
  BY DEF IsTree
<1>2. ASSUME NEW b \in AgreedBranches PROVE Agreed(tree, expected, Len(b), b)
  <2>1. PICK k \in 1..Len(tree) : b \in [1..k -> 1..Len(tree)]
    BY <1>1, <1>2 DEF AgreedBranches
  <2>2. Len(b) = k
    BY <1>1, <2>1
  <2>3. b[1] = 1
    BY <1>2 DEF AgreedBranches
  <2>4. ASSUME NEW j \in 2..k
        PROVE  tree[b[j]].parent = b[j - 1] /\ tree[b[j]].token = expected[b[j - 1]]
    <3>1. PICK i \in 1..(k - 1) : i = j - 1 /\ i + 1 = j
      BY <1>1, <2>1
    <3>2. tree[b[i + 1]].parent = b[i] /\ tree[b[i + 1]].token = expected[b[i]]
      BY <1>2, <2>2, <3>1, Zenon DEF AgreedBranches
    <3> QED
      BY <3>1, <3>2
  <2> QED
    BY <2>1, <2>2, <2>3, <2>4 DEF Agreed
<1>3. ASSUME NEW k, NEW b, Agreed(tree, expected, k, b)
      PROVE  b \in AgreedBranches /\ Len(b) = k /\ Last(b) = b[k] /\ DOMAIN b = 1..k
  <2>1. k \in 1..Len(tree) /\ b \in [1..k -> 1..Len(tree)] /\ b[1] = 1
    BY <1>3 DEF Agreed
  <2>2. k \in Nat /\ Len(b) = k /\ DOMAIN b = 1..k
    BY <1>1, <2>1
  <2>3. ASSUME NEW i \in 1..(Len(b) - 1)
        PROVE  tree[b[i + 1]].parent = b[i] /\ tree[b[i + 1]].token = expected[b[i]]
    <3>1. PICK j \in 2..k : j = i + 1 /\ j - 1 = i
      BY <2>2
    <3>2. tree[b[j]].parent = b[j - 1] /\ tree[b[j]].token = expected[b[j - 1]]
      BY <1>3 DEF Agreed
    <3> QED
      BY <3>1, <3>2
  <2>4. b \in UNION {[1..m -> DOMAIN tree] : m \in DOMAIN tree}
    BY <1>1, <2>1
  <2>5. b \in AgreedBranches
    BY <2>1, <2>3, <2>4, Zenon DEF AgreedBranches
  <2> QED
    BY <2>2, <2>5 DEF Last
<1> QED
  BY <1>2, <1>3

\* find_best_path returns what it says.
LEMMA ChosenIsMaximal ==
    ASSUME IsTree(tree), FindBestPath
    PROVE  BestPathMaximal'
<1>1. tree' = tree /\ expected' = expected
  BY DEF FindBestPath
<1>2. PICK last : last = CHOOSE i \in Valid(tree, expected) : \A j \in Valid(tree, expected) :
                            \/ Len(GetPath(tree, j)) < Len(GetPath(tree, i))
                            \/ Len(GetPath(tree, j)) = Len(GetPath(tree, i)) /\ j <= i
  OBVIOUS
<1>3. best' = [path |-> GetPath(tree, last), rejected_token |-> expected[last]]
  BY <1>2, Zenon DEF FindBestPath
<1>4. IsLast(tree, expected, last)
  BY <1>2, LastExists, Zenon DEF IsLast
<1>5. PICK k, b : /\ Agreed(tree, expected, k, b) /\ b[k] = last
                  /\ GetPath(tree, last) = TokensOf(tree, b, k)
                  /\ \A m, c : Agreed(tree, expected, m, c) => m <= k
  BY <1>4, LastIsLongest
<1>6. b \in AgreedBranches /\ Len(b) = k /\ Last(b) = last /\ DOMAIN b = 1..k
  BY <1>5, BranchesAgree, Zenon
<1>7. best'.path = [i \in DOMAIN b |-> tree[b[i]].token] /\ best'.rejected_token = expected[Last(b)]
  BY <1>3, <1>5, <1>6 DEF TokensOf
<1>8. \A c \in AgreedBranches : Len(c) <= Len(b)
  BY <1>5, <1>6, BranchesAgree, Zenon
<1>9. AgreedBranches' = AgreedBranches
  BY <1>1 DEF AgreedBranches
<1>10. \E c \in AgreedBranches' :
          /\ best'.path = [i \in DOMAIN c |-> tree'[c[i]].token]
          /\ best'.rejected_token = expected'[Last(c)]
          /\ \A d \in AgreedBranches' : Len(d) <= Len(c)
  <2>1. best'.path = [i \in DOMAIN b |-> tree'[b[i]].token]
    BY <1>1, <1>7
  <2>2. best'.rejected_token = expected'[Last(b)]
    BY <1>1, <1>7
  <2> QED
    BY <1>6, <1>8, <1>9, <2>1, <2>2, Zenon
<1> QED
  BY <1>10, Zenon DEF BestPathMaximal

-----------------------------------------------------------------------------
(***************************************************************************)
(* Whatever way a tree comes about, it is one.                             *)
(***************************************************************************)

\* add_child on a node of the tree.
LEMMA ChildKeeps ==
    ASSUME NEW t, IsTree(t), NEW parent \in 1..Len(t), NEW token
    PROVE  IsTree(AddChild(t, parent, token)) /\ Len(AddChild(t, parent, token)) = Len(t) + 1
           /\ Len(t) + 1 \in 1..Len(AddChild(t, parent, token))
<1>1. PICK n \in Nat : n = Len(t) /\ n > 0 /\ DOMAIN t = 1..n
  BY DEF IsTree
<1>2. PICK c : c = [token |-> token, parent |-> parent]
  OBVIOUS
<1> DEFINE V == {t[i] : i \in 1..n} \cup {c}
<1>3. PICK s : s = AddChild(t, parent, token)
  OBVIOUS
<1>4. s = [l \in 1..(n + 1) |-> IF l = n + 1 THEN c ELSE t[l]]
  <2>1. c \in V /\ \A i \in 1..n : t[i] \in V
    OBVIOUS
  <2> HIDE DEF V
  <2>2. PICK p : p = [l \in 1..n |-> t[l]]
    OBVIOUS
  <2>3. p \in [1..n -> V]
    BY <2>1, <2>2
  <2>4. Append(p, c) = [l \in 1..(n + 1) |-> IF l = n + 1 THEN c ELSE p[l]]
    BY <2>1, <2>3, Extended
  <2>5. Append(p, c) = Append(t, c)
    BY <1>1, <2>2
  <2>6. s = Append(t, c)
    BY <1>2, <1>3, Zenon DEF AddChild
  <2>7. \A l \in 1..(n + 1) : (IF l = n + 1 THEN c ELSE p[l]) = IF l = n + 1 THEN c ELSE t[l]
    BY <2>2
  <2> QED
    BY <2>4, <2>5, <2>6, <2>7, Zenon
<1>5. DOMAIN s = 1..(n + 1) /\ Len(s) = n + 1 /\ s[n + 1] = c /\ \A l \in 1..n : s[l] = t[l]
  BY <1>4
<1>6. s[1].parent = NoParent
  BY <1>1, <1>5 DEF IsTree
<1>7. ASSUME NEW i \in 2..(n + 1) PROVE s[i].parent \in 1..(i - 1)
  <2>1. CASE i = n + 1
    BY <1>1, <1>2, <1>5, <2>1
  <2>2. CASE i # n + 1
    BY <1>1, <1>5, <2>2 DEF IsTree
  <2> QED
    BY <2>1, <2>2
<1>8. IsTree(s)
  BY <1>5, <1>6, <1>7 DEF IsTree
<1> QED
  BY <1>1, <1>3, <1>5, <1>8

\* A caller's first node.
LEMMA RootIsTree ==
    ASSUME NEW token
    PROVE  IsTree(NewTree(token))
BY DEF IsTree, NewTree, NoParent

\* As many tokens as are chosen.
LEMMA ChosenTokens ==
    ASSUME NEW scores, NEW allowed \in SUBSET TreeTokens, NEW k \in Nat
    PROVE  \E m \in Nat : DOMAIN TopK(scores, allowed, k) = 1..m
                          /\ (TopK(scores, allowed, k) # <<>> => m > 0)
<1>1. IsFiniteSet(allowed)
  BY TreeAssumption, FS_Subset
<1>2. PICK c \in Nat : c = Cardinality(allowed)
  BY <1>1, FS_CardinalityType
<1>3. PICK m \in Nat : m = Min({k, c})
  <2>1. \E x \in {k, c} : \A y \in {k, c} : x =< y
    OBVIOUS
  <2>2. Min({k, c}) \in {k, c}
    BY <2>1, Zenon DEF Min
  <2> QED
    BY <2>2
<1>4. PICK s : s = TopK(scores, allowed, k)
  OBVIOUS
<1>5. DOMAIN s = 1..m
  BY <1>2, <1>3, <1>4, Zenon DEF TopK
<1>6. m = 0 => s = <<>>
  <2>1. SUFFICES ASSUME m = 0 PROVE s = <<>>
    OBVIOUS
  <2> DEFINE place(i) == CHOOSE t \in allowed :
                 Cardinality({u \in allowed : scores[u] > scores[t]
                                              \/ (scores[u] = scores[t] /\ u < t)}) = i - 1
  <2>2. s = [i \in 1..m |-> place(i)]
    BY <1>2, <1>3, <1>4, Zenon DEF TopK
  <2> HIDE DEF place
  <2> QED
    BY <2>1, <2>2
<1> QED
  BY <1>4, <1>5, <1>6

\* The first level of a drafted tree, and one node more at its depth.
FirstLevel(top_k) ==
    [i \in DOMAIN top_k |-> [token |-> top_k[i], parent |-> IF i = 1 THEN NoParent ELSE 1]]

Deepened(d) ==
    LET t == AddChild(d.t, d.curr,
                      TopK(DraftScores(TreeContext \o GetPath(d.t, d.curr)), TreeTokens, 1)[1])
    IN  [t |-> t, curr |-> Len(t)]

Deepening(f, top_k, k) ==
    \A n \in 1..k : f[n] = IF n = 1 THEN [t |-> FirstLevel(top_k), curr |-> 1]
                           ELSE Deepened(f[n - 1])

\* The recursion of the branch that draft_tree grows has a solution.
LEMMA DeepeningExists ==
    ASSUME NEW top_k, NEW n \in Nat
    PROVE  \E f : Deepening(f, top_k, n)
<1> DEFINE S == {k \in 0..n : \E f : Deepening(f, top_k, k)}
<1>1. 0 \in S
  BY DEF Deepening
<1>2. ASSUME NEW k \in 1..n, k - 1 \in S PROVE k \in S
  <2>1. PICK f : Deepening(f, top_k, k - 1)
    BY <1>2
  <2>2. PICK next : next = IF k = 1 THEN [t |-> FirstLevel(top_k), curr |-> 1]
                           ELSE Deepened(f[k - 1])
    OBVIOUS
  <2>3. PICK g : g = [i \in 1..k |-> IF i = k THEN next ELSE f[i]]
    OBVIOUS
  <2>4. g[k] = next /\ \A i \in 1..(k - 1) : g[i] = f[i]
    BY <2>3
  <2>5. ASSUME NEW i \in 1..k
        PROVE  g[i] = IF i = 1 THEN [t |-> FirstLevel(top_k), curr |-> 1]
                      ELSE Deepened(g[i - 1])
    <3>1. i # 1 => g[i - 1] = f[i - 1]
      BY <2>4
    <3>2. CASE i = k
      BY <2>2, <2>4, <3>1, <3>2, Zenon
    <3>3. CASE i # k
      <4>1. i \in 1..(k - 1)
        BY <3>3
      <4>2. f[i] = IF i = 1 THEN [t |-> FirstLevel(top_k), curr |-> 1] ELSE Deepened(f[i - 1])
        BY <2>1, <4>1, Zenon DEF Deepening
      <4> QED
        BY <2>4, <3>1, <4>1, <4>2, Zenon
    <3> QED
      BY <3>2, <3>3
  <2>6. Deepening(g, top_k, k)
    BY <2>5, Zenon DEF Deepening
  <2> QED
    BY <2>6
<1> HIDE DEF S
<1>3. S = 0..n
  <2>1. S \in SUBSET (0..n)
    BY DEF S
  <2> QED
    BY <1>1, <1>2, <2>1, IntervalInduction
<1>4. n \in S
  BY <1>3
<1> QED
  BY <1>4 DEF S

\* A tree and a node of it.
Placed(d) == IsTree(d.t) /\ d.curr \in 1..Len(d.t)

\* A node more below the last.
LEMMA DeepenedIsTree ==
    ASSUME NEW d, Placed(d)
    PROVE  Placed(Deepened(d))
<1>1. PICK t, p, token : /\ t = d.t /\ p = d.curr
                         /\ token = TopK(DraftScores(TreeContext \o GetPath(d.t, d.curr)),
                                         TreeTokens, 1)[1]
  OBVIOUS
<1>2. IsTree(t) /\ p \in 1..Len(t)
  BY <1>1, Zenon DEF Placed
<1>3. PICK s : s = AddChild(t, p, token)
  OBVIOUS
<1>4. IsTree(s) /\ Len(s) = Len(t) + 1 /\ Len(t) + 1 \in 1..Len(s)
  BY <1>2, <1>3, ChildKeeps, Zenon
<1>5. Deepened(d) = [t |-> s, curr |-> Len(s)]
  BY <1>1, <1>3, Zenon DEF Deepened
<1>6. Len(s) \in 1..Len(s)
  BY <1>4
<1>7. PICK r : r = [t |-> s, curr |-> Len(s)]
  OBVIOUS
<1>8. r.t = s /\ r.curr = Len(s)
  BY <1>7
<1> QED
  BY <1>4, <1>5, <1>6, <1>7, <1>8, Zenon DEF Placed

\* The root with the other tokens as its children.
LEMMA FirstLevelIsTree ==
    ASSUME NEW top_k, NEW m \in Nat, DOMAIN top_k = 1..m, m > 0
    PROVE  Placed([t |-> FirstLevel(top_k), curr |-> 1])
<1>1. PICK t : t = FirstLevel(top_k)
  OBVIOUS
<1>2. t = [i \in 1..m |-> [token |-> top_k[i], parent |-> IF i = 1 THEN NoParent ELSE 1]]
  BY <1>1, Zenon DEF FirstLevel
<1>3. DOMAIN t = 1..m /\ Len(t) = m
  BY <1>2
<1>4. \A i \in 1..m : t[i].parent = IF i = 1 THEN NoParent ELSE 1
  BY <1>2
<1>5. IsTree(t) /\ 1 \in 1..Len(t)
  BY <1>3, <1>4 DEF IsTree
<1>6. PICK r : r = [t |-> t, curr |-> 1]
  OBVIOUS
<1>7. r.t = t /\ r.curr = 1
  BY <1>6
<1> QED
  BY <1>1, <1>5, <1>6, <1>7, Zenon DEF Placed

\* The tree of draft_tree.
LEMMA BranchedIsTree ==
    ASSUME NEW top_k, NEW m \in Nat, DOMAIN top_k = 1..m, m > 0, NEW max_tokens \in Nat
    PROVE  IsTree(Branched(top_k, max_tokens))
<1> DEFINE deep == CHOOSE deep : deep =
                      [n \in 1..(max_tokens + 1) |->
                          IF n = 1 THEN [t |-> FirstLevel(top_k), curr |-> 1]
                          ELSE Deepened(deep[n - 1])]
<1>1. Branched(top_k, max_tokens) = deep[IF max_tokens = 0 THEN 1 ELSE max_tokens].t
  BY Zenon DEF Branched, FirstLevel, Deepened
<1>2. PICK f : Deepening(f, top_k, max_tokens + 1)
  BY DeepeningExists
<1>3. PICK g : g = [n \in 1..(max_tokens + 1) |-> f[n]]
  OBVIOUS
<1>4. g = [n \in 1..(max_tokens + 1) |->
              IF n = 1 THEN [t |-> FirstLevel(top_k), curr |-> 1] ELSE Deepened(g[n - 1])]
  <2>1. ASSUME NEW n \in 1..(max_tokens + 1)
        PROVE  f[n] = IF n = 1 THEN [t |-> FirstLevel(top_k), curr |-> 1]
                      ELSE Deepened(g[n - 1])
    <3>1. n # 1 => g[n - 1] = f[n - 1]
      BY <1>3
    <3> QED
      BY <1>2, <3>1, Zenon DEF Deepening
  <2> QED
    BY <1>3, <2>1, Zenon
<1>5. deep = [n \in 1..(max_tokens + 1) |->
                 IF n = 1 THEN [t |-> FirstLevel(top_k), curr |-> 1] ELSE Deepened(deep[n - 1])]
  BY <1>4, Zenon
<1> HIDE DEF deep
<1>6. \A n \in 1..(max_tokens + 1) :
         deep[n] = IF n = 1 THEN [t |-> FirstLevel(top_k), curr |-> 1] ELSE Deepened(deep[n - 1])
  BY <1>5, Zenon
<1> DEFINE S == {n \in 0..(max_tokens + 1) : n = 0 \/ Placed(deep[n])}
<1>7. ASSUME NEW n \in 1..(max_tokens + 1), n - 1 \in S PROVE n \in S
  <2>1. CASE n = 1
    <3>1. Placed([t |-> FirstLevel(top_k), curr |-> 1])
      BY FirstLevelIsTree
    <3>2. deep[n] = [t |-> FirstLevel(top_k), curr |-> 1]
      BY <1>6, <2>1, Zenon
    <3>3. Placed(deep[n])
      BY <3>1, <3>2, Zenon
    <3> QED
      BY <3>3
  <2>2. CASE n # 1
    <3>1. Placed(deep[n - 1])
      BY <1>7, <2>2
    <3>2. Placed(Deepened(deep[n - 1]))
      BY <3>1, DeepenedIsTree, Zenon
    <3>3. deep[n] = Deepened(deep[n - 1])
      BY <1>6, <2>2, Zenon
    <3>4. Placed(deep[n])
      BY <3>2, <3>3, Zenon
    <3> QED
      BY <3>4
  <2> QED
    BY <2>1, <2>2
<1>8. S \in SUBSET (0..(max_tokens + 1)) /\ 0 \in S /\ max_tokens + 1 \in Nat
  OBVIOUS
<1>9. S = 0..(max_tokens + 1)
  <2> HIDE DEF S
  <2> QED
    BY <1>7, <1>8, IntervalInduction
<1>10. \A n \in 1..(max_tokens + 1) : Placed(deep[n])
  BY <1>9
<1>11. PICK n \in 1..(max_tokens + 1) : n = IF max_tokens = 0 THEN 1 ELSE max_tokens
  OBVIOUS
<1> QED
  BY <1>1, <1>10, <1>11, Zenon DEF Placed

\* Drafted or built, a tree is one, and the path that was chosen from it is the
\* longest.
TreeInv ==
    /\ treePc \in {"start", "tree", "verified", "chosen", "failed"}
    /\ treePc \in {"tree", "verified", "chosen"} => IsTree(tree)
    /\ BestPathMaximal

LEMMA TreeStart == TreeInit => TreeInv
BY DEF TreeInit, TreeInv, BestPathMaximal

\* draft_tree of TreeDraftModel, of the default, and a tree of a caller.
LEMMA DraftTreeIsTree ==
    ASSUME NEW mask \in SUBSET TreeTokens, NEW n \in DraftLengths, NEW width \in DraftWidths,
           DraftTree(mask, n, width)
    PROVE  treePc' = "failed" \/ (treePc' = "tree" /\ IsTree(tree'))
<1>1. n \in Nat /\ width \in Nat
  BY TreeAssumption
<1>2. PICK top_k : top_k = TopK(DraftScores(TreeContext), mask, width)
  OBVIOUS
<1>3. /\ treePc' = IF top_k = <<>> THEN "failed" ELSE "tree"
      /\ tree' = IF top_k = <<>> THEN tree ELSE Branched(top_k, n)
  BY <1>2, Zenon DEF DraftTree
<1>4. PICK m \in Nat : DOMAIN top_k = 1..m /\ (top_k # <<>> => m > 0)
  BY <1>1, <1>2, ChosenTokens, Zenon
<1>5. top_k # <<>> => IsTree(Branched(top_k, n))
  BY <1>1, <1>4, BranchedIsTree, Zenon
<1> QED
  BY <1>3, <1>5, Zenon

LEMMA DraftChainIsTree ==
    ASSUME NEW n \in DraftLengths, NEW linear \in [1..n -> TreeTokens], DraftChain(linear)
    PROVE  treePc' = "failed" \/ (treePc' = "tree" /\ IsTree(tree'))
<1>1. n \in Nat
  BY TreeAssumption
<1>2. /\ treePc' = IF linear = <<>> THEN "failed" ELSE "tree"
      /\ tree' = [i \in DOMAIN linear |-> [token |-> linear[i], parent |-> i - 1]]
  BY Zenon DEF DraftChain
<1>3. PICK t : t = [i \in 1..n |-> [token |-> linear[i], parent |-> i - 1]]
  OBVIOUS
<1>4. tree' = t
  BY <1>2, <1>3
<1>5. linear # <<>> => n > 0
  BY <1>1
<1>6. n > 0 => IsTree(t)
  <2>1. DOMAIN t = 1..n /\ Len(t) = n /\ \A i \in 1..n : t[i].parent = i - 1
    BY <1>1, <1>3
  <2> QED
    BY <1>1, <2>1 DEF IsTree, NoParent
<1> QED
  BY <1>2, <1>4, <1>5, <1>6, Zenon

LEMMA BuildTreeIsTree ==
    ASSUME treePc = "tree" => IsTree(tree), NEW parent, NEW token, BuildTree(parent, token)
    PROVE  treePc' = "tree" /\ IsTree(tree')
<1>1. CASE treePc = "start" /\ tree' = NewTree(token)
  BY <1>1, RootIsTree, Zenon DEF BuildTree
<1>2. CASE treePc = "tree" /\ parent \in DOMAIN tree /\ tree' = AddChild(tree, parent, token)
  <2>1. IsTree(tree) /\ parent \in 1..Len(tree)
    BY <1>2 DEF IsTree
  <2>2. IsTree(AddChild(tree, parent, token))
    BY <2>1, ChildKeeps, Zenon
  <2> QED
    BY <1>2, <2>2, Zenon DEF BuildTree
<1> QED
  BY <1>1, <1>2, Zenon DEF BuildTree

\* Each step of a behaviour keeps it.
LEMMA TreeStep == TreeInv /\ [TreeNext]_treeVars => TreeInv'
<1> SUFFICES ASSUME TreeInv, [TreeNext]_treeVars PROVE TreeInv'
  OBVIOUS
<1>1. treePc' \in {"tree", "failed", "verified"} =>
         BestPathMaximal'
  BY DEF BestPathMaximal
<1>2. ASSUME treePc' = "failed" \/ (treePc' = "tree" /\ IsTree(tree')) PROVE TreeInv'
  <2>1. IsTree(tree)' <=> IsTree(tree')
    BY DEF IsTree
  <2> QED
    BY <1>1, <1>2, <2>1 DEF TreeInv
<1>3. ASSUME NEW mask \in SUBSET TreeTokens, NEW n \in DraftLengths, NEW width \in DraftWidths,
             DraftTree(mask, n, width)
      PROVE  TreeInv'
  BY <1>2, <1>3, DraftTreeIsTree, Zenon
<1>4. ASSUME NEW n \in DraftLengths, NEW linear \in [1..n -> TreeTokens], DraftChain(linear)
      PROVE  TreeInv'
  BY <1>2, <1>4, DraftChainIsTree, Zenon
<1>5. ASSUME NEW parent, NEW token, BuildTree(parent, token) PROVE TreeInv'
  <2>1. treePc = "tree" => IsTree(tree)
    BY DEF TreeInv
  <2>2. treePc' = "tree" /\ IsTree(tree')
    BY <1>5, <2>1, BuildTreeIsTree, Zenon
  <2> QED
    BY <1>2, <2>2
<1>6. ASSUME treePc = "tree", treePc' = "verified", tree' = tree PROVE TreeInv'
  <2>1. IsTree(tree)
    BY <1>6 DEF TreeInv
  <2>2. IsTree(tree)'
    BY <1>6, <2>1 DEF IsTree
  <2> QED
    BY <1>1, <1>6, <2>2 DEF TreeInv
<1>7. CASE VerifyLeftmost
  <2>1. treePc = "tree" /\ treePc' = "verified" /\ tree' = tree
    BY <1>7, Zenon DEF VerifyLeftmost
  <2> QED
    BY <1>6, <2>1
<1>8. ASSUME NEW e, VerifyTree(e) PROVE TreeInv'
  <2>1. treePc = "tree" /\ treePc' = "verified" /\ tree' = tree
    BY <1>8, Zenon DEF VerifyTree
  <2> QED
    BY <1>6, <2>1
<1>9. CASE FindBestPath
  <2>1. treePc = "verified" /\ treePc' = "chosen" /\ tree' = tree
    BY <1>9, Zenon DEF FindBestPath
  <2>2. IsTree(tree)
    BY <2>1 DEF TreeInv
  <2>3. IsTree(tree)'
    BY <2>1, <2>2 DEF IsTree
  <2>4. BestPathMaximal'
    BY <1>9, <2>2, ChosenIsMaximal
  <2> QED
    BY <2>1, <2>3, <2>4 DEF TreeInv
<1>10. CASE UNCHANGED treeVars
  <2>1. treePc' = treePc /\ tree' = tree /\ expected' = expected /\ best' = best
    BY <1>10 DEF treeVars
  <2>2. AgreedBranches' = AgreedBranches
    BY <2>1 DEF AgreedBranches
  <2>3. BestPathMaximal' <=> BestPathMaximal
    BY <2>1, <2>2 DEF BestPathMaximal
  <2>4. IsTree(tree)' <=> IsTree(tree)
    BY <2>1 DEF IsTree
  <2> QED
    BY <2>1, <2>3, <2>4 DEF TreeInv
<1> QED
  BY <1>3, <1>4, <1>5, <1>7, <1>8, <1>9, <1>10, Zenon DEF TreeNext

\* The path that find_best_path returns is an agreed branch and none is longer:
\* for any vocabulary, any draft and target models, however the tree was
\* drafted or built, and whatever the verification expects after its nodes.
THEOREM BestPathIsMaximal == Spec => []BestPathMaximal
<1>1. InferenceInit => TreeInv
  BY TreeStart DEF InferenceInit
<1>2. TreeInv /\ [InferenceNext]_inferenceVars => TreeInv'
  <2>1. [InferenceNext]_inferenceVars => [TreeNext]_treeVars
    BY DEF InferenceNext, inferenceVars
  <2> QED
    BY <2>1, TreeStep
<1>3. TreeInv => BestPathMaximal
  BY DEF TreeInv
<1> QED
  BY <1>1, <1>2, <1>3, PTL DEF Spec
-----------------------------------------------------------------------------
(***************************************************************************)
(* Lists and vectors.                                                      *)
(***************************************************************************)

\* A list: any sequence, whatever it is of.
IsList(s) == Len(s) \in Nat /\ s = [i \in 1..Len(s) |-> s[i]]

LEMMA ListOf ==
    ASSUME NEW n \in Nat, NEW s, s = [i \in 1..n |-> s[i]]
    PROVE  IsList(s) /\ Len(s) = n /\ DOMAIN s = 1..n
BY DEF IsList

LEMMA SameLists ==
    ASSUME NEW s, NEW t, IsList(s), IsList(t), Len(s) = Len(t), \A i \in 1..Len(s) : s[i] = t[i]
    PROVE  s = t
BY Zenon DEF IsList

LEMMA ConcatLists ==
    ASSUME NEW s, NEW t, IsList(s), IsList(t)
    PROVE  /\ IsList(s \o t) /\ Len(s \o t) = Len(s) + Len(t)
           /\ \A i \in 1..Len(s) : (s \o t)[i] = s[i]
           /\ \A i \in 1..Len(t) : (s \o t)[Len(s) + i] = t[i]
<1>1. PICK n \in Nat, k \in Nat : n = Len(s) /\ k = Len(t)
  BY DEF IsList
<1>2. s = [i \in 1..n |-> s[i]] /\ t = [i \in 1..k |-> t[i]]
  BY <1>1, Zenon DEF IsList
<1> DEFINE V == {s[i] : i \in 1..n} \cup {t[i] : i \in 1..k}
<1>3. (\A i \in 1..n : s[i] \in V) /\ (\A i \in 1..k : t[i] \in V)
  OBVIOUS
<1> HIDE DEF V
<1>4. s \in [1..n -> V] /\ t \in [1..k -> V]
  BY <1>2, <1>3
<1>5. s \in Seq(V) /\ t \in Seq(V)
  BY <1>4, SeqDef
<1>6. PICK c : c = s \o t
  OBVIOUS
<1>7. /\ c \in Seq(V) /\ Len(c) = n + k
      /\ \A i \in 1..(n + k) : c[i] = IF i <= n THEN s[i] ELSE t[i - n]
  BY <1>1, <1>5, <1>6, ConcatProperties
<1>8. IsList(c)
  BY <1>7, LenProperties DEF IsList
<1>9. \A i \in 1..n : c[i] = s[i]
  BY <1>7
<1>10. \A i \in 1..k : c[n + i] = t[i]
  <2>1. ASSUME NEW i \in 1..k PROVE c[n + i] = t[i]
    <3>1. PICK j \in 1..(n + k) : j = n + i /\ ~(j <= n) /\ j - n = i
      OBVIOUS
    <3> QED
      BY <1>7, <3>1
  <2> QED
    BY <2>1
<1> QED
  BY <1>1, <1>6, <1>7, <1>8, <1>9, <1>10

\* The first elements of a list.
Cut(text, k) == SubSeq(text, 1, k)

LEMMA CutOf ==
    ASSUME NEW text, NEW k \in Nat
    PROVE  /\ Len(Cut(text, k)) = k /\ IsList(Cut(text, k))
           /\ \A i \in 1..k : Cut(text, k)[i] = text[i]
<1> DEFINE V == {text[i] : i \in 1..k}
<1>1. \A i \in 1..k : text[i] \in V
  OBVIOUS
<1> HIDE DEF V
<1>2. PICK s : s = SubSeq(text, 1, k)
  OBVIOUS
<1>3. /\ s \in Seq(V) /\ Len(s) = IF 1 <= k THEN k - 1 + 1 ELSE 0
      /\ \A i \in 1..(k - 1 + 1) : s[i] = text[1 + i - 1]
  <2>1. 1 \in Int /\ k \in Int
    OBVIOUS
  <2>2. /\ SubSeq(text, 1, k) \in Seq(V)
        /\ Len(SubSeq(text, 1, k)) = IF 1 <= k THEN k - 1 + 1 ELSE 0
        /\ \A i \in 1..(k - 1 + 1) : SubSeq(text, 1, k)[i] = text[1 + i - 1]
    BY <1>1, <2>1, SubSeqProperties
  <2> QED
    BY <1>2, <2>2, Zenon
<1>4. Len(s) = k
  BY <1>3
<1>5. \A i \in 1..k : s[i] = text[i]
  BY <1>3
<1>6. IsList(s)
  BY <1>3, LenProperties DEF IsList
<1> QED
  BY <1>2, <1>4, <1>5, <1>6, Zenon DEF Cut

\* A vector has the elements it is made of.
LEMMA VectorOf ==
    ASSUME NEW n \in Nat, NEW g, g = [i \in 1..n |-> g[i]]
    PROVE  SubSeq(g, 1, n) = g
<1>1. PICK s : s = Cut(g, n)
  OBVIOUS
<1>2. Len(s) = n /\ IsList(s) /\ \A i \in 1..n : s[i] = g[i]
  BY <1>1, CutOf
<1>3. IsList(g) /\ Len(g) = n
  BY ListOf
<1>4. s = g
  BY <1>2, <1>3, SameLists
<1> QED
  BY <1>1, <1>4 DEF Cut

-----------------------------------------------------------------------------
(***************************************************************************)
(* The cache of CpuModel.                                                  *)
(***************************************************************************)

\* A layer at one position, from the state there and the entries up to there.
NormedAt(w, l, x) == RmsNorm(x, w[<<"attention_norm", l>>])

EntryAt(w, m, l, pos, x) == Projected(w, m, l, pos, NormedAt(w, l, x))

QueryAt(w, m, l, pos, x) ==
    ApplyRope(MatVec(w[<<"wq", l>>], NormedAt(w, l, x), m.n_head * m.head_dim, m.n_embd),
              pos, m.head_dim)

LayerAt(w, m, l, pos, x, entries, heads) ==
    CpuMlp(w, m, l, Add(x, MatVec(w[<<"wo", l>>],
                                  Attend(QueryAt(w, m, l, pos, x), entries, pos, m.n_head,
                                         m.head_dim, heads),
                                  m.n_embd, m.n_head * m.head_dim)))

\* Which key-value head serves a head, in the model without a cache.
Groups(m) == [h \in 0..(m.n_head - 1) |-> h \div (m.n_head \div m.n_head_kv)]

RowAt(w, m, l, pos, x) ==
    [q |-> QueryAt(w, m, l, pos, x), k |-> EntryAt(w, m, l, pos, x).k,
     v |-> EntryAt(w, m, l, pos, x).v]

EntryFacts(w, m, l, pos, x) ==
    /\ EntryAt(w, m, l, pos, x) =
          [k |-> ApplyRope(MatVec(w[<<"wk", l>>], NormedAt(w, l, x), m.n_head_kv * m.head_dim,
                                  m.n_embd), pos, m.head_dim),
           v |-> MatVec(w[<<"wv", l>>], NormedAt(w, l, x), m.n_head_kv * m.head_dim, m.n_embd)]
    /\ RowAt(w, m, l, pos, x) =
          [q |-> QueryAt(w, m, l, pos, x),
           k |-> ApplyRope(MatVec(w[<<"wk", l>>], NormedAt(w, l, x), m.n_head_kv * m.head_dim,
                                  m.n_embd), pos, m.head_dim),
           v |-> MatVec(w[<<"wv", l>>], NormedAt(w, l, x), m.n_head_kv * m.head_dim, m.n_embd)]
    /\ [k |-> RowAt(w, m, l, pos, x).k, v |-> RowAt(w, m, l, pos, x).v]
          = EntryAt(w, m, l, pos, x)
    /\ RowAt(w, m, l, pos, x).q = QueryAt(w, m, l, pos, x)

LEMMA EntryParts ==
    ASSUME NEW w, NEW m, NEW l, NEW pos, NEW x
    PROVE  EntryFacts(w, m, l, pos, x)
<1>1. PICK key, value :
         /\ key = ApplyRope(MatVec(w[<<"wk", l>>], NormedAt(w, l, x), m.n_head_kv * m.head_dim,
                                   m.n_embd), pos, m.head_dim)
         /\ value = MatVec(w[<<"wv", l>>], NormedAt(w, l, x), m.n_head_kv * m.head_dim, m.n_embd)
  OBVIOUS
<1>2. EntryAt(w, m, l, pos, x) = [k |-> key, v |-> value]
  BY <1>1, Zenon DEF EntryAt, Projected
<1>3. PICK e, q : e = [k |-> key, v |-> value] /\ q = QueryAt(w, m, l, pos, x)
  OBVIOUS
<1>4. PICK r : r = [q |-> q, k |-> e.k, v |-> e.v]
  OBVIOUS
<1>5. RowAt(w, m, l, pos, x) = r
  BY <1>2, <1>3, <1>4, Zenon DEF RowAt
<1>6. r = [q |-> q, k |-> key, v |-> value] /\ [k |-> r.k, v |-> r.v] = e /\ r.q = q
  BY <1>3, <1>4
<1> QED
  BY <1>1, <1>2, <1>3, <1>5, <1>6, Zenon DEF EntryFacts

LEMMA RowParts ==
    ASSUME NEW w, NEW m, NEW l, NEW pos, NEW x
    PROVE  RowAt(w, m, l, pos, x) =
              [q |-> QueryAt(w, m, l, pos, x),
               k |-> ApplyRope(MatVec(w[<<"wk", l>>], NormedAt(w, l, x), m.n_head_kv * m.head_dim,
                                      m.n_embd), pos, m.head_dim),
               v |-> MatVec(w[<<"wv", l>>], NormedAt(w, l, x), m.n_head_kv * m.head_dim, m.n_embd)]
BY EntryParts, Zenon DEF EntryFacts

LEMMA RowEntry ==
    ASSUME NEW w, NEW m, NEW l, NEW pos, NEW x, NEW r, r = RowAt(w, m, l, pos, x)
    PROVE  [k |-> r.k, v |-> r.v] = EntryAt(w, m, l, pos, x) /\ r.q = QueryAt(w, m, l, pos, x)
<1>1. EntryFacts(w, m, l, pos, x)
  BY EntryParts, Zenon
<1>2. PICK s : s = RowAt(w, m, l, pos, x)
  OBVIOUS
<1>3. [k |-> s.k, v |-> s.v] = EntryAt(w, m, l, pos, x) /\ s.q = QueryAt(w, m, l, pos, x)
  BY <1>1, <1>2, Zenon DEF EntryFacts
<1> QED
  BY <1>2, <1>3

\* The rows of a text.
LEMMA RowsOf ==
    ASSUME NEW w, NEW m, NEW l, NEW n \in Nat, NEW xs, Len(xs) = n
    PROVE  TextRows(w, m, l, xs) = [t \in 1..n |-> RowAt(w, m, l, t - 1, xs[t])]
<1> DEFINE row(t) ==
              [q |-> QueryAt(w, m, l, t - 1, xs[t]),
               k |-> ApplyRope(MatVec(w[<<"wk", l>>], NormedAt(w, l, xs[t]), m.n_head_kv * m.head_dim,
                                      m.n_embd), t - 1, m.head_dim),
               v |-> MatVec(w[<<"wv", l>>], NormedAt(w, l, xs[t]), m.n_head_kv * m.head_dim, m.n_embd)]
<1>1. TextRows(w, m, l, xs) = SubSeq([t \in 1..n |-> row(t)], 1, n)
  BY Zenon DEF TextRows, Vector, QueryAt, NormedAt
<1>2. PICK g : g = [t \in 1..n |-> RowAt(w, m, l, t - 1, xs[t])]
  OBVIOUS
<1>3. \A t : RowAt(w, m, l, t - 1, xs[t]) = row(t)
  BY RowParts, Zenon
<1> HIDE DEF row
<1>4. [t \in 1..n |-> row(t)] = g
  BY <1>2, <1>3, Zenon
<1>5. SubSeq(g, 1, n) = g
  BY <1>2, VectorOf
<1> QED
  BY <1>1, <1>2, <1>4, <1>5, Zenon

\* The states after a layer.
LayerStates(w, m, l, xs, n) ==
    [t \in 1..n |-> LayerAt(w, m, l, t - 1, xs[t],
                            [u \in 0..(t - 1) |-> EntryAt(w, m, l, u, xs[u + 1])], Groups(m))]

LEMMA LayerOf ==
    ASSUME NEW w, NEW m, NEW l, NEW n \in Nat, NEW xs, Len(xs) = n
    PROVE  TextLayer(w, m, l, xs, TextRows(w, m, l, xs)) = LayerStates(w, m, l, xs, n)
<1>1. PICK rows : rows = TextRows(w, m, l, xs)
  OBVIOUS
<1>2. rows = [t \in 1..n |-> RowAt(w, m, l, t - 1, xs[t])]
  BY <1>1, RowsOf
<1> DEFINE state(t) ==
              CpuMlp(w, m, l, Add(xs[t], MatVec(w[<<"wo", l>>],
                  Attend(rows[t].q, [u \in 0..(t - 1) |-> [k |-> rows[u + 1].k, v |-> rows[u + 1].v]],
                         t - 1, m.n_head, m.head_dim, Groups(m)),
                  m.n_embd, m.n_head * m.head_dim)))
<1>3. TextLayer(w, m, l, xs, rows) = SubSeq([t \in 1..n |-> state(t)], 1, n)
  BY Zenon DEF TextLayer, Vector, Groups
<1>4. PICK g : g = [t \in 1..n |-> LayerAt(w, m, l, t - 1, xs[t],
                                           [u \in 0..(t - 1) |-> EntryAt(w, m, l, u, xs[u + 1])],
                                           Groups(m))]
  OBVIOUS
<1>5. ASSUME NEW t \in 1..n PROVE g[t] = state(t)
  <2>1. rows[t].q = QueryAt(w, m, l, t - 1, xs[t])
    <3>1. rows[t] = RowAt(w, m, l, t - 1, xs[t])
      BY <1>2
    <3> QED
      BY <3>1, RowEntry
  <2>2. ASSUME NEW u \in 0..(t - 1)
        PROVE  [k |-> rows[u + 1].k, v |-> rows[u + 1].v] = EntryAt(w, m, l, u, xs[u + 1])
    <3>1. PICK i \in 1..n : i = u + 1 /\ i - 1 = u
      OBVIOUS
    <3>2. rows[i] = RowAt(w, m, l, i - 1, xs[i])
      BY <1>2
    <3>3. [k |-> rows[i].k, v |-> rows[i].v] = EntryAt(w, m, l, i - 1, xs[i])
      BY <3>2, RowEntry
    <3> QED
      BY <3>1, <3>3
  <2>3. PICK entries : entries = [u \in 0..(t - 1) |-> EntryAt(w, m, l, u, xs[u + 1])]
    OBVIOUS
  <2>4. [u \in 0..(t - 1) |-> [k |-> rows[u + 1].k, v |-> rows[u + 1].v]] = entries
    BY <2>2, <2>3, Zenon
  <2>5. g[t] = LayerAt(w, m, l, t - 1, xs[t], entries, Groups(m))
    BY <1>4, <2>3
  <2> QED
    BY <2>1, <2>4, <2>5, Zenon DEF LayerAt
<1> HIDE DEF state
<1>6. [t \in 1..n |-> state(t)] = g
  <2>1. g = [t \in 1..n |-> g[t]]
    BY <1>4
  <2> QED
    BY <1>5, <2>1, Zenon
<1>7. SubSeq(g, 1, n) = g
  BY <1>4, VectorOf
<1> QED
  BY <1>1, <1>3, <1>4, <1>6, <1>7, Zenon DEF LayerStates

\* The rows of the embedding.
EmbeddedAt(w, m, token) == EmbeddingRow(w[<<"token_embd", 0>>], token, m.n_embd)

FirstStates(w, m, text) == Vector(Len(text), LAMBDA t : EmbeddedAt(w, m, text[t]))

LEMMA FirstStatesOf ==
    ASSUME NEW w, NEW m, NEW text, NEW n \in Nat, Len(text) = n
    PROVE  FirstStates(w, m, text) = [t \in 1..n |-> EmbeddedAt(w, m, text[t])]
<1>1. PICK g : g = [t \in 1..n |-> EmbeddedAt(w, m, text[t])]
  OBVIOUS
<1>2. FirstStates(w, m, text) = SubSeq(g, 1, n)
  BY <1>1, Zenon DEF FirstStates, Vector
<1>3. SubSeq(g, 1, n) = g
  BY <1>1, VectorOf
<1> QED
  BY <1>1, <1>2, <1>3, Zenon

\* The states of a text after each layer.
LayersRun(f, w, m, text, k) ==
    /\ f[0] = FirstStates(w, m, text)
    /\ \A l \in 1..k : f[l] = TextLayer(w, m, l, f[l - 1], TextRows(w, m, l, f[l - 1]))

LEMMA LayersRunExists ==
    ASSUME NEW w, NEW m, NEW text, NEW n \in Nat
    PROVE  \E f : LayersRun(f, w, m, text, n)
<1> DEFINE S == {k \in 0..n : \E f : LayersRun(f, w, m, text, k)}
<1>1. 0 \in S
  <2>1. PICK f : f = [l \in 0..0 |-> FirstStates(w, m, text)]
    OBVIOUS
  <2>2. LayersRun(f, w, m, text, 0)
    BY <2>1 DEF LayersRun
  <2> QED
    BY <2>2
<1>2. ASSUME NEW k \in 1..n, k - 1 \in S PROVE k \in S
  <2>1. PICK f : LayersRun(f, w, m, text, k - 1)
    BY <1>2
  <2>2. PICK next : next = TextLayer(w, m, k, f[k - 1], TextRows(w, m, k, f[k - 1]))
    OBVIOUS
  <2>3. PICK g : g = [l \in 0..k |-> IF l = k THEN next ELSE f[l]]
    OBVIOUS
  <2>4. g[k] = next /\ \A l \in 0..(k - 1) : g[l] = f[l]
    BY <2>3
  <2>5. g[0] = FirstStates(w, m, text)
    BY <2>1, <2>4 DEF LayersRun
  <2>6. ASSUME NEW l \in 1..k
        PROVE  g[l] = TextLayer(w, m, l, g[l - 1], TextRows(w, m, l, g[l - 1]))
    <3>1. g[l - 1] = f[l - 1]
      BY <2>4
    <3>2. CASE l = k
      BY <2>2, <2>4, <3>1, <3>2
    <3>3. CASE l # k
      <4>1. l \in 1..(k - 1) /\ g[l] = f[l]
        BY <2>4, <3>3
      <4> QED
        BY <2>1, <3>1, <4>1 DEF LayersRun
    <3> QED
      BY <3>2, <3>3
  <2>7. LayersRun(g, w, m, text, k)
    BY <2>5, <2>6 DEF LayersRun
  <2> QED
    BY <2>7
<1> HIDE DEF S
<1>3. S = 0..n
  <2>1. S \in SUBSET (0..n)
    BY DEF S
  <2> QED
    BY <1>1, <1>2, <2>1, IntervalInduction
<1>4. n \in S
  BY <1>3
<1> QED
  BY <1>4 DEF S

LEMMA StatesRun ==
    ASSUME NEW w, NEW m, NEW text, m.n_layer \in Nat
    PROVE  /\ TextStates(w, m, text, 0) = FirstStates(w, m, text)
           /\ \A l \in 1..m.n_layer :
                 TextStates(w, m, text, l) =
                    TextLayer(w, m, l, TextStates(w, m, text, l - 1),
                              TextRows(w, m, l, TextStates(w, m, text, l - 1)))
<1>1. PICK n \in Nat : n = m.n_layer
  OBVIOUS
<1> DEFINE xs == CHOOSE xs : xs =
                    [l \in 0..m.n_layer |->
                        IF l = 0 THEN FirstStates(w, m, text)
                        ELSE TextLayer(w, m, l, xs[l - 1], TextRows(w, m, l, xs[l - 1]))]
<1>2. \A l : TextStates(w, m, text, l) = xs[l]
  BY Zenon DEF TextStates, FirstStates, EmbeddedAt
<1>3. PICK f : LayersRun(f, w, m, text, n)
  BY LayersRunExists
<1>4. PICK g : g = [l \in 0..n |-> f[l]]
  OBVIOUS
<1>5. g = [l \in 0..m.n_layer |-> IF l = 0 THEN FirstStates(w, m, text)
                        ELSE TextLayer(w, m, l, g[l - 1], TextRows(w, m, l, g[l - 1]))]
  <2>1. ASSUME NEW l \in 0..n
        PROVE  f[l] = IF l = 0 THEN FirstStates(w, m, text)
                      ELSE TextLayer(w, m, l, g[l - 1], TextRows(w, m, l, g[l - 1]))
    <3>1. CASE l = 0
      BY <1>3, <3>1 DEF LayersRun
    <3>2. CASE l # 0
      <4>1. l \in 1..n /\ g[l - 1] = f[l - 1]
        BY <1>4, <3>2
      <4>2. f[l] = TextLayer(w, m, l, f[l - 1], TextRows(w, m, l, f[l - 1]))
        BY <1>3, <4>1 DEF LayersRun
      <4> QED
        BY <3>2, <4>1, <4>2
    <3> QED
      BY <3>1, <3>2
  <2> QED
    BY <1>1, <1>4, <2>1, Zenon
<1>6. xs = [l \in 0..m.n_layer |-> IF l = 0 THEN FirstStates(w, m, text)
                        ELSE TextLayer(w, m, l, xs[l - 1], TextRows(w, m, l, xs[l - 1]))]
  BY <1>5, Zenon
<1> HIDE DEF xs
<1>7. \A l \in 0..n : xs[l] = IF l = 0 THEN FirstStates(w, m, text)
                        ELSE TextLayer(w, m, l, xs[l - 1], TextRows(w, m, l, xs[l - 1]))
  BY <1>1, <1>6, Zenon
<1>8. xs[0] = FirstStates(w, m, text)
  <2>1. 0 \in 0..n
    OBVIOUS
  <2> QED
    BY <1>7, <2>1, Zenon
<1>9. ASSUME NEW l \in 1..n
      PROVE  xs[l] = TextLayer(w, m, l, xs[l - 1], TextRows(w, m, l, xs[l - 1]))
  <2>1. l \in 0..n /\ l # 0
    OBVIOUS
  <2> QED
    BY <1>7, <2>1, Zenon
<1> QED
  BY <1>1, <1>2, <1>8, <1>9, Zenon

\* A text of n tokens has n states after each layer; the state of a position
\* comes from those up to it after the layer before.
StatesFollow(w, m, text, n) ==
    /\ \A l \in 0..m.n_layer : Len(TextStates(w, m, text, l)) = n
    /\ \A t \in 1..n : TextStates(w, m, text, 0)[t] = EmbeddedAt(w, m, text[t])
    /\ \A l \in 1..m.n_layer : \A t \in 1..n :
          TextStates(w, m, text, l)[t] =
             LayerAt(w, m, l, t - 1, TextStates(w, m, text, l - 1)[t],
                     [u \in 0..(t - 1) |->
                         EntryAt(w, m, l, u, TextStates(w, m, text, l - 1)[u + 1])],
                     Groups(m))

LEMMA StatesOf ==
    ASSUME NEW w, NEW m, m.n_layer \in Nat, NEW text, NEW n \in Nat, Len(text) = n
    PROVE  StatesFollow(w, m, text, n)
<1>1. PICK k \in Nat : k = m.n_layer
  OBVIOUS
<1> DEFINE X(l) == TextStates(w, m, text, l)
           at(l, t) == LayerAt(w, m, l, t - 1, X(l - 1)[t],
                               [u \in 0..(t - 1) |-> EntryAt(w, m, l, u, X(l - 1)[u + 1])], Groups(m))
<1>2. X(0) = [t \in 1..n |-> EmbeddedAt(w, m, text[t])]
  BY <1>1, StatesRun, FirstStatesOf
<1>3. ASSUME NEW l \in 1..k, Len(X(l - 1)) = n PROVE X(l) = [t \in 1..n |-> at(l, t)]
  <2>1. PICK x : x = X(l - 1)
    OBVIOUS
  <2>2. X(l) = TextLayer(w, m, l, x, TextRows(w, m, l, x))
    BY <1>1, <2>1, StatesRun
  <2>3. Len(x) = n
    BY <1>3, <2>1
  <2>4. TextLayer(w, m, l, x, TextRows(w, m, l, x)) = LayerStates(w, m, l, x, n)
    BY <2>3, LayerOf
  <2> QED
    BY <2>1, <2>2, <2>4, Zenon DEF LayerStates
<1> HIDE DEF X, at
<1> DEFINE S == {l \in 0..k : Len(X(l)) = n}
<1>4. 0 \in S
  BY <1>2
<1>5. ASSUME NEW l \in 1..k, l - 1 \in S PROVE l \in S
  BY <1>3, <1>5
<1>6. S \in SUBSET (0..k)
  OBVIOUS
<1>7. S = 0..k
  <2> HIDE DEF S
  <2> QED
    BY <1>4, <1>5, <1>6, IntervalInduction
<1>8. \A l \in 0..k : Len(X(l)) = n
  BY <1>7
<1>9. ASSUME NEW l \in 1..k, NEW t \in 1..n PROVE X(l)[t] = at(l, t)
  <2>1. X(l) = [u \in 1..n |-> at(l, u)]
    BY <1>3, <1>8
  <2> QED
    BY <2>1
<1>10. \A t \in 1..n : X(0)[t] = EmbeddedAt(w, m, text[t])
  BY <1>2
<1> QED
  BY <1>1, <1>8, <1>9, <1>10, Zenon DEF X, at, StatesFollow

\* The states of a text do not depend on what comes after it.
Continues(more, k, text, n) ==
    n <= k /\ Len(text) = n /\ Len(more) = k /\ \A t \in 1..n : more[t] = text[t]

SameStates(w, m, more, text, n) ==
    \A l \in 0..m.n_layer : \A t \in 1..n :
       TextStates(w, m, more, l)[t] = TextStates(w, m, text, l)[t]

LEMMA Causal ==
    ASSUME NEW w, NEW m, m.n_layer \in Nat, NEW n \in Nat, NEW k \in Nat,
           NEW text, NEW more, Continues(more, k, text, n)
    PROVE  SameStates(w, m, more, text, n)
<1>a. n <= k /\ Len(text) = n /\ Len(more) = k /\ \A t \in 1..n : more[t] = text[t]
  BY Zenon DEF Continues
<1>1. PICK layers \in Nat : layers = m.n_layer
  OBVIOUS
<1> DEFINE X(l) == TextStates(w, m, text, l)
           Y(l) == TextStates(w, m, more, l)
           S == {l \in 0..layers : \A t \in 1..n : Y(l)[t] = X(l)[t]}
<1>2. /\ \A t \in 1..n : X(0)[t] = EmbeddedAt(w, m, text[t])
      /\ \A l \in 1..layers : \A t \in 1..n :
            X(l)[t] = LayerAt(w, m, l, t - 1, X(l - 1)[t],
                              [u \in 0..(t - 1) |-> EntryAt(w, m, l, u, X(l - 1)[u + 1])], Groups(m))
  <2>1. StatesFollow(w, m, text, n)
    BY <1>a, StatesOf
  <2> QED
    BY <1>1, <2>1, Zenon DEF StatesFollow
<1>3. /\ \A t \in 1..k : Y(0)[t] = EmbeddedAt(w, m, more[t])
      /\ \A l \in 1..layers : \A t \in 1..k :
            Y(l)[t] = LayerAt(w, m, l, t - 1, Y(l - 1)[t],
                              [u \in 0..(t - 1) |-> EntryAt(w, m, l, u, Y(l - 1)[u + 1])], Groups(m))
  <2>1. StatesFollow(w, m, more, k)
    BY <1>a, StatesOf
  <2> QED
    BY <1>1, <2>1, Zenon DEF StatesFollow
<1> HIDE DEF X, Y
<1>4. \A t \in 1..n : t \in 1..k
  BY <1>a
<1>5. 0 \in S
  BY <1>a, <1>2, <1>3, <1>4
<1>6. ASSUME NEW l \in 1..layers, l - 1 \in S PROVE l \in S
  <2>1. \A t \in 1..n : Y(l - 1)[t] = X(l - 1)[t]
    BY <1>6
  <2>2. ASSUME NEW t \in 1..n PROVE Y(l)[t] = X(l)[t]
    <3>1. \A u \in 0..(t - 1) : Y(l - 1)[u + 1] = X(l - 1)[u + 1]
      <4>1. \A u \in 0..(t - 1) : u + 1 \in 1..n
        OBVIOUS
      <4> QED
        BY <2>1, <4>1, Zenon
    <3>2. [u \in 0..(t - 1) |-> EntryAt(w, m, l, u, Y(l - 1)[u + 1])]
             = [u \in 0..(t - 1) |-> EntryAt(w, m, l, u, X(l - 1)[u + 1])]
      BY <3>1, Zenon
    <3>3. Y(l)[t] = LayerAt(w, m, l, t - 1, Y(l - 1)[t],
                            [u \in 0..(t - 1) |-> EntryAt(w, m, l, u, Y(l - 1)[u + 1])], Groups(m))
      BY <1>3, <1>4, Zenon
    <3>4. X(l)[t] = LayerAt(w, m, l, t - 1, X(l - 1)[t],
                            [u \in 0..(t - 1) |-> EntryAt(w, m, l, u, X(l - 1)[u + 1])], Groups(m))
      BY <1>2, Zenon
    <3> QED
      BY <2>1, <3>2, <3>3, <3>4, Zenon
  <2> QED
    BY <2>2
<1>7. S \in SUBSET (0..layers)
  OBVIOUS
<1>8. S = 0..layers
  <2> HIDE DEF S
  <2> QED
    BY <1>5, <1>6, <1>7, IntervalInduction
<1>9. \A l \in 0..layers : \A t \in 1..n : Y(l)[t] = X(l)[t]
  BY <1>8
<1> QED
  BY <1>1, <1>9, Zenon DEF X, Y, SameStates

\* The mapping of the code shares the key-value heads evenly.
LEMMA SameHeads ==
    ASSUME NEW m, m.n_head \in Nat, m.n_head_kv \in Nat, Shared(m)
    PROVE  [h \in 0..(m.n_head - 1) |-> KvHead(m, h)] = Groups(m)
<1>1. PICK heads \in Nat, kv \in Nat : heads = m.n_head /\ kv = m.n_head_kv /\ kv > 0 /\ heads % kv = 0
  BY DEF Shared
<1>2. PICK g \in Nat : g = heads \div kv /\ heads = kv * g
  <2>1. heads = kv * (heads \div kv) + (heads % kv) /\ heads \div kv \in Nat
    BY <1>1
  <2> QED
    BY <1>1, <2>1
<1>3. ASSUME NEW h \in 0..(heads - 1) PROVE (h * kv) \div heads = h \div g
  <2>1. h \in Nat /\ h < heads /\ heads > 0
    OBVIOUS
  <2>2. g > 0
    <3>1. g = 0 => kv * g = 0
      OBVIOUS
    <3> QED
      BY <1>2, <2>1, <3>1
  <2>3. PICK q \in Nat, r \in Nat : q = h \div g /\ r < g /\ h = g * q + r
    <3>1. h \div g \in Nat /\ h % g \in Nat /\ h % g < g /\ h = g * (h \div g) + (h % g)
      BY <2>1, <2>2
    <3> QED
      BY <3>1
  <2>4. h * kv = heads * q + r * kv
    <3>1. h * kv = (g * q) * kv + r * kv
      <4>1. PICK a \in Nat : a = g * q
        OBVIOUS
      <4>2. h = a + r
        BY <2>3, <4>1
      <4>3. (a + r) * kv = a * kv + r * kv
        OBVIOUS
      <4> QED
        BY <4>1, <4>2, <4>3
    <3>2. (g * q) * kv = (kv * g) * q
      OBVIOUS
    <3> QED
      BY <1>2, <3>1, <3>2
  <2>5. r * kv \in Nat /\ r * kv < heads
    <3>1. PICK e \in Nat : g = r + 1 + e
      <4>1. g - r - 1 \in Nat /\ g = r + 1 + (g - r - 1)
        BY <2>3
      <4> QED
        BY <4>1
    <3>2. kv * g = r * kv + kv + kv * e /\ kv * e \in Nat /\ r * kv \in Nat
      BY <3>1
    <3> QED
      BY <1>1, <1>2, <3>2
  <2>6. PICK s \in Nat : s = r * kv /\ s < heads
    BY <2>5
  <2>7. (heads * q + s) \div heads = q
    BY <2>6, DivUnique
  <2> QED
    BY <2>3, <2>4, <2>6, <2>7
<1>4. \A h \in 0..(m.n_head - 1) : KvHead(m, h) = h \div (m.n_head \div m.n_head_kv)
  BY <1>1, <1>2, <1>3 DEF KvHead
<1> QED
  BY <1>4, Zenon DEF Groups

\* A cache has an entry for each position of each layer.
IsCache(m, kv) ==
    /\ DOMAIN kv = 1..m.n_layer /\ kv = [l \in 1..m.n_layer |-> kv[l]]
    /\ \A l \in 1..m.n_layer : kv[l] = [p \in 0..(m.n_ctx - 1) |-> kv[l][p]]

\* The first n entries of a layer are those of the text.
FilledAt(w, m, text, l, n, kv) ==
    \A p \in 0..(n - 1) : kv[l][p] = EntryAt(w, m, l, p, TextStates(w, m, text, l - 1)[p + 1])

Filled(w, m, text, n, kv) ==
    IsCache(m, kv) /\ \A l \in 1..m.n_layer : FilledAt(w, m, text, l, n, kv)

\* A layer with its cache.
Added(w, m, l, pos, s) == [s.kv[l] EXCEPT ![pos] = EntryAt(w, m, l, pos, s.x)]

UpTo(cache, pos) == [t \in 0..pos |-> cache[t]]

CpuHeads(m) == [h \in 0..(m.n_head - 1) |-> KvHead(m, h)]

LEMMA CpuLayerParts ==
    ASSUME NEW w, NEW m, NEW l, NEW pos, NEW s
    PROVE  CpuLayer(w, m, l, pos, s) =
              [x |-> LayerAt(w, m, l, pos, s.x, UpTo(Added(w, m, l, pos, s), pos), CpuHeads(m)),
               kv |-> [s.kv EXCEPT ![l] = Added(w, m, l, pos, s)]]
<1>1. PICK xb, c, cache : /\ xb = NormedAt(w, l, s.x) /\ c = Projected(w, m, l, pos, xb)
                          /\ cache = Added(w, m, l, pos, s)
  OBVIOUS
<1>2. CpuLayer(w, m, l, pos, s) = CpuLayerWith(w, m, l, pos, s, xb, c)
  BY <1>1, Zenon DEF CpuLayer, NormedAt
<1>3. cache = [s.kv[l] EXCEPT ![pos] = c]
  BY <1>1, Zenon DEF EntryAt, Added
<1>4. CpuLayerWith(w, m, l, pos, s, xb, c) =
         [x |-> CpuMlp(w, m, l, Add(s.x, CpuAttention(w, m, l, pos, xb, cache))),
          kv |-> [s.kv EXCEPT ![l] = cache]]
  BY <1>3, Zenon DEF CpuLayerWith
<1>5. CpuMlp(w, m, l, Add(s.x, CpuAttention(w, m, l, pos, xb, cache)))
         = LayerAt(w, m, l, pos, s.x, UpTo(cache, pos), CpuHeads(m))
  BY <1>1, Zenon DEF CpuAttention, LayerAt, QueryAt, UpTo, CpuHeads
<1> QED
  BY <1>1, <1>2, <1>4, <1>5, Zenon

\* A layer computes the state of the position and adds its entry.
CpuShape(m) ==
    /\ m.n_layer \in Nat /\ m.n_head \in Nat /\ m.n_head_kv \in Nat /\ m.n_ctx \in Nat
    /\ Shared(m)

LayerReady(w, m, text, l, n, s) ==
    /\ s.x = TextStates(w, m, text, l - 1)[n + 1] /\ IsCache(m, s.kv)
    /\ FilledAt(w, m, text, l, n, s.kv)

LayerDone(w, m, text, l, n, s, r) ==
    /\ r.x = TextStates(w, m, text, l)[n + 1]
    /\ IsCache(m, r.kv) /\ FilledAt(w, m, text, l, n + 1, r.kv)
    /\ \A k \in 1..m.n_layer : k # l => r.kv[k] = s.kv[k]

LEMMA CpuLayerStep ==
    ASSUME NEW w, NEW m, CpuShape(m), NEW n \in Nat, n < m.n_ctx, NEW text, Len(text) = n + 1,
           NEW l \in 1..m.n_layer, NEW s, LayerReady(w, m, text, l, n, s)
    PROVE  LayerDone(w, m, text, l, n, s, CpuLayer(w, m, l, n, s))
<1>a. /\ m.n_layer \in Nat /\ m.n_head \in Nat /\ m.n_head_kv \in Nat /\ m.n_ctx \in Nat
      /\ Shared(m)
  BY Zenon DEF CpuShape
<1>b. /\ s.x = TextStates(w, m, text, l - 1)[n + 1] /\ IsCache(m, s.kv)
      /\ FilledAt(w, m, text, l, n, s.kv)
  BY Zenon DEF LayerReady
<1>c. PICK r : r = CpuLayer(w, m, l, n, s)
  OBVIOUS
<1>1. PICK layers \in Nat, ctx \in Nat : layers = m.n_layer /\ ctx = m.n_ctx
  BY <1>a
<1>2. PICK e : e = EntryAt(w, m, l, n, s.x)
  OBVIOUS
<1>3. PICK old : old = s.kv[l]
  OBVIOUS
<1>4. PICK cache : cache = [old EXCEPT ![n] = e]
  OBVIOUS
<1>5. cache = Added(w, m, l, n, s)
  BY <1>2, <1>3, <1>4, Zenon DEF Added
<1>6. r = [x |-> LayerAt(w, m, l, n, s.x, UpTo(cache, n), CpuHeads(m)),
           kv |-> [s.kv EXCEPT ![l] = cache]]
  BY <1>c, <1>5, CpuLayerParts, Zenon
<1>7. r.x = LayerAt(w, m, l, n, s.x, UpTo(cache, n), Groups(m)) /\ r.kv = [s.kv EXCEPT ![l] = cache]
  <2>1. CpuHeads(m) = Groups(m)
    BY <1>a, SameHeads, Zenon DEF CpuHeads
  <2> QED
    BY <1>6, <2>1
<1>8. old = [p \in 0..(ctx - 1) |-> old[p]]
  BY <1>b, <1>1, <1>3 DEF IsCache
<1>9. cache = [p \in 0..(ctx - 1) |-> cache[p]] /\ \A p \in 0..(ctx - 1) : cache[p] = IF p = n THEN e ELSE old[p]
  BY <1>1, <1>4, <1>8
<1>10. ASSUME NEW p \in 0..n PROVE cache[p] = EntryAt(w, m, l, p, TextStates(w, m, text, l - 1)[p + 1])
  <2>1. CASE p = n
    <3>1. n \in 0..(ctx - 1)
      BY <1>1
    <3>2. cache[n] = e
      BY <1>9, <3>1
    <3>3. e = EntryAt(w, m, l, n, TextStates(w, m, text, l - 1)[n + 1])
      BY <1>b, <1>2, Zenon
    <3> QED
      BY <2>1, <3>2, <3>3, Zenon
  <2>2. CASE p # n
    <3>1. p \in 0..(n - 1) /\ p \in 0..(ctx - 1)
      BY <1>1, <2>2
    <3>2. old[p] = EntryAt(w, m, l, p, TextStates(w, m, text, l - 1)[p + 1])
      BY <1>b, <1>3, <3>1 DEF FilledAt
    <3> QED
      BY <1>9, <2>2, <3>1, <3>2
  <2> QED
    BY <2>1, <2>2
<1>11. r.x = TextStates(w, m, text, l)[n + 1]
  <2>1. PICK t \in 1..(n + 1) : t = n + 1 /\ t - 1 = n
    OBVIOUS
  <2>2. StatesFollow(w, m, text, t)
    BY <1>a, <2>1, StatesOf
  <2>3. t \in 1..t
    OBVIOUS
  <2>4. TextStates(w, m, text, l)[t] =
           LayerAt(w, m, l, t - 1, TextStates(w, m, text, l - 1)[t],
                   [u \in 0..(t - 1) |-> EntryAt(w, m, l, u, TextStates(w, m, text, l - 1)[u + 1])],
                   Groups(m))
    BY <2>2, <2>3, Zenon DEF StatesFollow
  <2>5. [u \in 0..n |-> EntryAt(w, m, l, u, TextStates(w, m, text, l - 1)[u + 1])]
           = UpTo(cache, n)
    BY <1>10, Zenon DEF UpTo
  <2> QED
    BY <1>b, <1>7, <2>1, <2>4, <2>5
<1>12. /\ DOMAIN r.kv = 1..layers /\ r.kv = [k \in 1..layers |-> r.kv[k]]
       /\ r.kv[l] = cache /\ \A k \in 1..layers : k # l => r.kv[k] = s.kv[k]
  BY <1>b, <1>1, <1>7 DEF IsCache
<1>13. IsCache(m, r.kv)
  <2>1. ASSUME NEW k \in 1..layers PROVE r.kv[k] = [p \in 0..(ctx - 1) |-> r.kv[k][p]]
    <3>1. CASE k = l
      BY <1>9, <1>12, <3>1
    <3>2. CASE k # l
      <4>1. s.kv[k] = [p \in 0..(ctx - 1) |-> s.kv[k][p]]
        BY <1>b, <1>1 DEF IsCache
      <4> QED
        BY <1>12, <3>2, <4>1
    <3> QED
      BY <3>1, <3>2
  <2> QED
    BY <1>1, <1>12, <2>1 DEF IsCache
<1>14. FilledAt(w, m, text, l, n + 1, r.kv)
  <2>1. \A p \in 0..((n + 1) - 1) : p \in 0..n
    OBVIOUS
  <2> QED
    BY <1>10, <1>12, <2>1 DEF FilledAt
<1> QED
  BY <1>c, <1>1, <1>11, <1>12, <1>13, <1>14, Zenon DEF LayerDone

\* The states of a forward pass, before the first layer and after each.
CpuRun(f, w, model, token, pos, k) ==
    /\ f[0] = [x |-> EmbeddedAt(w, model.meta, token), kv |-> model.kv]
    /\ \A l \in 1..k : f[l] = CpuLayer(w, model.meta, l, pos, f[l - 1])

LEMMA CpuRunExists ==
    ASSUME NEW w, NEW model, NEW token, NEW pos, NEW n \in Nat
    PROVE  \E f : CpuRun(f, w, model, token, pos, n)
<1> DEFINE S == {k \in 0..n : \E f : CpuRun(f, w, model, token, pos, k)}
<1>1. 0 \in S
  <2>1. PICK f : f = [l \in 0..0 |-> [x |-> EmbeddedAt(w, model.meta, token), kv |-> model.kv]]
    OBVIOUS
  <2>2. CpuRun(f, w, model, token, pos, 0)
    BY <2>1 DEF CpuRun
  <2> QED
    BY <2>2
<1>2. ASSUME NEW k \in 1..n, k - 1 \in S PROVE k \in S
  <2>1. PICK f : CpuRun(f, w, model, token, pos, k - 1)
    BY <1>2
  <2>2. PICK next : next = CpuLayer(w, model.meta, k, pos, f[k - 1])
    OBVIOUS
  <2>3. PICK g : g = [l \in 0..k |-> IF l = k THEN next ELSE f[l]]
    OBVIOUS
  <2>4. g[k] = next /\ \A l \in 0..(k - 1) : g[l] = f[l]
    BY <2>3
  <2>5. g[0] = [x |-> EmbeddedAt(w, model.meta, token), kv |-> model.kv]
    BY <2>1, <2>4 DEF CpuRun
  <2>6. ASSUME NEW l \in 1..k PROVE g[l] = CpuLayer(w, model.meta, l, pos, g[l - 1])
    <3>1. g[l - 1] = f[l - 1]
      BY <2>4
    <3>2. CASE l = k
      BY <2>2, <2>4, <3>1, <3>2
    <3>3. CASE l # k
      <4>1. l \in 1..(k - 1) /\ g[l] = f[l]
        BY <2>4, <3>3
      <4> QED
        BY <2>1, <3>1, <4>1 DEF CpuRun
    <3> QED
      BY <3>2, <3>3
  <2>7. CpuRun(g, w, model, token, pos, k)
    BY <2>5, <2>6 DEF CpuRun
  <2> QED
    BY <2>7
<1> HIDE DEF S
<1>3. S = 0..n
  <2>1. S \in SUBSET (0..n)
    BY DEF S
  <2> QED
    BY <1>1, <1>2, <2>1, IntervalInduction
<1>4. n \in S
  BY <1>3
<1> QED
  BY <1>4 DEF S

LEMMA CpuLayersRun ==
    ASSUME NEW w, NEW model, NEW token, NEW pos, model.meta.n_layer \in Nat
    PROVE  \E f : /\ CpuRun(f, w, model, token, pos, model.meta.n_layer)
                  /\ CpuLayers(w, model, token, pos) = f[model.meta.n_layer]
<1>1. PICK n \in Nat : n = model.meta.n_layer
  OBVIOUS
<1>2. PICK first : first = [x |-> EmbeddedAt(w, model.meta, token), kv |-> model.kv]
  OBVIOUS
<1> DEFINE s == CHOOSE s : s = [l \in 0..model.meta.n_layer |->
                                   IF l = 0 THEN first ELSE CpuLayer(w, model.meta, l, pos, s[l - 1])]
<1>3. CpuLayers(w, model, token, pos) = s[model.meta.n_layer]
  BY <1>2, Zenon DEF CpuLayers, EmbeddedAt
<1>4. PICK f : CpuRun(f, w, model, token, pos, n)
  BY CpuRunExists
<1>5. PICK g : g = [l \in 0..n |-> f[l]]
  OBVIOUS
<1>6. g = [l \in 0..model.meta.n_layer |->
              IF l = 0 THEN first ELSE CpuLayer(w, model.meta, l, pos, g[l - 1])]
  <2>1. ASSUME NEW l \in 0..n
        PROVE  f[l] = IF l = 0 THEN first ELSE CpuLayer(w, model.meta, l, pos, g[l - 1])
    <3>1. CASE l = 0
      BY <1>2, <1>4, <3>1 DEF CpuRun
    <3>2. CASE l # 0
      <4>1. l \in 1..n /\ g[l - 1] = f[l - 1]
        BY <1>5, <3>2
      <4>2. f[l] = CpuLayer(w, model.meta, l, pos, f[l - 1])
        BY <1>4, <4>1 DEF CpuRun
      <4> QED
        BY <3>2, <4>1, <4>2
    <3> QED
      BY <3>1, <3>2
  <2> QED
    BY <1>1, <1>5, <2>1, Zenon
<1>7. s = [l \in 0..model.meta.n_layer |->
              IF l = 0 THEN first ELSE CpuLayer(w, model.meta, l, pos, s[l - 1])]
  BY <1>6, Zenon
<1> HIDE DEF s
<1>8. \A l \in 0..n : s[l] = IF l = 0 THEN first ELSE CpuLayer(w, model.meta, l, pos, s[l - 1])
  BY <1>1, <1>7, Zenon
<1>9. s[0] = first
  <2>1. 0 \in 0..n
    OBVIOUS
  <2> QED
    BY <1>8, <2>1, Zenon
<1>10. ASSUME NEW l \in 1..n PROVE s[l] = CpuLayer(w, model.meta, l, pos, s[l - 1])
  <2>1. l \in 0..n /\ l # 0
    OBVIOUS
  <2> QED
    BY <1>8, <2>1, Zenon
<1>11. CpuRun(s, w, model, token, pos, n)
  BY <1>2, <1>9, <1>10, Zenon DEF CpuRun
<1> QED
  BY <1>1, <1>3, <1>11, Zenon

\* A pass at the end of the text computes its last state, and fills the cache.
PassReady(w, m, text, n, model) ==
    model.meta = m /\ Len(text) = n + 1 /\ Filled(w, m, text, n, model.kv)

PassDone(w, m, text, n, r) ==
    r.x = TextStates(w, m, text, m.n_layer)[n + 1] /\ Filled(w, m, text, n + 1, r.kv)

LEMMA CpuPass ==
    ASSUME NEW w, NEW m, CpuShape(m), NEW n \in Nat, n < m.n_ctx, NEW text, NEW model,
           PassReady(w, m, text, n, model)
    PROVE  PassDone(w, m, text, n, CpuLayers(w, model, text[n + 1], n))
<1>a. m.n_layer \in Nat
  BY Zenon DEF CpuShape
<1>b. model.meta = m /\ Len(text) = n + 1 /\ Filled(w, m, text, n, model.kv)
  BY Zenon DEF PassReady
<1>c. PICK r : r = CpuLayers(w, model, text[n + 1], n)
  OBVIOUS
<1>1. PICK layers \in Nat : layers = m.n_layer
  BY <1>a
<1>2. PICK token : token = text[n + 1]
  OBVIOUS
<1>3. PICK f : CpuRun(f, w, model, token, n, layers) /\ r = f[layers]
  BY <1>a, <1>b, <1>c, <1>1, <1>2, CpuLayersRun
<1> DEFINE OK(l) == /\ f[l].x = TextStates(w, m, text, l)[n + 1] /\ IsCache(m, f[l].kv)
                    /\ \A k \in 1..l : FilledAt(w, m, text, k, n + 1, f[l].kv)
                    /\ \A k \in (l + 1)..layers : FilledAt(w, m, text, k, n, f[l].kv)
<1>4. OK(0)
  <2>1. f[0].x = EmbeddedAt(w, m, token) /\ f[0].kv = model.kv
    <3>1. f[0] = [x |-> EmbeddedAt(w, m, token), kv |-> model.kv]
      BY <1>b, <1>3, Zenon DEF CpuRun
    <3> QED
      BY <3>1
  <2>2. TextStates(w, m, text, 0)[n + 1] = EmbeddedAt(w, m, text[n + 1])
    <3>1. PICK t \in 1..(n + 1) : t = n + 1
      OBVIOUS
    <3>2. StatesFollow(w, m, text, t)
      BY <1>a, <1>b, <3>1, StatesOf
    <3>3. t \in 1..t
      OBVIOUS
    <3>4. TextStates(w, m, text, 0)[t] = EmbeddedAt(w, m, text[t])
      BY <3>2, <3>3, Zenon DEF StatesFollow
    <3> QED
      BY <3>1, <3>4
  <2>3. IsCache(m, model.kv) /\ \A k \in 1..layers : FilledAt(w, m, text, k, n, model.kv)
    BY <1>b, <1>1, Zenon DEF Filled
  <2>4. (0 + 1)..layers = 1..layers /\ 1..0 = {}
    OBVIOUS
  <2> QED
    BY <1>2, <2>1, <2>2, <2>3, <2>4
<1>5. ASSUME NEW l \in 1..layers, OK(l - 1) PROVE OK(l)
  <2>1. PICK s : s = f[l - 1]
    OBVIOUS
  <2>2. PICK q : q = f[l] /\ q = CpuLayer(w, m, l, n, s)
    <3>1. f[l] = CpuLayer(w, m, l, n, f[l - 1])
      BY <1>b, <1>3, Zenon DEF CpuRun
    <3> QED
      BY <2>1, <3>1
  <2>3. /\ s.x = TextStates(w, m, text, l - 1)[n + 1] /\ IsCache(m, s.kv)
        /\ \A k \in 1..(l - 1) : FilledAt(w, m, text, k, n + 1, s.kv)
        /\ \A k \in l..layers : FilledAt(w, m, text, k, n, s.kv)
    BY <1>5, <2>1
  <2>4. /\ q.x = TextStates(w, m, text, l)[n + 1]
        /\ IsCache(m, q.kv) /\ FilledAt(w, m, text, l, n + 1, q.kv)
        /\ \A k \in 1..layers : k # l => q.kv[k] = s.kv[k]
    <3>1. l \in 1..m.n_layer /\ l \in l..layers
      BY <1>1
    <3>2. LayerReady(w, m, text, l, n, s)
      BY <2>3, <3>1, Zenon DEF LayerReady
    <3>3. LayerDone(w, m, text, l, n, s, CpuLayer(w, m, l, n, s))
      BY <1>b, <3>1, <3>2, CpuLayerStep, Zenon
    <3> QED
      BY <1>1, <2>2, <3>3, Zenon DEF LayerDone
  <2>5. ASSUME NEW k \in 1..layers, k # l, NEW c
        PROVE  FilledAt(w, m, text, k, c, q.kv) <=> FilledAt(w, m, text, k, c, s.kv)
    BY <2>4, <2>5, Zenon DEF FilledAt
  <2>6. ASSUME NEW k \in 1..l PROVE FilledAt(w, m, text, k, n + 1, q.kv)
    <3>1. CASE k = l
      BY <2>4, <3>1
    <3>2. CASE k # l
      <4>1. k \in 1..(l - 1) /\ k \in 1..layers
        BY <3>2
      <4> QED
        BY <2>3, <2>5, <3>2, <4>1
    <3> QED
      BY <3>1, <3>2
  <2>7. ASSUME NEW k \in (l + 1)..layers PROVE FilledAt(w, m, text, k, n, q.kv)
    <3>1. k \in l..layers /\ k \in 1..layers /\ k # l
      OBVIOUS
    <3> QED
      BY <2>3, <2>5, <3>1
  <2> QED
    BY <2>2, <2>4, <2>6, <2>7
<1> HIDE DEF OK
<1> DEFINE S == {l \in 0..layers : OK(l)}
<1>6. 0 \in S
  BY <1>4
<1>7. ASSUME NEW l \in 1..layers, l - 1 \in S PROVE l \in S
  BY <1>5, <1>7
<1>8. S = 0..layers
  <2>1. S \in SUBSET (0..layers)
    OBVIOUS
  <2> HIDE DEF S
  <2> QED
    BY <1>6, <1>7, <2>1, IntervalInduction
<1>9. OK(layers)
  <2>1. layers \in 0..layers
    OBVIOUS
  <2> QED
    BY <1>8, <2>1
<1>10. /\ r.x = TextStates(w, m, text, layers)[n + 1] /\ IsCache(m, r.kv)
       /\ \A k \in 1..layers : FilledAt(w, m, text, k, n + 1, r.kv)
  BY <1>3, <1>9, Zenon DEF OK
<1> QED
  BY <1>c, <1>1, <1>10, Zenon DEF Filled, PassDone

\* What a cache is filled with does not depend on the rest of the text.
LEMMA FilledCut ==
    ASSUME NEW w, NEW m, m.n_layer \in Nat, NEW n \in Nat, NEW k \in Nat,
           NEW text, NEW more, Continues(more, k, text, n), NEW c \in 0..n, NEW kv
    PROVE  Filled(w, m, text, c, kv) <=> Filled(w, m, more, c, kv)
<1>1. PICK layers \in Nat : layers = m.n_layer
  OBVIOUS
<1>2. \A l \in 0..layers : \A t \in 1..n : TextStates(w, m, more, l)[t] = TextStates(w, m, text, l)[t]
  <2>1. SameStates(w, m, more, text, n)
    BY Causal, Zenon
  <2> QED
    BY <1>1, <2>1, Zenon DEF SameStates
<1>3. ASSUME NEW l \in 1..layers
      PROVE  FilledAt(w, m, text, l, c, kv) <=> FilledAt(w, m, more, l, c, kv)
  <2>1. ASSUME NEW p \in 0..(c - 1)
        PROVE  TextStates(w, m, more, l - 1)[p + 1] = TextStates(w, m, text, l - 1)[p + 1]
    <3>1. l - 1 \in 0..layers /\ p + 1 \in 1..n
      OBVIOUS
    <3> QED
      BY <1>2, <3>1, Zenon
  <2> QED
    BY <2>1, Zenon DEF FilledAt
<1> QED
  BY <1>1, <1>3, Zenon DEF Filled

\* A pass at a position of a text, with the entries before it in the cache.
PassExact(w, m, text, n, r) ==
    /\ Filled(w, m, text, n + 1, r.kv)
    /\ OutputHead(w, m, r.x) = TextLogits(w, m, Cut(text, n + 1))

LEMMA CpuPassAt ==
    ASSUME NEW w, NEW m, CpuShape(m), NEW n \in Nat, n < m.n_ctx,
           NEW text, NEW k \in Nat, Len(text) = k, n < k,
           NEW model, model.meta = m, Filled(w, m, text, n, model.kv)
    PROVE  PassExact(w, m, text, n, CpuLayers(w, model, text[n + 1], n))
<1>r. PICK r : r = CpuLayers(w, model, text[n + 1], n)
  OBVIOUS
<1>0. /\ m.n_layer \in Nat /\ m.n_head \in Nat /\ m.n_head_kv \in Nat /\ m.n_ctx \in Nat
      /\ Shared(m)
  BY Zenon DEF CpuShape
<1>1. PICK c \in Nat : c = n + 1 /\ c <= k
  OBVIOUS
<1>2. PICK cut : cut = Cut(text, c)
  OBVIOUS
<1>3. Len(cut) = c /\ \A i \in 1..c : cut[i] = text[i]
  BY <1>2, CutOf, Zenon
<1>4. cut[n + 1] = text[n + 1] /\ Len(cut) = n + 1
  BY <1>1, <1>3
<1>5. \A q \in 0..c : \A kv : Filled(w, m, cut, q, kv) <=> Filled(w, m, text, q, kv)
  <2>1. Continues(text, k, cut, c)
    <3>1. \A i \in 1..c : text[i] = cut[i]
      BY <1>3
    <3> QED
      BY <1>1, <1>3, <3>1 DEF Continues
  <2> QED
    BY <1>0, <2>1, FilledCut
<1>6. Filled(w, m, cut, n, model.kv)
  <2>1. n \in 0..c
    BY <1>1
  <2> QED
    BY <1>5, <2>1, Zenon
<1>7. r = CpuLayers(w, model, cut[n + 1], n)
  BY <1>r, <1>4
<1>8. r.x = TextStates(w, m, cut, m.n_layer)[n + 1] /\ Filled(w, m, cut, n + 1, r.kv)
  <2>1. PassReady(w, m, cut, n, model)
    BY <1>4, <1>6, Zenon DEF PassReady
  <2>2. PassDone(w, m, cut, n, CpuLayers(w, model, cut[n + 1], n))
    BY <2>1, CpuPass, Zenon
  <2> QED
    BY <1>7, <2>2, Zenon DEF PassDone
<1>9. Filled(w, m, text, n + 1, r.kv)
  <2>1. n + 1 \in 0..c
    BY <1>1
  <2> QED
    BY <1>5, <1>8, <2>1, Zenon
<1>10. OutputHead(w, m, r.x) = TextLogits(w, m, cut)
  <2>1. PICK s : s = TextStates(w, m, cut, m.n_layer)
    OBVIOUS
  <2>2. Len(s) = n + 1
    <3>1. StatesFollow(w, m, cut, c)
      BY <1>0, <1>3, StatesOf
    <3>2. m.n_layer \in 0..m.n_layer
      BY <1>0
    <3> QED
      BY <1>1, <2>1, <3>1, <3>2, Zenon DEF StatesFollow
  <2>3. Last(s) = r.x
    BY <1>8, <2>1, <2>2, Zenon DEF Last
  <2> QED
    BY <2>1, <2>3, Zenon DEF TextLogits
<1> QED
  BY <1>r, <1>1, <1>2, <1>9, <1>10, Zenon DEF PassExact

\* A list and one more element.
LEMMA AppendList ==
    ASSUME NEW s, IsList(s), NEW v
    PROVE  /\ IsList(Append(s, v)) /\ Len(Append(s, v)) = Len(s) + 1
           /\ Append(s, v)[Len(s) + 1] = v
           /\ \A i \in 1..Len(s) : Append(s, v)[i] = s[i]
<1>1. PICK n \in Nat : n = Len(s)
  BY DEF IsList
<1>2. s = [i \in 1..n |-> s[i]]
  BY <1>1 DEF IsList
<1> DEFINE V == {s[i] : i \in 1..n} \cup {v}
<1>3. \A i \in 1..n : s[i] \in V
  OBVIOUS
<1>4. v \in V
  OBVIOUS
<1> HIDE DEF V
<1>5. s \in [1..n -> V]
  BY <1>2, <1>3
<1>6. Append(s, v) = [l \in 1..(n + 1) |-> IF l = n + 1 THEN v ELSE s[l]]
  BY <1>4, <1>5, Extended
<1>7. PICK t : t = [l \in 1..(n + 1) |-> IF l = n + 1 THEN v ELSE s[l]]
  OBVIOUS
<1>8. t = [l \in 1..(n + 1) |-> t[l]] /\ t[n + 1] = v /\ \A i \in 1..n : t[i] = s[i]
  BY <1>7
<1>9. IsList(t) /\ Len(t) = n + 1
  <2>1. n + 1 \in Nat
    OBVIOUS
  <2> QED
    BY <1>8, <2>1, ListOf
<1> QED
  BY <1>1, <1>6, <1>7, <1>8, <1>9, Zenon

\* What Feed goes through.
FeedRun(f, w, model, tokens, k) ==
    /\ f[0] = [model |-> model, logits |-> <<>>]
    /\ \A i \in 1..k : f[i] = ForwardOne(w, f[i - 1], tokens[i], model.pos + i - 1)

LEMMA FeedRunExists ==
    ASSUME NEW w, NEW model, NEW tokens, NEW n \in Nat
    PROVE  \E f : FeedRun(f, w, model, tokens, n)
<1> DEFINE S == {k \in 0..n : \E f : FeedRun(f, w, model, tokens, k)}
<1>1. 0 \in S
  <2>1. PICK f : f = [l \in 0..0 |-> [model |-> model, logits |-> <<>>]]
    OBVIOUS
  <2>2. FeedRun(f, w, model, tokens, 0)
    BY <2>1 DEF FeedRun
  <2> QED
    BY <2>2
<1>2. ASSUME NEW k \in 1..n, k - 1 \in S PROVE k \in S
  <2>1. PICK f : FeedRun(f, w, model, tokens, k - 1)
    BY <1>2
  <2>2. PICK next : next = ForwardOne(w, f[k - 1], tokens[k], model.pos + k - 1)
    OBVIOUS
  <2>3. PICK g : g = [l \in 0..k |-> IF l = k THEN next ELSE f[l]]
    OBVIOUS
  <2>4. g[k] = next /\ \A l \in 0..(k - 1) : g[l] = f[l]
    BY <2>3
  <2>5. g[0] = [model |-> model, logits |-> <<>>]
    BY <2>1, <2>4 DEF FeedRun
  <2>6. ASSUME NEW l \in 1..k PROVE g[l] = ForwardOne(w, g[l - 1], tokens[l], model.pos + l - 1)
    <3>1. g[l - 1] = f[l - 1]
      BY <2>4
    <3>2. CASE l = k
      BY <2>2, <2>4, <3>1, <3>2
    <3>3. CASE l # k
      <4>1. l \in 1..(k - 1) /\ g[l] = f[l]
        BY <2>4, <3>3
      <4>2. f[l] = ForwardOne(w, f[l - 1], tokens[l], model.pos + l - 1)
        BY <2>1, <4>1, Zenon DEF FeedRun
      <4> QED
        BY <3>1, <4>1, <4>2, Zenon
    <3> QED
      BY <3>2, <3>3
  <2>7. FeedRun(g, w, model, tokens, k)
    BY <2>5, <2>6, Zenon DEF FeedRun
  <2> QED
    BY <2>7
<1> HIDE DEF S
<1>3. S = 0..n
  <2>1. S \in SUBSET (0..n)
    BY DEF S
  <2> QED
    BY <1>1, <1>2, <2>1, IntervalInduction
<1>4. n \in S
  BY <1>3
<1> QED
  BY <1>4 DEF S

FeedRuns(f, w, model, tokens, n) ==
    FeedRun(f, w, model, tokens, n) /\ Feed(model, tokens) = [f[n] EXCEPT !.model.pos = @ + n]

LEMMA FeedsThrough ==
    ASSUME NEW model, NEW tokens, NEW n \in Nat, Len(tokens) = n
    PROVE  \E f : FeedRuns(f, Weights[model.file], model, tokens, n)
<1>1. PICK w, first : w = Weights[model.file] /\ first = [model |-> model, logits |-> <<>>]
  OBVIOUS
<1> DEFINE s == CHOOSE s : s = [i \in 0..n |->
                    IF i = 0 THEN first ELSE ForwardOne(w, s[i - 1], tokens[i], model.pos + i - 1)]
<1>2. Feed(model, tokens) = [s[n] EXCEPT !.model.pos = @ + n]
  BY <1>1, Zenon DEF Feed
<1>3. PICK f : FeedRun(f, w, model, tokens, n)
  BY FeedRunExists
<1>4. PICK g : g = [i \in 0..n |-> f[i]]
  OBVIOUS
<1>5. g = [i \in 0..n |->
              IF i = 0 THEN first ELSE ForwardOne(w, g[i - 1], tokens[i], model.pos + i - 1)]
  <2>1. ASSUME NEW i \in 0..n
        PROVE  f[i] = IF i = 0 THEN first
                      ELSE ForwardOne(w, g[i - 1], tokens[i], model.pos + i - 1)
    <3>1. CASE i = 0
      BY <1>1, <1>3, <3>1 DEF FeedRun
    <3>2. CASE i # 0
      <4>1. i \in 1..n /\ g[i - 1] = f[i - 1]
        BY <1>4, <3>2
      <4>2. f[i] = ForwardOne(w, f[i - 1], tokens[i], model.pos + i - 1)
        BY <1>3, <4>1, Zenon DEF FeedRun
      <4> QED
        BY <3>2, <4>1, <4>2, Zenon
    <3> QED
      BY <3>1, <3>2
  <2> QED
    BY <1>4, <2>1, Zenon
<1>6. s = [i \in 0..n |->
              IF i = 0 THEN first ELSE ForwardOne(w, s[i - 1], tokens[i], model.pos + i - 1)]
  BY <1>5, Zenon
<1> HIDE DEF s
<1>7. \A i \in 0..n : s[i] = IF i = 0 THEN first
                             ELSE ForwardOne(w, s[i - 1], tokens[i], model.pos + i - 1)
  BY <1>6, Zenon
<1>8. s[0] = first
  <2>1. 0 \in 0..n
    OBVIOUS
  <2> QED
    BY <1>7, <2>1, Zenon
<1>9. ASSUME NEW i \in 1..n PROVE s[i] = ForwardOne(w, s[i - 1], tokens[i], model.pos + i - 1)
  <2>1. i \in 0..n /\ i # 0
    OBVIOUS
  <2> QED
    BY <1>7, <2>1, Zenon
<1>10. FeedRun(s, w, model, tokens, n)
  BY <1>1, <1>8, <1>9, Zenon DEF FeedRun
<1> QED
  BY <1>1, <1>2, <1>10, Zenon DEF FeedRuns

\* A model loaded from a file, with so many tokens fed to it.
IsModel(model, file, m, pos) == model = [file |-> file, meta |-> m, kv |-> model.kv, pos |-> pos]

LEMMA ModelParts ==
    ASSUME NEW model, NEW file, NEW m, NEW pos, IsModel(model, file, m, pos)
    PROVE  /\ model.file = file /\ model.meta = m /\ model.pos = pos
           /\ \A kv : [model EXCEPT !.kv = kv] = [file |-> file, meta |-> m, kv |-> kv, pos |-> pos]
           /\ \A p : [model EXCEPT !.pos = p] = [file |-> file, meta |-> m, kv |-> model.kv, pos |-> p]
<1>1. PICK kv : kv = model.kv
  OBVIOUS
<1>2. model = [file |-> file, meta |-> m, kv |-> kv, pos |-> pos]
  BY <1>1, Zenon DEF IsModel
<1> QED
  BY <1>1, <1>2

LEMMA ForwardStep ==
    ASSUME NEW w, NEW f, NEW token, NEW pos
    PROVE  ForwardOne(w, f, token, pos) =
              [model |-> [f.model EXCEPT !.kv = CpuLayers(w, f.model, token, pos).kv],
               logits |-> Append(f.logits, OutputHead(w, f.model.meta,
                                                      CpuLayers(w, f.model, token, pos).x))]
BY Zenon DEF ForwardOne

\* What has been fed: i tokens of the text after its first n.
FeedReady(file, m, text, n, c, model, tokens) ==
    /\ IsModel(model, file, m, n) /\ n + c <= m.n_ctx
    /\ Len(tokens) = c /\ Len(text) = n + c /\ \A i \in 1..c : text[n + i] = tokens[i]
    /\ CpuShape(m) => Filled(Weights[file], m, text, n, model.kv)

LogitsOf(w, m, text, n, i, out) ==
    \A j \in 1..i : out[j] = TextLogits(w, m, Cut(text, n + j))

FeedState(file, m, text, n, i, pos, f) ==
    /\ f = [model |-> f.model, logits |-> f.logits]
    /\ IsModel(f.model, file, m, pos) /\ IsList(f.logits) /\ Len(f.logits) = i
    /\ CpuShape(m) => /\ Filled(Weights[file], m, text, n + i, f.model.kv)
                      /\ LogitsOf(Weights[file], m, text, n, i, f.logits)

LEMMA ForwardKeeps ==
    ASSUME NEW file, NEW m, NEW n \in Nat, NEW c \in Nat, n + c <= m.n_ctx, NEW text, Len(text) = n + c,
           NEW i \in Nat, i < c, NEW f, FeedState(file, m, text, n, i, n, f), NEW token,
           token = text[n + i + 1]
    PROVE  FeedState(file, m, text, n, i + 1, n, ForwardOne(Weights[file], f, token, n + i))
<1>0. PICK w, old, L : w = Weights[file] /\ old = f.model /\ L = f.logits
  OBVIOUS
<1>p. PICK p \in Nat, k \in Nat : p = n + i /\ k = n + c
  OBVIOUS
<1>1. w = Weights[file] /\ old = f.model /\ L = f.logits /\ p = n + i /\ k = n + c
  BY <1>0, <1>p
<1>2. /\ IsModel(old, file, m, n) /\ IsList(L) /\ Len(L) = i
      /\ CpuShape(m) => Filled(w, m, text, p, old.kv) /\ LogitsOf(w, m, text, n, i, L)
  BY <1>1, Zenon DEF FeedState
<1>3. PICK s : s = CpuLayers(w, old, token, p)
  OBVIOUS
<1>4. PICK next, kv, out : /\ kv = s.kv /\ next = [old EXCEPT !.kv = kv]
                           /\ out = OutputHead(w, old.meta, s.x)
  OBVIOUS
<1>5. PICK M : M = Append(L, out)
  OBVIOUS
<1>6. PICK g : g = ForwardOne(w, f, token, p) /\ g = [model |-> next, logits |-> M]
  BY <1>1, <1>3, <1>4, <1>5, ForwardStep, Zenon
<1>7. old.meta = m /\ next = [file |-> file, meta |-> m, kv |-> kv, pos |-> n]
  <2>1. \A q : [old EXCEPT !.kv = q] = [file |-> file, meta |-> m, kv |-> q, pos |-> n]
    BY <1>2, ModelParts, Zenon
  <2>2. old.meta = m
    BY <1>2, ModelParts, Zenon
  <2>3. next = [old EXCEPT !.kv = kv]
    BY <1>4
  <2> QED
    BY <2>1, <2>2, <2>3
<1>8. IsModel(next, file, m, n) /\ next.kv = kv
  BY <1>7 DEF IsModel
<1>9. /\ IsList(M) /\ Len(M) = i + 1 /\ M[i + 1] = out /\ \A j \in 1..i : M[j] = L[j]
  <2>1. /\ IsList(Append(L, out)) /\ Len(Append(L, out)) = Len(L) + 1
        /\ Append(L, out)[Len(L) + 1] = out
        /\ \A j \in 1..Len(L) : Append(L, out)[j] = L[j]
    BY <1>2, AppendList
  <2> QED
    BY <1>2, <1>5, <2>1, Zenon
<1>10. ASSUME CpuShape(m)
       PROVE  Filled(w, m, text, n + (i + 1), kv) /\ LogitsOf(w, m, text, n, i + 1, M)
  <2>1. /\ p < m.n_ctx /\ p < k /\ Len(text) = k
    <3>1. m.n_ctx \in Nat
      BY <1>10, Zenon DEF CpuShape
    <3> QED
      BY <1>1, <3>1
  <2>2. s = CpuLayers(w, old, text[p + 1], p)
    <3>1. token = text[p + 1]
      BY <1>1
    <3> QED
      BY <1>3, <3>1, Zenon
  <2>3. Filled(w, m, text, p + 1, s.kv) /\ OutputHead(w, m, s.x) = TextLogits(w, m, Cut(text, p + 1))
    <3>1. old.meta = m /\ Filled(w, m, text, p, old.kv)
      BY <1>2, <1>7, <1>10
    <3>2. PassExact(w, m, text, p, CpuLayers(w, old, text[p + 1], p))
      BY <1>10, <2>1, <3>1, CpuPassAt, Zenon
    <3> QED
      BY <2>2, <3>2, Zenon DEF PassExact
  <2>4. n + (i + 1) = p + 1
    BY <1>1
  <2>5. ASSUME NEW j \in 1..(i + 1) PROVE M[j] = TextLogits(w, m, Cut(text, n + j))
    <3>1. CASE j = i + 1
      <4>1. n + j = p + 1
        BY <1>1, <3>1
      <4>2. M[j] = OutputHead(w, m, s.x)
        BY <1>4, <1>7, <1>9, <3>1, Zenon
      <4> QED
        BY <2>3, <4>1, <4>2, Zenon
    <3>2. CASE j # i + 1
      <4>1. j \in 1..i
        BY <3>2
      <4>2. L[j] = TextLogits(w, m, Cut(text, n + j))
        BY <1>2, <1>10, <4>1, Zenon DEF LogitsOf
      <4> QED
        BY <1>9, <4>1, <4>2, Zenon
    <3> QED
      BY <3>1, <3>2
  <2> QED
    BY <1>4, <2>3, <2>4, <2>5, Zenon DEF LogitsOf
<1>11. g = [model |-> g.model, logits |-> g.logits] /\ g.model = next /\ g.logits = M
  BY <1>6
<1>12. FeedState(file, m, text, n, i + 1, n, g)
  BY <1>1, <1>8, <1>9, <1>10, <1>11, Zenon DEF FeedState
<1> QED
  BY <1>1, <1>6, <1>12, Zenon

LEMMA FeedKeeps ==
    ASSUME NEW file, NEW m, NEW n \in Nat, NEW c \in Nat, NEW text, NEW model, NEW tokens,
           FeedReady(file, m, text, n, c, model, tokens)
    PROVE  FeedState(file, m, text, n, c, n + c, Feed(model, tokens))
<1>1. PICK w : w = Weights[file]
  OBVIOUS
<1>2. /\ IsModel(model, file, m, n) /\ n + c <= m.n_ctx
      /\ Len(tokens) = c /\ Len(text) = n + c /\ \A i \in 1..c : text[n + i] = tokens[i]
      /\ CpuShape(m) => Filled(w, m, text, n, model.kv)
  BY <1>1, Zenon DEF FeedReady
<1>3. model.file = file /\ model.pos = n
  BY <1>2, ModelParts, Zenon
<1>4. PICK f : FeedRuns(f, w, model, tokens, c)
  BY <1>1, <1>2, <1>3, FeedsThrough, Zenon
<1>f. /\ FeedRun(f, w, model, tokens, c)
      /\ Feed(model, tokens) = [f[c] EXCEPT !.model.pos = @ + c]
  BY <1>4, Zenon DEF FeedRuns
<1> DEFINE OK(i) == FeedState(file, m, text, n, i, n, f[i])
           S == {i \in 0..c : OK(i)}
<1>5. OK(0)
  <2>1. PICK g : g = f[0] /\ g = [model |-> model, logits |-> <<>>]
    BY <1>f, Zenon DEF FeedRun
  <2>2. g = [model |-> g.model, logits |-> g.logits] /\ g.model = model /\ g.logits = <<>>
    BY <2>1
  <2>3. IsList(<<>>) /\ Len(<<>>) = 0 /\ n + 0 = n /\ 1..0 = {}
    BY DEF IsList
  <2>4. LogitsOf(w, m, text, n, 0, g.logits)
    BY <2>3, Zenon DEF LogitsOf
  <2>5. FeedState(file, m, text, n, 0, n, g)
    BY <1>1, <1>2, <2>2, <2>3, <2>4, Zenon DEF FeedState
  <2> QED
    BY <2>1, <2>5, Zenon
<1>6. ASSUME NEW i \in 1..c, OK(i - 1) PROVE OK(i)
  <2>1. PICK q \in Nat : q = i - 1 /\ q + 1 = i /\ q < c /\ n + i - 1 = n + q /\ n + q + 1 = n + i
    OBVIOUS
  <2>2. f[i] = ForwardOne(w, f[q], tokens[i], n + q)
    <3>1. f[i] = ForwardOne(w, f[i - 1], tokens[i], model.pos + i - 1)
      BY <1>f, Zenon DEF FeedRun
    <3> QED
      BY <1>3, <2>1, <3>1, Zenon
  <2>3. tokens[i] = text[n + q + 1]
    BY <1>2, <2>1
  <2>4. FeedState(file, m, text, n, q, n, f[q])
    BY <1>6, <2>1, Zenon
  <2>5. FeedState(file, m, text, n, q + 1, n, ForwardOne(Weights[file], f[q], tokens[i], n + q))
    BY <1>2, <2>1, <2>3, <2>4, ForwardKeeps, Zenon
  <2> QED
    BY <1>1, <2>1, <2>2, <2>5, Zenon
<1> HIDE DEF OK
<1>7. 0 \in S
  BY <1>5
<1>8. ASSUME NEW i \in 1..c, i - 1 \in S PROVE i \in S
  BY <1>6, <1>8
<1>9. S = 0..c
  <2>1. S \in SUBSET (0..c)
    OBVIOUS
  <2> HIDE DEF S
  <2> QED
    BY <1>7, <1>8, <2>1, IntervalInduction
<1>10. OK(c)
  <2>1. c \in 0..c
    OBVIOUS
  <2> QED
    BY <1>9, <2>1
<1>11. PICK g, old, L : g = f[c] /\ old = g.model /\ L = g.logits
  OBVIOUS
<1>12. /\ g = [model |-> old, logits |-> L]
       /\ IsModel(old, file, m, n) /\ IsList(L) /\ Len(L) = c
       /\ CpuShape(m) => Filled(w, m, text, n + c, old.kv) /\ LogitsOf(w, m, text, n, c, L)
  BY <1>1, <1>10, <1>11, Zenon DEF OK, FeedState
<1>13. PICK next : next = [old EXCEPT !.pos = n + c]
  OBVIOUS
<1>14. PICK r : r = [model |-> next, logits |-> L]
  OBVIOUS
<1>15. Feed(model, tokens) = r
  <2>1. old.pos = n
    BY <1>12, ModelParts, Zenon
  <2>2. [g EXCEPT !.model.pos = @ + c] = [model |-> next, logits |-> L]
    BY <1>12, <1>13, <2>1
  <2> QED
    BY <1>f, <1>11, <1>14, <2>2, Zenon
<1>16. next = [file |-> file, meta |-> m, kv |-> old.kv, pos |-> n + c]
  BY <1>12, <1>13, ModelParts, Zenon
<1>17. PICK kv : kv = old.kv
  OBVIOUS
<1>18. IsModel(next, file, m, n + c) /\ next.kv = kv
  BY <1>16, <1>17 DEF IsModel
<1>19. r = [model |-> r.model, logits |-> r.logits] /\ r.model = next /\ r.logits = L
  BY <1>14
<1>20. FeedState(file, m, text, n, c, n + c, r)
  BY <1>1, <1>12, <1>17, <1>18, <1>19, Zenon DEF FeedState
<1> QED
  BY <1>15, <1>20, Zenon

-----------------------------------------------------------------------------
(***************************************************************************)
(* What CpuModel returns.                                                  *)
(***************************************************************************)

\* A loaded file has the sizes of an architecture.
LEMMA LoadedArch ==
    ASSUME NEW file, Unsigned(file), LoadGguf(file).outcome = "ok"
    PROVE  IsArch(LoadGguf(file).meta)
<1>1. PICK index, m, store : /\ index = Index(file) /\ m = ModelMeta(file.meta, index)
                             /\ store = LoadGguf(file)
  OBVIOUS
<1>2. store = LoadIndexed(file, index) /\ store.outcome = "ok"
  BY <1>1, Zenon DEF LoadGguf
<1>3. PICK error : error = LoadError(file, index)
  OBVIOUS
<1>4. CASE error = "none"
  <2>1. store = [outcome |-> "ok", meta |-> m, index |-> index, data |-> DataEnd(index)]
    BY <1>1, <1>2, <1>3, <1>4, Zenon DEF LoadIndexed
  <2>2. store.meta = m
    BY <2>1
  <2>3. /\ \A key \in DOMAIN file.meta :
              file.meta[key].type \in {"U32", "U64", "Array"} => file.meta[key].value \in Nat
        /\ Len(file.tensors) \in Nat /\ DOMAIN file.tensors = 1..Len(file.tensors)
    BY Zenon DEF Unsigned
  <2>4. DOMAIN file.tensors \subseteq Nat
    BY <2>3
  <2>5. MetaError(file.meta) = "none"
    BY <1>3, <1>4, <2>4, NoError
  <2>6. IsArch(m)
    BY <1>1, <2>3, <2>5, ArchOf
  <2> QED
    BY <1>1, <2>2, <2>6, Zenon
<1>5. CASE error # "none"
  <2>1. store = [outcome |-> error]
    BY <1>2, <1>3, <1>5, Zenon DEF LoadIndexed
  <2>2. error = "ok"
    BY <1>2, <2>1
  <2> QED
    BY <1>3, <2>2, NoErrorIsOk
<1> QED
  BY <1>4, <1>5

\* Lists of numbers.
LEMMA NumbersAreList == \A s \in Seq(Nat) : IsList(s)
BY LenProperties DEF IsList

LEMMA Single ==
    ASSUME NEW v
    PROVE  IsList(<<v>>) /\ Len(<<v>>) = 1 /\ <<v>>[1] = v
<1>1. PICK s : s = [i \in 1..1 |-> v]
  OBVIOUS
<1>2. s = <<v>>
  BY <1>1
<1>3. s = [i \in 1..1 |-> s[i]] /\ s[1] = v
  BY <1>1
<1>4. IsList(s) /\ Len(s) = 1
  BY <1>3, ListOf
<1> QED
  BY <1>2, <1>3, <1>4

LEMMA CutWhole ==
    ASSUME NEW s, IsList(s)
    PROVE  Cut(s, Len(s)) = s
<1>1. PICK n \in Nat : n = Len(s)
  BY DEF IsList
<1>2. Len(Cut(s, n)) = n /\ IsList(Cut(s, n)) /\ \A i \in 1..n : Cut(s, n)[i] = s[i]
  BY CutOf
<1>3. Cut(s, n) = s
  BY <1>1, <1>2, SameLists
<1> QED
  BY <1>1, <1>3

\* All but the last of a list.
LEMMA FrontOf ==
    ASSUME NEW s, IsList(s), NEW t, IsList(t), Len(t) = Len(s) + 1,
           \A i \in 1..Len(s) : t[i] = s[i]
    PROVE  Front(t) = s
<1>1. PICK n \in Nat : n = Len(s) /\ Len(t) = n + 1 /\ Len(t) - 1 = n
  BY DEF IsList
<1>2. Front(t) = Cut(t, n)
  BY <1>1, Zenon DEF Front, Cut
<1>3. Len(Cut(t, n)) = n /\ IsList(Cut(t, n)) /\ \A i \in 1..n : Cut(t, n)[i] = t[i]
  BY CutOf
<1>4. Cut(t, n) = s
  BY <1>1, <1>3, SameLists
<1> QED
  BY <1>2, <1>4

LEMMA FrontAndLast ==
    ASSUME NEW s, IsList(s), Len(s) >= 1
    PROVE  Front(s) \o <<Last(s)>> = s
<1>1. PICK n \in Nat : n + 1 = Len(s) /\ Len(s) - 1 = n
  <2>1. Len(s) \in Nat
    BY DEF IsList
  <2> QED
    BY <2>1
<1>2. PICK f, last : f = Cut(s, n) /\ last = s[n + 1]
  OBVIOUS
<1>3. Front(s) = f /\ Last(s) = last
  BY <1>1, <1>2, Zenon DEF Front, Last, Cut
<1>4. Len(f) = n /\ IsList(f) /\ \A i \in 1..n : f[i] = s[i]
  BY <1>2, CutOf, Zenon
<1>5. PICK one : one = <<last>> /\ IsList(one) /\ Len(one) = 1 /\ one[1] = last
  BY Single
<1>6. PICK c : c = f \o one
  OBVIOUS
<1>7. IsList(c) /\ Len(c) = n + 1 /\ (\A i \in 1..n : c[i] = f[i]) /\ c[n + 1] = last
  <2>1. /\ IsList(c) /\ Len(c) = Len(f) + Len(one)
        /\ \A i \in 1..Len(f) : c[i] = f[i]
        /\ \A i \in 1..Len(one) : c[Len(f) + i] = one[i]
    BY <1>4, <1>5, <1>6, ConcatLists
  <2> QED
    BY <1>4, <1>5, <2>1
<1>8. \A i \in 1..(n + 1) : c[i] = s[i]
  BY <1>2, <1>4, <1>7
<1>9. c = s
  BY <1>1, <1>7, <1>8, SameLists
<1> QED
  BY <1>3, <1>5, <1>6, <1>9

\* A text with one more token generated, and with the last one fed.
LEMMA MoreGenerated ==
    ASSUME NEW p, IsList(p), NEW g, IsList(g), Len(g) >= 1, NEW v
    PROVE  /\ Front(p \o Append(g, v)) = p \o g
           /\ Front(p \o g) \o <<Last(g)>> = p \o g
<1>1. PICK n \in Nat, k \in Nat : n = Len(p) /\ k = Len(g) /\ k >= 1
  BY DEF IsList
<1>2. PICK more : more = Append(g, v)
  OBVIOUS
<1>3. IsList(more) /\ Len(more) = k + 1 /\ \A i \in 1..k : more[i] = g[i]
  BY <1>1, <1>2, AppendList
<1>4. PICK s, t : s = p \o g /\ t = p \o more
  OBVIOUS
<1>5. /\ IsList(s) /\ Len(s) = n + k /\ (\A i \in 1..n : s[i] = p[i])
      /\ \A i \in 1..k : s[n + i] = g[i]
  BY <1>1, <1>4, ConcatLists
<1>6. /\ IsList(t) /\ Len(t) = n + (k + 1) /\ (\A i \in 1..n : t[i] = p[i])
      /\ \A i \in 1..(k + 1) : t[n + i] = more[i]
  BY <1>1, <1>3, <1>4, ConcatLists
<1>7. ASSUME NEW i \in 1..(n + k) PROVE t[i] = s[i]
  <2>1. CASE i <= n
    BY <1>5, <1>6, <2>1
  <2>2. CASE i > n
    <3>1. PICK j \in 1..k : i = n + j
      <4>1. i - n \in 1..k /\ i = n + (i - n)
        BY <2>2
      <4> QED
        BY <4>1
    <3>2. j \in 1..(k + 1)
      OBVIOUS
    <3> QED
      BY <1>3, <1>5, <1>6, <3>1, <3>2
  <2> QED
    BY <2>1, <2>2
<1>8. Front(t) = s
  <2>1. Len(t) = Len(s) + 1 /\ \A i \in 1..Len(s) : t[i] = s[i]
    BY <1>5, <1>6, <1>7
  <2> QED
    BY <1>5, <1>6, <2>1, FrontOf
<1>9. Last(s) = Last(g)
  <2>1. s[n + k] = g[k]
    BY <1>1, <1>5
  <2> QED
    BY <1>1, <1>5, <2>1, Zenon DEF Last
<1>10. Front(s) \o <<Last(s)>> = s
  <2>1. Len(s) >= 1
    BY <1>1, <1>5
  <2> QED
    BY <1>5, <2>1, FrontAndLast
<1> QED
  BY <1>2, <1>4, <1>8, <1>9, <1>10, Zenon

LEMMA FirstGenerated ==
    ASSUME NEW p, IsList(p), NEW v
    PROVE  Front(p \o <<v>>) = p
<1>1. PICK n \in Nat : n = Len(p)
  BY DEF IsList
<1>2. PICK one : one = <<v>> /\ IsList(one) /\ Len(one) = 1
  BY Single
<1>3. PICK t : t = p \o one
  OBVIOUS
<1>4. IsList(t) /\ Len(t) = n + 1 /\ \A i \in 1..n : t[i] = p[i]
  BY <1>1, <1>2, <1>3, ConcatLists
<1>5. Front(t) = p
  BY <1>1, <1>4, FrontOf
<1> QED
  BY <1>2, <1>3, <1>5

\* A model that has been fed a text.
Serves(model, text) ==
    /\ IsModel(model, model.file, model.meta, Len(text)) /\ IsArch(model.meta)
    /\ IsList(text) /\ Len(text) <= model.meta.n_ctx
    /\ Shared(model.meta) =>
          Filled(Weights[model.file], model.meta, text, Len(text), model.kv)

\* What a call returned, for the last of the tokens of the text fed by then.
Answers(model, text, got) ==
    /\ IsList(got)
    /\ Shared(model.meta) =>
          \A i \in 1..Len(got) :
             got[i] = TextLogits(Weights[model.file], model.meta,
                          SubSeq(text, 1, Len(text) - Len(got) + i))

LEMMA ArchShape == \A m : IsArch(m) /\ Shared(m) => CpuShape(m)
BY Zenon DEF IsArch, CpuShape

LEMMA ArchShared == \A m : CpuShape(m) => Shared(m)
BY Zenon DEF CpuShape

\* A new model has been fed nothing.
LEMMA NewServes ==
    ASSUME NEW file, NEW meta, IsArch(meta)
    PROVE  Serves(NewCpuModel(file, meta), <<>>)
<1>1. PICK model, kv : model = NewCpuModel(file, meta) /\ kv = EmptyKv(meta)
  OBVIOUS
<1>2. model = [file |-> file, meta |-> meta, kv |-> kv, pos |-> 0]
  BY <1>1, Zenon DEF NewCpuModel
<1>3. model.file = file /\ model.meta = meta /\ model.kv = kv
  BY <1>2
<1>4. IsModel(model, model.file, model.meta, 0)
  BY <1>2, <1>3 DEF IsModel
<1>5. IsCache(meta, kv)
  <2>1. PICK entry : entry = [k |-> Zeros(meta.n_head_kv * meta.head_dim),
                              v |-> Zeros(meta.n_head_kv * meta.head_dim)]
    OBVIOUS
  <2>2. kv = [l \in 1..meta.n_layer |-> [p \in 0..(meta.n_ctx - 1) |-> entry]]
    BY <1>1, <2>1, Zenon DEF EmptyKv
  <2> QED
    BY <2>2 DEF IsCache
<1>6. Filled(Weights[file], meta, <<>>, 0, kv)
  <2>1. 0..(0 - 1) = {}
    OBVIOUS
  <2>2. \A l : FilledAt(Weights[file], meta, <<>>, l, 0, kv)
    BY <2>1, Zenon DEF FilledAt
  <2> QED
    BY <1>5, <2>2, Zenon DEF Filled
<1>7. IsList(<<>>) /\ Len(<<>>) = 0 /\ 0 <= meta.n_ctx
  BY DEF IsList, IsArch
<1>8. Serves(model, <<>>)
  BY <1>3, <1>4, <1>6, <1>7, Zenon DEF Serves
<1> QED
  BY <1>1, <1>8

\* A model that is fed goes on serving, and answers.
LEMMA FedServes ==
    ASSUME NEW model, NEW text, Serves(model, text), NEW tokens, IsList(tokens),
           ~Panics(model, tokens)
    PROVE  /\ Serves(Feed(model, tokens).model, text \o tokens)
           /\ Answers(Feed(model, tokens).model, text \o tokens, Feed(model, tokens).logits)
           /\ Len(Feed(model, tokens).logits) = Len(tokens)
<1>1. PICK file, m, w : file = model.file /\ m = model.meta /\ w = Weights[file]
  OBVIOUS
<1>2. PICK n \in Nat, c \in Nat : n = Len(text) /\ c = Len(tokens)
  BY DEF IsList, Serves
<1>3. /\ IsModel(model, file, m, n) /\ IsArch(m) /\ IsList(text) /\ n <= m.n_ctx
      /\ Shared(m) => Filled(w, m, text, n, model.kv)
  BY <1>1, <1>2, Zenon DEF Serves
<1>4. PICK all : all = text \o tokens
  OBVIOUS
<1>5. /\ IsList(all) /\ Len(all) = n + c /\ (\A i \in 1..n : all[i] = text[i])
      /\ \A i \in 1..c : all[n + i] = tokens[i]
  BY <1>2, <1>3, <1>4, ConcatLists
<1>6. n + c <= m.n_ctx
  <2>1. ~(model.pos + Len(tokens) > model.meta.n_ctx)
    BY Zenon DEF Panics
  <2>2. model.pos = n
    BY <1>3, ModelParts, Zenon
  <2>3. ~(n + c > m.n_ctx) /\ m.n_ctx \in Nat
    BY <1>1, <1>2, <1>3, <2>1, <2>2 DEF IsArch
  <2> QED
    BY <2>3
<1>7. CpuShape(m) => Filled(w, m, all, n, model.kv)
  <2>1. SUFFICES ASSUME CpuShape(m) PROVE Filled(w, m, all, n, model.kv)
    OBVIOUS
  <2>2. Filled(w, m, text, n, model.kv)
    BY <1>3, <2>1, ArchShared
  <2>3. PICK k \in Nat : k = n + c /\ n <= k
    OBVIOUS
  <2>4. Continues(all, k, text, n)
    BY <1>2, <1>5, <2>3, Zenon DEF Continues
  <2>5. m.n_layer \in Nat /\ n \in 0..n
    BY <1>3 DEF IsArch
  <2> QED
    BY <2>2, <2>4, <2>5, FilledCut
<1>8. FeedReady(file, m, all, n, c, model, tokens)
  BY <1>1, <1>2, <1>3, <1>5, <1>6, <1>7, Zenon DEF FeedReady
<1>9. PICK f : f = Feed(model, tokens)
  OBVIOUS
<1>10. FeedState(file, m, all, n, c, n + c, f)
  BY <1>8, <1>9, FeedKeeps
<1>11. PICK next, L : next = f.model /\ L = f.logits
  OBVIOUS
<1>12. /\ IsModel(next, file, m, n + c) /\ IsList(L) /\ Len(L) = c
       /\ CpuShape(m) => Filled(w, m, all, n + c, next.kv) /\ LogitsOf(w, m, all, n, c, L)
  BY <1>1, <1>10, <1>11, Zenon DEF FeedState
<1>13. next.file = file /\ next.meta = m
  BY <1>12, ModelParts, Zenon
<1>14. Serves(next, all)
  BY <1>1, <1>3, <1>5, <1>6, <1>12, <1>13, ArchShape, Zenon DEF Serves
<1>15. Answers(next, all, L)
  <2>1. ASSUME Shared(m), NEW i \in 1..c
        PROVE  L[i] = TextLogits(w, m, SubSeq(all, 1, Len(all) - Len(L) + i))
    <3>1. Len(all) - Len(L) + i = n + i
      BY <1>5, <1>12
    <3>2. LogitsOf(w, m, all, n, c, L)
      BY <1>3, <1>12, <2>1, ArchShape
    <3> QED
      BY <3>1, <3>2, Zenon DEF LogitsOf, Cut
  <2> QED
    BY <1>1, <1>12, <1>13, <2>1, Zenon DEF Answers
<1> QED
  BY <1>2, <1>4, <1>9, <1>11, <1>12, <1>14, <1>15, Zenon

LEMMA ServesIsModel ==
    ASSUME NEW model, NEW text, Serves(model, text)
    PROVE  model # NoModel
<1>1. PICK file, m, kv, pos : model = [file |-> file, meta |-> m, kv |-> kv, pos |-> pos]
  BY Zenon DEF Serves, IsModel
<1>2. DOMAIN model = {"file", "meta", "kv", "pos"} /\ DOMAIN NoModel = {"file"}
  BY <1>1 DEF NoModel
<1> QED
  BY <1>2

\* The last of the logits are those after all that was fed.
LEMMA LastAnswer ==
    ASSUME NEW model, NEW text, NEW got, Answers(model, text, got), IsList(text),
           Len(got) >= 1, Shared(model.meta)
    PROVE  Last(got) = TextLogits(Weights[model.file], model.meta, text)
<1>1. PICK c \in Nat, n \in Nat : c = Len(got) /\ n = Len(text) /\ c \in 1..c
  BY DEF Answers, IsList
<1>2. got[c] = TextLogits(Weights[model.file], model.meta, SubSeq(text, 1, n - c + c))
  BY <1>1, Zenon DEF Answers
<1>3. n - c + c = n
  OBVIOUS
<1>4. SubSeq(text, 1, n) = text
  BY <1>1, CutWhole, Zenon DEF Cut
<1> QED
  BY <1>1, <1>2, <1>3, <1>4, Zenon DEF Last

\* What is invariant.
ArgsRead == args.prompt \in Seq(Nat) /\ args.prompt # <<>> /\ args.max_tokens \in Nat

GeneratedSoFar ==
    /\ IsList(generated) /\ Len(generated) >= 1
    /\ Len(generated) <= IF args.max_tokens = 0 THEN 1 ELSE args.max_tokens
    /\ fed = Front(args.prompt \o generated) /\ ContractKept
    /\ Shared(cpu.meta) =>
          Last(generated) = BestToken(TextLogits(Weights[cpu.file], cpu.meta, fed))

ModelInv ==
    /\ cpu = NoModel => fed = <<>> /\ returned.logits = <<>>
    /\ cpu # NoModel => Serves(cpu, fed) /\ Answers(cpu, fed, returned.logits)

CpuInv ==
    /\ ModelInv
    /\ cpuPc = "start" => cpu = NoModel /\ generated = <<>>
    /\ cpuPc = "prompt" => cpu # NoModel /\ fed = <<>> /\ generated = <<>> /\ ArgsRead
    /\ cpuPc \in {"generate", "done"} => cpu # NoModel /\ ArgsRead /\ GeneratedSoFar
    /\ cpuPc = "done" => Len(generated) >= args.max_tokens

LEMMA CpuStart == CpuInit => CpuInv
BY DEF CpuInit, CpuInv, ModelInv

LEMMA FailKeeps ==
    ASSUME CpuInv, FailRun
    PROVE  CpuInv'
BY DEF CpuInv, FailRun, ModelInv

LEMMA FedKeeps ==
    ASSUME CpuInv, cpu # NoModel, NEW tokens, IsList(tokens), ~Panics(cpu, tokens),
           NEW text, Fed(tokens, text)
    PROVE  /\ ModelInv' /\ cpu' # NoModel /\ fed' = fed \o tokens
           /\ IsList(fed') /\ returned'.text = text
           /\ Len(tokens) >= 1 /\ Shared(cpu'.meta) =>
                 Last(returned'.logits) = TextLogits(Weights[cpu'.file], cpu'.meta, fed')
<1>1. Serves(cpu, fed)
  BY Zenon DEF CpuInv, ModelInv
<1>2. PICK f : /\ f = Feed(cpu, tokens) /\ cpu' = f.model /\ fed' = fed \o tokens
               /\ returned' = [text |-> text, logits |-> f.logits]
  BY Zenon DEF Fed
<1>3. /\ Serves(f.model, fed \o tokens)
      /\ Answers(f.model, fed \o tokens, f.logits)
      /\ Len(f.logits) = Len(tokens)
  BY <1>1, <1>2, FedServes, Zenon
<1>4. returned'.logits = f.logits /\ returned'.text = text
  BY <1>2
<1>5. Serves(cpu', fed') /\ Answers(cpu', fed', returned'.logits)
  BY <1>2, <1>3, <1>4, Zenon
<1>6. cpu' # NoModel
  BY <1>5, ServesIsModel
<1>7. ModelInv'
  BY <1>5, <1>6, Zenon DEF ModelInv
<1>8. IsList(fed')
  BY <1>5, Zenon DEF Serves
<1>9. ASSUME Len(tokens) >= 1, Shared(cpu'.meta)
      PROVE  Last(returned'.logits) = TextLogits(Weights[cpu'.file], cpu'.meta, fed')
  <2>1. Len(returned'.logits) >= 1
    BY <1>3, <1>4, <1>9
  <2> QED
    BY <1>5, <1>8, <1>9, <2>1, LastAnswer, Zenon
<1> QED
  BY <1>2, <1>4, <1>6, <1>7, <1>8, <1>9

\* A file just loaded.
LEMMA LoadKeeps ==
    ASSUME CpuInv, cpu = NoModel, NEW name \in DOMAIN RunFiles,
           LoadGguf(RunFiles[name]).outcome = "ok",
           cpu' = NewCpuModel(name, LoadGguf(RunFiles[name]).meta),
           UNCHANGED <<generated, fed, returned>>
    PROVE  ModelInv' /\ cpu' # NoModel /\ fed' = <<>>
<1>1. IsArch(LoadGguf(RunFiles[name]).meta)
  BY CpuAssumption, LoadedArch, Zenon
<1>2. Serves(cpu', <<>>)
  BY <1>1, NewServes, Zenon
<1>3. fed' = <<>> /\ returned'.logits = <<>>
  BY DEF CpuInv, ModelInv
<1>4. cpu' # NoModel
  BY <1>2, ServesIsModel
<1>5. Answers(cpu', <<>>, returned'.logits)
  <2>1. IsList(<<>>) /\ 1..Len(<<>>) = {}
    BY DEF IsList
  <2> QED
    BY <1>3, <2>1, Zenon DEF Answers
<1> QED
  BY <1>2, <1>3, <1>4, <1>5, Zenon DEF ModelInv

LEMMA LoadAndRunKeeps ==
    ASSUME CpuInv, NEW name \in DOMAIN RunFiles, NEW a \in RunArgs, LoadAndRun(name, a)
    PROVE  CpuInv'
<1>1. CASE FailRun
  BY <1>1, FailKeeps
<1>2. CASE ~FailRun
  <2>1. /\ ParsesArgs(a) /\ LoadGguf(RunFiles[name]).outcome = "ok" /\ cpuPc' = "prompt"
        /\ cpu' = NewCpuModel(name, LoadGguf(RunFiles[name]).meta)
        /\ UNCHANGED <<generated, fed, returned>>
    BY <1>2, Zenon DEF LoadAndRun
  <2>2. /\ cpuPc = "start"
        /\ args' = [file |-> name, prompt |-> a.prompt, max_tokens |-> a.max_tokens]
    BY Zenon DEF LoadAndRun
  <2>3. cpu = NoModel /\ generated' = <<>>
    BY <2>1, <2>2 DEF CpuInv
  <2>4. ModelInv' /\ cpu' # NoModel /\ fed' = <<>>
    BY <2>1, <2>3, LoadKeeps
  <2>5. a.prompt \in Seq(Nat) /\ a.max_tokens \in Nat /\ a.prompt # <<>>
    BY <2>1, CpuAssumption, Zenon DEF ParsesArgs
  <2>6. ArgsRead'
    BY <2>2, <2>5 DEF ArgsRead
  <2> QED
    BY <2>1, <2>3, <2>4, <2>6 DEF CpuInv
<1> QED
  BY <1>1, <1>2

LEMMA OpenModelKeeps ==
    ASSUME CpuInv, NEW name \in DOMAIN RunFiles, OpenModel(name)
    PROVE  CpuInv'
<1>1. /\ cpuPc = "api" /\ cpuPc' = "api" /\ cpu = NoModel
      /\ LoadGguf(RunFiles[name]).outcome = "ok"
      /\ cpu' = NewCpuModel(name, LoadGguf(RunFiles[name]).meta)
      /\ UNCHANGED <<generated, fed, returned>>
  BY Zenon DEF OpenModel
<1>2. ModelInv'
  BY <1>1, LoadKeeps
<1> QED
  BY <1>1, <1>2 DEF CpuInv

LEMMA ApiCallKeeps ==
    ASSUME CpuInv, NEW tokens, IsList(tokens), NEW text, ApiCall(tokens, text)
    PROVE  CpuInv'
<1>1. CASE FailRun
  BY <1>1, FailKeeps
<1>2. CASE ~FailRun
  <2>1. /\ cpuPc = "api" /\ cpu # NoModel /\ ~Panics(cpu, tokens)
        /\ Fed(tokens, text) /\ cpuPc' = cpuPc
    BY <1>2, Zenon DEF ApiCall
  <2>2. ModelInv'
    BY <2>1, FedKeeps
  <2> QED
    BY <2>1, <2>2 DEF CpuInv
<1> QED
  BY <1>1, <1>2

LEMMA NextLogitsKeeps ==
    ASSUME CpuInv, NEW context \in ApiCalls, NextLogits(context)
    PROVE  CpuInv'
<1>1. ApiCall(<<Last(context)>>, context)
  BY Zenon DEF NextLogits
<1>2. IsList(<<Last(context)>>)
  BY Single
<1> QED
  BY <1>1, <1>2, ApiCallKeeps, Zenon

LEMMA VerifyLogitsKeeps ==
    ASSUME CpuInv, NEW context \in ApiCalls, NEW drafted \in ApiCalls,
           VerifyLogits(context, drafted)
    PROVE  CpuInv'
<1>1. ApiCall(drafted, context \o drafted)
  BY Zenon DEF VerifyLogits
<1>2. drafted \in Seq(Nat)
  BY CpuAssumption
<1>3. IsList(drafted)
  BY <1>2, NumbersAreList
<1> QED
  BY <1>1, <1>3, ApiCallKeeps, Zenon

LEMMA RunPromptKeeps ==
    ASSUME CpuInv, RunPrompt
    PROVE  CpuInv'
<1>1. CASE FailRun
  BY <1>1, FailKeeps
<1>2. CASE ~FailRun
  <2>1. /\ cpuPc = "prompt" /\ ~Panics(cpu, args.prompt) /\ Fed(args.prompt, args.prompt)
        /\ generated' = <<BestToken(Last(returned'.logits))>>
        /\ cpuPc' = "generate" /\ args' = args
    BY <1>2, Zenon DEF RunPrompt
  <2>2. cpu # NoModel /\ fed = <<>> /\ ArgsRead
    BY <2>1 DEF CpuInv
  <2>3. PICK p : p = args.prompt /\ p \in Seq(Nat) /\ p # <<>>
    BY <2>2 DEF ArgsRead
  <2>4. IsList(p) /\ Len(p) >= 1
    BY <2>3, NumbersAreList
  <2>5. /\ ModelInv' /\ cpu' # NoModel /\ fed' = fed \o p /\ returned'.text = p
        /\ Shared(cpu'.meta) =>
              Last(returned'.logits) = TextLogits(Weights[cpu'.file], cpu'.meta, fed')
    BY <2>1, <2>2, <2>3, <2>4, FedKeeps
  <2>6. fed' = p
    BY <2>2, <2>3, <2>5
  <2>7. PICK v : v = BestToken(Last(returned'.logits))
    OBVIOUS
  <2>8. generated' = <<v>> /\ IsList(generated') /\ Len(generated') = 1 /\ Last(generated') = v
    <3>1. generated' = <<v>>
      BY <2>1, <2>7
    <3> QED
      BY <3>1, Single, Zenon DEF Last
  <2>9. fed' = Front(args'.prompt \o generated')
    <3>1. Front(p \o <<v>>) = p
      BY <2>4, FirstGenerated, Zenon
    <3>2. args'.prompt = p /\ generated' = <<v>>
      BY <2>1, <2>3, <2>8
    <3> QED
      BY <2>6, <3>1, <3>2, Zenon
  <2>10. Shared(cpu'.meta) =>
            Last(generated') = BestToken(TextLogits(Weights[cpu'.file], cpu'.meta, fed'))
    BY <2>5, <2>7, <2>8, Zenon
  <2>11. ArgsRead'
    BY <2>1, <2>2 DEF ArgsRead
  <2>12. /\ Len(generated') >= 1
         /\ Len(generated') <= IF args'.max_tokens = 0 THEN 1 ELSE args'.max_tokens
    BY <2>8, <2>11 DEF ArgsRead
  <2>13. GeneratedSoFar'
    BY <2>5, <2>6, <2>8, <2>9, <2>10, <2>12, Zenon DEF GeneratedSoFar, ContractKept
  <2> QED
    BY <2>1, <2>5, <2>11, <2>13 DEF CpuInv
<1> QED
  BY <1>1, <1>2

LEMMA GenerateNextKeeps ==
    ASSUME CpuInv, GenerateNext
    PROVE  CpuInv'
<1>1. CASE FailRun
  BY <1>1, FailKeeps
<1>2. CASE ~FailRun
  <2>1. /\ cpuPc = "generate" /\ Len(generated) < args.max_tokens
        /\ ~Panics(cpu, <<Last(generated)>>)
        /\ Fed(<<Last(generated)>>, args.prompt \o generated)
        /\ generated' = Append(generated, BestToken(Last(returned'.logits)))
        /\ cpuPc' = "generate" /\ args' = args
    BY <1>2, Zenon DEF GenerateNext
  <2>2. cpu # NoModel /\ ArgsRead /\ GeneratedSoFar
    BY <2>1 DEF CpuInv
  <2>3. PICK p, g, last : p = args.prompt /\ g = generated /\ last = Last(g)
    OBVIOUS
  <2>4. /\ IsList(g) /\ Len(g) >= 1 /\ fed = Front(p \o g)
        /\ p \in Seq(Nat) /\ args.max_tokens \in Nat
    BY <2>2, <2>3, Zenon DEF GeneratedSoFar, ArgsRead
  <2>5. IsList(p)
    BY <2>4, NumbersAreList
  <2>6. PICK one : one = <<last>> /\ IsList(one) /\ Len(one) >= 1
    <3>1. PICK one : one = <<last>> /\ IsList(one) /\ Len(one) = 1
      BY Single
    <3>2. Len(one) >= 1
      BY <3>1
    <3> QED
      BY <3>1, <3>2, Zenon
  <2>7. /\ ModelInv' /\ cpu' # NoModel /\ fed' = fed \o one /\ returned'.text = p \o g
        /\ Shared(cpu'.meta) =>
              Last(returned'.logits) = TextLogits(Weights[cpu'.file], cpu'.meta, fed')
    BY <2>1, <2>2, <2>3, <2>6, FedKeeps
  <2>8. PICK v : v = BestToken(Last(returned'.logits))
    OBVIOUS
  <2>9. generated' = Append(g, v)
    BY <2>1, <2>3, <2>8
  <2>10. PICK n \in Nat : n = Len(g)
    BY <2>4 DEF IsList
  <2>11. IsList(generated') /\ Len(generated') = n + 1 /\ generated'[n + 1] = v
    BY <2>4, <2>9, <2>10, AppendList
  <2>12. Last(generated') = v
    BY <2>11, Zenon DEF Last
  <2>13. fed' = p \o g
    BY <2>3, <2>4, <2>5, <2>6, <2>7, MoreGenerated
  <2>14. fed' = Front(args'.prompt \o generated')
    <3>1. Front(p \o Append(g, v)) = p \o g
      BY <2>4, <2>5, MoreGenerated, Zenon
    <3>2. args'.prompt = p
      BY <2>1, <2>3
    <3> QED
      BY <2>9, <2>13, <3>1, <3>2, Zenon
  <2>15. Shared(cpu'.meta) =>
            Last(generated') = BestToken(TextLogits(Weights[cpu'.file], cpu'.meta, fed'))
    BY <2>7, <2>8, <2>12, Zenon
  <2>16. ArgsRead'
    BY <2>1, <2>2 DEF ArgsRead
  <2>17. /\ Len(generated') >= 1
         /\ Len(generated') <= IF args'.max_tokens = 0 THEN 1 ELSE args'.max_tokens
    BY <2>1, <2>3, <2>4, <2>10, <2>11
  <2>18. GeneratedSoFar'
    BY <2>7, <2>11, <2>13, <2>14, <2>15, <2>17, Zenon DEF GeneratedSoFar, ContractKept
  <2> QED
    BY <2>1, <2>7, <2>16, <2>18 DEF CpuInv
<1> QED
  BY <1>1, <1>2

LEMMA EndRunKeeps ==
    ASSUME CpuInv, EndRun
    PROVE  CpuInv'
<1>1. /\ cpuPc = "generate" /\ Len(generated) >= args.max_tokens /\ cpuPc' = "done"
      /\ UNCHANGED <<args, cpu, generated, fed, returned>>
  BY Zenon DEF EndRun
<1>2. ModelInv /\ cpu # NoModel /\ ArgsRead /\ GeneratedSoFar
  BY <1>1, Zenon DEF CpuInv
<1>3. ModelInv' /\ cpu' # NoModel /\ ArgsRead' /\ GeneratedSoFar'
  BY <1>1, <1>2 DEF ModelInv, ArgsRead, GeneratedSoFar, ContractKept
<1> QED
  BY <1>1, <1>3 DEF CpuInv

LEMMA CpuStep == CpuInv /\ [CpuNext]_cpuVars => CpuInv'
<1>1. SUFFICES ASSUME CpuInv, [CpuNext]_cpuVars PROVE CpuInv'
  OBVIOUS
<1>2. CASE UNCHANGED cpuVars
  BY <1>1, <1>2 DEF cpuVars, CpuInv, ModelInv, ArgsRead, GeneratedSoFar, ContractKept
<1>3. ASSUME NEW name \in DOMAIN RunFiles, OpenModel(name) PROVE CpuInv'
  BY <1>1, <1>3, OpenModelKeeps
<1>4. ASSUME NEW name \in DOMAIN RunFiles, NEW a \in RunArgs, LoadAndRun(name, a) PROVE CpuInv'
  BY <1>1, <1>4, LoadAndRunKeeps
<1>5. CASE RunPrompt
  BY <1>1, <1>5, RunPromptKeeps
<1>6. CASE GenerateNext
  BY <1>1, <1>6, GenerateNextKeeps
<1>7. CASE EndRun
  BY <1>1, <1>7, EndRunKeeps
<1>8. ASSUME NEW context \in ApiCalls, NextLogits(context) PROVE CpuInv'
  BY <1>1, <1>8, NextLogitsKeeps
<1>9. ASSUME NEW context \in ApiCalls, NEW drafted \in ApiCalls, VerifyLogits(context, drafted)
      PROVE  CpuInv'
  BY <1>1, <1>9, VerifyLogitsKeeps
<1> QED
  BY <1>1, <1>2, <1>3, <1>4, <1>5, <1>6, <1>7, <1>8, <1>9, Zenon DEF CpuNext

LEMMA CpuExact == CpuInv => GenerationExact
<1>1. SUFFICES ASSUME CpuInv PROVE GenerationExact
  OBVIOUS
<1>2. ASSUME ContractKept, returned.logits # <<>>, NEW i \in DOMAIN returned.logits,
             Shared(cpu.meta)
      PROVE  returned.logits[i] =
                TextLogits(Weights[cpu.file], cpu.meta,
                           SubSeq(returned.text, 1,
                                  Len(returned.text) - Len(returned.logits) + i))
  <2>1. fed = returned.text
    BY <1>2 DEF ContractKept
  <2>2. Answers(cpu, returned.text, returned.logits)
    BY <1>1, <1>2, <2>1, Zenon DEF CpuInv, ModelInv
  <2>3. i \in 1..Len(returned.logits)
    <3>1. PICK L : L = returned.logits
      OBVIOUS
    <3>2. IsList(L)
      BY <2>2, <3>1, Zenon DEF Answers
    <3>3. DOMAIN L = 1..Len(L)
      BY <3>2 DEF IsList
    <3> QED
      BY <1>2, <3>1, <3>3
  <2> QED
    BY <1>2, <2>2, <2>3, Zenon DEF Answers
<1>3. ASSUME cpuPc \in {"generate", "done"}
      PROVE  /\ fed = Front(args.prompt \o generated) /\ ContractKept
             /\ Shared(cpu.meta) =>
                   Last(generated) = BestToken(TextLogits(Weights[cpu.file], cpu.meta, fed))
             /\ cpuPc = "done" =>
                   Len(generated) = IF args.max_tokens = 0 THEN 1 ELSE args.max_tokens
  <2>1. ArgsRead /\ GeneratedSoFar
    BY <1>1, <1>3, Zenon DEF CpuInv
  <2>2. ASSUME cpuPc = "done"
        PROVE  Len(generated) = IF args.max_tokens = 0 THEN 1 ELSE args.max_tokens
    <3>1. PICK n \in Nat, k \in Nat : n = Len(generated) /\ k = args.max_tokens
      BY <2>1 DEF ArgsRead, GeneratedSoFar, IsList
    <3>2. n >= k /\ n >= 1 /\ n <= IF k = 0 THEN 1 ELSE k
      BY <1>1, <2>1, <2>2, <3>1 DEF CpuInv, GeneratedSoFar
    <3> QED
      BY <3>1, <3>2
  <2> QED
    BY <2>1, <2>2, Zenon DEF GeneratedSoFar
<1> QED
  BY <1>2, <1>3, Zenon DEF GenerationExact

\* As long as its caller keeps the feed contract, LlamaCpuModel with its KV cache
\* returns what the model without a cache computes for the text of the call,
\* however the calls divide it, for every architecture with equal groups of
\* heads; and velo-run keeps the contract and generates the best token after the
\* prompt and those before it, as many as it was asked for but at least one
\* (forward_one, forward_sequence, next_logits, verify_logits).
THEOREM CachingExact == Spec => []GenerationExact
<1>1. InferenceInit => CpuInv
  BY CpuStart DEF InferenceInit
<1>2. CpuInv /\ [InferenceNext]_inferenceVars => CpuInv'
  <2>1. [InferenceNext]_inferenceVars => [CpuNext]_cpuVars
    BY DEF InferenceNext, inferenceVars
  <2> QED
    BY <2>1, CpuStep
<1>3. CpuInv => GenerationExact
  BY CpuExact
<1> QED
  BY <1>1, <1>2, <1>3, PTL DEF Spec
=============================================================================
