----------------------------- MODULE DisaggProofs -----------------------------
(***************************************************************************)
(* Proofs about the cache transfer fabric and the pool of disaggregated    *)
(* serving, for every number of nodes, blocks and reports.                 *)
(*                                                                         *)
(* That a handoff tells the truth is not inductive: a block that is still  *)
(* to be handed off must be known to be nowhere yet, and a copy in an      *)
(* inbox to have been reported.  FabricInv follows every block from its    *)
(* agent's list of jobs to the log and to one copy; PoolInv says where the *)
(* one block of run_prefill is at each of its steps, and how the turns of  *)
(* the agents stand.                                                       *)
(***************************************************************************)
EXTENDS Disagg, SequenceTheorems, FiniteSetTheorems, NaturalsLemmas

Blocks == [block_id : Nat, token_len : Nat, payload : Nat]
Remotes == [block_id : Nat, token_len : Nat, origin : Nodes, payload : Nat]
Outcomes == [block : Blocks, sent_to : Nodes \cup {NoPeer}, bytes : Nat]
TransferStats == [blocks_sent : Nat, blocks_dropped : Nat, bytes_sent : Nat]

FabricTypes ==
    /\ inboxes \in [Nodes -> Seq(Remotes)]
    /\ received \in [Nodes -> Seq(Remotes)]
    /\ jobs \in [Nodes -> Seq(Blocks)]
    /\ targets \in [Nodes -> SUBSET Nodes]
    /\ peer \in [Nodes -> Nodes \cup {NoPeer}]
    /\ log \in [Nodes -> Seq(Outcomes)]
    /\ stats \in [Nodes -> TransferStats]
    /\ blocks \in Nat

\* The blocks of the lists of jobs and of the logs are numbered without
\* repetition; a block is in one of them.
NumberedOnce ==
    /\ \A n \in Nodes : \A i \in DOMAIN jobs[n] : jobs[n][i].block_id <= blocks
    /\ \A n \in Nodes : \A i \in DOMAIN log[n] : log[n][i].block.block_id <= blocks
    /\ \A m, n \in Nodes : \A i \in DOMAIN jobs[m], j \in DOMAIN jobs[n] :
          jobs[m][i].block_id = jobs[n][j].block_id => m = n /\ i = j
    /\ \A m, n \in Nodes : \A i \in DOMAIN jobs[m], j \in DOMAIN log[n] :
          jobs[m][i].block_id # log[n][j].block.block_id
    /\ \A m, n \in Nodes : \A i \in DOMAIN log[m], j \in DOMAIN log[n] :
          log[m][i].block.block_id = log[n][j].block.block_id => m = n /\ i = j

\* A peer is selected for a block that is still to be sent, and is another
\* node; so is every node that a block was sent to.
PeersOK ==
    /\ \A n \in Nodes : peer[n] # NoPeer =>
          jobs[n] # <<>> /\ peer[n] \in targets[n] \ {n}
    /\ \A n \in Nodes : \A i \in DOMAIN log[n] : log[n][i].sent_to # n

\* The copy b at node m is the one that its origin's log reports.
IsReport(e, b, m) ==
    /\ e.sent_to = m
    /\ e.block.block_id = b.block_id
    /\ e.bytes = WireHeaderLen + b.payload
    /\ b.payload = Staged(e.block.payload)

Reported(lg, b, m) == \E k \in DOMAIN lg[b.origin] : IsReport(lg[b.origin][k], b, m)

\* A copy was reported, and is the only one in its node's inbox and among the
\* blocks its node drained.
CopiesOK ==
    /\ \A m \in Nodes : \A i \in DOMAIN inboxes[m] : Reported(log, inboxes[m][i], m)
    /\ \A m \in Nodes : \A i \in DOMAIN received[m] : Reported(log, received[m][i], m)
    /\ \A m \in Nodes : \A i, j \in DOMAIN inboxes[m] :
          inboxes[m][i].block_id = inboxes[m][j].block_id => i = j
    /\ \A m \in Nodes : \A i, j \in DOMAIN received[m] :
          received[m][i].block_id = received[m][j].block_id => i = j
    /\ \A m \in Nodes : \A i \in DOMAIN inboxes[m], j \in DOMAIN received[m] :
          inboxes[m][i].block_id # received[m][j].block_id

\* What was reported as sent has a copy where it was sent.
Has(q, id) == \E i \in DOMAIN q : q[i].block_id = id

ReportsOK ==
    \A n \in Nodes : \A k \in DOMAIN log[n] :
        LET e == log[n][k]
        IN  e.sent_to # NoPeer =>
               \/ Has(inboxes[e.sent_to], e.block.block_id)
               \/ Has(received[e.sent_to], e.block.block_id)

FabricInv ==
    /\ FabricTypes
    /\ NumberedOnce
    /\ PeersOK
    /\ CopiesOK
    /\ ReportsOK

DisaggStats == [prefill_tasks_routed : Nat, decode_tasks_dispatched : Nat,
                kv_blocks_migrated : Nat, migration_failures : Nat]

PoolTypes ==
    /\ mode \in {"fabric", "pool"} /\ pc \in {"idle", "handoff", "collect"}
    /\ prefill_cursor \in Nat /\ decode_cursor \in Nat
    /\ pool_stats \in DisaggStats
    /\ decode_tasks \in Seq(Remotes) /\ ready \in Seq(Remotes)
    /\ dispatched \in [DecodeAgents -> Nat]

\* The one block of run_prefill is with its agent, or was dropped, or is alone
\* in the inbox of the decode agent that the log of its agent names.
CallOK ==
    /\ blocks = prefill_cursor
    /\ pc # "idle" => blocks > 0
    /\ \A n \in Nodes : jobs[n] # <<>> => n = Caller /\ pc = "handoff"
    /\ pc = "handoff" => /\ targets[Caller] = DecodeAgents
                         /\ Len(jobs[Caller]) = 1 /\ jobs[Caller][1].block_id = blocks
    /\ pc # "collect" => \A n \in Nodes : inboxes[n] = <<>>

InFlight(m) ==
    /\ log[Caller] # <<>>
    /\ m \in DecodeAgents \cup {NoPeer}
    /\ \A n \in Nodes : n # m => inboxes[n] = <<>>
    /\ m # NoPeer => /\ Len(inboxes[m]) = 1
                     /\ inboxes[m][1].block_id = blocks /\ inboxes[m][1].origin = Caller

SentOK == pc = "collect" => InFlight(Last(log[Caller]).sent_to)

\* Every task routed is counted once its call is over.
CountsOK ==
    /\ pool_stats.prefill_tasks_routed =
           pool_stats.kv_blocks_migrated + pool_stats.migration_failures
           + (IF pc = "idle" THEN 0 ELSE 1)
    /\ pool_stats.kv_blocks_migrated = pool_stats.decode_tasks_dispatched + Len(ready)

AnswerOK ==
    pc = "idle" /\ blocks > 0 =>
        IF Last(log[Caller]).sent_to = NoPeer THEN decode_tasks = <<>>
        ELSE /\ Len(decode_tasks) = 1
             /\ decode_tasks[1].block_id = blocks
             /\ decode_tasks[1].origin = Caller

\* The loads of the nodes from base on, size of them, after c turns: those
\* before the next have one more than the last of them.
InTurn(load, base, size, c) ==
    \A i \in 0..(size - 1) :
        load[base + i] = load[base + size - 1] + (IF i < c % size THEN 1 ELSE 0)

PrefillLoad == [n \in PrefillAgents |-> stats[n].blocks_sent + stats[n].blocks_dropped]
PrefillTurns == IF pc = "handoff" THEN prefill_cursor - 1 ELSE prefill_cursor

TurnsOK ==
    /\ InTurn(PrefillLoad, 0, PrefillCount, PrefillTurns)
    /\ InTurn(dispatched, PrefillCount, NodeCount - PrefillCount, decode_cursor)

PoolInv == mode = "pool" => CallOK /\ SentOK /\ CountsOK /\ AnswerOK /\ TurnsOK

DisaggInv == FabricInv /\ PoolTypes /\ PoolInv

-----------------------------------------------------------------------------
(***************************************************************************)
(* Sequences.                                                              *)
(***************************************************************************)

\* What the head and the tail of a list are, when it has one.
LEMMA PopFacts ==
    ASSUME NEW S, NEW q \in Seq(S), q # <<>>
    PROVE  /\ Head(q) = q[1] /\ 1 \in DOMAIN q /\ q[1] \in S
           /\ Tail(q) \in Seq(S) /\ Len(q) \in Nat /\ Len(Tail(q)) = Len(q) - 1
           /\ \A i \in DOMAIN Tail(q) : /\ i + 1 \in DOMAIN q /\ i + 1 # 1 /\ i \in Nat
                                        /\ Tail(q)[i] = q[i + 1]
<1>1. Len(q) \in Nat /\ Len(q) >= 1 /\ Head(q) = q[1] /\ DOMAIN q = 1..Len(q)
  OBVIOUS
<1>2. /\ Tail(q) \in Seq(S) /\ Len(Tail(q)) = Len(q) - 1
      /\ \A i \in 1..Len(Tail(q)) : Tail(q)[i] = q[i + 1]
  BY HeadTailProperties
<1>3. 1 \in DOMAIN q /\ q[1] \in S
  BY <1>1
<1>4. DOMAIN Tail(q) = 1..(Len(q) - 1)
  BY <1>2
<1>5. \A i \in 1..(Len(q) - 1) : i + 1 \in 1..Len(q) /\ i + 1 # 1 /\ i \in Nat
  BY <1>1
<1> QED
  BY <1>1, <1>2, <1>3, <1>4, <1>5

\* What the elements of a list are, after one more was pushed.
LEMMA PushFacts ==
    ASSUME NEW S, NEW q \in Seq(S), NEW e \in S
    PROVE  /\ Append(q, e) \in Seq(S) /\ Append(q, e) # <<>>
           /\ Last(Append(q, e)) = e
           /\ Len(Append(q, e)) = Len(q) + 1
           /\ Len(q) \in Nat /\ Len(q) + 1 \notin DOMAIN q
           /\ \A i \in DOMAIN q : i \in DOMAIN Append(q, e) /\ Append(q, e)[i] = q[i]
           /\ Len(q) + 1 \in DOMAIN Append(q, e) /\ Append(q, e)[Len(q) + 1] = e
           /\ \A i \in DOMAIN Append(q, e) : i \in DOMAIN q \/ i = Len(q) + 1
<1>1. /\ Append(q, e) \in Seq(S) /\ Len(Append(q, e)) = Len(q) + 1
      /\ \A i \in 1..Len(q) : Append(q, e)[i] = q[i]
      /\ Append(q, e)[Len(q) + 1] = e
  BY AppendProperties
<1>2. Len(q) \in Nat /\ DOMAIN q = 1..Len(q) /\ DOMAIN Append(q, e) = 1..(Len(q) + 1)
  BY <1>1
<1>3. Append(q, e) # <<>>
  BY <1>1, <1>2, EmptySeq
<1> QED
  BY <1>1, <1>2, <1>3 DEF Last

\* The elements of two lists put together.
LEMMA JoinFacts ==
    ASSUME NEW S, NEW p \in Seq(S), NEW q \in Seq(S)
    PROVE  /\ p \o q \in Seq(S)
           /\ Len(p) \in Nat
           /\ \A i \in DOMAIN p : i \in DOMAIN (p \o q) /\ (p \o q)[i] = p[i]
           /\ \A j \in DOMAIN q : Len(p) + j \in DOMAIN (p \o q)
                                  /\ (p \o q)[Len(p) + j] = q[j]
           /\ \A k \in DOMAIN (p \o q) :
                 \/ k \in DOMAIN p /\ (p \o q)[k] = p[k]
                 \/ \E j \in DOMAIN q : k = Len(p) + j /\ (p \o q)[k] = q[j]
<1> DEFINE t == p \o q
<1>1. /\ t \in Seq(S) /\ Len(t) = Len(p) + Len(q)
      /\ Len(p) \in Nat /\ Len(q) \in Nat
      /\ DOMAIN p = 1..Len(p) /\ DOMAIN q = 1..Len(q)
      /\ DOMAIN t = 1..(Len(p) + Len(q))
      /\ \A k \in 1..(Len(p) + Len(q)) :
            t[k] = IF k <= Len(p) THEN p[k] ELSE q[k - Len(p)]
  BY ConcatProperties
<1> HIDE DEF t
<1>2. ASSUME NEW i \in DOMAIN p PROVE i \in DOMAIN t /\ t[i] = p[i]
  BY <1>1
<1>3. ASSUME NEW j \in DOMAIN q PROVE Len(p) + j \in DOMAIN t /\ t[Len(p) + j] = q[j]
  <2>1. /\ Len(p) + j \in 1..(Len(p) + Len(q)) /\ ~(Len(p) + j <= Len(p))
        /\ (Len(p) + j) - Len(p) = j
    BY <1>1
  <2> QED
    BY <1>1, <2>1
<1>4. ASSUME NEW k \in DOMAIN t
      PROVE  \/ k \in DOMAIN p /\ t[k] = p[k]
             \/ \E j \in DOMAIN q : k = Len(p) + j /\ t[k] = q[j]
  <2>1. CASE k <= Len(p)
    BY <1>1, <2>1
  <2>2. CASE k > Len(p)
    <3>1. k - Len(p) \in DOMAIN q /\ k = Len(p) + (k - Len(p)) /\ t[k] = q[k - Len(p)]
      BY <1>1, <2>2
    <3> QED
      BY <3>1, Zenon
  <2> QED
    BY <1>1, <2>1, <2>2
<1> QED
  BY <1>1, <1>2, <1>3, <1>4 DEF t

-----------------------------------------------------------------------------
(***************************************************************************)
(* The promise of a handoff follows from the invariant.                    *)
(***************************************************************************)

\* The copies at a node, those in its inbox first.
Boxed(all, m) ==
    /\ \A i \in DOMAIN inboxes[m] : i \in DOMAIN all /\ all[i] = inboxes[m][i]
    /\ \A j \in DOMAIN received[m] : \E k \in DOMAIN all : all[k] = received[m][j]
    /\ \A k \in DOMAIN all :
          \/ k \in DOMAIN inboxes[m] /\ all[k] = inboxes[m][k]
          \/ \E j \in DOMAIN received[m] :
                k = Len(inboxes[m]) + j /\ all[k] = received[m][j]
    /\ \A k \in DOMAIN all : all[k].origin \in Nodes /\ Reported(log, all[k], m)

LEMMA BoxFacts ==
    ASSUME FabricInv, NEW m \in Nodes
    PROVE  Boxed(inboxes[m] \o received[m], m)
<1> DEFINE all == inboxes[m] \o received[m]
<1> DEFINE p == inboxes[m]
           q == received[m]
<1>1. p \in Seq(Remotes) /\ q \in Seq(Remotes)
  BY DEF FabricInv, FabricTypes
<1>2. /\ \A i \in DOMAIN p : Reported(log, p[i], m)
      /\ \A j \in DOMAIN q : Reported(log, q[j], m)
  BY DEF FabricInv, CopiesOK
<1> HIDE DEF p, q
<1>3. /\ \A i \in DOMAIN p : i \in DOMAIN (p \o q) /\ (p \o q)[i] = p[i]
      /\ \A j \in DOMAIN q : Len(p) + j \in DOMAIN (p \o q)
                             /\ (p \o q)[Len(p) + j] = q[j]
      /\ \A k \in DOMAIN (p \o q) :
            \/ k \in DOMAIN p /\ (p \o q)[k] = p[k]
            \/ \E j \in DOMAIN q : k = Len(p) + j /\ (p \o q)[k] = q[j]
  BY <1>1, JoinFacts
<1>4. all = p \o q
  BY DEF p, q
<1> HIDE DEF all
<1>5. /\ \A i \in DOMAIN p : i \in DOMAIN all /\ all[i] = p[i]
      /\ \A j \in DOMAIN q : \E k \in DOMAIN all : all[k] = q[j]
      /\ \A k \in DOMAIN all :
            \/ k \in DOMAIN p /\ all[k] = p[k]
            \/ \E j \in DOMAIN q : k = Len(p) + j /\ all[k] = q[j]
  BY <1>3, <1>4, Zenon
<1>6. /\ \A i \in DOMAIN p : p[i].origin \in Nodes
      /\ \A j \in DOMAIN q : q[j].origin \in Nodes
  <2>1. \A r \in Remotes : r.origin \in Nodes
    BY DEF Remotes
  <2> QED
    BY <1>1, <2>1
<1>7. \A k \in DOMAIN all : all[k].origin \in Nodes /\ Reported(log, all[k], m)
  BY <1>2, <1>5, <1>6
<1>8. Boxed(all, m)
  BY <1>5, <1>7, Zenon DEF p, q, Boxed
<1> QED
  BY <1>8 DEF all

\* A copy of a block of the log is where the log says, and is true to it.
LEMMA CopyIsTrue ==
    ASSUME FabricInv, NEW n \in Nodes, NEW i \in DOMAIN log[n], NEW m \in Nodes,
           NEW k \in CopiesAt(m, n, log[n][i].block.block_id)
    PROVE  IsReport(log[n][i], (inboxes[m] \o received[m])[k], m)
<1> DEFINE all == inboxes[m] \o received[m]
           e == log[n][i]
<1>1. k \in DOMAIN all /\ all[k].block_id = e.block.block_id /\ all[k].origin = n
  BY DEF CopiesAt
<1>4. Reported(log, all[k], m)
  <2>1. Boxed(all, m)
    BY BoxFacts
  <2> HIDE DEF all
  <2> QED
    BY <1>1, <2>1 DEF Boxed
<1> HIDE DEF all
<1>5. PICK j \in DOMAIN log[n] : IsReport(log[n][j], all[k], m)
  BY <1>1, <1>4 DEF Reported
<1>6. j = i
  BY <1>1, <1>5 DEF IsReport, FabricInv, NumberedOnce
<1> QED
  BY <1>5, <1>6 DEF all

LEMMA FabricInvImplies == FabricInv => DeliveredOnce
<1> SUFFICES ASSUME FabricInv, NEW n \in Nodes, NEW i \in DOMAIN log[n]
             PROVE  LET e == log[n][i]
                        copies(m) == CopiesAt(m, n, e.block.block_id)
                    IN  /\ e.sent_to # n
                        /\ \A m \in Nodes \ {e.sent_to} : copies(m) = {}
                        /\ e.sent_to # NoPeer =>
                               /\ Cardinality(copies(e.sent_to)) = 1
                               /\ \A k \in copies(e.sent_to) :
                                      LET b == (inboxes[e.sent_to] \o received[e.sent_to])[k]
                                      IN  /\ e.bytes = WireHeaderLen + b.payload
                                          /\ e.block.payload <= BlockBytes =>
                                                 b.payload = e.block.payload
  BY DEF DeliveredOnce
<1> DEFINE e == log[n][i]
           copies(m) == CopiesAt(m, n, e.block.block_id)
<1>0. e \in Outcomes
  BY DEF FabricInv, FabricTypes
<1>a. e.sent_to \in Nodes \cup {NoPeer} /\ e.block \in Blocks
  BY <1>0 DEF Outcomes
<1>b. e.block.payload \in Nat /\ e.block.block_id \in Nat
  BY <1>a DEF Blocks
<1>1. e.sent_to # n
  BY DEF FabricInv, PeersOK
<1>2. \A m \in Nodes \ {e.sent_to} : copies(m) = {}
  <2> SUFFICES ASSUME NEW m \in Nodes \ {e.sent_to}, NEW k \in copies(m) PROVE FALSE
    OBVIOUS
  <2>1. IsReport(e, (inboxes[m] \o received[m])[k], m)
    BY CopyIsTrue
  <2> QED
    BY <2>1 DEF IsReport
<1>3. ASSUME e.sent_to # NoPeer
      PROVE  /\ Cardinality(copies(e.sent_to)) = 1
             /\ \A k \in copies(e.sent_to) :
                    LET b == (inboxes[e.sent_to] \o received[e.sent_to])[k]
                    IN  /\ e.bytes = WireHeaderLen + b.payload
                        /\ e.block.payload <= BlockBytes => b.payload = e.block.payload
  <2>m. PICK m \in Nodes : m = e.sent_to
    BY <1>3, <1>a
  <2> DEFINE all == inboxes[m] \o received[m]
             id == e.block.block_id
  <2>0. m \in Nodes
    OBVIOUS
  <2>1. /\ \A x \in DOMAIN inboxes[m] : x \in DOMAIN all /\ all[x] = inboxes[m][x]
        /\ \A y \in DOMAIN received[m] : \E x \in DOMAIN all : all[x] = received[m][y]
        /\ \A x \in DOMAIN all :
              \/ x \in DOMAIN inboxes[m] /\ all[x] = inboxes[m][x]
              \/ \E y \in DOMAIN received[m] :
                    x = Len(inboxes[m]) + y /\ all[x] = received[m][y]
        /\ \A x \in DOMAIN all : all[x].origin \in Nodes /\ Reported(log, all[x], m)
    <3>1. Boxed(all, m)
      BY BoxFacts
    <3> HIDE DEF all
    <3> QED
      BY <3>1 DEF Boxed
  <2>2. Has(inboxes[m], id) \/ Has(received[m], id)
    BY <1>3, <2>m DEF FabricInv, ReportsOK
  <2>a. \A x \in DOMAIN all : all[x].block_id = id => IsReport(e, all[x], m) /\ all[x].origin = n
    <3> SUFFICES ASSUME NEW x \in DOMAIN all, all[x].block_id = id
                 PROVE  IsReport(e, all[x], m) /\ all[x].origin = n
      OBVIOUS
    <3>1. Reported(log, all[x], m) /\ all[x].origin \in Nodes
      BY <2>1
    <3>2. PICK j \in DOMAIN log[all[x].origin] :
             IsReport(log[all[x].origin][j], all[x], m)
      BY <3>1 DEF Reported
    <3>3. log[all[x].origin][j].block.block_id = log[n][i].block.block_id
      BY <3>2 DEF IsReport
    <3> HIDE DEF all
    <3>4. all[x].origin = n /\ j = i
      BY <3>1, <3>3 DEF FabricInv, NumberedOnce
    <3> QED
      BY <3>2, <3>4
  <2> HIDE DEF all, id
  <2>3. PICK k \in DOMAIN all : all[k].block_id = id
    BY <2>1, <2>2 DEF Has
  <2>4. all[k].origin = n
    BY <2>3, <2>a
  <2>5. ASSUME NEW j \in DOMAIN all, all[j].block_id = id PROVE j = k
    <3>2. all[j].block_id = all[k].block_id
      BY <2>3, <2>5
    <3>3. CASE j \in DOMAIN inboxes[m] /\ all[j] = inboxes[m][j]
      <4>1. CASE k \in DOMAIN inboxes[m] /\ all[k] = inboxes[m][k]
        BY <2>0, <3>2, <3>3, <4>1 DEF FabricInv, CopiesOK
      <4>2. CASE \E y \in DOMAIN received[m] :
                    k = Len(inboxes[m]) + y /\ all[k] = received[m][y]
        BY <2>0, <3>2, <3>3, <4>2 DEF FabricInv, CopiesOK
      <4> QED
        BY <2>1, <4>1, <4>2
    <3>4. CASE \E y \in DOMAIN received[m] :
                  j = Len(inboxes[m]) + y /\ all[j] = received[m][y]
      <4>1. CASE k \in DOMAIN inboxes[m] /\ all[k] = inboxes[m][k]
        BY <2>0, <3>2, <3>4, <4>1 DEF FabricInv, CopiesOK
      <4>2. CASE \E y \in DOMAIN received[m] :
                    k = Len(inboxes[m]) + y /\ all[k] = received[m][y]
        <5>1. PICK y \in DOMAIN received[m] :
                 j = Len(inboxes[m]) + y /\ all[j] = received[m][y]
          BY <3>4
        <5>2. PICK z \in DOMAIN received[m] :
                 k = Len(inboxes[m]) + z /\ all[k] = received[m][z]
          BY <4>2
        <5>3. y = z
          BY <2>0, <3>2, <5>1, <5>2 DEF FabricInv, CopiesOK
        <5> QED
          BY <5>1, <5>2, <5>3
      <4> QED
        BY <2>1, <4>1, <4>2
    <3> QED
      BY <2>1, <3>3, <3>4
  <2>6. copies(m) = {k}
    BY <2>3, <2>4, <2>5 DEF CopiesAt, all, id
  <2>7. Cardinality(copies(m)) = 1
    BY <2>6, FS_Singleton
  <2>8. ASSUME NEW x \in copies(m)
        PROVE  /\ e.bytes = WireHeaderLen + all[x].payload
               /\ e.block.payload <= BlockBytes => all[x].payload = e.block.payload
    <3>1. IsReport(e, all[x], m)
      BY <2>0, CopyIsTrue DEF all
    <3>2. /\ e.bytes = WireHeaderLen + all[x].payload
          /\ all[x].payload = Staged(e.block.payload)
      BY <3>1 DEF IsReport
    <3>3. e.block.payload <= BlockBytes => Staged(e.block.payload) = e.block.payload
      BY <1>b, NixlAssumption DEF Staged
    <3> QED
      BY <3>2, <3>3
  <2> QED
    BY <2>7, <2>8, <2>m DEF all
<1> QED
  BY <1>1, <1>2, <1>3

-----------------------------------------------------------------------------
(***************************************************************************)
(* The steps of the fabric keep the invariant.                             *)
(***************************************************************************)

\* A new handoff brings blocks with new numbers.
LEMMA StartFabric ==
    ASSUME FabricInv, NEW n \in Nodes, NEW b \in Seq(Blocks), NEW S \in SUBSET Nodes,
           StartHandoff(n, b, S), blocks' \in Nat, blocks' >= blocks,
           \A i \in DOMAIN b : b[i].block_id > blocks /\ b[i].block_id <= blocks',
           \A i, j \in DOMAIN b : b[i].block_id = b[j].block_id => i = j
    PROVE  FabricInv'
<1>0. /\ jobs[n] = <<>>
      /\ jobs' = [jobs EXCEPT ![n] = b] /\ targets' = [targets EXCEPT ![n] = S]
      /\ UNCHANGED <<inboxes, peer, stats, log, received>>
  BY DEF StartHandoff
<1>1. /\ jobs \in [Nodes -> Seq(Blocks)] /\ targets \in [Nodes -> SUBSET Nodes]
      /\ log \in [Nodes -> Seq(Outcomes)] /\ blocks \in Nat
  BY DEF FabricInv, FabricTypes
<1>2. /\ jobs' \in [Nodes -> Seq(Blocks)] /\ jobs'[n] = b
      /\ \A x \in Nodes : x # n => jobs'[x] = jobs[x]
      /\ targets' \in [Nodes -> SUBSET Nodes]
      /\ \A x \in Nodes : x # n => targets'[x] = targets[x]
  BY <1>0, <1>1
<1>3. FabricTypes'
  BY <1>0, <1>2 DEF FabricInv, FabricTypes
<1>4. /\ \A x \in Nodes : \A i \in DOMAIN jobs[x] :
            jobs[x][i].block_id \in Nat /\ jobs[x][i].block_id <= blocks
      /\ \A x \in Nodes : \A i \in DOMAIN log[x] :
            log[x][i].block.block_id \in Nat /\ log[x][i].block.block_id <= blocks
      /\ \A i \in DOMAIN b : b[i].block_id \in Nat
  <2>1. \A x \in Nodes : \A i \in DOMAIN jobs[x] : jobs[x][i] \in Blocks
    BY <1>1
  <2>2. \A x \in Nodes : \A i \in DOMAIN log[x] : log[x][i] \in Outcomes
    BY <1>1
  <2>3. \A i \in DOMAIN b : b[i] \in Blocks
    OBVIOUS
  <2>4. /\ \A x \in Blocks : x.block_id \in Nat
        /\ \A x \in Outcomes : x.block \in Blocks
    BY DEF Blocks, Outcomes
  <2> QED
    BY <2>1, <2>2, <2>3, <2>4 DEF FabricInv, NumberedOnce
<1>5. NumberedOnce'
  <2>1. \A x \in Nodes : \A i \in DOMAIN jobs'[x] :
           \/ x = n /\ i \in DOMAIN b /\ jobs'[x][i] = b[i]
           \/ x # n /\ i \in DOMAIN jobs[x] /\ jobs'[x][i] = jobs[x][i]
    BY <1>2
  <2>2. \A x \in Nodes : \A i \in DOMAIN jobs'[x] : jobs'[x][i].block_id <= blocks'
    <3>1. \A x \in Nodes : \A i \in DOMAIN jobs[x] : jobs[x][i].block_id <= blocks'
      BY <1>1, <1>4
    <3> QED
      BY <2>1, <3>1, Zenon
  <2>3. \A x \in Nodes : \A i \in DOMAIN log'[x] : log'[x][i].block.block_id <= blocks'
    BY <1>0, <1>1, <1>4
  <2>4. ASSUME NEW x \in Nodes, NEW y \in Nodes, NEW i \in DOMAIN jobs'[x],
               NEW j \in DOMAIN jobs'[y], jobs'[x][i].block_id = jobs'[y][j].block_id
        PROVE  x = y /\ i = j
    <3>1. CASE x = n /\ y = n
      BY <2>1, <2>4, <3>1
    <3>2. CASE x # n /\ y # n
      BY <2>1, <2>4, <3>2 DEF FabricInv, NumberedOnce
    <3>3. CASE (x = n /\ y # n) \/ (x # n /\ y = n)
      BY <1>1, <1>4, <2>1, <2>4, <3>3
    <3> QED
      BY <3>1, <3>2, <3>3
  <2>5. ASSUME NEW x \in Nodes, NEW y \in Nodes, NEW i \in DOMAIN jobs'[x],
               NEW j \in DOMAIN log'[y]
        PROVE  jobs'[x][i].block_id # log'[y][j].block.block_id
    <3>1. CASE x = n
      BY <1>0, <1>1, <1>4, <2>1, <3>1
    <3>2. CASE x # n
      BY <1>0, <2>1, <3>2 DEF FabricInv, NumberedOnce
    <3> QED
      BY <3>1, <3>2
  <2>6. \A x, y \in Nodes : \A i \in DOMAIN log'[x], j \in DOMAIN log'[y] :
           log'[x][i].block.block_id = log'[y][j].block.block_id => x = y /\ i = j
    BY <1>0 DEF FabricInv, NumberedOnce
  <2> QED
    BY <2>2, <2>3, <2>4, <2>5, <2>6 DEF NumberedOnce
<1>6. PeersOK'
  BY <1>0, <1>2 DEF FabricInv, PeersOK
<1>7. CopiesOK' /\ ReportsOK'
  BY <1>0 DEF FabricInv, CopiesOK, ReportsOK
<1> QED
  BY <1>3, <1>5, <1>6, <1>7 DEF FabricInv

LEMMA SelectFabric ==
    ASSUME FabricInv, NEW n \in Nodes, Select(n), blocks' = blocks
    PROVE  FabricInv'
<1>0. /\ jobs[n] # <<>> /\ UNCHANGED <<inboxes, jobs, targets, stats, log, received>>
  BY DEF Select
<1>1. PICK p \in targets[n] \ {n} : peer' = [peer EXCEPT ![n] = p]
  BY DEF Select, BestPeers, Accepting
<1>2. peer \in [Nodes -> Nodes \cup {NoPeer}] /\ targets \in [Nodes -> SUBSET Nodes]
  BY DEF FabricInv, FabricTypes
<1>3. FabricTypes'
  BY <1>0, <1>1, <1>2 DEF FabricInv, FabricTypes
<1>4. PeersOK'
  <2>1. peer'[n] = p /\ \A x \in Nodes : x # n => peer'[x] = peer[x]
    BY <1>1, <1>2
  <2> QED
    BY <1>0, <1>1, <2>1 DEF FabricInv, PeersOK
<1>5. NumberedOnce' /\ CopiesOK' /\ ReportsOK'
  BY <1>0 DEF FabricInv, NumberedOnce, CopiesOK, ReportsOK
<1> QED
  BY <1>3, <1>4, <1>5 DEF FabricInv

\* The entries of the logs after agent n has logged e.
LoggedBy(n, e) ==
    /\ jobs' \in [Nodes -> Seq(Blocks)] /\ log' \in [Nodes -> Seq(Outcomes)]
    /\ NumberedOnce'
    /\ \A x \in Nodes : \A k \in DOMAIN log[x] : k \in DOMAIN log'[x] /\ log'[x][k] = log[x][k]
    /\ \A x \in Nodes : \A k \in DOMAIN log'[x] :
          \/ k \in DOMAIN log[x] /\ log'[x][k] = log[x][k]
          \/ x = n /\ log'[x][k] = e
    /\ \E k \in DOMAIN log'[n] : log'[n][k] = e
    /\ \A x \in Nodes : x # n => jobs'[x] = jobs[x]

\* The outcome of the first job goes to the log.
LEMMA LogFacts ==
    ASSUME FabricInv, NEW n \in Nodes, jobs[n] # <<>>, NEW e \in Outcomes,
           e.block = Head(jobs[n]), blocks' = blocks,
           jobs' = [jobs EXCEPT ![n] = Tail(@)],
           log' = [log EXCEPT ![n] = Append(@, e)]
    PROVE  LoggedBy(n, e)
<1> DEFINE j == jobs[n]
           l == log[n]
<1>1. /\ jobs \in [Nodes -> Seq(Blocks)] /\ log \in [Nodes -> Seq(Outcomes)]
      /\ j \in Seq(Blocks) /\ l \in Seq(Outcomes)
  BY DEF FabricInv, FabricTypes
<1> HIDE DEF j, l
<1>2. /\ Head(j) = j[1] /\ 1 \in DOMAIN j /\ Tail(j) \in Seq(Blocks)
      /\ \A i \in DOMAIN Tail(j) : /\ i + 1 \in DOMAIN j /\ i + 1 # 1 /\ i \in Nat
                                   /\ Tail(j)[i] = j[i + 1]
  <2>1. j # <<>>
    BY DEF j
  <2> QED
    BY <1>1, <2>1, PopFacts
<1>3. /\ Append(l, e) \in Seq(Outcomes)
      /\ Len(l) + 1 \notin DOMAIN l
      /\ \A i \in DOMAIN l : i \in DOMAIN Append(l, e) /\ Append(l, e)[i] = l[i]
      /\ Len(l) + 1 \in DOMAIN Append(l, e) /\ Append(l, e)[Len(l) + 1] = e
      /\ \A i \in DOMAIN Append(l, e) : i \in DOMAIN l \/ i = Len(l) + 1
  BY <1>1, PushFacts
<1>4. /\ jobs' \in [Nodes -> Seq(Blocks)] /\ jobs'[n] = Tail(j)
      /\ \A x \in Nodes : x # n => jobs'[x] = jobs[x]
  BY <1>1, <1>2 DEF j
<1>5. /\ log' \in [Nodes -> Seq(Outcomes)] /\ log'[n] = Append(l, e)
      /\ \A x \in Nodes : x # n => log'[x] = log[x]
  BY <1>1, <1>3 DEF l
<1>6. /\ \A x \in Nodes : \A k \in DOMAIN log[x] : k \in DOMAIN log'[x] /\ log'[x][k] = log[x][k]
      /\ \A x \in Nodes : \A k \in DOMAIN log'[x] :
            \/ k \in DOMAIN log[x] /\ log'[x][k] = log[x][k]
            \/ x = n /\ k = Len(l) + 1 /\ log'[x][k] = e
      /\ \E k \in DOMAIN log'[n] : log'[n][k] = e
  BY <1>3, <1>5 DEF l
<1>7. \A x \in Nodes : \A i \in DOMAIN jobs'[x] :
         \E k \in DOMAIN jobs[x] :
            /\ jobs'[x][i] = jobs[x][k]
            /\ x = n => k = i + 1 /\ k # 1 /\ i \in Nat
            /\ x # n => k = i
  <2> SUFFICES ASSUME NEW x \in Nodes, NEW i \in DOMAIN jobs'[x]
               PROVE  \E k \in DOMAIN jobs[x] :
                         /\ jobs'[x][i] = jobs[x][k]
                         /\ x = n => k = i + 1 /\ k # 1 /\ i \in Nat
                         /\ x # n => k = i
    OBVIOUS
  <2>1. CASE x = n
    BY <1>2, <1>4, <2>1 DEF j
  <2>2. CASE x # n
    BY <1>4, <2>2
  <2> QED
    BY <2>1, <2>2
<1>8. e.block = jobs[n][1] /\ 1 \in DOMAIN jobs[n]
  BY <1>2 DEF j
<1>9. NumberedOnce'
  <2>1. \A x \in Nodes : \A i \in DOMAIN jobs'[x] : jobs'[x][i].block_id <= blocks'
    BY <1>7 DEF FabricInv, NumberedOnce
  <2>2. \A x \in Nodes : \A i \in DOMAIN log'[x] : log'[x][i].block.block_id <= blocks'
    BY <1>6, <1>8 DEF FabricInv, NumberedOnce
  <2>3. ASSUME NEW x \in Nodes, NEW y \in Nodes, NEW i \in DOMAIN jobs'[x],
               NEW k \in DOMAIN jobs'[y], jobs'[x][i].block_id = jobs'[y][k].block_id
        PROVE  x = y /\ i = k
    <3>1. PICK a \in DOMAIN jobs[x] : /\ jobs'[x][i] = jobs[x][a]
                                      /\ x = n => a = i + 1 /\ i \in Nat
                                      /\ x # n => a = i
      BY <1>7
    <3>2. PICK b \in DOMAIN jobs[y] : /\ jobs'[y][k] = jobs[y][b]
                                      /\ y = n => b = k + 1 /\ k \in Nat
                                      /\ y # n => b = k
      BY <1>7
    <3>3. x = y /\ a = b
      BY <2>3, <3>1, <3>2 DEF FabricInv, NumberedOnce
    <3> QED
      BY <3>1, <3>2, <3>3
  <2>4. ASSUME NEW x \in Nodes, NEW y \in Nodes, NEW i \in DOMAIN jobs'[x],
               NEW k \in DOMAIN log'[y]
        PROVE  jobs'[x][i].block_id # log'[y][k].block.block_id
    <3>1. PICK a \in DOMAIN jobs[x] : jobs'[x][i] = jobs[x][a] /\ (x = n => a # 1)
      BY <1>7
    <3>2. CASE k \in DOMAIN log[y] /\ log'[y][k] = log[y][k]
      BY <3>1, <3>2 DEF FabricInv, NumberedOnce
    <3>3. CASE log'[y][k] = e
      BY <1>8, <3>1, <3>3 DEF FabricInv, NumberedOnce
    <3> QED
      BY <1>6, <3>2, <3>3
  <2>5. ASSUME NEW x \in Nodes, NEW y \in Nodes, NEW i \in DOMAIN log'[x],
               NEW k \in DOMAIN log'[y],
               log'[x][i].block.block_id = log'[y][k].block.block_id
        PROVE  x = y /\ i = k
    <3>1. CASE /\ i \in DOMAIN log[x] /\ log'[x][i] = log[x][i]
               /\ k \in DOMAIN log[y] /\ log'[y][k] = log[y][k]
      BY <2>5, <3>1 DEF FabricInv, NumberedOnce
    <3>2. CASE /\ x = n /\ i = Len(l) + 1 /\ log'[x][i] = e
               /\ k \in DOMAIN log[y] /\ log'[y][k] = log[y][k]
      BY <1>8, <2>5, <3>2 DEF FabricInv, NumberedOnce
    <3>3. CASE /\ i \in DOMAIN log[x] /\ log'[x][i] = log[x][i]
               /\ y = n /\ k = Len(l) + 1 /\ log'[y][k] = e
      BY <1>8, <2>5, <3>3 DEF FabricInv, NumberedOnce
    <3> QED
      BY <1>6, <3>1, <3>2, <3>3
  <2> QED
    BY <2>1, <2>2, <2>3, <2>4, <2>5 DEF NumberedOnce
<1> QED
  BY <1>4, <1>5, <1>6, <1>9 DEF LoggedBy

\* A report stays in the log.
LEMMA ReportStays ==
    ASSUME NEW n \in Nodes, NEW e, LoggedBy(n, e), NEW b, b.origin \in Nodes, NEW m,
           Reported(log, b, m)
    PROVE  Reported(log', b, m)
<1>1. PICK k \in DOMAIN log[b.origin] : IsReport(log[b.origin][k], b, m)
  BY DEF Reported
<1>2. k \in DOMAIN log'[b.origin] /\ log'[b.origin][k] = log[b.origin][k]
  BY DEF LoggedBy
<1> QED
  BY <1>1, <1>2 DEF Reported

\* Copies name the nodes they come from.
LEMMA CopyTypes ==
    ASSUME FabricInv
    PROVE  /\ \A m \in Nodes : \A i \in DOMAIN inboxes[m] : inboxes[m][i].origin \in Nodes
           /\ \A m \in Nodes : \A i \in DOMAIN received[m] : received[m][i].origin \in Nodes
<1>1. \A b \in Remotes : b.origin \in Nodes
  BY DEF Remotes
<1> QED
  BY <1>1 DEF FabricInv, FabricTypes

LEMMA DropFabric ==
    ASSUME FabricInv, NEW n \in Nodes, DropLocally(n), blocks' = blocks
    PROVE  FabricInv'
<1> DEFINE e == [block |-> Head(jobs[n]), sent_to |-> NoPeer, bytes |-> 0]
<1>0. /\ jobs[n] # <<>> /\ peer[n] = NoPeer
      /\ UNCHANGED <<inboxes, targets, peer, received>>
      /\ jobs' = [jobs EXCEPT ![n] = Tail(@)]
      /\ stats' = [stats EXCEPT ![n].blocks_dropped = @ + 1]
      /\ log' = [log EXCEPT ![n] = Append(@, e)]
  BY DEF DropLocally
<1>1. e \in Outcomes /\ e.block = Head(jobs[n]) /\ e.sent_to = NoPeer
  <2>1. jobs[n] \in Seq(Blocks)
    BY DEF FabricInv, FabricTypes
  <2>2. Head(jobs[n]) \in Blocks
    BY <1>0, <2>1
  <2> QED
    BY <2>2 DEF Outcomes
<1> HIDE DEF e
<1>2. LoggedBy(n, e)
  BY <1>0, <1>1, LogFacts
<1>3. FabricTypes'
  <2>1. stats \in [Nodes -> TransferStats]
    BY DEF FabricInv, FabricTypes
  <2>2. stats[n] \in TransferStats
    BY <2>1
  <2>3. [stats[n] EXCEPT !.blocks_dropped = @ + 1] \in TransferStats
    BY <2>2 DEF TransferStats
  <2>4. stats' \in [Nodes -> TransferStats]
    BY <1>0, <2>1, <2>3
  <2> QED
    BY <1>0, <1>2, <2>4 DEF FabricInv, FabricTypes, LoggedBy
<1>4. PeersOK'
  <2>1. n # NoPeer
    BY NixlAssumption
  <2>2. ASSUME NEW x \in Nodes, peer'[x] # NoPeer
        PROVE  jobs'[x] # <<>> /\ peer'[x] \in targets'[x] \ {x}
    BY <1>0, <1>2, <2>2 DEF FabricInv, PeersOK, LoggedBy
  <2>3. ASSUME NEW x \in Nodes, NEW k \in DOMAIN log'[x] PROVE log'[x][k].sent_to # x
    BY <1>1, <1>2, <2>1 DEF FabricInv, PeersOK, LoggedBy
  <2> QED
    BY <2>2, <2>3 DEF PeersOK
<1>5. CopiesOK'
  BY <1>0, <1>2, ReportStays, CopyTypes, ZenonT(40) DEF FabricInv, CopiesOK
<1>6. ReportsOK'
  <2> SUFFICES ASSUME NEW x \in Nodes, NEW k \in DOMAIN log'[x], log'[x][k].sent_to # NoPeer
               PROVE  \/ Has(inboxes[log'[x][k].sent_to], log'[x][k].block.block_id)
                      \/ Has(received[log'[x][k].sent_to], log'[x][k].block.block_id)
    BY <1>0 DEF ReportsOK
  <2>1. k \in DOMAIN log[x] /\ log'[x][k] = log[x][k]
    BY <1>1, <1>2 DEF LoggedBy
  <2> QED
    BY <2>1 DEF FabricInv, ReportsOK
<1> QED
  BY <1>2, <1>3, <1>4, <1>5, <1>6 DEF FabricInv, LoggedBy

\* A block that is still to be handed off has no copy anywhere.
LEMMA JobHasNoCopy ==
    ASSUME FabricInv, NEW n \in Nodes, NEW i \in DOMAIN jobs[n], NEW m \in Nodes
    PROVE  /\ \A k \in DOMAIN inboxes[m] : inboxes[m][k].block_id # jobs[n][i].block_id
           /\ \A k \in DOMAIN received[m] : received[m][k].block_id # jobs[n][i].block_id
<1>1. ASSUME NEW b, b.origin \in Nodes, Reported(log, b, m)
      PROVE  b.block_id # jobs[n][i].block_id
  <2>1. PICK k \in DOMAIN log[b.origin] : IsReport(log[b.origin][k], b, m)
    BY <1>1 DEF Reported
  <2> QED
    BY <1>1, <2>1 DEF IsReport, FabricInv, NumberedOnce
<1> QED
  BY <1>1, CopyTypes DEF FabricInv, CopiesOK

LEMMA ShipFabric ==
    ASSUME FabricInv, NEW n \in Nodes, Ship(n), blocks' = blocks
    PROVE  FabricInv'
<1> DEFINE b == Head(jobs[n])
           bytes == WireHeaderLen + Staged(b.payload)
           remote == [block_id |-> b.block_id, token_len |-> b.token_len, origin |-> n,
                      payload |-> Staged(b.payload)]
           m == peer[n]
           e == [block |-> b, sent_to |-> m, bytes |-> bytes]
<1>0. /\ m # NoPeer
      /\ UNCHANGED <<targets, received>>
      /\ inboxes' = [inboxes EXCEPT ![m] = Append(@, remote)]
      /\ jobs' = [jobs EXCEPT ![n] = Tail(@)]
      /\ stats' = [stats EXCEPT ![n].blocks_sent = @ + 1, ![n].bytes_sent = @ + bytes]
      /\ log' = [log EXCEPT ![n] = Append(@, e)]
      /\ peer' = [peer EXCEPT ![n] = NoPeer]
  BY DEF Ship
<1>1. m \in Nodes /\ m # n /\ jobs[n] # <<>>
  BY <1>0 DEF FabricInv, FabricTypes, PeersOK
<1>2. b \in Blocks /\ b = jobs[n][1] /\ 1 \in DOMAIN jobs[n]
  <2>1. jobs[n] \in Seq(Blocks)
    BY DEF FabricInv, FabricTypes
  <2> QED
    BY <1>1, <2>1, PopFacts
<1> HIDE DEF b, m
<1>3. Staged(b.payload) \in Nat /\ bytes \in Nat
  <2>1. b.payload \in Nat
    BY <1>2 DEF Blocks
  <2>2. Staged(b.payload) \in Nat
    BY <2>1, NixlAssumption DEF Staged
  <2> QED
    BY <2>2 DEF WireHeaderLen
<1>4. e \in Outcomes /\ e.block = b /\ e.sent_to = m /\ e.bytes = bytes
  BY <1>1, <1>2, <1>3 DEF Outcomes
<1>5. /\ remote \in Remotes /\ remote.block_id = b.block_id /\ remote.origin = n
      /\ remote.payload = Staged(b.payload)
  <2>1. b.block_id \in Nat /\ b.token_len \in Nat
    BY <1>2 DEF Blocks
  <2> QED
    BY <1>3, <2>1 DEF Remotes
<1>6. IsReport(e, remote, m)
  BY <1>4, <1>5 DEF IsReport
<1> HIDE DEF e, remote, bytes
<1>7. LoggedBy(n, e)
  BY <1>0, <1>1, <1>4, LogFacts DEF b
<1>8. /\ inboxes \in [Nodes -> Seq(Remotes)] /\ received \in [Nodes -> Seq(Remotes)]
      /\ stats \in [Nodes -> TransferStats] /\ peer \in [Nodes -> Nodes \cup {NoPeer}]
  BY DEF FabricInv, FabricTypes
<1> DEFINE box == inboxes[m]
<1>9. /\ Append(box, remote) \in Seq(Remotes)
      /\ Len(box) + 1 \notin DOMAIN box
      /\ \A i \in DOMAIN box : i \in DOMAIN Append(box, remote) /\ Append(box, remote)[i] = box[i]
      /\ Len(box) + 1 \in DOMAIN Append(box, remote)
      /\ Append(box, remote)[Len(box) + 1] = remote
      /\ \A i \in DOMAIN Append(box, remote) : i \in DOMAIN box \/ i = Len(box) + 1
  <2>1. box \in Seq(Remotes)
    BY <1>1, <1>8
  <2> HIDE DEF box
  <2> QED
    BY <1>5, <2>1, PushFacts
<1>10. /\ inboxes' \in [Nodes -> Seq(Remotes)] /\ inboxes'[m] = Append(box, remote)
       /\ \A x \in Nodes : x # m => inboxes'[x] = inboxes[x]
  BY <1>0, <1>1, <1>8, <1>9
<1>11. \A x \in Nodes : \A i \in DOMAIN inboxes'[x] :
          \/ i \in DOMAIN inboxes[x] /\ inboxes'[x][i] = inboxes[x][i]
          \/ x = m /\ i = Len(box) + 1 /\ inboxes'[x][i] = remote
  <2> SUFFICES ASSUME NEW x \in Nodes, NEW i \in DOMAIN inboxes'[x]
               PROVE  \/ i \in DOMAIN inboxes[x] /\ inboxes'[x][i] = inboxes[x][i]
                      \/ x = m /\ i = Len(box) + 1 /\ inboxes'[x][i] = remote
    OBVIOUS
  <2>1. CASE x = m
    BY <1>9, <1>10, <2>1, Zenon
  <2>2. CASE x # m
    BY <1>10, <2>2
  <2> QED
    BY <2>1, <2>2
<1>12. /\ \A x \in Nodes : \A i \in DOMAIN inboxes[x] :
             i \in DOMAIN inboxes'[x] /\ inboxes'[x][i] = inboxes[x][i]
       /\ \E i \in DOMAIN inboxes'[m] : inboxes'[m][i] = remote
  <2>1. ASSUME NEW x \in Nodes, NEW i \in DOMAIN inboxes[x]
        PROVE  i \in DOMAIN inboxes'[x] /\ inboxes'[x][i] = inboxes[x][i]
    <3>1. CASE x = m
      BY <1>9, <1>10, <3>1, Zenon
    <3>2. CASE x # m
      BY <1>10, <3>2
    <3> QED
      BY <3>1, <3>2
  <2>2. \E i \in DOMAIN inboxes'[m] : inboxes'[m][i] = remote
    BY <1>9, <1>10, Zenon
  <2> QED
    BY <2>1, <2>2
<1> HIDE DEF box
<1>13. FabricTypes'
  <2>1. stats[n] \in TransferStats
    BY <1>8
  <2>2. [stats[n] EXCEPT !.blocks_sent = @ + 1] \in TransferStats
    BY <2>1 DEF TransferStats
  <2>a. PICK f \in [Nodes -> TransferStats] : f = [stats EXCEPT ![n].blocks_sent = @ + 1]
    BY <1>8, <2>2
  <2>b. f[n] \in TransferStats
    BY <2>a
  <2>c. [f[n] EXCEPT !.bytes_sent = @ + bytes] \in TransferStats
    BY <1>3, <2>b DEF TransferStats
  <2>d. [f EXCEPT ![n].bytes_sent = @ + bytes] \in [Nodes -> TransferStats]
    BY <2>a, <2>c
  <2>e. stats' = [f EXCEPT ![n].bytes_sent = @ + bytes]
    BY <1>0, <2>a
  <2>3. stats' \in [Nodes -> TransferStats]
    BY <2>d, <2>e
  <2>4. peer' \in [Nodes -> Nodes \cup {NoPeer}]
    BY <1>0, <1>8
  <2> QED
    BY <1>0, <1>7, <1>10, <2>3, <2>4 DEF FabricInv, FabricTypes, LoggedBy
<1>14. PeersOK'
  <2>1. ASSUME NEW x \in Nodes, peer'[x] # NoPeer
        PROVE  jobs'[x] # <<>> /\ peer'[x] \in targets'[x] \ {x}
    <3>1. x # n /\ peer'[x] = peer[x]
      BY <1>0, <1>8, <2>1
    <3> QED
      BY <1>0, <1>7, <2>1, <3>1 DEF FabricInv, PeersOK, LoggedBy
  <2>2. ASSUME NEW x \in Nodes, NEW k \in DOMAIN log'[x] PROVE log'[x][k].sent_to # x
    BY <1>1, <1>4, <1>7 DEF FabricInv, PeersOK, LoggedBy
  <2> QED
    BY <2>1, <2>2 DEF PeersOK
<1>15. CopiesOK'
  <2>1. ASSUME NEW x \in Nodes, NEW i \in DOMAIN inboxes'[x]
        PROVE  Reported(log', inboxes'[x][i], x)
    <3>1. CASE i \in DOMAIN inboxes[x] /\ inboxes'[x][i] = inboxes[x][i]
      BY <1>7, <3>1, ReportStays, CopyTypes DEF FabricInv, CopiesOK
    <3>2. CASE x = m /\ inboxes'[x][i] = remote
      <4>1. \E k \in DOMAIN log'[n] : log'[n][k] = e
        BY <1>7 DEF LoggedBy
      <4> QED
        BY <1>5, <1>6, <3>2, <4>1 DEF Reported
    <3> QED
      BY <1>11, <3>1, <3>2
  <2>2. ASSUME NEW x \in Nodes, NEW i \in DOMAIN received[x]
        PROVE  Reported(log', received[x][i], x)
    BY <1>7, ReportStays, CopyTypes DEF FabricInv, CopiesOK
  <2>3. /\ \A k \in DOMAIN inboxes[m] : inboxes[m][k].block_id # remote.block_id
        /\ \A k \in DOMAIN received[m] : received[m][k].block_id # remote.block_id
    BY <1>1, <1>2, <1>5, JobHasNoCopy
  <2>4. ASSUME NEW x \in Nodes, NEW i \in DOMAIN inboxes'[x], NEW j \in DOMAIN inboxes'[x],
               inboxes'[x][i].block_id = inboxes'[x][j].block_id
        PROVE  i = j
    BY <1>11, <2>3, <2>4 DEF FabricInv, CopiesOK
  <2>5. ASSUME NEW x \in Nodes, NEW i \in DOMAIN inboxes'[x], NEW j \in DOMAIN received[x]
        PROVE  inboxes'[x][i].block_id # received[x][j].block_id
    BY <1>11, <2>3 DEF FabricInv, CopiesOK
  <2>6. \A x \in Nodes : \A i, j \in DOMAIN received[x] :
           received[x][i].block_id = received[x][j].block_id => i = j
    BY DEF FabricInv, CopiesOK
  <2>7. received' = received
    BY <1>0
  <2>8. \A x \in Nodes : \A i \in DOMAIN received'[x] : Reported(log', received'[x][i], x)
    BY <2>2, <2>7, Zenon
  <2>9. /\ \A x \in Nodes : \A i, j \in DOMAIN received'[x] :
              received'[x][i].block_id = received'[x][j].block_id => i = j
        /\ \A x \in Nodes : \A i \in DOMAIN inboxes'[x], j \in DOMAIN received'[x] :
              inboxes'[x][i].block_id # received'[x][j].block_id
    BY <2>5, <2>6, <2>7, Zenon
  <2> QED
    BY <2>1, <2>4, <2>8, <2>9, Zenon DEF CopiesOK
<1>16. ReportsOK'
  <2> SUFFICES ASSUME NEW x \in Nodes, NEW k \in DOMAIN log'[x], log'[x][k].sent_to # NoPeer
               PROVE  \/ Has(inboxes'[log'[x][k].sent_to], log'[x][k].block.block_id)
                      \/ Has(received[log'[x][k].sent_to], log'[x][k].block.block_id)
    BY <1>0 DEF ReportsOK
  <2>1. CASE k \in DOMAIN log[x] /\ log'[x][k] = log[x][k]
    <3>1. log[x][k].sent_to \in Nodes
      <4>1. log[x][k] \in Outcomes
        BY <2>1 DEF FabricInv, FabricTypes
      <4> QED
        BY <2>1, <4>1 DEF Outcomes
    <3>2. \/ Has(inboxes[log[x][k].sent_to], log[x][k].block.block_id)
          \/ Has(received[log[x][k].sent_to], log[x][k].block.block_id)
      BY <2>1 DEF FabricInv, ReportsOK
    <3> QED
      BY <1>12, <2>1, <3>1, <3>2 DEF Has
  <2>2. CASE log'[x][k] = e
    BY <1>4, <1>5, <1>12, <2>2 DEF Has
  <2> QED
    BY <1>7, <2>1, <2>2 DEF LoggedBy
<1> QED
  BY <1>7, <1>13, <1>14, <1>15, <1>16 DEF FabricInv, LoggedBy

\* Some nodes drain their inboxes.
DrainAll(D) ==
    /\ inboxes' = [n \in Nodes |-> IF n \in D THEN <<>> ELSE inboxes[n]]
    /\ received' = [n \in Nodes |-> IF n \in D THEN received[n] \o inboxes[n] ELSE received[n]]

LEMMA DrainFabric ==
    ASSUME FabricInv, NEW D \in SUBSET Nodes, DrainAll(D),
           UNCHANGED <<jobs, targets, peer, stats, log, blocks>>
    PROVE  FabricInv'
<1>1. inboxes \in [Nodes -> Seq(Remotes)] /\ received \in [Nodes -> Seq(Remotes)]
  BY DEF FabricInv, FabricTypes
<1>2. /\ \A x \in Nodes : x \in D => inboxes'[x] = <<>> /\ received'[x] = received[x] \o inboxes[x]
      /\ \A x \in Nodes : x \notin D => inboxes'[x] = inboxes[x] /\ received'[x] = received[x]
  BY DEF DrainAll
<1>3. ASSUME NEW x \in D
      PROVE  /\ received'[x] \in Seq(Remotes)
             /\ Len(received[x]) \in Nat
             /\ \A i \in DOMAIN received[x] :
                   i \in DOMAIN received'[x] /\ received'[x][i] = received[x][i]
             /\ \A j \in DOMAIN inboxes[x] :
                   /\ Len(received[x]) + j \in DOMAIN received'[x]
                   /\ received'[x][Len(received[x]) + j] = inboxes[x][j]
             /\ \A k \in DOMAIN received'[x] :
                   \/ k \in DOMAIN received[x] /\ received'[x][k] = received[x][k]
                   \/ \E j \in DOMAIN inboxes[x] :
                         k = Len(received[x]) + j /\ received'[x][k] = inboxes[x][j]
  <2> DEFINE p == received[x]
             q == inboxes[x]
  <2>1. p \in Seq(Remotes) /\ q \in Seq(Remotes) /\ received'[x] = p \o q
    BY <1>1, <1>2
  <2> HIDE DEF p, q
  <2>2. /\ p \o q \in Seq(Remotes)
        /\ Len(p) \in Nat
        /\ \A i \in DOMAIN p : i \in DOMAIN (p \o q) /\ (p \o q)[i] = p[i]
        /\ \A j \in DOMAIN q : Len(p) + j \in DOMAIN (p \o q)
                               /\ (p \o q)[Len(p) + j] = q[j]
        /\ \A k \in DOMAIN (p \o q) :
              \/ k \in DOMAIN p /\ (p \o q)[k] = p[k]
              \/ \E j \in DOMAIN q : k = Len(p) + j /\ (p \o q)[k] = q[j]
    BY <2>1, JoinFacts
  <2> QED
    BY <2>1, <2>2, Zenon DEF p, q
<1>4. FabricTypes'
  <2>1. received' \in [Nodes -> Seq(Remotes)]
    BY <1>1, <1>2, <1>3 DEF DrainAll
  <2>2. inboxes' \in [Nodes -> Seq(Remotes)]
    BY <1>1, EmptySeq DEF DrainAll
  <2> QED
    BY <2>1, <2>2 DEF FabricInv, FabricTypes
<1>5. NumberedOnce' /\ PeersOK'
  BY DEF FabricInv, NumberedOnce, PeersOK
<1>6. CopiesOK'
  <2>1. ASSUME NEW x \in Nodes
        PROVE  /\ \A i \in DOMAIN inboxes'[x] : Reported(log, inboxes'[x][i], x)
               /\ \A i \in DOMAIN received'[x] : Reported(log, received'[x][i], x)
               /\ \A i, j \in DOMAIN inboxes'[x] :
                     inboxes'[x][i].block_id = inboxes'[x][j].block_id => i = j
               /\ \A i, j \in DOMAIN received'[x] :
                     received'[x][i].block_id = received'[x][j].block_id => i = j
               /\ \A i \in DOMAIN inboxes'[x], j \in DOMAIN received'[x] :
                     inboxes'[x][i].block_id # received'[x][j].block_id
    <3>1. CASE x \notin D
      BY <1>2, <3>1 DEF FabricInv, CopiesOK
    <3>2. CASE x \in D
      <4>1. \A i \in DOMAIN inboxes'[x] : FALSE
        <5>1. inboxes'[x] = <<>>
          BY <1>2, <3>2
        <5>2. <<>> \in Seq(Remotes) /\ Len(<<>>) = 0
          OBVIOUS
        <5> QED
          BY <5>1, <5>2
      <4>2. \A i \in DOMAIN received'[x] : Reported(log, received'[x][i], x)
        BY <1>3, <3>2 DEF FabricInv, CopiesOK
      <4>3. ASSUME NEW i \in DOMAIN received'[x], NEW j \in DOMAIN received'[x],
                   received'[x][i].block_id = received'[x][j].block_id
            PROVE  i = j
        BY <1>3, <3>2, <4>3 DEF FabricInv, CopiesOK
      <4> QED
        BY <4>1, <4>2, <4>3
    <3> QED
      BY <3>1, <3>2
  <2> QED
    BY <2>1 DEF CopiesOK
<1>7. ReportsOK'
  <2>1. ASSUME NEW x \in Nodes, NEW id, Has(inboxes[x], id) \/ Has(received[x], id)
        PROVE  Has(inboxes'[x], id) \/ Has(received'[x], id)
    <3>1. CASE x \notin D
      BY <1>2, <2>1, <3>1 DEF Has
    <3>2. CASE x \in D
      BY <1>3, <2>1, <3>2 DEF Has
    <3> QED
      BY <3>1, <3>2
  <2> SUFFICES ASSUME NEW x \in Nodes, NEW k \in DOMAIN log[x], log[x][k].sent_to # NoPeer
               PROVE  \/ Has(inboxes'[log[x][k].sent_to], log[x][k].block.block_id)
                      \/ Has(received'[log[x][k].sent_to], log[x][k].block.block_id)
    BY DEF ReportsOK
  <2>2. log[x][k].sent_to \in Nodes
    <3>1. log[x][k] \in Outcomes
      BY DEF FabricInv, FabricTypes
    <3> QED
      BY <3>1 DEF Outcomes
  <2> QED
    BY <2>1, <2>2 DEF FabricInv, ReportsOK
<1> QED
  BY <1>4, <1>5, <1>6, <1>7 DEF FabricInv

-----------------------------------------------------------------------------
(***************************************************************************)
(* What run_prefill collects.                                              *)
(***************************************************************************)

\* Of an empty inbox nothing, of one with a single block of the request all.
LEMMA OfRequestFacts ==
    ASSUME NEW id
    PROVE  /\ OfRequest(<<>>, id) = <<>>
           /\ \A b \in Remotes : b.block_id = id => OfRequest(<<b>>, id) = <<b>>
<1>1. ASSUME NEW q \in Seq(Remotes), Len(q) <= 1, \A i \in DOMAIN q : q[i].block_id = id
      PROVE  OfRequest(q, id) = q
  <2> DEFINE n == Len(q)
             k == CHOOSE k : k = [i \in 0..n |->
                     IF i = 0 THEN <<>>
                     ELSE IF q[i].block_id = id THEN Append(k[i - 1], q[i])
                     ELSE k[i - 1]]
             g == [i \in 0..n |-> IF i = 0 THEN <<>> ELSE q]
  <2>1. OfRequest(q, id) = k[n]
    BY DEF OfRequest
  <2>2. n \in 0..1 /\ 0 \in 0..n /\ \A i \in 0..n : i # 0 => i = 1 /\ n = 1 /\ i \in DOMAIN q
    <3>1. n \in Nat /\ n <= 1 /\ DOMAIN q = 1..n
      BY <1>1
    <3> HIDE DEF n
    <3> QED
      BY <3>1
  <2>3. n = 1 => Append(<<>>, q[1]) = q
    BY <1>1
  <2>4. n = 0 => q = <<>>
    BY <1>1, EmptySeq
  <2> HIDE DEF n
  <2>a. g[0] = <<>> /\ \A i \in 0..n : i # 0 => g[i] = q
    BY <2>2
  <2>b. g = [i \in 0..n |-> g[i]]
    OBVIOUS
  <2> HIDE DEF g
  <2>5. \A i \in 0..n : g[i] = IF i = 0 THEN <<>>
                               ELSE IF q[i].block_id = id THEN Append(g[i - 1], q[i])
                               ELSE g[i - 1]
    <3>1. ASSUME NEW i \in 0..n, i # 0
          PROVE  q[i].block_id = id /\ Append(g[i - 1], q[i]) = q /\ g[i] = q
      <4>1. i = 1 /\ n = 1 /\ i \in DOMAIN q /\ i - 1 = 0
        BY <2>2, <3>1
      <4> QED
        BY <1>1, <2>3, <2>a, <3>1, <4>1
    <3> QED
      BY <2>a, <3>1, Zenon
  <2>6. g = [i \in 0..n |-> IF i = 0 THEN <<>>
                            ELSE IF q[i].block_id = id THEN Append(g[i - 1], q[i])
                            ELSE g[i - 1]]
    BY <2>5, <2>b, Zenon
  <2>7. k = [i \in 0..n |-> IF i = 0 THEN <<>>
                            ELSE IF q[i].block_id = id THEN Append(k[i - 1], q[i])
                            ELSE k[i - 1]]
    BY <2>6, Zenon
  <2> HIDE DEF k
  <2>8. CASE n = 0
    BY <2>1, <2>2, <2>4, <2>7, <2>8
  <2>9. CASE n = 1
    <3>1. k[0] = <<>>
      BY <2>2, <2>7
    <3>2. 1 \in 0..n /\ 1 # 0 /\ 1 - 1 = 0 /\ q[1].block_id = id
      BY <1>1, <2>2, <2>9
    <3>3. k[1] = Append(k[1 - 1], q[1])
      BY <2>7, <3>2, Zenon
    <3> QED
      BY <2>1, <2>3, <2>9, <3>1, <3>2, <3>3
  <2> QED
    BY <2>2, <2>8, <2>9
<1>2. OfRequest(<<>>, id) = <<>>
  <2>1. <<>> \in Seq(Remotes) /\ Len(<<>>) <= 1 /\ \A i \in DOMAIN <<>> : FALSE
    OBVIOUS
  <2> QED
    BY <1>1, <2>1, Zenon
<1>3. ASSUME NEW b \in Remotes, b.block_id = id PROVE OfRequest(<<b>>, id) = <<b>>
  <2>1. /\ <<b>> \in Seq(Remotes) /\ Len(<<b>>) <= 1
        /\ \A i \in DOMAIN <<b>> : <<b>>[i].block_id = id
    BY <1>3
  <2> QED
    BY <1>1, <2>1, Zenon
<1> QED
  BY <1>2, <1>3

\* With one block of the request in one inbox of the decode pool, or in none,
\* what is collected is that block, or nothing.
LEMMA CollectedFacts ==
    ASSUME NEW boxes, NEW id, NEW m,
           \A x \in DecodeAgents : x # m => boxes[x] = <<>>
    PROVE  /\ m \notin DecodeAgents => Collected(boxes, id) = <<>>
           /\ \A b \in Remotes : m \in DecodeAgents /\ boxes[m] = <<b>> /\ b.block_id = id
                                 => Collected(boxes, id) = <<b>>
<1> DEFINE n == NodeCount - PrefillCount
           box(i) == OfRequest(boxes[PrefillCount + i - 1], id)
           f == CHOOSE f : f = [i \in 0..n |-> IF i = 0 THEN <<>> ELSE f[i - 1] \o box(i)]
<1>1. Collected(boxes, id) = f[n]
  BY DEF Collected
<1>2. /\ n \in Nat /\ PrefillCount \in Nat
      /\ \A i \in 1..n : PrefillCount + i - 1 \in DecodeAgents
      /\ m \in DecodeAgents => m - PrefillCount + 1 \in 1..n
      /\ \A i \in 1..n : PrefillCount + i - 1 = m => i = m - PrefillCount + 1
      /\ m \in DecodeAgents => PrefillCount + (m - PrefillCount + 1) - 1 = m
  BY DisaggAssumption, NixlAssumption DEF DecodeAgents
<1>3. ASSUME NEW g, g = [i \in 0..n |-> g[i]], g[0] = <<>>, \A i \in 1..n : g[i] = g[i - 1] \o box(i)
      PROVE  Collected(boxes, id) = g[n]
  <2> HIDE DEF n, box
  <2>1. \A i \in 0..n : i # 0 => i \in 1..n
    BY <1>2
  <2>2. \A i \in 0..n : g[i] = IF i = 0 THEN <<>> ELSE g[i - 1] \o box(i)
    BY <1>3, <2>1, Zenon
  <2>3. g = [i \in 0..n |-> IF i = 0 THEN <<>> ELSE g[i - 1] \o box(i)]
    BY <1>3, <2>2, Zenon
  <2>4. f = [i \in 0..n |-> IF i = 0 THEN <<>> ELSE f[i - 1] \o box(i)]
    BY <2>3, Zenon
  <2> HIDE DEF f
  <2> DEFINE S == {i \in 0..n : f[i] = g[i]}
  <2>5. S = 0..n
    <3>1. S \in SUBSET (0..n) /\ 0 \in S
      <4>1. 0 \in 0..n
        BY <1>2
      <4> QED
        BY <1>3, <2>4, <4>1
    <3>2. ASSUME NEW i \in 1..n, i - 1 \in S PROVE i \in S
      <4>1. i \in 0..n /\ i # 0
        BY <1>2
      <4>2. f[i] = f[i - 1] \o box(i)
        BY <2>4, <4>1, Zenon
      <4>3. f[i - 1] = g[i - 1]
        BY <3>2
      <4>4. f[i] = g[i]
        BY <1>3, <4>2, <4>3, Zenon
      <4> QED
        BY <4>1, <4>4
    <3> HIDE DEF S
    <3> QED
      BY <1>2, <3>1, <3>2, IntervalInduction
  <2>6. n \in S
    <3>1. n \in 0..n
      BY <1>2
    <3> HIDE DEF S
    <3> QED
      BY <2>5, <3>1
  <2> QED
    BY <1>1, <2>6
<1>4. \A i \in 1..n : PrefillCount + i - 1 # m => box(i) = <<>>
  <2> SUFFICES ASSUME NEW i \in 1..n, PrefillCount + i - 1 # m PROVE box(i) = <<>>
    OBVIOUS
  <2>1. boxes[PrefillCount + i - 1] = <<>>
    BY <1>2
  <2> QED
    BY <2>1, OfRequestFacts
<1>5. ASSUME m \notin DecodeAgents PROVE Collected(boxes, id) = <<>>
  <2>1. \A i \in 1..n : box(i) = <<>>
    BY <1>2, <1>4, <1>5
  <2> DEFINE g == [i \in 0..n |-> <<>>]
  <2>2. /\ g[0] = <<>> /\ g[n] = <<>> /\ g = [i \in 0..n |-> g[i]]
        /\ \A i \in 1..n : g[i] = <<>> /\ g[i - 1] = <<>>
    BY <1>2
  <2> HIDE DEF g, n, box
  <2>3. <<>> \o <<>> = <<>>
    OBVIOUS
  <2>4. \A i \in 1..n : g[i] = g[i - 1] \o box(i)
    BY <2>1, <2>2, <2>3, Zenon
  <2>5. Collected(boxes, id) = g[n]
    BY <1>3, <2>2, <2>4, Zenon
  <2> QED
    BY <2>2, <2>5
<1>6. ASSUME NEW b \in Remotes, m \in DecodeAgents, boxes[m] = <<b>>, b.block_id = id
      PROVE  Collected(boxes, id) = <<b>>
  <2> DEFINE k == m - PrefillCount + 1
  <2>1. k \in 1..n /\ PrefillCount + k - 1 = m
    BY <1>2, <1>6
  <2>2. box(k) = <<b>>
    <3>1. OfRequest(<<b>>, id) = <<b>>
      BY <1>6, OfRequestFacts
    <3> HIDE DEF k
    <3> QED
      BY <1>6, <2>1, <3>1
  <2>3. \A i \in 1..n : i # k => box(i) = <<>>
    BY <1>2, <1>4
  <2> DEFINE g == [i \in 0..n |-> IF i < k THEN <<>> ELSE <<b>>]
  <2> HIDE DEF k, box
  <2>4. /\ g[0] = <<>> /\ g[n] = <<b>> /\ g = [i \in 0..n |-> g[i]]
        /\ \A i \in 1..n : i < k => g[i] = <<>> /\ g[i - 1] = <<>>
        /\ \A i \in 1..n : i = k => g[i] = <<b>> /\ g[i - 1] = <<>>
        /\ \A i \in 1..n : i > k => g[i] = <<b>> /\ g[i - 1] = <<b>>
    <3> HIDE DEF n
    <3> QED
      BY <1>2, <2>1
  <2> HIDE DEF g, n
  <2>5. <<>> \o <<>> = <<>> /\ <<>> \o <<b>> = <<b>> /\ <<b>> \o <<>> = <<b>>
    <3>1. <<b>> \in Seq(Remotes)
      OBVIOUS
    <3> HIDE DEF k
    <3>2. PICK s \in Seq(Remotes) : s = <<b>>
      BY <3>1
    <3>3. <<>> \o s = s /\ s \o <<>> = s
      BY ConcatEmptySeq
    <3> QED
      BY <3>2, <3>3
  <2>6. ASSUME NEW i \in 1..n PROVE g[i] = g[i - 1] \o box(i)
    <3>1. i < k \/ i = k \/ i > k
      BY <1>2, <2>1
    <3>2. CASE i < k
      <4>1. i # k
        BY <1>2, <2>1, <3>2
      <4> QED
        BY <2>3, <2>4, <2>5, <3>2, <4>1, Zenon
    <3>3. CASE i = k
      BY <2>2, <2>4, <2>5, <3>3, Zenon
    <3>4. CASE i > k
      <4>1. i # k
        BY <1>2, <2>1, <3>4
      <4> QED
        BY <2>3, <2>4, <2>5, <3>4, <4>1, Zenon
    <3> QED
      BY <3>1, <3>2, <3>3, <3>4
  <2>7. Collected(boxes, id) = g[n]
    BY <1>3, <2>4, <2>6, Zenon
  <2> QED
    BY <2>4, <2>7
<1> QED
  BY <1>5, <1>6

-----------------------------------------------------------------------------
(***************************************************************************)
(* Turns.                                                                  *)
(***************************************************************************)

\* One more for the node whose turn it is.
LEMMA TurnTaken ==
    ASSUME NEW base \in Nat, NEW size \in Nat, size > 0, NEW c \in Nat, NEW f, NEW g,
           \A i \in 0..(size - 1) : f[base + i] \in Nat,
           InTurn(f, base, size, c),
           g[base + (c % size)] = f[base + (c % size)] + 1,
           \A i \in 0..(size - 1) : i # c % size => g[base + i] = f[base + i]
    PROVE  InTurn(g, base, size, c + 1)
<1> DEFINE r == c % size
           s == (c + 1) % size
<1>1. r \in 0..(size - 1) /\ s = IF r + 1 = size THEN 0 ELSE r + 1
  BY ModStep
<1>2. \A i \in 0..(size - 1) : f[base + i] = f[base + size - 1] + (IF i < r THEN 1 ELSE 0)
  BY DEF InTurn
<1>3. g[base + r] = f[base + r] + 1 /\ \A i \in 0..(size - 1) : i # r => g[base + i] = f[base + i]
  OBVIOUS
<1> SUFFICES \A i \in 0..(size - 1) : g[base + i] = g[base + size - 1] + (IF i < s THEN 1 ELSE 0)
  BY DEF InTurn
<1> HIDE DEF r, s
<1>4. size - 1 \in 0..(size - 1) /\ base + (size - 1) = base + size - 1
  OBVIOUS
<1>5. f[base + size - 1] \in Nat
  BY <1>4
<1>6. CASE r + 1 = size
  <2>1. s = 0 /\ r = size - 1
    BY <1>1, <1>6
  <2>2. g[base + size - 1] = f[base + size - 1] + 1
    BY <1>3, <1>4, <2>1
  <2> TAKE i \in 0..(size - 1)
  <2>3. CASE i = r
    BY <1>4, <1>5, <2>1, <2>2, <2>3
  <2>4. CASE i # r
    <3>1. g[base + i] = f[base + i] /\ i < r /\ ~(i < s)
      BY <1>3, <2>1, <2>4
    <3>2. f[base + i] = f[base + size - 1] + 1
      BY <1>2, <3>1
    <3> QED
      BY <1>5, <2>2, <3>1, <3>2
  <2> QED
    BY <2>3, <2>4
<1>7. CASE r + 1 # size
  <2>1. s = r + 1 /\ size - 1 # r
    BY <1>1, <1>7
  <2>2. g[base + size - 1] = f[base + size - 1]
    BY <1>3, <1>4, <2>1
  <2> TAKE i \in 0..(size - 1)
  <2>3. CASE i = r
    <3>1. f[base + i] = f[base + size - 1] + 0 /\ i < s
      BY <1>1, <1>2, <2>1, <2>3
    <3> QED
      BY <1>3, <1>5, <2>2, <2>3, <3>1
  <2>4. CASE i # r
    <3>1. g[base + i] = f[base + i] /\ (i < r <=> i < s)
      BY <1>1, <1>3, <2>1, <2>4
    <3> QED
      BY <1>2, <2>2, <3>1
  <2> QED
    BY <2>3, <2>4
<1> QED
  BY <1>6, <1>7

\* Loads that are taken in turn differ by at most one.
LEMMA TurnsSpread ==
    ASSUME NEW base \in Nat, NEW size \in Nat, NEW c, NEW f, size > 0,
           f \in [base..(base + size - 1) -> Nat], InTurn(f, base, size, c)
    PROVE  Spread(f)
<1>1. f[base + size - 1] \in Nat
  OBVIOUS
<1>2. ASSUME NEW m \in base..(base + size - 1)
      PROVE  f[m] \in f[base + size - 1]..(f[base + size - 1] + 1)
  <2>1. m - base \in 0..(size - 1) /\ base + (m - base) = m
    OBVIOUS
  <2>2. f[m] = f[base + size - 1] + (IF m - base < c % size THEN 1 ELSE 0)
    BY <2>1 DEF InTurn
  <2> QED
    BY <1>1, <2>2
<1>3. DOMAIN f = base..(base + size - 1)
  OBVIOUS
<1> QED
  BY <1>1, <1>2, <1>3 DEF Spread

-----------------------------------------------------------------------------
(***************************************************************************)
(* The pool.                                                               *)
(***************************************************************************)

\* The nodes are divided between the pools.
LEMMA PoolNodes ==
    /\ PrefillCount \in Nat /\ PrefillCount > 0
    /\ NodeCount - PrefillCount \in Nat /\ NodeCount - PrefillCount > 0
    /\ PrefillAgents \subseteq Nodes /\ DecodeAgents \subseteq Nodes
    /\ \A n \in PrefillAgents : n \notin DecodeAgents
    /\ NoPeer \notin Nodes
BY DisaggAssumption, NixlAssumption DEF PrefillAgents, DecodeAgents, Nodes

LEMMA Cursors ==
    ASSUME PoolTypes
    PROVE  /\ Caller \in PrefillAgents /\ Caller \in Nodes
           /\ PrefillIdx \in PrefillAgents /\ PrefillIdx \in Nodes
           /\ DecodeIdx \in DecodeAgents
<1>1. prefill_cursor \in Nat /\ decode_cursor \in Nat
  BY DEF PoolTypes
<1>2. \A c \in Int, s \in Nat : s > 0 => c % s \in 0..(s - 1)
  OBVIOUS
<1>3. Caller \in PrefillAgents /\ PrefillIdx \in PrefillAgents
  BY <1>1, <1>2, PoolNodes DEF Caller, PrefillIdx, PrefillAgents
<1>4. decode_cursor % (NodeCount - PrefillCount) \in 0..(NodeCount - PrefillCount - 1)
  BY <1>1, <1>2, PoolNodes
<1>5. DecodeIdx \in DecodeAgents
  BY <1>4, PoolNodes, NixlAssumption DEF DecodeIdx, DecodeAgents
<1> QED
  BY <1>3, <1>5, PoolNodes

LEMMA InvImplies == DisaggInv => DeliveredOnce /\ PrefillAnswered /\ LoadsBalanced
<1> SUFFICES ASSUME DisaggInv PROVE DeliveredOnce /\ PrefillAnswered /\ LoadsBalanced
  OBVIOUS
<1>1. DeliveredOnce
  BY FabricInvImplies DEF DisaggInv
<1>2. PrefillAnswered
  <2> SUFFICES ASSUME mode = "pool", pc = "idle"
               PROVE  /\ \A n \in Nodes : inboxes[n] = <<>>
                      /\ pool_stats.prefill_tasks_routed =
                             pool_stats.kv_blocks_migrated + pool_stats.migration_failures
                      /\ pool_stats.kv_blocks_migrated =
                             pool_stats.decode_tasks_dispatched + Len(ready)
                      /\ AnswerOK
    BY DEF PrefillAnswered, AnswerOK
  <2>1. CallOK /\ CountsOK /\ AnswerOK
    BY DEF DisaggInv, PoolInv
  <2>2. \A n \in Nodes : inboxes[n] = <<>>
    BY <2>1 DEF CallOK
  <2>3. pool_stats \in DisaggStats
    BY DEF DisaggInv, PoolTypes
  <2>4. pool_stats.kv_blocks_migrated \in Nat /\ pool_stats.migration_failures \in Nat
    BY <2>3 DEF DisaggStats
  <2> QED
    BY <2>1, <2>2, <2>4 DEF CountsOK
<1>3. LoadsBalanced
  <2> SUFFICES ASSUME mode = "pool" PROVE Spread(PrefillLoad) /\ Spread(dispatched)
    BY DEF LoadsBalanced, PrefillLoad
  <2>1. TurnsOK
    BY DEF DisaggInv, PoolInv
  <2>2. PrefillLoad \in [PrefillAgents -> Nat]
    <3>1. \A n \in PrefillAgents : stats[n] \in TransferStats
      BY PoolNodes DEF DisaggInv, FabricInv, FabricTypes
    <3>2. \A x \in TransferStats : x.blocks_sent + x.blocks_dropped \in Nat
      BY DEF TransferStats
    <3> QED
      BY <3>1, <3>2 DEF PrefillLoad
  <2>3. dispatched \in [DecodeAgents -> Nat]
    BY DEF DisaggInv, PoolTypes
  <2>4. Spread(PrefillLoad)
    <3>1. 0 \in Nat /\ PrefillAgents = 0..(0 + PrefillCount - 1)
      BY PoolNodes DEF PrefillAgents
    <3> HIDE DEF PrefillLoad
    <3> QED
      BY <2>1, <2>2, <3>1, PoolNodes, TurnsSpread DEF TurnsOK
  <2>5. Spread(dispatched)
    <3>1. DecodeAgents = PrefillCount..(PrefillCount + (NodeCount - PrefillCount) - 1)
      BY PoolNodes, NixlAssumption DEF DecodeAgents
    <3> QED
      BY <2>1, <2>3, <3>1, PoolNodes, TurnsSpread DEF TurnsOK
  <2> QED
    BY <2>4, <2>5
<1> QED
  BY <1>1, <1>2, <1>3

LEMMA InitInv == Init => DisaggInv
<1> SUFFICES ASSUME Init PROVE DisaggInv
  OBVIOUS
<1>0. <<>> \in Seq(Remotes) /\ <<>> \in Seq(Blocks) /\ <<>> \in Seq(Outcomes) /\ Len(<<>>) = 0
  OBVIOUS
<1>1. FabricTypes
  BY <1>0 DEF Init, FabricInit, FabricTypes, TransferStats
<1>2. /\ \A n \in Nodes : inboxes[n] = <<>> /\ received[n] = <<>> /\ jobs[n] = <<>>
      /\ \A n \in Nodes : log[n] = <<>> /\ peer[n] = NoPeer
  BY DEF Init, FabricInit
<1>3. NumberedOnce /\ PeersOK /\ CopiesOK /\ ReportsOK
  BY <1>0, <1>2 DEF NumberedOnce, PeersOK, CopiesOK, ReportsOK
<1>4. PoolTypes
  BY <1>0 DEF Init, PoolTypes, DisaggStats
<1>5. CallOK /\ SentOK /\ AnswerOK
  BY <1>2 DEF Init, CallOK, SentOK, AnswerOK
<1>6. CountsOK
  <2>1. /\ pool_stats.prefill_tasks_routed = 0 /\ pool_stats.decode_tasks_dispatched = 0
        /\ pool_stats.kv_blocks_migrated = 0 /\ pool_stats.migration_failures = 0
        /\ pc = "idle" /\ ready = <<>>
    BY DEF Init
  <2> QED
    BY <1>0, <2>1 DEF CountsOK
<1>7. TurnsOK
  <2>1. PrefillTurns = 0 /\ decode_cursor = 0
    BY DEF Init, PrefillTurns
  <2>2. \A s \in Nat : s > 0 => 0 % s = 0
    OBVIOUS
  <2>3. \A n \in PrefillAgents : PrefillLoad[n] = 0
    <3>1. \A n \in PrefillAgents : n \in Nodes
      BY PoolNodes
    <3>2. \A n \in Nodes : stats[n].blocks_sent = 0 /\ stats[n].blocks_dropped = 0
      BY DEF Init, FabricInit
    <3> QED
      BY <3>1, <3>2 DEF PrefillLoad
  <2>4. \A n \in DecodeAgents : dispatched[n] = 0
    BY DEF Init
  <2>5. InTurn(PrefillLoad, 0, PrefillCount, 0)
    <3>1. \A i \in 0..(PrefillCount - 1) : 0 + i \in PrefillAgents /\ ~(i < 0)
      BY PoolNodes DEF PrefillAgents
    <3>2. 0 + PrefillCount - 1 \in PrefillAgents /\ 0 % PrefillCount = 0
      BY <2>2, PoolNodes DEF PrefillAgents
    <3> HIDE DEF PrefillLoad
    <3> QED
      BY <2>3, <3>1, <3>2 DEF InTurn
  <2>6. InTurn(dispatched, PrefillCount, NodeCount - PrefillCount, 0)
    <3>1. \A i \in 0..(NodeCount - PrefillCount - 1) :
             PrefillCount + i \in DecodeAgents /\ ~(i < 0)
      BY PoolNodes, NixlAssumption DEF DecodeAgents
    <3>2. /\ PrefillCount + (NodeCount - PrefillCount) - 1 \in DecodeAgents
          /\ 0 % (NodeCount - PrefillCount) = 0
      BY <2>2, PoolNodes, NixlAssumption DEF DecodeAgents
    <3> QED
      BY <2>4, <3>1, <3>2 DEF InTurn
  <2> QED
    BY <2>1, <2>5, <2>6 DEF TurnsOK
<1> QED
  BY <1>1, <1>3, <1>4, <1>5, <1>6, <1>7 DEF DisaggInv, FabricInv, PoolInv

\* A block of a task.
LEMMA BlockTypes ==
    ASSUME NEW id \in Nat, NEW task \in Tasks
    PROVE  Block(id, task) \in Blocks /\ Block(id, task).block_id = id
<1>1. task.token_len \in Nat /\ task.payload \in Nat
  BY DisaggAssumption
<1> QED
  BY <1>1 DEF Block, Blocks

LEMMA EvictStep ==
    ASSUME DisaggInv, mode = "fabric", NEW n \in Nodes, NEW k \in {1, 2},
           NEW tasks \in [1..k -> Tasks], Len(tasks) = k, EvictTo(n, tasks)
    PROVE  DisaggInv'
<1> DEFINE b == [i \in 1..k |-> Block(blocks + i, tasks[i])]
<1>1. /\ StartHandoff(n, b, Nodes) /\ blocks' = blocks + k
      /\ UNCHANGED <<mode, pc, prefill_cursor, decode_cursor, pool_stats, decode_tasks,
                     ready, dispatched>>
  BY DEF EvictTo
<1>2. FabricInv /\ blocks \in Nat /\ PoolTypes
  BY DEF DisaggInv, FabricInv, FabricTypes
<1>3. \A i \in 1..k : tasks[i] \in Tasks /\ blocks + i \in Nat
  BY <1>2
<1>4. \A i \in 1..k : b[i] \in Blocks /\ b[i].block_id = blocks + i
  BY <1>3, BlockTypes
<1>5. b \in Seq(Blocks) /\ DOMAIN b = 1..k
  <2>1. b \in [1..k -> Blocks] /\ k \in Nat
    BY <1>4
  <2> QED
    BY <2>1
<1> HIDE DEF b
<1>6. \A i \in DOMAIN b : b[i].block_id > blocks /\ b[i].block_id <= blocks'
  BY <1>1, <1>2, <1>4, <1>5
<1>7. \A i, j \in DOMAIN b : b[i].block_id = b[j].block_id => i = j
  BY <1>2, <1>4, <1>5
<1>8. blocks' \in Nat /\ blocks' >= blocks /\ Nodes \in SUBSET Nodes
  BY <1>1, <1>2
<1>9. FabricInv'
  BY <1>1, <1>2, <1>5, <1>6, <1>7, <1>8, StartFabric
<1> QED
  BY <1>1, <1>2, <1>9 DEF DisaggInv, PoolTypes, PoolInv

\* A node drains its inbox.
LEMMA DrainStep ==
    ASSUME FabricInv, NEW n \in Nodes, Drain(n), blocks' = blocks
    PROVE  FabricInv'
<1>1. inboxes \in [Nodes -> Seq(Remotes)] /\ received \in [Nodes -> Seq(Remotes)]
  BY DEF FabricInv, FabricTypes
<1>2. DrainAll({n})
  BY <1>1 DEF Drain, Taken, DrainAll
<1>3. UNCHANGED <<jobs, targets, peer, stats, log, blocks>>
  BY DEF Drain
<1>4. {n} \in SUBSET Nodes
  OBVIOUS
<1> QED
  BY <1>2, <1>3, <1>4, DrainFabric

LEMMA FabricStep == DisaggInv /\ FabricNext => DisaggInv'
<1> SUFFICES ASSUME DisaggInv, FabricNext PROVE DisaggInv'
  OBVIOUS
<1>1. mode = "fabric"
  BY DEF FabricNext
<1>2. PICK n \in Nodes :
         \/ \E t \in Tasks, u \in Tasks : EvictTo(n, <<t>>) \/ EvictTo(n, <<t, u>>)
         \/ (Select(n) \/ DropLocally(n) \/ Ship(n) \/ Drain(n)) /\ UNCHANGED poolVars
  BY DEF FabricNext
<1>3. ASSUME NEW t \in Tasks, EvictTo(n, <<t>>) PROVE DisaggInv'
  <2>1. <<t>> \in [1..1 -> Tasks] /\ Len(<<t>>) = 1 /\ 1 \in {1, 2}
    OBVIOUS
  <2> QED
    BY <1>1, <1>3, <2>1, EvictStep
<1>4. ASSUME NEW t \in Tasks, NEW u \in Tasks, EvictTo(n, <<t, u>>) PROVE DisaggInv'
  <2>1. <<t, u>> \in [1..2 -> Tasks] /\ Len(<<t, u>>) = 2 /\ 2 \in {1, 2}
    OBVIOUS
  <2> QED
    BY <1>1, <1>4, <2>1, EvictStep
<1>5. ASSUME Select(n) \/ DropLocally(n) \/ Ship(n) \/ Drain(n), UNCHANGED poolVars
      PROVE  DisaggInv'
  <2>1. FabricInv /\ blocks' = blocks /\ mode' = mode
    BY <1>5 DEF DisaggInv, poolVars
  <2>2. FabricInv'
    BY <1>5, <2>1, SelectFabric, DropFabric, ShipFabric, DrainStep
  <2>3. PoolTypes'
    BY <1>5 DEF DisaggInv, PoolTypes, poolVars
  <2> QED
    BY <1>1, <2>1, <2>2, <2>3 DEF DisaggInv, PoolInv
<1> QED
  BY <1>2, <1>3, <1>4, <1>5

LEMMA HeartbeatStep ==
    ASSUME DisaggInv, NEW n \in Nodes, NEW r \in Reports, Heartbeat(n, r), UNCHANGED poolVars
    PROVE  DisaggInv'
<1>1. UNCHANGED <<inboxes, jobs, targets, peer, regions, stats, log, received>>
  BY DEF Heartbeat
<1>2. FabricInv'
  BY <1>1 DEF DisaggInv, FabricInv, FabricTypes, NumberedOnce, PeersOK, CopiesOK,
              ReportsOK, poolVars
<1>3. PoolTypes'
  BY DEF DisaggInv, PoolTypes, poolVars
<1>4. PoolInv'
  BY <1>1 DEF DisaggInv, PoolInv, CallOK, SentOK, InFlight, CountsOK, AnswerOK, TurnsOK,
              PrefillLoad, PrefillTurns, Caller, poolVars
<1> QED
  BY <1>2, <1>3, <1>4 DEF DisaggInv

LEMMA RunPrefillStep ==
    ASSUME DisaggInv, mode = "pool", NEW task \in Tasks, RunPrefill(task)
    PROVE  DisaggInv'
<1> DEFINE n == PrefillIdx
           b == Block(blocks + 1, task)
<1>1. /\ pc = "idle" /\ StartHandoff(n, <<b>>, DecodeAgents) /\ blocks' = blocks + 1
      /\ pc' = "handoff" /\ pool_stats' = [pool_stats EXCEPT !.prefill_tasks_routed = @ + 1]
      /\ decode_tasks' = <<>> /\ prefill_cursor' = prefill_cursor + 1
      /\ UNCHANGED <<mode, decode_cursor, ready, dispatched>>
  BY DEF RunPrefill, HandoffTargets
<1>2. /\ FabricInv /\ PoolTypes /\ CallOK /\ CountsOK /\ TurnsOK
      /\ blocks \in Nat /\ prefill_cursor \in Nat
  BY DEF DisaggInv, PoolInv, FabricInv, FabricTypes, PoolTypes
<1>3. n \in Nodes /\ n \in PrefillAgents
  BY <1>2, Cursors
<1>4. b \in Blocks /\ b.block_id = blocks + 1
  BY <1>2, BlockTypes
<1>5. Caller' = n
  <2>1. (prefill_cursor + 1) - 1 = prefill_cursor
    BY <1>2
  <2> QED
    BY <1>1, <2>1 DEF Caller, PrefillIdx
<1> HIDE DEF n, b
<1>6. FabricInv'
  <2>1. /\ <<b>> \in Seq(Blocks) /\ DOMAIN <<b>> = {1} /\ <<b>>[1] = b
        /\ DecodeAgents \in SUBSET Nodes
    BY <1>4, PoolNodes
  <2>2. blocks' \in Nat /\ blocks' >= blocks
    BY <1>1, <1>2
  <2> DEFINE q == <<b>>
  <2>3. /\ \A i \in DOMAIN q : q[i].block_id > blocks /\ q[i].block_id <= blocks'
        /\ \A i, j \in DOMAIN q : q[i].block_id = q[j].block_id => i = j
    BY <1>1, <1>2, <1>4, <2>1
  <2>4. q \in Seq(Blocks) /\ StartHandoff(n, q, DecodeAgents)
    BY <1>1, <2>1
  <2> HIDE DEF q
  <2> QED
    BY <1>2, <1>3, <2>1, <2>2, <2>3, <2>4, StartFabric
<1>7. PoolTypes'
  <2>1. pool_stats \in DisaggStats
    BY <1>2 DEF PoolTypes
  <2>2. pool_stats' \in DisaggStats
    BY <1>1, <2>1 DEF DisaggStats
  <2>3. <<>> \in Seq(Remotes)
    OBVIOUS
  <2> QED
    BY <1>1, <1>2, <2>2, <2>3 DEF PoolTypes
<1>8. /\ jobs' = [jobs EXCEPT ![n] = <<b>>] /\ targets' = [targets EXCEPT ![n] = DecodeAgents]
      /\ UNCHANGED <<inboxes, stats, log>>
      /\ jobs \in [Nodes -> Seq(Blocks)] /\ targets \in [Nodes -> SUBSET Nodes]
  BY <1>1, <1>2 DEF StartHandoff, FabricInv, FabricTypes
<1>9. CallOK'
  <2>1. jobs'[n] = <<b>> /\ targets'[n] = DecodeAgents
    BY <1>3, <1>8
  <2>2. \A x \in Nodes : x # n => jobs'[x] = <<>>
    BY <1>1, <1>2, <1>8 DEF CallOK
  <2>3. Len(<<b>>) = 1 /\ <<b>>[1].block_id = blocks'
    BY <1>1, <1>4
  <2>4. \A x \in Nodes : inboxes'[x] = <<>>
    BY <1>1, <1>2, <1>8 DEF CallOK
  <2>5. blocks' = prefill_cursor' /\ blocks' > 0
    BY <1>1, <1>2 DEF CallOK
  <2> QED
    BY <1>1, <1>5, <2>1, <2>2, <2>3, <2>4, <2>5 DEF CallOK
<1>10. CountsOK'
  <2>1. pool_stats \in DisaggStats
    BY <1>2 DEF PoolTypes
  <2>2. /\ pool_stats'.prefill_tasks_routed = pool_stats.prefill_tasks_routed + 1
        /\ pool_stats'.kv_blocks_migrated = pool_stats.kv_blocks_migrated
        /\ pool_stats'.migration_failures = pool_stats.migration_failures
        /\ pool_stats'.decode_tasks_dispatched = pool_stats.decode_tasks_dispatched
        /\ pool_stats.kv_blocks_migrated \in Nat /\ pool_stats.migration_failures \in Nat
    BY <1>1, <2>1 DEF DisaggStats
  <2> QED
    BY <1>1, <1>2, <2>2 DEF CountsOK
<1>11. TurnsOK'
  <2>1. PrefillTurns' = PrefillTurns
    BY <1>1, <1>2 DEF PrefillTurns
  <2>2. PrefillLoad' = PrefillLoad
    BY <1>8 DEF PrefillLoad
  <2> QED
    BY <1>1, <1>2, <2>1, <2>2 DEF TurnsOK
<1>12. SentOK' /\ AnswerOK'
  BY <1>1 DEF SentOK, AnswerOK
<1> QED
  BY <1>6, <1>7, <1>9, <1>10, <1>11, <1>12 DEF DisaggInv, PoolInv

\* The outcome of the call's block is known: what the agent has logged is e.
LEMMA OutcomeStep ==
    ASSUME DisaggInv, mode = "pool", pc = "handoff", FabricInv',
           NEW e \in Outcomes,
           jobs' = [jobs EXCEPT ![Caller] = Tail(@)],
           log' = [log EXCEPT ![Caller] = Append(@, e)],
           stats'[Caller].blocks_sent + stats'[Caller].blocks_dropped =
               stats[Caller].blocks_sent + stats[Caller].blocks_dropped + 1,
           \A x \in Nodes : x # Caller => stats'[x] = stats[x],
           e.sent_to \in DecodeAgents \cup {NoPeer},
           \A x \in Nodes : x # e.sent_to => inboxes'[x] = inboxes[x],
           e.sent_to # NoPeer =>
               \E b \in Remotes : /\ inboxes'[e.sent_to] = Append(inboxes[e.sent_to], b)
                                  /\ b.block_id = blocks /\ b.origin = Caller,
           pc' = IF jobs'[Caller] = <<>> THEN "collect" ELSE "handoff",
           UNCHANGED <<mode, blocks, prefill_cursor, decode_cursor, pool_stats,
                       decode_tasks, ready, dispatched>>
    PROVE  DisaggInv'
<1>1. /\ FabricInv /\ PoolTypes /\ CallOK /\ CountsOK /\ TurnsOK
      /\ blocks \in Nat /\ prefill_cursor \in Nat
  BY DEF DisaggInv, PoolInv, FabricInv, FabricTypes, PoolTypes
<1>2. Caller' = Caller
  BY DEF Caller
<1>3. PICK n \in PrefillAgents : n = Caller
  BY <1>1, Cursors
<1>4. n \in Nodes
  BY PoolNodes
<1>5. jobs'[n] = <<>> /\ \A x \in Nodes : x # n => jobs'[x] = <<>>
  <2>1. jobs \in [Nodes -> Seq(Blocks)] /\ Len(jobs[n]) = 1
    BY <1>1, <1>3 DEF FabricInv, FabricTypes, CallOK
  <2>2. jobs'[n] = Tail(jobs[n]) /\ \A x \in Nodes : x # n => jobs'[x] = jobs[x]
    BY <1>3, <1>4, <2>1
  <2>3. Tail(jobs[n]) = <<>>
    <3>1. PICK j \in Seq(Blocks) : j = jobs[n]
      BY <1>4, <2>1
    <3>a. Len(j) = 1 /\ Len(<<>>) = 0 /\ 1 # 0
      BY <2>1, <3>1
    <3>2. Len(j) = 1 /\ j # <<>>
      BY <3>a, Zenon
    <3>3. Tail(j) \in Seq(Blocks) /\ Len(Tail(j)) = 0
      BY <3>2, PopFacts
    <3>4. Tail(j) = <<>>
      BY <3>3, EmptySeq
    <3> QED
      BY <3>1, <3>4
  <2> QED
    BY <1>1, <1>3, <2>2, <2>3 DEF CallOK
<1>6. pc' = "collect"
  BY <1>3, <1>5
<1>7. PoolTypes'
  BY <1>1, <1>6 DEF PoolTypes
<1>8. CallOK'
  BY <1>1, <1>5, <1>6 DEF CallOK
<1>9. SentOK'
  <2>1. log'[n] # <<>> /\ Last(log'[n]) = e
    <3>1. log \in [Nodes -> Seq(Outcomes)]
      BY <1>1 DEF FabricInv, FabricTypes
    <3>2. PICK l \in Seq(Outcomes) : l = log[n]
      BY <1>4, <3>1
    <3>3. log'[n] = Append(l, e)
      BY <1>3, <1>4, <3>1, <3>2
    <3>4. Append(l, e) # <<>> /\ Last(Append(l, e)) = e
      BY PushFacts
    <3> QED
      BY <3>3, <3>4
  <2>2. \A x \in Nodes : inboxes[x] = <<>>
    BY <1>1 DEF CallOK
  <2>3. \A x \in Nodes : x # e.sent_to => inboxes'[x] = <<>>
    BY <2>2
  <2>4. ASSUME e.sent_to # NoPeer
        PROVE  /\ Len(inboxes'[e.sent_to]) = 1
               /\ inboxes'[e.sent_to][1].block_id = blocks
               /\ inboxes'[e.sent_to][1].origin = n
    <3>1. PICK b \in Remotes : /\ inboxes'[e.sent_to] = Append(inboxes[e.sent_to], b)
                               /\ b.block_id = blocks /\ b.origin = n
      BY <1>3, <2>4
    <3>2. e.sent_to \in Nodes
      BY <2>4, PoolNodes
    <3>3. inboxes'[e.sent_to] = Append(<<>>, b)
      BY <2>2, <3>1, <3>2
    <3>4. Len(Append(<<>>, b)) = 1 /\ Append(<<>>, b)[1] = b
      OBVIOUS
    <3> QED
      BY <3>1, <3>3, <3>4
  <2>5. InFlight(e.sent_to)'
    <3>1. Caller' = n /\ blocks' = blocks
      BY <1>2, <1>3
    <3> QED
      BY <2>1, <2>3, <2>4, <3>1 DEF InFlight
  <2> QED
    BY <1>2, <1>3, <2>1, <2>5 DEF SentOK
<1>10. CountsOK' /\ AnswerOK'
  BY <1>1, <1>6 DEF CountsOK, AnswerOK
<1>11. TurnsOK'
  <2> DEFINE f == PrefillLoad
             c == prefill_cursor - 1
  <2>1. c \in Nat /\ PrefillTurns = c /\ PrefillTurns' = c + 1 /\ n = c % PrefillCount
    BY <1>1, <1>3, <1>6 DEF CallOK, PrefillTurns, Caller
  <2>2. /\ \A i \in PrefillAgents : f[i] \in Nat
        /\ PrefillLoad'[n] = f[n] + 1
        /\ \A i \in PrefillAgents : i # n => PrefillLoad'[i] = f[i]
    <3>1. \A i \in PrefillAgents : stats[i] \in TransferStats
      BY <1>1, PoolNodes DEF FabricInv, FabricTypes
    <3>2. \A x \in TransferStats : x.blocks_sent + x.blocks_dropped \in Nat
      BY DEF TransferStats
    <3>3. \A i \in PrefillAgents : f[i] \in Nat
      BY <3>1, <3>2 DEF PrefillLoad
    <3>4. PrefillLoad'[n] = f[n] + 1
      BY <1>3 DEF PrefillLoad
    <3>5. \A i \in PrefillAgents : i # n => stats'[i] = stats[i]
      BY <1>3, PoolNodes
    <3>6. \A i \in PrefillAgents : i # n => PrefillLoad'[i] = f[i]
      BY <3>5 DEF PrefillLoad
    <3> QED
      BY <3>3, <3>4, <3>6
  <2>3. PICK g : g = PrefillLoad'
    OBVIOUS
  <2>4. /\ \A i \in 0..(PrefillCount - 1) : 0 + i = i /\ i \in PrefillAgents
        /\ 0 + (c % PrefillCount) = n
    BY <1>4, <2>1, PoolNodes DEF PrefillAgents
  <2>5. InTurn(f, 0, PrefillCount, c)
    BY <1>1, <2>1 DEF TurnsOK
  <2> HIDE DEF f, c
  <2>6. /\ \A i \in 0..(PrefillCount - 1) : f[0 + i] \in Nat
        /\ g[0 + (c % PrefillCount)] = f[0 + (c % PrefillCount)] + 1
        /\ \A i \in 0..(PrefillCount - 1) : i # c % PrefillCount => g[0 + i] = f[0 + i]
    BY <2>1, <2>2, <2>3, <2>4
  <2>7. InTurn(g, 0, PrefillCount, c + 1)
    BY <2>1, <2>5, <2>6, PoolNodes, TurnTaken
  <2> QED
    BY <1>1, <2>1, <2>3, <2>7 DEF TurnsOK
<1> QED
  BY <1>7, <1>8, <1>9, <1>10, <1>11 DEF DisaggInv, PoolInv

LEMMA HandoffStep ==
    ASSUME DisaggInv, mode = "pool", Handoff
    PROVE  DisaggInv'
<1>1. /\ pc = "handoff"
      /\ pc' = IF jobs'[Caller] = <<>> THEN "collect" ELSE "handoff"
      /\ UNCHANGED <<mode, blocks, prefill_cursor, decode_cursor, pool_stats,
                     decode_tasks, ready, dispatched>>
  BY DEF Handoff
<1>2. FabricInv /\ PoolTypes /\ CallOK /\ blocks' = blocks
  BY <1>1 DEF DisaggInv, PoolInv
<1>3. Caller \in Nodes /\ Caller \in PrefillAgents /\ Caller \notin DecodeAgents
  BY <1>2, Cursors, PoolNodes
<1>4. /\ stats \in [Nodes -> TransferStats] /\ stats[Caller] \in TransferStats
      /\ jobs[Caller] \in Seq(Blocks) /\ Len(jobs[Caller]) = 1
      /\ jobs[Caller][1].block_id = blocks /\ targets[Caller] = DecodeAgents
      /\ inboxes \in [Nodes -> Seq(Remotes)]
  BY <1>1, <1>2, <1>3 DEF FabricInv, FabricTypes, CallOK
<1>5. Head(jobs[Caller]) = jobs[Caller][1] /\ Head(jobs[Caller]) \in Blocks
  BY <1>4
<1>6. CASE Select(Caller)
  <2>1. /\ jobs[Caller] # <<>>
        /\ UNCHANGED <<inboxes, jobs, targets, stats, log, received>>
    BY <1>6 DEF Select
  <2>2. pc' = "handoff" /\ Caller' = Caller
    BY <1>1, <2>1 DEF Caller
  <2>3. FabricInv'
    BY <1>2, <1>3, <1>6, SelectFabric
  <2>4. PoolTypes'
    BY <1>1, <1>2, <2>2 DEF PoolTypes
  <2>5. PoolInv'
    BY <1>1, <2>1, <2>2 DEF DisaggInv, PoolInv, CallOK, SentOK, CountsOK, AnswerOK, TurnsOK,
                            PrefillLoad, PrefillTurns
  <2> QED
    BY <2>3, <2>4, <2>5 DEF DisaggInv
<1>7. CASE DropLocally(Caller)
  <2> DEFINE e == [block |-> Head(jobs[Caller]), sent_to |-> NoPeer, bytes |-> 0]
  <2>1. FabricInv'
    BY <1>2, <1>3, <1>7, DropFabric
  <2>2. e \in Outcomes /\ e.sent_to = NoPeer
    BY <1>5 DEF Outcomes
  <2>3. /\ jobs' = [jobs EXCEPT ![Caller] = Tail(@)]
        /\ log' = [log EXCEPT ![Caller] = Append(@, e)]
        /\ stats' = [stats EXCEPT ![Caller].blocks_dropped = @ + 1]
        /\ inboxes' = inboxes
    BY <1>7 DEF DropLocally
  <2> HIDE DEF e
  <2>4. stats'[Caller].blocks_sent + stats'[Caller].blocks_dropped =
            stats[Caller].blocks_sent + stats[Caller].blocks_dropped + 1
    <3>1. /\ stats'[Caller].blocks_sent = stats[Caller].blocks_sent
          /\ stats'[Caller].blocks_dropped = stats[Caller].blocks_dropped + 1
          /\ stats[Caller].blocks_sent \in Nat /\ stats[Caller].blocks_dropped \in Nat
      BY <1>3, <1>4, <2>3 DEF TransferStats
    <3> QED
      BY <3>1
  <2>5. \A x \in Nodes : x # Caller => stats'[x] = stats[x]
    BY <1>4, <2>3
  <2> QED
    BY <1>1, <2>1, <2>2, <2>3, <2>4, <2>5, OutcomeStep
<1>8. CASE Ship(Caller)
  <2> DEFINE b == Head(jobs[Caller])
             m == peer[Caller]
             bytes == WireHeaderLen + Staged(b.payload)
             remote == [block_id |-> b.block_id, token_len |-> b.token_len,
                        origin |-> Caller, payload |-> Staged(b.payload)]
             e == [block |-> b, sent_to |-> m, bytes |-> bytes]
  <2>1. FabricInv'
    BY <1>2, <1>3, <1>8, ShipFabric
  <2>2. /\ m # NoPeer
        /\ jobs' = [jobs EXCEPT ![Caller] = Tail(@)]
        /\ log' = [log EXCEPT ![Caller] = Append(@, e)]
        /\ stats' = [stats EXCEPT ![Caller].blocks_sent = @ + 1, ![Caller].bytes_sent = @ + bytes]
        /\ inboxes' = [inboxes EXCEPT ![m] = Append(@, remote)]
    BY <1>8 DEF Ship
  <2>3. m \in DecodeAgents /\ m \in Nodes
    BY <1>2, <1>3, <1>4, <2>2, PoolNodes DEF FabricInv, PeersOK
  <2>4. b \in Blocks /\ b.block_id = blocks
    BY <1>4, <1>5
  <2> HIDE DEF b, m
  <2>5. b.block_id \in Nat /\ b.token_len \in Nat /\ b.payload \in Nat
    BY <2>4 DEF Blocks
  <2>6. Staged(b.payload) \in Nat
    BY <2>5, NixlAssumption DEF Staged
  <2>7. bytes \in Nat
    BY <2>6 DEF WireHeaderLen
  <2>8. remote \in Remotes /\ remote.block_id = blocks /\ remote.origin = Caller
    BY <1>3, <2>4, <2>5, <2>6 DEF Remotes
  <2>9. e \in Outcomes /\ e.sent_to = m
    BY <2>3, <2>4, <2>7 DEF Outcomes
  <2> HIDE DEF e, remote, bytes
  <2>10. stats'[Caller].blocks_sent + stats'[Caller].blocks_dropped =
             stats[Caller].blocks_sent + stats[Caller].blocks_dropped + 1
    <3>1. PICK f : f = [stats EXCEPT ![Caller].blocks_sent = @ + 1]
      OBVIOUS
    <3>2. stats' = [f EXCEPT ![Caller].bytes_sent = @ + bytes]
      BY <2>2, <3>1
    <3>3. /\ f[Caller].blocks_sent = stats[Caller].blocks_sent + 1
          /\ f[Caller].blocks_dropped = stats[Caller].blocks_dropped
          /\ stats[Caller].blocks_sent \in Nat /\ stats[Caller].blocks_dropped \in Nat
          /\ f[Caller] \in TransferStats /\ f \in [Nodes -> TransferStats]
      <4>1. PICK s \in TransferStats : s = stats[Caller]
        BY <1>4
      <4>a. [s EXCEPT !.blocks_sent = @ + 1] \in TransferStats
        BY DEF TransferStats
      <4>2. PICK t \in TransferStats : t = [s EXCEPT !.blocks_sent = @ + 1]
        BY <4>a, Zenon
      <4>3. f = [stats EXCEPT ![Caller] = t]
        BY <1>3, <1>4, <3>1, <4>1, <4>2
      <4>4. f[Caller] = t /\ f \in [Nodes -> TransferStats]
        BY <1>3, <1>4, <4>3
      <4>5. /\ t.blocks_sent = s.blocks_sent + 1 /\ t.blocks_dropped = s.blocks_dropped
            /\ s.blocks_sent \in Nat /\ s.blocks_dropped \in Nat
        BY <4>2 DEF TransferStats
      <4> QED
        BY <4>1, <4>4, <4>5
    <3>4. /\ stats'[Caller].blocks_sent = f[Caller].blocks_sent
          /\ stats'[Caller].blocks_dropped = f[Caller].blocks_dropped
      BY <1>3, <3>2, <3>3 DEF TransferStats
    <3> QED
      BY <3>3, <3>4
  <2>11. \A x \in Nodes : x # Caller => stats'[x] = stats[x]
    BY <1>4, <2>2
  <2>12. /\ inboxes'[m] = Append(inboxes[m], remote)
         /\ \A x \in Nodes : x # m => inboxes'[x] = inboxes[x]
    BY <1>4, <2>2, <2>3
  <2> QED
    BY <1>1, <2>1, <2>2, <2>3, <2>8, <2>9, <2>10, <2>11, <2>12, OutcomeStep
<1> QED
  BY <1>6, <1>7, <1>8 DEF Handoff

LEMMA CollectStep ==
    ASSUME DisaggInv, mode = "pool", Collect
    PROVE  DisaggInv'
<1> DEFINE outcome == Last(log[Caller])
           tasks == Collected(inboxes, blocks)
<1>1. /\ pc = "collect" /\ pc' = "idle"
      /\ pool_stats' = IF outcome.sent_to = NoPeer
                       THEN [pool_stats EXCEPT !.migration_failures = @ + 1]
                       ELSE [pool_stats EXCEPT !.kv_blocks_migrated = @ + 1]
      /\ DrainAll(DecodeAgents)
      /\ decode_tasks' = tasks /\ ready' = ready \o tasks
      /\ UNCHANGED <<jobs, targets, peer, stats, log, mode, blocks,
                     prefill_cursor, decode_cursor, dispatched>>
  BY DEF Collect, DrainAll
<1>2. /\ FabricInv /\ PoolTypes /\ CallOK /\ SentOK /\ CountsOK /\ TurnsOK
  BY DEF DisaggInv, PoolInv
<1>3. PICK m : m = outcome.sent_to
  OBVIOUS
<1>4. /\ m \in DecodeAgents \cup {NoPeer}
      /\ \A x \in Nodes : x # m => inboxes[x] = <<>>
      /\ m # NoPeer => /\ Len(inboxes[m]) = 1 /\ inboxes[m][1].block_id = blocks
                       /\ inboxes[m][1].origin = Caller
  BY <1>1, <1>2, <1>3 DEF SentOK, InFlight
<1>5. \A x \in DecodeAgents : x # m => inboxes[x] = <<>>
  BY <1>4, PoolNodes
<1>6. ASSUME m = NoPeer PROVE tasks = <<>>
  <2>1. m \notin DecodeAgents
    BY <1>6, PoolNodes
  <2> QED
    BY <1>5, <2>1, CollectedFacts
<1>7. ASSUME m # NoPeer
      PROVE  \E b \in Remotes : tasks = <<b>> /\ b.block_id = blocks /\ b.origin = Caller
  <2>1. m \in DecodeAgents /\ m \in Nodes
    BY <1>4, <1>7, PoolNodes
  <2>2. PICK q \in Seq(Remotes) : q = inboxes[m]
    BY <1>2, <2>1 DEF FabricInv, FabricTypes
  <2>3. Len(q) = 1 /\ q[1].block_id = blocks /\ q[1].origin = Caller
    BY <1>4, <1>7, <2>2
  <2>4. q[1] \in Remotes /\ q = <<q[1]>>
    <3>a. Len(q) = 1
      BY <2>3
    <3>1. q[1] \in Remotes
      BY <3>a
    <3>b. PICK b \in Remotes : b = q[1]
      BY <3>1
    <3>c. <<b>> \in Seq(Remotes) /\ Len(<<b>>) = 1 /\ <<b>>[1] = b
      OBVIOUS
    <3>2. PICK t \in Seq(Remotes) : t = <<q[1]>> /\ Len(t) = 1 /\ t[1] = q[1]
      BY <3>b, <3>c, Zenon
    <3>3. q = t
      BY <2>3, <3>2, SeqEqual
    <3> QED
      BY <3>1, <3>2, <3>3
  <2>5. tasks = <<q[1]>>
    BY <1>5, <2>1, <2>2, <2>3, <2>4, CollectedFacts
  <2> QED
    BY <2>3, <2>4, <2>5
<1>8. tasks \in Seq(Remotes) /\ Len(tasks) = IF m = NoPeer THEN 0 ELSE 1
  <2>1. <<>> \in Seq(Remotes) /\ Len(<<>>) = 0
    OBVIOUS
  <2>2. \A b \in Remotes : <<b>> \in Seq(Remotes) /\ Len(<<b>>) = 1
    OBVIOUS
  <2> HIDE DEF tasks
  <2>3. CASE m = NoPeer
    BY <1>6, <2>1, <2>3
  <2>4. CASE m # NoPeer
    BY <1>7, <2>2, <2>4
  <2> QED
    BY <2>3, <2>4
<1> HIDE DEF tasks
<1>9. FabricInv'
  BY <1>1, <1>2, PoolNodes, DrainFabric
<1>10. pool_stats \in DisaggStats /\ ready \in Seq(Remotes)
  BY <1>2 DEF PoolTypes
<1>11. ready' \in Seq(Remotes) /\ Len(ready') = Len(ready) + Len(tasks) /\ Len(ready) \in Nat
  <2>1. PICK p \in Seq(Remotes), q \in Seq(Remotes) : p = ready /\ q = tasks
    BY <1>8, <1>10
  <2>2. p \o q \in Seq(Remotes) /\ Len(p \o q) = Len(p) + Len(q) /\ Len(p) \in Nat
    BY ConcatProperties
  <2> QED
    BY <1>1, <2>1, <2>2
<1>12. PoolTypes'
  <2>1. /\ [pool_stats EXCEPT !.migration_failures = @ + 1] \in DisaggStats
        /\ [pool_stats EXCEPT !.kv_blocks_migrated = @ + 1] \in DisaggStats
    BY <1>10 DEF DisaggStats
  <2>2. pool_stats' \in DisaggStats
    BY <1>1, <2>1
  <2> QED
    BY <1>1, <1>2, <1>8, <1>11, <2>2 DEF PoolTypes
<1>13. CallOK'
  <2>1. \A x \in Nodes : x \notin DecodeAgents => inboxes[x] = <<>>
    BY <1>4, PoolNodes
  <2>2. \A x \in Nodes : inboxes'[x] = <<>>
    BY <1>1, <2>1 DEF DrainAll
  <2>3. Caller' = Caller
    BY <1>1 DEF Caller
  <2> QED
    BY <1>1, <1>2, <2>2, <2>3 DEF CallOK
<1>14. CountsOK'
  <2> DEFINE s == pool_stats
  <2>1. /\ s.prefill_tasks_routed \in Nat /\ s.kv_blocks_migrated \in Nat
        /\ s.migration_failures \in Nat /\ s.decode_tasks_dispatched \in Nat
    BY <1>10 DEF DisaggStats
  <2>2. /\ s.prefill_tasks_routed = s.kv_blocks_migrated + s.migration_failures + 1
        /\ s.kv_blocks_migrated = s.decode_tasks_dispatched + Len(ready)
    BY <1>1, <1>2 DEF CountsOK
  <2>3. CASE m = NoPeer
    <3>1. /\ s'.prefill_tasks_routed = s.prefill_tasks_routed
          /\ s'.kv_blocks_migrated = s.kv_blocks_migrated
          /\ s'.migration_failures = s.migration_failures + 1
          /\ s'.decode_tasks_dispatched = s.decode_tasks_dispatched
      BY <1>1, <1>3, <1>10, <2>3 DEF DisaggStats
    <3> HIDE DEF s
    <3> QED
      BY <1>1, <1>8, <1>11, <2>1, <2>2, <2>3, <3>1 DEF CountsOK, s
  <2>4. CASE m # NoPeer
    <3>1. /\ s'.prefill_tasks_routed = s.prefill_tasks_routed
          /\ s'.kv_blocks_migrated = s.kv_blocks_migrated + 1
          /\ s'.migration_failures = s.migration_failures
          /\ s'.decode_tasks_dispatched = s.decode_tasks_dispatched
      BY <1>1, <1>3, <1>10, <2>4 DEF DisaggStats
    <3>2. Len(ready') = Len(ready) + 1 /\ Len(ready) \in Nat /\ pc' = "idle"
      BY <1>1, <1>8, <1>11, <2>4
    <3>3. s'.kv_blocks_migrated = s'.decode_tasks_dispatched + Len(ready')
      BY <2>1, <2>2, <3>1, <3>2, SMTT(30)
    <3>4. s'.prefill_tasks_routed = s'.kv_blocks_migrated + s'.migration_failures + 0
      BY <2>1, <2>2, <3>1
    <3> QED
      BY <3>2, <3>3, <3>4 DEF CountsOK
  <2> QED
    BY <2>3, <2>4
<1>15. AnswerOK'
  <2>1. Caller' = Caller /\ log' = log /\ blocks' = blocks
    BY <1>1 DEF Caller
  <2>2. Last(log[Caller]).sent_to = m
    BY <1>3
  <2>3. \A b \in Remotes : Len(<<b>>) = 1 /\ <<b>>[1] = b
    OBVIOUS
  <2> HIDE DEF outcome
  <2>4. CASE m = NoPeer
    BY <1>1, <1>6, <2>1, <2>2, <2>4 DEF AnswerOK
  <2>5. CASE m # NoPeer
    <3>1. PICK b \in Remotes : tasks = <<b>> /\ b.block_id = blocks /\ b.origin = Caller
      BY <1>7, <2>5
    <3>2. /\ Len(decode_tasks') = 1 /\ decode_tasks'[1].block_id = blocks
          /\ decode_tasks'[1].origin = Caller
      BY <1>1, <2>3, <3>1
    <3> QED
      BY <2>1, <2>2, <2>5, <3>2 DEF AnswerOK
  <2> QED
    BY <2>4, <2>5
<1>16. SentOK' /\ TurnsOK'
  BY <1>1, <1>2 DEF SentOK, TurnsOK, PrefillLoad, PrefillTurns
<1> QED
  BY <1>9, <1>12, <1>13, <1>14, <1>15, <1>16 DEF DisaggInv, PoolInv

LEMMA DispatchStep ==
    ASSUME DisaggInv, mode = "pool", DispatchDecode
    PROVE  DisaggInv'
<1> DEFINE n == DecodeIdx
<1>1. /\ pc = "idle" /\ ready # <<>> /\ ready' = Tail(ready)
      /\ pool_stats' = [pool_stats EXCEPT !.decode_tasks_dispatched = @ + 1]
      /\ decode_cursor' = decode_cursor + 1
      /\ dispatched' = [dispatched EXCEPT ![n] = @ + 1]
      /\ UNCHANGED <<fabricVars, mode, blocks, pc, prefill_cursor, decode_tasks>>
  BY DEF DispatchDecode
<1>2. /\ FabricInv /\ PoolTypes /\ CallOK /\ SentOK /\ CountsOK /\ AnswerOK /\ TurnsOK
      /\ decode_cursor \in Nat /\ dispatched \in [DecodeAgents -> Nat]
      /\ pool_stats \in DisaggStats /\ ready \in Seq(Remotes)
  BY DEF DisaggInv, PoolInv, PoolTypes
<1>3. n \in DecodeAgents
  BY <1>2, Cursors
<1>4. UNCHANGED <<inboxes, jobs, targets, peer, stats, log, received, blocks>>
  BY <1>1 DEF fabricVars
<1>5. FabricInv'
  BY <1>2, <1>4 DEF FabricInv, FabricTypes, NumberedOnce, PeersOK, CopiesOK, ReportsOK
<1>6. ready' \in Seq(Remotes) /\ Len(ready) \in Nat /\ Len(ready') = Len(ready) - 1
  BY <1>1, <1>2, PopFacts
<1>7. PoolTypes'
  <2>1. pool_stats' \in DisaggStats
    BY <1>1, <1>2 DEF DisaggStats
  <2>2. dispatched' \in [DecodeAgents -> Nat] /\ decode_cursor' \in Nat
    BY <1>1, <1>2, <1>3
  <2> QED
    BY <1>1, <1>2, <1>6, <2>1, <2>2 DEF PoolTypes
<1>8. Caller' = Caller
  BY <1>1 DEF Caller
<1>9. CallOK' /\ SentOK' /\ AnswerOK'
  BY <1>1, <1>2, <1>4, <1>8 DEF CallOK, SentOK, AnswerOK
<1>10. CountsOK'
  <2>1. /\ pool_stats'.prefill_tasks_routed = pool_stats.prefill_tasks_routed
        /\ pool_stats'.kv_blocks_migrated = pool_stats.kv_blocks_migrated
        /\ pool_stats'.migration_failures = pool_stats.migration_failures
        /\ pool_stats'.decode_tasks_dispatched = pool_stats.decode_tasks_dispatched + 1
        /\ pool_stats.decode_tasks_dispatched \in Nat
    BY <1>1, <1>2 DEF DisaggStats
  <2> QED
    BY <1>1, <1>2, <1>6, <2>1 DEF CountsOK
<1>11. TurnsOK'
  <2> DEFINE size == NodeCount - PrefillCount
  <2>1. size \in Nat /\ size > 0 /\ PrefillCount \in Nat
    BY PoolNodes
  <2>2. /\ n = PrefillCount + (decode_cursor % size)
        /\ \A i \in 0..(size - 1) : PrefillCount + i \in DecodeAgents
    BY <2>1, NixlAssumption DEF DecodeIdx, DecodeAgents
  <2> HIDE DEF size, n
  <2>3. dispatched'[n] = dispatched[n] + 1
    BY <1>1, <1>2, <1>3
  <2>4. \A x \in DecodeAgents : x # n => dispatched'[x] = dispatched[x]
    BY <1>1, <1>2
  <2>5. decode_cursor % size \in 0..(size - 1)
    BY <1>2, <2>1, ModStep
  <2>6. \A i \in 0..(size - 1) : i # decode_cursor % size => PrefillCount + i # n
    BY <2>1, <2>2, <2>5
  <2>a. PICK f, g : f = dispatched /\ g = dispatched'
    OBVIOUS
  <2>7. PICK c \in Nat : c = decode_cursor
    BY <1>2
  <2>8. /\ \A i \in 0..(size - 1) : f[PrefillCount + i] \in Nat
        /\ g[PrefillCount + (c % size)] = f[PrefillCount + (c % size)] + 1
        /\ \A i \in 0..(size - 1) : i # c % size => g[PrefillCount + i] = f[PrefillCount + i]
        /\ InTurn(f, PrefillCount, size, c)
    <3>1. InTurn(dispatched, PrefillCount, size, decode_cursor)
      BY <1>2 DEF TurnsOK, size
    <3>2. \A i \in 0..(size - 1) : dispatched[PrefillCount + i] \in Nat
      BY <1>2, <2>2
    <3> QED
      BY <2>2, <2>3, <2>4, <2>6, <2>7, <2>a, <3>1, <3>2
  <2>9. InTurn(g, PrefillCount, size, c + 1)
    BY <2>1, <2>8, TurnTaken
  <2>10. PrefillLoad' = PrefillLoad /\ PrefillTurns' = PrefillTurns
    BY <1>1, <1>4 DEF PrefillLoad, PrefillTurns
  <2> QED
    BY <1>1, <1>2, <2>7, <2>9, <2>10, <2>a DEF TurnsOK, size
<1> QED
  BY <1>1, <1>5, <1>7, <1>9, <1>10, <1>11 DEF DisaggInv, PoolInv

LEMMA NextInv == DisaggInv /\ [Next]_disaggVars => DisaggInv'
<1> SUFFICES ASSUME DisaggInv, [Next]_disaggVars PROVE DisaggInv'
  OBVIOUS
<1>1. CASE FabricNext
  BY <1>1, FabricStep
<1>2. CASE PoolNext
  BY <1>2, RunPrefillStep, HandoffStep, CollectStep, DispatchStep DEF PoolNext
<1>3. CASE \E n \in Nodes, r \in Reports : Heartbeat(n, r) /\ UNCHANGED poolVars
  BY <1>3, HeartbeatStep
<1>4. CASE UNCHANGED disaggVars
  <2>1. UNCHANGED <<inboxes, jobs, targets, peer, stats, log, received>> /\ UNCHANGED poolVars
    BY <1>4 DEF disaggVars, fabricVars
  <2>2. FabricInv'
    BY <2>1 DEF DisaggInv, FabricInv, FabricTypes, NumberedOnce, PeersOK, CopiesOK,
                ReportsOK, poolVars
  <2>3. PoolTypes'
    BY <2>1 DEF DisaggInv, PoolTypes, poolVars
  <2>4. PoolInv'
    BY <2>1 DEF DisaggInv, PoolInv, CallOK, SentOK, InFlight, CountsOK, AnswerOK, TurnsOK,
                PrefillLoad, PrefillTurns, Caller, poolVars
  <2> QED
    BY <2>2, <2>3, <2>4 DEF DisaggInv
<1> QED
  BY <1>1, <1>2, <1>3, <1>4 DEF Next

-----------------------------------------------------------------------------
\* The invariant holds of every state of the fabric, with or without a pool.
THEOREM DisaggInvariance == Spec => []DisaggInv
<1>1. Init => DisaggInv
  BY InitInv
<1>2. DisaggInv /\ [Next]_disaggVars => DisaggInv'
  BY NextInv
<1> QED
  BY <1>1, <1>2, PTL DEF Spec

\* evict_to and evict_to_subset tell the truth, for any number of agents that
\* hand off, drain and report at the same time: a block reported as sent is
\* once at that peer and nowhere else, one reported as dropped is nowhere.
THEOREM HandoffsTellTheTruth == Spec => []DeliveredOnce
<1>1. DisaggInv => DeliveredOnce
  BY InvImplies
<1> QED
  BY <1>1, DisaggInvariance, PTL

\* run_prefill returns the block it handed off if and only if it was sent, and
\* leaves no block behind in an inbox; its counters add up.
THEOREM EveryPrefillIsAnswered == Spec => []PrefillAnswered
<1>1. DisaggInv => PrefillAnswered
  BY InvImplies
<1> QED
  BY <1>1, DisaggInvariance, PTL

\* The round-robin cursors of the DisaggPool keep the loads of the agents of
\* each pool within one of another.
THEOREM LoadsAreBalanced == Spec => []LoadsBalanced
<1>1. DisaggInv => LoadsBalanced
  BY InvImplies
<1> QED
  BY <1>1, DisaggInvariance, PTL
=============================================================================
