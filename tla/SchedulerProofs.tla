--------------------------- MODULE SchedulerProofs ---------------------------
(***************************************************************************)
(* Proofs about Scheduler, for every number of slots, pages and requests.  *)
(*                                                                         *)
(* None of the safety properties is inductive by itself: that a released   *)
(* slot is a slot needs the isolation of slots, which needs that the batch *)
(* holds no request twice; that a done notification stays true needs that  *)
(* only requests without one are in the queues; that the count of tokens   *)
(* stays within the budget needs to know how many of them the current      *)
(* round still has to send, and that a cancelled request is not served     *)
(* again.  IInv is their conjunction with these facts.                     *)
(***************************************************************************)
EXTENDS Scheduler, NaturalsLemmas, SequenceTheorems, FiniteSetTheorems, TLAPS

\* A request that is still in a queue has been promised nothing yet, and a
\* request that was never admitted cannot have been cancelled.
QueuedIsOpen ==
    /\ \A i \in DOMAIN active : done[active[i]] = "held"
    /\ \A i \in DOMAIN pending :
          done[pending[i]] = "held" /\ ~cancelled[pending[i]]
    /\ \A i \in DOMAIN request_rx :
          done[request_rx[i]] = "held" /\ ~cancelled[request_rx[i]]
    /\ \A r \in Requests : r > submitted => done[r] = "held" /\ ~cancelled[r]

\* Cancelled requests are only seen between the send that failed and the
\* cleanup of the same iteration.
CancelledIsSkipped ==
    /\ pc \in {"intake", "admit", "recv", "step"} =>
          \A i \in DOMAIN active : ~cancelled[active[i]]
    /\ pc = "commit" => \A i \in DOMAIN active : i >= cursor => ~cancelled[active[i]]
    /\ pc = "send" => \A i \in DOMAIN active : i > cursor => ~cancelled[active[i]]
    /\ pc = "cleanup" => \A i \in DOMAIN active : i < cursor => ~cancelled[active[i]]

\* What the current round still has to send fits in the request's budget.
RoundFits ==
    pc = "send" =>
        /\ cursor \in DOMAIN active
        /\ (accepted > 0 \/ rejected) =>
              /\ ~cancelled[Current]
              /\ generated[Current] + accepted + (IF rejected THEN 1 ELSE 0)
                    <= max_new_tokens[Current]

IInv ==
    /\ TypeOK
    /\ NoOvertaking
    /\ SlotIsolation
    /\ QueuedIsOpen
    /\ CancelledIsSkipped
    /\ RoundFits
    /\ GeneratedWithinBudget
    /\ DoneMeansComplete

-----------------------------------------------------------------------------
\* What RemoveAt does to a sequence: the cleanup loop's Vec::remove.
LEMMA RemoveAtFacts ==
    ASSUME NEW S, NEW s \in Seq(S), NEW i \in 1..Len(s)
    PROVE  /\ RemoveAt(s, i) \in Seq(S)
           /\ Len(RemoveAt(s, i)) = Len(s) - 1
           /\ \A j \in 1..(Len(s) - 1) :
                 RemoveAt(s, i)[j] = IF j < i THEN s[j] ELSE s[j + 1]
<1> DEFINE front == SubSeq(s, 1, i - 1)
           back == SubSeq(s, i + 1, Len(s))
<1>1. /\ front \in Seq(S)
      /\ Len(front) = i - 1
      /\ \A j \in 1..(i - 1) : front[j] = s[j]
  OBVIOUS
<1>2. /\ back \in Seq(S)
      /\ Len(back) = Len(s) - i
      /\ \A j \in 1..(Len(s) - i) : back[j] = s[i + j]
  OBVIOUS
<1>3. RemoveAt(s, i) = front \o back
  BY DEF RemoveAt
<1> HIDE DEF front, back
<1>4. /\ front \o back \in Seq(S)
      /\ Len(front \o back) = Len(front) + Len(back)
      /\ \A j \in 1..(Len(front) + Len(back)) :
            (front \o back)[j] = IF j <= Len(front) THEN front[j]
                                 ELSE back[j - Len(front)]
  BY <1>1, <1>2, ConcatProperties
<1>5. Len(front) + Len(back) = Len(s) - 1
  BY <1>1, <1>2
<1>6. ASSUME NEW j \in 1..(Len(s) - 1)
      PROVE  RemoveAt(s, i)[j] = IF j < i THEN s[j] ELSE s[j + 1]
  <2>1. CASE j < i
    BY <1>1, <1>3, <1>4, <1>5, <2>1
  <2>2. CASE j >= i
    <3>1. j - (i - 1) \in 1..(Len(s) - i)
      BY <2>2
    <3>2. back[j - (i - 1)] = s[i + (j - (i - 1))]
      BY <1>2, <3>1
    <3>3. QED
      BY <1>1, <1>3, <1>4, <1>5, <2>2, <3>2
  <2>3. QED
    BY <2>1, <2>2
<1>7. QED
  BY <1>3, <1>4, <1>5, <1>6

\* The queue operations keep queues sorted and ahead of one another.
LEMMA PushKeepsOrder ==
    ASSUME NEW q \in Seq(Nat), NEW e \in Nat, Sorted(q),
           \A i \in DOMAIN q : q[i] < e
    PROVE  Sorted(Append(q, e))
BY AppendProperties DEF Sorted

LEMMA PushKeepsBefore ==
    ASSUME NEW q \in Seq(Nat), NEW s \in Seq(Nat), NEW e \in Nat, Before(q, s)
    PROVE  /\ (\A i \in DOMAIN q : q[i] < e) => Before(q, Append(s, e))
           /\ (\A j \in DOMAIN s : e < s[j]) => Before(Append(q, e), s)
<1>1. ASSUME NEW t \in Seq(Nat)
      PROVE  /\ DOMAIN t = 1..Len(t)
             /\ DOMAIN Append(t, e) = 1..(Len(t) + 1)
             /\ \A i \in 1..Len(t) : Append(t, e)[i] = t[i]
             /\ Append(t, e)[Len(t) + 1] = e
             /\ \A i \in 1..(Len(t) + 1) : i \in 1..Len(t) \/ i = Len(t) + 1
  BY AppendProperties
<1>2. ASSUME \A i \in DOMAIN q : q[i] < e,
             NEW i \in DOMAIN q, NEW j \in DOMAIN Append(s, e)
      PROVE  q[i] < Append(s, e)[j]
  <2>1. CASE j \in 1..Len(s)
    BY <1>1, <2>1 DEF Before
  <2>2. CASE j = Len(s) + 1
    BY <1>1, <1>2, <2>2
  <2>3. QED
    BY <1>1, <2>1, <2>2
<1>3. ASSUME \A j \in DOMAIN s : e < s[j],
             NEW i \in DOMAIN Append(q, e), NEW j \in DOMAIN s
      PROVE  Append(q, e)[i] < s[j]
  <2>1. CASE i \in 1..Len(q)
    BY <1>1, <2>1 DEF Before
  <2>2. CASE i = Len(q) + 1
    BY <1>1, <1>3, <2>2
  <2>3. QED
    BY <1>1, <2>1, <2>2
<1>4. QED
  BY <1>2, <1>3 DEF Before

LEMMA PopKeepsOrder ==
    ASSUME NEW q \in Seq(Nat), NEW s \in Seq(Nat), q # <<>>
    PROVE  /\ Sorted(q) => Sorted(Tail(q)) /\ \A j \in DOMAIN Tail(q) : q[1] < Tail(q)[j]
           /\ Before(q, s) => Before(Tail(q), s)
           /\ Before(s, q) => Before(s, Tail(q))
<1>1. /\ Len(q) \in Nat /\ Len(q) >= 1
      /\ DOMAIN q = 1..Len(q)
      /\ DOMAIN Tail(q) = 1..(Len(q) - 1)
      /\ \A j \in 1..(Len(q) - 1) : Tail(q)[j] = q[j + 1] /\ j + 1 \in 1..Len(q)
  BY HeadTailProperties
<1> DEFINE t == Tail(q)
<1> HIDE DEF t
<1>2. /\ DOMAIN t = 1..(Len(q) - 1)
      /\ \A j \in 1..(Len(q) - 1) : t[j] = q[j + 1] /\ j + 1 \in 1..Len(q)
  BY <1>1 DEF t
<1>3. ASSUME Sorted(q), NEW i \in DOMAIN t, NEW j \in DOMAIN t, i < j
      PROVE  t[i] < t[j]
  <2>0. i + 1 \in DOMAIN q /\ j + 1 \in DOMAIN q /\ i \in Int /\ j \in Int
    BY <1>1, <1>2
  <2>1. i + 1 < j + 1 /\ i + 1 \in DOMAIN q /\ j + 1 \in DOMAIN q
    BY ONLY <1>3, <2>0
  <2>2. QED
    BY <1>2, <1>3, <2>1 DEF Sorted
<1>4. ASSUME Sorted(q), NEW j \in DOMAIN t PROVE q[1] < t[j]
  <2>1. 1 < j + 1 /\ 1 \in DOMAIN q /\ j + 1 \in DOMAIN q
    BY <1>1, <1>2
  <2>2. QED
    BY <1>2, <1>4, <2>1 DEF Sorted
<1>5. ASSUME Before(q, s) PROVE Before(t, s)
  BY <1>1, <1>2, <1>5 DEF Before
<1>6. ASSUME Before(s, q) PROVE Before(s, t)
  BY <1>1, <1>2, <1>6 DEF Before
<1>7. QED
  BY <1>3, <1>4, <1>5, <1>6 DEF Sorted, t

LEMMA RemoveKeepsOrder ==
    ASSUME NEW q \in Seq(Nat), NEW s \in Seq(Nat), NEW k \in 1..Len(q)
    PROVE  /\ Sorted(q) => Sorted(RemoveAt(q, k))
           /\ Before(q, s) => Before(RemoveAt(q, k), s)
<1> DEFINE t == RemoveAt(q, k)
           from(j) == IF j < k THEN j ELSE j + 1
<1>0. /\ t \in Seq(Nat)
      /\ Len(t) = Len(q) - 1
      /\ \A j \in 1..(Len(q) - 1) : t[j] = IF j < k THEN q[j] ELSE q[j + 1]
  BY RemoveAtFacts
<1> HIDE DEF t
<1>1. /\ DOMAIN t = 1..(Len(q) - 1)
      /\ \A j \in 1..(Len(q) - 1) : t[j] = q[from(j)]
  <2>1. DOMAIN t = 1..(Len(q) - 1)
    BY <1>0
  <2>2. \A j \in 1..(Len(q) - 1) : t[j] = q[from(j)]
    <3>1. TAKE j \in 1..(Len(q) - 1)
    <3>2. t[j] = IF j < k THEN q[j] ELSE q[j + 1]
      BY <1>0
    <3>3. QED
      BY <3>2
  <2>3. QED
    BY <2>1, <2>2
<1>2. \A j \in 1..(Len(q) - 1) : from(j) \in DOMAIN q
  OBVIOUS
<1>3. \A i, j \in 1..(Len(q) - 1) : i < j => from(i) < from(j)
  OBVIOUS
<1> HIDE DEF from
<1>4. ASSUME Sorted(q) PROVE Sorted(t)
  BY <1>1, <1>2, <1>3, <1>4 DEF Sorted
<1>5. ASSUME Before(q, s) PROVE Before(t, s)
  BY <1>1, <1>2, <1>5 DEF Before
<1>6. QED
  BY <1>4, <1>5 DEF t

LEMMA ConcatKeepsOrder ==
    ASSUME NEW p \in Seq(Nat), NEW q \in Seq(Nat), NEW s \in Seq(Nat)
    PROVE  /\ Sorted(p) /\ Sorted(q) /\ Before(p, q) => Sorted(p \o q)
           /\ Before(s, p) /\ Before(s, q) => Before(s, p \o q)
<1> DEFINE t == p \o q
<1>1. /\ Len(p) \in Nat /\ Len(q) \in Nat
      /\ DOMAIN p = 1..Len(p) /\ DOMAIN q = 1..Len(q)
      /\ DOMAIN t = 1..(Len(p) + Len(q))
      /\ \A j \in 1..(Len(p) + Len(q)) :
            t[j] = IF j <= Len(p) THEN p[j] ELSE q[j - Len(p)]
  BY ConcatProperties
<1> HIDE DEF t
<1>2. ASSUME NEW j \in DOMAIN t
      PROVE  \/ j \in DOMAIN p /\ t[j] = p[j]
             \/ j > Len(p) /\ j - Len(p) \in DOMAIN q /\ t[j] = q[j - Len(p)]
  BY <1>1
<1>3. ASSUME Sorted(p), Sorted(q), Before(p, q),
             NEW i \in DOMAIN t, NEW j \in DOMAIN t, i < j
      PROVE  t[i] < t[j]
  <2>1. CASE j \in DOMAIN p /\ t[j] = p[j]
    <3>1. i \in DOMAIN p /\ t[i] = p[i]
      BY <1>1, <1>3, <2>1
    <3>2. QED
      BY <1>3, <2>1, <3>1 DEF Sorted
  <2>2. CASE j > Len(p) /\ j - Len(p) \in DOMAIN q /\ t[j] = q[j - Len(p)]
    <3>1. CASE i \in DOMAIN p /\ t[i] = p[i]
      BY <1>3, <2>2, <3>1 DEF Before
    <3>2. CASE i > Len(p) /\ i - Len(p) \in DOMAIN q /\ t[i] = q[i - Len(p)]
      <4>1. i - Len(p) < j - Len(p)
        BY <1>1, <1>3
      <4>2. QED
        BY <1>3, <2>2, <3>2, <4>1 DEF Sorted
    <3>3. QED
      BY <1>2, <3>1, <3>2
  <2>3. QED
    BY <1>2, <2>1, <2>2
<1>4. ASSUME Before(s, p), Before(s, q) PROVE Before(s, t)
  BY <1>2, <1>4 DEF Before
<1>5. QED
  BY <1>3, <1>4 DEF Sorted, t

\* What the type invariant says of a queue of requests.
LEMMA QueueFacts ==
    ASSUME NEW n \in 0..MaxRequests, NEW q \in Seq(1..n)
    PROVE  /\ Len(q) \in Nat
           /\ DOMAIN q = 1..Len(q)
           /\ \A i \in 1..Len(q) :
                 /\ q[i] \in 1..n
                 /\ q[i] \in Requests
                 /\ q[i] \in Nat
                 /\ q[i] <= n
BY ConstantsAssumption DEF Requests

\* The consequences of the type invariant that the proofs use.
LEMMA TypeFacts ==
    ASSUME TypeOK
    PROVE  /\ submitted \in Nat
           /\ active \in Seq(Nat) /\ pending \in Seq(Nat) /\ request_rx \in Seq(Nat)
           /\ Len(active) \in Nat /\ DOMAIN active = 1..Len(active)
           /\ Len(pending) \in Nat /\ DOMAIN pending = 1..Len(pending)
           /\ Len(request_rx) \in Nat /\ DOMAIN request_rx = 1..Len(request_rx)
           /\ Len(free_slots) \in Nat /\ DOMAIN free_slots = 1..Len(free_slots)
           /\ \A i \in 1..Len(active) :
                 active[i] \in Requests /\ active[i] \in Nat /\ active[i] <= submitted
           /\ \A i \in 1..Len(pending) :
                 pending[i] \in Requests /\ pending[i] \in Nat /\ pending[i] <= submitted
           /\ \A i \in 1..Len(request_rx) :
                 /\ request_rx[i] \in Requests
                 /\ request_rx[i] \in Nat
                 /\ request_rx[i] <= submitted
           /\ \A i \in 1..Len(free_slots) : free_slots[i] \in Slots
           /\ \A r \in Requests :
                 /\ r \in Nat
                 /\ max_new_tokens[r] \in Nat
                 /\ generated[r] \in Nat
                 /\ received[r] \in Nat
<1> USE ConstantsAssumption
<1>1. submitted \in Nat /\ submitted \in 0..MaxRequests
  BY DEF TypeOK
<1>2. active \in Seq(1..submitted) /\ pending \in Seq(1..submitted)
      /\ request_rx \in Seq(1..submitted)
  BY DEF TypeOK
<1>3. /\ Len(free_slots) \in Nat /\ DOMAIN free_slots = 1..Len(free_slots)
      /\ \A i \in 1..Len(free_slots) : free_slots[i] \in Slots
  BY DEF TypeOK
<1>4. \A r \in Requests : /\ r \in Nat
                          /\ max_new_tokens[r] \in Nat
                          /\ generated[r] \in Nat
                          /\ received[r] \in Nat
  <2>1. /\ max_new_tokens \in [Requests -> Budgets]
        /\ generated \in [Requests -> Nat]
        /\ received \in [Requests -> Nat]
    BY DEF TypeOK
  <2>2. Requests \subseteq Nat /\ Budgets \subseteq Nat
    BY DEF Requests
  <2>3. QED
    BY <2>1, <2>2
<1>5. active \in Seq(Nat) /\ pending \in Seq(Nat) /\ request_rx \in Seq(Nat)
  <2>1. 1..submitted \subseteq Nat
    BY <1>1
  <2>2. QED
    BY <1>2, <2>1, SeqMonotonic
<1>6. QED
  BY <1>1, <1>2, <1>3, <1>4, <1>5, QueueFacts

-----------------------------------------------------------------------------
LEMMA InitIInv == Init => IInv
<1> SUFFICES ASSUME Init PROVE IInv
  OBVIOUS
<1> USE ConstantsAssumption DEF Init, Requests, Slots, NoSlot, Phases
<1>1. TypeOK
  <2>1. free_slots \in Seq(Slots)
    BY DEF Slots
  <2>2. metrics \in [total_tokens_generated : Nat,
                     total_requests_completed : Nat,
                     active_slots : Nat]
    OBVIOUS
  <2>3. request_rx \in Seq(1..submitted) /\ pending \in Seq(1..submitted)
        /\ active \in Seq(1..submitted)
    OBVIOUS
  <2>4. /\ submitted \in 0..MaxRequests /\ free_pages \in 0..TotalPages
        /\ cached \in SUBSET Prompts /\ pc \in Phases
        /\ cursor \in Nat \ {0} /\ accepted \in Nat
    OBVIOUS
  <2>5. rejected \in BOOLEAN /\ scheduler_open \in BOOLEAN
    OBVIOUS
  <2>6. /\ token_rx \in [Requests -> {"none", "open", "closed"}]
        /\ received \in [Requests -> Nat]
        /\ done \in [Requests -> {"held", "ok", "dropped", "refused"}]
        /\ slot_id \in [Requests -> Slots \cup {NoSlot}]
        /\ generated \in [Requests -> Nat]
    OBVIOUS
  <2>7. cancelled \in [Requests -> BOOLEAN]
    OBVIOUS
  <2>8. QED
    BY <2>1, <2>2, <2>3, <2>4, <2>5, <2>6, <2>7 DEF TypeOK
<1>2. NoOvertaking /\ SlotIsolation
  BY DEF NoOvertaking, Sorted, Before, SlotIsolation
<1>3. QueuedIsOpen /\ CancelledIsSkipped /\ RoundFits
  BY DEF QueuedIsOpen, CancelledIsSkipped, RoundFits
<1>4. GeneratedWithinBudget /\ DoneMeansComplete
  <2>1. \A r \in Requests : max_new_tokens[r] \in Nat
    OBVIOUS
  <2>2. QED
    BY <2>1 DEF GeneratedWithinBudget, DoneMeansComplete
<1>5. QED
  BY <1>1, <1>2, <1>3, <1>4 DEF IInv

LEMMA SubmitIInv == IInv /\ Submit => IInv'
<1> SUFFICES ASSUME IInv, Submit PROVE IInv'
  OBVIOUS
<1> USE ConstantsAssumption DEF IInv, Submit, clientVars, memoryVars, sendVars
<1>0. /\ submitted \in Nat
      /\ 1..submitted \subseteq 1..submitted'
      /\ request_rx \in Seq(1..submitted')
      /\ submitted + 1 \in 1..submitted'
  BY SeqMonotonic DEF TypeOK
<1>1. TypeOK'
  <2>1. request_rx' \in Seq(1..submitted')
    BY <1>0, AppendProperties
  <2>4. /\ submitted' \in 0..MaxRequests
        /\ token_rx' \in [Requests -> {"none", "open", "closed"}]
    BY DEF TypeOK, Requests
  <2>2. pending' \in Seq(1..submitted') /\ active' \in Seq(1..submitted')
    BY <1>0, SeqMonotonic DEF TypeOK
  <2>3. QED
    BY <2>1, <2>2, <2>4 DEF TypeOK
<1>a. /\ Len(request_rx') = Len(request_rx) + 1
      /\ \A i \in 1..Len(request_rx) : request_rx'[i] = request_rx[i]
      /\ request_rx'[Len(request_rx) + 1] = submitted + 1
      /\ DOMAIN request_rx' = 1..(Len(request_rx) + 1)
  BY <1>0, AppendProperties DEF TypeOK
<1>2. NoOvertaking'
  <2>1. \A i \in DOMAIN request_rx : request_rx[i] < submitted + 1
    BY TypeFacts
  <2>2. \A i \in DOMAIN pending : pending[i] < submitted + 1
    BY TypeFacts
  <2>3. \A i \in DOMAIN active : active[i] < submitted + 1
    BY TypeFacts
  <2>4. submitted + 1 \in Nat
    BY <1>0
  <2>5. Sorted(request_rx')
    BY <2>1, <2>4, TypeFacts, PushKeepsOrder DEF NoOvertaking
  <2>6. Before(pending, request_rx') /\ Before(active, request_rx')
    BY <2>2, <2>3, <2>4, TypeFacts, PushKeepsBefore DEF NoOvertaking
  <2>7. QED
    BY <2>5, <2>6 DEF NoOvertaking
<1>3. SlotIsolation'
  BY DEF SlotIsolation
<1>4. QueuedIsOpen'
  BY <1>0, <1>a, TypeFacts DEF QueuedIsOpen, Requests
<1>5. CancelledIsSkipped'
  BY DEF CancelledIsSkipped
<1>6. RoundFits'
  BY DEF RoundFits, Current
<1>7. GeneratedWithinBudget' /\ DoneMeansComplete'
  BY DEF GeneratedWithinBudget, DoneMeansComplete
<1>8. QED
  BY <1>1, <1>2, <1>3, <1>4, <1>5, <1>6, <1>7 DEF IInv

\* The client actions other than submit.
LEMMA ClientIInv ==
    ASSUME IInv, DropScheduler \/ \E r \in Requests : HangUp(r)
    PROVE  IInv'
<1> USE DEF IInv, DropScheduler, HangUp, clientVars, memoryVars, sendVars
<1>1. TypeOK'
  BY ZenonT(40) DEF TypeOK
<1>2. NoOvertaking' /\ SlotIsolation' /\ QueuedIsOpen' /\ CancelledIsSkipped'
  BY DEF NoOvertaking, SlotIsolation, QueuedIsOpen, CancelledIsSkipped
<1>3. RoundFits' /\ GeneratedWithinBudget' /\ DoneMeansComplete'
  BY DEF RoundFits, Current, GeneratedWithinBudget, DoneMeansComplete
<1>4. QED
  BY <1>1, <1>2, <1>3 DEF IInv

\* The steps of the worker that only move its program counter and cursor.
Control ==
    \/ EndAdmission \/ Stop \/ DraftAndVerify \/ StepFails
    \/ EndCommit \/ EndSend \/ Keep \/ EndCleanup

LEMMA ControlIInv ==
    ASSUME IInv, Control
    PROVE  IInv'
<1> USE DEF IInv, Control, clientVars, memoryVars, sendVars
<1>1. /\ UNCHANGED <<clientVars, request_rx, received, done, pending, active,
                     slot_id, generated, cancelled, accepted, rejected,
                     memoryVars, metrics>>
  BY DEF EndAdmission, Stop, DraftAndVerify, StepFails, EndCommit, EndSend,
         Keep, EndCleanup
<1>a. pc' \in Phases \ {"send"}
  BY DEF EndAdmission, Stop, DraftAndVerify, StepFails, EndCommit, EndSend,
         Keep, EndCleanup, Phases
<1>b. cursor' \in Nat \ {0}
  <2>1. cursor \in Nat \ {0}
    BY DEF TypeOK
  <2>2. cursor' = cursor \/ cursor' = cursor + 1 \/ cursor' = 1
    BY DEF EndAdmission, Stop, DraftAndVerify, StepFails, EndCommit, EndSend,
           Keep, EndCleanup
  <2>3. QED
    BY ONLY <2>1, <2>2
<1>2. TypeOK' /\ NoOvertaking' /\ SlotIsolation' /\ QueuedIsOpen'
      /\ GeneratedWithinBudget' /\ DoneMeansComplete' /\ RoundFits'
  BY <1>1, <1>a, <1>b DEF TypeOK, NoOvertaking, SlotIsolation, QueuedIsOpen, RoundFits,
              GeneratedWithinBudget, DoneMeansComplete
<1>3. CancelledIsSkipped'
  <2>0. \A i \in DOMAIN active : i \in Nat
    BY TypeFacts
  <2>1. CASE EndAdmission
    BY <2>0, <2>1 DEF CancelledIsSkipped, EndAdmission
  <2>a. CASE Stop
    BY <2>a DEF CancelledIsSkipped, Stop
  <2>b. CASE DraftAndVerify
    BY <2>b, <2>0 DEF CancelledIsSkipped, DraftAndVerify
  <2>2. CASE StepFails
    BY <2>2, <2>0 DEF CancelledIsSkipped, StepFails
  <2>c. CASE EndCommit
    BY <2>c, <2>0 DEF CancelledIsSkipped, EndCommit
  <2>3. CASE EndSend
    BY <2>3, TypeFacts DEF CancelledIsSkipped, TypeOK, EndSend
  <2>4. CASE Keep
    <3>1. ~cancelled[active[cursor]]
      BY <2>4 DEF Keep, IsCancelled, Current
    <3>2. ASSUME NEW j \in DOMAIN active, j < cursor + 1
          PROVE  ~cancelled[active[j]]
      <4>0. j \in Nat /\ cursor \in Nat
        BY <2>0 DEF TypeOK
      <4>1. j = cursor \/ j < cursor
        BY ONLY <3>2, <4>0
      <4>2. QED
        BY <2>4, <3>1, <4>1 DEF Keep, CancelledIsSkipped
    <3>3. QED
      BY <2>4, <3>2 DEF Keep, CancelledIsSkipped
  <2>5. CASE EndCleanup
    BY <2>5, TypeFacts DEF CancelledIsSkipped, TypeOK, EndCleanup
  <2>6. QED
    BY <2>1, <2>a, <2>b, <2>2, <2>c, <2>3, <2>4, <2>5
<1>4. QED
  BY <1>2, <1>3 DEF IInv

\* No request is in two places of the queues at once.
LEMMA Distinct ==
    ASSUME TypeOK, NoOvertaking
    PROVE  /\ \A i, j \in DOMAIN active : active[i] = active[j] => i = j
           /\ \A i, j \in DOMAIN pending : pending[i] = pending[j] => i = j
           /\ \A i \in DOMAIN active, j \in DOMAIN pending : active[i] # pending[j]
           /\ \A i \in DOMAIN active, j \in DOMAIN request_rx :
                 active[i] # request_rx[j]
           /\ \A i \in DOMAIN pending, j \in DOMAIN request_rx :
                 pending[i] # request_rx[j]
<1> USE TypeFacts DEF NoOvertaking
<1>1. \A i, j \in DOMAIN active : active[i] = active[j] => i = j
  <2> SUFFICES ASSUME NEW i \in DOMAIN active, NEW j \in DOMAIN active, i # j
               PROVE  active[i] # active[j]
    OBVIOUS
  <2>1. i < j \/ j < i
    OBVIOUS
  <2>2. QED
    BY <2>1 DEF Sorted
<1>2. \A i, j \in DOMAIN pending : pending[i] = pending[j] => i = j
  <2> SUFFICES ASSUME NEW i \in DOMAIN pending, NEW j \in DOMAIN pending, i # j
               PROVE  pending[i] # pending[j]
    OBVIOUS
  <2>1. i < j \/ j < i
    OBVIOUS
  <2>2. QED
    BY <2>1 DEF Sorted
<1>3. \A i \in DOMAIN active, j \in DOMAIN pending : active[i] # pending[j]
  BY DEF Before
<1>4. \A i \in DOMAIN active, j \in DOMAIN request_rx : active[i] # request_rx[j]
  BY DEF Before
<1>5. \A i \in DOMAIN pending, j \in DOMAIN request_rx : pending[i] # request_rx[j]
  BY DEF Before
<1>6. QED
  BY <1>1, <1>2, <1>3, <1>4, <1>5

LEMMA IntakeIInv ==
    ASSUME IInv, Intake
    PROVE  IInv'
<1> USE DEF IInv
<1>0. /\ UNCHANGED <<submitted, scheduler_open, token_rx, prompt, max_new_tokens,
                      received, done, active, slot_id, generated, cancelled,
                      cursor, accepted, rejected, free_slots, free_pages, cached,
                      metrics>>
      /\ pc = "intake" /\ pc' = "admit"
      /\ request_rx' = <<>>
  BY DEF Intake, clientVars, memoryVars, sendVars
<1>1. /\ pending' = pending \o request_rx
      /\ pending' \in Seq(1..submitted)
      /\ Len(pending') = Len(pending) + Len(request_rx)
      /\ DOMAIN pending' = 1..(Len(pending) + Len(request_rx))
      /\ \A i \in 1..(Len(pending) + Len(request_rx)) :
            pending'[i] = IF i <= Len(pending) THEN pending[i]
                          ELSE request_rx[i - Len(pending)]
  BY ConcatProperties DEF TypeOK, Intake
<1>2. TypeOK'
  BY <1>0, <1>1 DEF TypeOK, Phases
<1>3. NoOvertaking'
  <2>1. Sorted(pending') /\ Before(active, pending')
    BY <1>1, TypeFacts, ConcatKeepsOrder DEF NoOvertaking
  <2>2. QED
    BY <1>0, <2>1 DEF NoOvertaking, Sorted, Before
<1>4. QueuedIsOpen'
  <2>1. ASSUME NEW i \in DOMAIN pending'
        PROVE  done[pending'[i]] = "held" /\ ~cancelled[pending'[i]]
    <3>1. \/ i \in DOMAIN pending /\ pending'[i] = pending[i]
          \/ /\ i - Len(pending) \in DOMAIN request_rx
             /\ pending'[i] = request_rx[i - Len(pending)]
      BY <1>1, TypeFacts
    <3>2. QED
      BY <3>1 DEF QueuedIsOpen
  <2>2. QED
    BY <1>0, <2>1 DEF QueuedIsOpen
<1>5. SlotIsolation' /\ CancelledIsSkipped'
  BY <1>0 DEF SlotIsolation, CancelledIsSkipped
<1>6. RoundFits' /\ GeneratedWithinBudget' /\ DoneMeansComplete'
  BY <1>0 DEF RoundFits, GeneratedWithinBudget, DoneMeansComplete
<1>7. QED
  BY <1>2, <1>3, <1>4, <1>5, <1>6 DEF IInv

LEMMA ReceiveIInv ==
    ASSUME IInv, Receive
    PROVE  IInv'
<1> USE DEF IInv
<1>0. /\ UNCHANGED <<submitted, scheduler_open, token_rx, prompt, max_new_tokens,
                      received, done, active, slot_id, generated, cancelled,
                      cursor, accepted, rejected, free_slots, free_pages, cached,
                      metrics>>
      /\ pc = "recv" /\ pc' = "intake" /\ request_rx # <<>>
  BY DEF Receive, clientVars, memoryVars, sendVars
<1>1. /\ Head(request_rx) \in 1..submitted
      /\ Head(request_rx) = request_rx[1]
      /\ Len(request_rx) >= 1
      /\ request_rx' \in Seq(1..submitted)
      /\ DOMAIN request_rx' = 1..(Len(request_rx) - 1)
      /\ \A i \in 1..(Len(request_rx) - 1) : request_rx'[i] = request_rx[i + 1]
  <2>1. request_rx \in Seq(1..submitted) /\ request_rx' = Tail(request_rx)
    BY DEF TypeOK, Receive
  <2>2. Len(request_rx) >= 1 /\ Head(request_rx) = request_rx[1]
    BY ONLY <1>0, <2>1
  <2>3. /\ Head(request_rx) \in 1..submitted
        /\ Tail(request_rx) \in Seq(1..submitted)
        /\ Len(Tail(request_rx)) = Len(request_rx) - 1
        /\ \A i \in 1..Len(Tail(request_rx)) : Tail(request_rx)[i] = request_rx[i + 1]
    BY ONLY <1>0, <2>1, HeadTailProperties
  <2>4. QED
    BY ONLY <2>1, <2>2, <2>3
<1>2. /\ pending' \in Seq(1..submitted)
      /\ DOMAIN pending' = 1..(Len(pending) + 1)
      /\ \A i \in 1..Len(pending) : pending'[i] = pending[i]
      /\ pending'[Len(pending) + 1] = request_rx[1]
  BY <1>1, AppendProperties DEF TypeOK, Receive
<1>3. TypeOK'
  BY <1>0, <1>1, <1>2 DEF TypeOK, Phases
<1>4. NoOvertaking'
  <2>1. 1 \in DOMAIN request_rx /\ request_rx[1] \in Nat
    BY <1>1, TypeFacts
  <2>2. /\ Sorted(request_rx') /\ \A j \in DOMAIN request_rx' : request_rx[1] < request_rx'[j]
        /\ Before(active, request_rx') /\ Before(pending, request_rx')
    BY TypeFacts, PopKeepsOrder DEF NoOvertaking, Receive
  <2>3. /\ \A i \in DOMAIN pending : pending[i] < request_rx[1]
        /\ \A i \in DOMAIN active : active[i] < request_rx[1]
    BY <2>1 DEF NoOvertaking, Before
  <2>4. pending' = Append(pending, request_rx[1])
    BY <1>1 DEF Receive
  <2>5. Sorted(pending') /\ Before(active, pending')
    BY <2>1, <2>3, <2>4, TypeFacts, PushKeepsOrder, PushKeepsBefore DEF NoOvertaking
  <2>6. request_rx' \in Seq(Nat)
    BY <1>1, TypeFacts, SeqMonotonic DEF TypeOK
  <2>7. Before(pending', request_rx')
    BY <2>1, <2>2, <2>4, <2>6, TypeFacts, PushKeepsBefore
  <2>8. QED
    BY <1>0, <2>2, <2>5, <2>7 DEF NoOvertaking
<1>5. QueuedIsOpen'
  <2>1. \A i \in DOMAIN request_rx' : done[request_rx'[i]] = "held" /\ ~cancelled[request_rx'[i]]
    <3>1. Len(request_rx) \in Nat /\ DOMAIN request_rx = 1..Len(request_rx)
      BY TypeFacts
    <3>2. \A i \in 1..(Len(request_rx) - 1) : i + 1 \in 1..Len(request_rx)
      BY ONLY <3>1
    <3>3. \A i \in DOMAIN request_rx' : i + 1 \in DOMAIN request_rx
      BY <1>1, <3>1, <3>2
    <3>4. QED
      BY <1>1, <3>3 DEF QueuedIsOpen
  <2>2. ASSUME NEW i \in DOMAIN pending'
        PROVE  done[pending'[i]] = "held" /\ ~cancelled[pending'[i]]
    <3>1. i \in DOMAIN pending \/ i = Len(pending) + 1
      BY <1>2, TypeFacts
    <3>2. 1 \in DOMAIN request_rx
      BY <1>1, TypeFacts
    <3>3. CASE i \in DOMAIN pending
      BY <1>2, <3>3, TypeFacts DEF QueuedIsOpen
    <3>4. CASE i = Len(pending) + 1
      BY <1>2, <3>2, <3>4 DEF QueuedIsOpen
    <3>5. QED
      BY <3>1, <3>3, <3>4
  <2>3. QED
    BY <1>0, <2>1, <2>2 DEF QueuedIsOpen
<1>6. SlotIsolation' /\ CancelledIsSkipped'
  BY <1>0 DEF SlotIsolation, CancelledIsSkipped
<1>7. RoundFits' /\ GeneratedWithinBudget' /\ DoneMeansComplete'
  BY <1>0 DEF RoundFits, GeneratedWithinBudget, DoneMeansComplete
<1>8. QED
  BY <1>3, <1>4, <1>5, <1>6, <1>7 DEF IInv

\* What the head and the tail of the pending queue are, when it has one.
LEMMA PendingFacts ==
    ASSUME IInv, pending # <<>>
    PROVE  /\ Head(pending) = pending[1]
           /\ 1 \in DOMAIN pending
           /\ pending[1] \in Requests
           /\ pending[1] \in 1..submitted
           /\ Tail(pending) \in Seq(1..submitted)
           /\ \A i \in DOMAIN Tail(pending) :
                 /\ i + 1 \in DOMAIN pending
                 /\ Tail(pending)[i] = pending[i + 1]
                 /\ Tail(pending)[i] # pending[1]
<1> USE DEF IInv
<1>1. /\ Head(pending) = pending[1]
      /\ Len(pending) >= 1
      /\ Tail(pending) \in Seq(1..submitted)
      /\ DOMAIN Tail(pending) = 1..(Len(pending) - 1)
      /\ \A i \in 1..(Len(pending) - 1) : Tail(pending)[i] = pending[i + 1]
  <2>1. pending \in Seq(1..submitted)
    BY DEF TypeOK
  <2>2. Len(pending) >= 1 /\ Head(pending) = pending[1]
    BY ONLY <2>1, pending # <<>>
  <2>3. /\ Tail(pending) \in Seq(1..submitted)
        /\ Len(Tail(pending)) = Len(pending) - 1
        /\ \A i \in 1..Len(Tail(pending)) : Tail(pending)[i] = pending[i + 1]
    BY ONLY <2>1, pending # <<>>, HeadTailProperties
  <2>4. QED
    BY ONLY <2>2, <2>3
<1>2. 1 \in DOMAIN pending /\ pending[1] \in 1..submitted /\ pending[1] \in Requests
  <2>1. 1 \in 1..Len(pending) /\ DOMAIN pending = 1..Len(pending)
    BY <1>1, TypeFacts
  <2>2. pending \in [DOMAIN pending -> 1..submitted]
    BY DEF TypeOK
  <2>3. pending[1] \in Requests
    BY <2>1, TypeFacts
  <2>4. QED
    BY ONLY <2>1, <2>2, <2>3
<1>3. ASSUME NEW i \in DOMAIN Tail(pending)
      PROVE  /\ i + 1 \in DOMAIN pending
             /\ Tail(pending)[i] = pending[i + 1]
             /\ Tail(pending)[i] # pending[1]
  <2>0. /\ Len(pending) \in Nat /\ DOMAIN pending = 1..Len(pending)
        /\ i \in 1..(Len(pending) - 1)
    BY <1>1, TypeFacts
  <2>1. i + 1 \in DOMAIN pending /\ i + 1 # 1
    BY ONLY <2>0
  <2>2. pending[i + 1] # pending[1]
    BY <1>2, <2>1, Distinct
  <2>3. QED
    BY <1>1, <2>1, <2>2
<1>4. QED
  BY <1>1, <1>2, <1>3

\* Taking a slot from the free queue leaves the other free slots in order.
LEMMA FreeSlotFacts ==
    ASSUME TypeOK, free_slots # <<>>
    PROVE  /\ Head(free_slots) = free_slots[1]
           /\ 1 \in DOMAIN free_slots
           /\ free_slots[1] \in Slots
           /\ Tail(free_slots) \in Seq(Slots)
           /\ \A i \in DOMAIN Tail(free_slots) :
                 /\ i \in Nat
                 /\ i + 1 \in DOMAIN free_slots
                 /\ i + 1 # 1
                 /\ Tail(free_slots)[i] = free_slots[i + 1]
<1>1. /\ Head(free_slots) = free_slots[1]
      /\ Len(free_slots) >= 1
      /\ Tail(free_slots) \in Seq(Slots)
      /\ DOMAIN Tail(free_slots) = 1..(Len(free_slots) - 1)
      /\ \A i \in 1..(Len(free_slots) - 1) : Tail(free_slots)[i] = free_slots[i + 1]
  <2>1. free_slots \in Seq(Slots)
    BY DEF TypeOK
  <2>2. Len(free_slots) >= 1 /\ Head(free_slots) = free_slots[1]
    BY ONLY <2>1, free_slots # <<>>
  <2>3. /\ Tail(free_slots) \in Seq(Slots)
        /\ Len(Tail(free_slots)) = Len(free_slots) - 1
        /\ \A i \in 1..Len(Tail(free_slots)) : Tail(free_slots)[i] = free_slots[i + 1]
    BY ONLY <2>1, free_slots # <<>>, HeadTailProperties
  <2>4. QED
    BY ONLY <2>2, <2>3
<1>2. QED
  BY <1>1, TypeFacts

\* A prefill keeps the pages within the pool.
LEMMA PrefillFacts ==
    ASSUME TypeOK, NEW r \in Requests, Prefill(prompt[r])
    PROVE  free_pages' \in 0..TotalPages /\ cached' \in SUBSET Prompts
<1>1. prompt[r] \in Prompts /\ PagesFor[prompt[r]] \in Nat
  BY ConstantsAssumption DEF TypeOK
<1>2. free_pages \in 0..TotalPages /\ cached \in SUBSET Prompts
  BY DEF TypeOK
<1>3. CASE IsHit(prompt[r])
  BY <1>2, <1>3 DEF Prefill
<1>4. CASE ~IsHit(prompt[r])
  BY <1>1, <1>2, <1>4, ConstantsAssumption DEF Prefill, PrefillSucceeds
<1>5. QED
  BY <1>3, <1>4

LEMMA AdmitIInv ==
    ASSUME IInv, Admit
    PROVE  IInv'
<1> USE DEF IInv
<1> DEFINE r == pending[1]
<1>0. /\ UNCHANGED <<submitted, scheduler_open, token_rx, prompt, max_new_tokens,
                      request_rx, received, done, pc, generated, cancelled,
                      cursor, accepted, rejected>>
      /\ pc = "admit" /\ pending # <<>> /\ free_slots # <<>>
      /\ metrics' = [metrics EXCEPT !.active_slots = Len(active) + 1]
      /\ pending' = Tail(pending)
      /\ free_slots' = Tail(free_slots)
  BY DEF Admit, CanAdmit, clientVars, sendVars
<1>1. /\ Prefill(prompt[r])
      /\ slot_id' = [slot_id EXCEPT ![r] = free_slots[1]]
      /\ active' = Append(active, r)
  BY <1>0, PendingFacts, FreeSlotFacts DEF Admit
<1>2. r \in Requests /\ r \in 1..submitted /\ 1 \in DOMAIN pending
  BY <1>0, PendingFacts
<1> HIDE DEF r
<1>3. /\ active' \in Seq(1..submitted)
      /\ DOMAIN active' = 1..(Len(active) + 1)
      /\ \A i \in 1..Len(active) : active'[i] = active[i]
      /\ active'[Len(active) + 1] = r
  BY <1>1, <1>2, AppendProperties DEF TypeOK
<1>4. TypeOK'
  <2>1. slot_id' \in [Requests -> Slots \cup {NoSlot}]
    BY <1>0, <1>1, FreeSlotFacts DEF TypeOK
  <2>2. free_pages' \in 0..TotalPages /\ cached' \in SUBSET Prompts
    BY <1>1, <1>2, PrefillFacts
  <2>3. pending' \in Seq(1..submitted) /\ free_slots' \in Seq(Slots)
    BY <1>0, PendingFacts, FreeSlotFacts
  <2>4. metrics' \in [total_tokens_generated : Nat,
                      total_requests_completed : Nat,
                      active_slots : Nat]
    <3>1. metrics \in [total_tokens_generated : Nat,
                       total_requests_completed : Nat,
                       active_slots : Nat]
      BY DEF TypeOK
    <3>2. Len(active) + 1 \in Nat
      BY TypeFacts
    <3>3. QED
      BY <1>0, <3>1, <3>2
  <2>5. QED
    BY <1>0, <1>3, <2>1, <2>2, <2>3, <2>4 DEF TypeOK
<1>5. NoOvertaking'
  <2>1. r \in Nat /\ r = pending[1]
    BY <1>2, TypeFacts DEF r
  <2>2. /\ \A i \in DOMAIN active : active[i] < r
        /\ \A j \in DOMAIN request_rx : r < request_rx[j]
    BY <1>2, <2>1 DEF NoOvertaking, Before
  <2>3. /\ Sorted(pending') /\ \A j \in DOMAIN pending' : r < pending'[j]
        /\ Before(active, pending') /\ Before(pending', request_rx)
    BY <1>0, <2>1, TypeFacts, PopKeepsOrder DEF NoOvertaking
  <2>4. pending' \in Seq(Nat)
    BY <1>0, PendingFacts, TypeFacts, SeqMonotonic
  <2>5. /\ Sorted(active')
        /\ Before(active', request_rx)
        /\ Before(active', pending')
    BY <1>1, <2>1, <2>2, <2>3, <2>4, TypeFacts, PushKeepsOrder, PushKeepsBefore
       DEF NoOvertaking
  <2>6. QED
    BY <1>0, <2>3, <2>5 DEF NoOvertaking
<1>6. ASSUME NEW i \in DOMAIN active'
      PROVE  \/ /\ i \in DOMAIN active
                /\ active'[i] = active[i]
                /\ slot_id'[active'[i]] = slot_id[active[i]]
             \/ /\ i = Len(active) + 1
                /\ active'[i] = r
                /\ slot_id'[active'[i]] = free_slots[1]
  <2>1. i \in 1..Len(active) \/ i = Len(active) + 1
    BY <1>3, TypeFacts
  <2>2. CASE i \in 1..Len(active)
    <3>1. i \in DOMAIN active /\ active'[i] = active[i]
      BY <1>3, <2>2, TypeFacts
    <3>2. active[i] # r
      BY <1>2, <3>1, Distinct DEF r
    <3>3. active[i] \in Requests /\ slot_id \in [Requests -> Slots \cup {NoSlot}]
      BY <2>2, TypeFacts DEF TypeOK
    <3>4. QED
      BY <1>1, <3>1, <3>2, <3>3
  <2>3. CASE i = Len(active) + 1
    <3>1. slot_id \in [Requests -> Slots \cup {NoSlot}]
      BY DEF TypeOK
    <3>2. QED
      BY <1>1, <1>2, <1>3, <2>3, <3>1
  <2>4. QED
    BY <2>1, <2>2, <2>3
<1>7. SlotIsolation'
  <2>0. /\ 1 \in DOMAIN free_slots /\ free_slots[1] \in Slots
        /\ \A j \in DOMAIN free_slots' :
              /\ j \in Nat
              /\ j + 1 \in DOMAIN free_slots
              /\ j + 1 # 1
              /\ free_slots'[j] = free_slots[j + 1]
    BY <1>0, FreeSlotFacts
  <2>1. ASSUME NEW i \in DOMAIN free_slots', NEW j \in DOMAIN free_slots',
               free_slots'[i] = free_slots'[j]
        PROVE  i = j
    <3>1. i + 1 = j + 1
      BY <2>0, <2>1 DEF SlotIsolation
    <3>2. QED
      BY <2>0, <3>1
  <2>2. ASSUME NEW i \in DOMAIN active', NEW j \in DOMAIN active',
               slot_id'[active'[i]] = slot_id'[active'[j]]
        PROVE  i = j
    BY <1>6, <2>0, <2>2 DEF SlotIsolation
  <2>3. ASSUME NEW i \in DOMAIN active'
        PROVE  slot_id'[active'[i]] \in Slots
    BY <1>6, <2>0 DEF SlotIsolation
  <2>4. ASSUME NEW i \in DOMAIN active', NEW j \in DOMAIN free_slots'
        PROVE  free_slots'[j] # slot_id'[active'[i]]
    BY <1>6, <2>0 DEF SlotIsolation
  <2>5. QED
    BY <2>1, <2>2, <2>3, <2>4 DEF SlotIsolation
<1>8. QueuedIsOpen' /\ CancelledIsSkipped'
  <2>1. ASSUME NEW i \in DOMAIN pending'
        PROVE  done[pending'[i]] = "held" /\ ~cancelled[pending'[i]]
    BY <1>0, PendingFacts DEF QueuedIsOpen
  <2>2. ASSUME NEW i \in DOMAIN active'
        PROVE  done[active'[i]] = "held" /\ ~cancelled[active'[i]]
    <3>1. done[r] = "held" /\ ~cancelled[r]
      BY <1>2 DEF QueuedIsOpen, r
    <3>2. QED
      BY <1>0, <1>6, <3>1 DEF QueuedIsOpen, CancelledIsSkipped
  <2>3. QED
    BY <1>0, <2>1, <2>2 DEF QueuedIsOpen, CancelledIsSkipped
<1>9. RoundFits' /\ GeneratedWithinBudget' /\ DoneMeansComplete'
  BY <1>0 DEF RoundFits, GeneratedWithinBudget, DoneMeansComplete
<1>10. QED
  BY <1>4, <1>5, <1>7, <1>8, <1>9 DEF IInv

\* A refused request loses its slot for ever, if it got one, and disturbs
\* nothing else.
LEMMA RefuseIInv ==
    ASSUME IInv, RefuseNoSlot \/ RefusePrefill \/ RefuseBind
    PROVE  IInv'
<1> USE DEF IInv
<1> DEFINE r == pending[1]
<1>0. /\ UNCHANGED <<submitted, scheduler_open, token_rx, prompt, max_new_tokens,
                      request_rx, received, pc, active, slot_id, generated,
                      cancelled, cursor, accepted, rejected, metrics>>
      /\ pc = "admit" /\ pending # <<>>
      /\ pending' = Tail(pending)
      /\ done' = [done EXCEPT ![r] = "refused"]
  BY PendingFacts DEF RefuseNoSlot, RefusePrefill, RefuseBind, Refuse, CanAdmit,
                      clientVars, sendVars
<1>1. r \in Requests /\ r \in 1..submitted /\ 1 \in DOMAIN pending
  BY <1>0, PendingFacts
<1>2. \/ free_slots' = free_slots
      \/ free_slots # <<>> /\ free_slots' = Tail(free_slots)
  BY DEF RefuseNoSlot, RefusePrefill, RefuseBind, memoryVars
<1>3. free_pages' \in 0..TotalPages /\ cached' \in SUBSET Prompts
  <2>1. CASE RefuseNoSlot \/ RefusePrefill
    BY <2>1 DEF TypeOK, RefuseNoSlot, RefusePrefill, memoryVars
  <2>2. CASE RefuseBind
    <3>1. Prefill(prompt[r])
      BY <1>0, <2>2, PendingFacts DEF RefuseBind
    <3>2. QED
      BY <1>1, <3>1, PrefillFacts
  <2>3. QED
    BY <2>1, <2>2
<1> HIDE DEF r
<1>4. TypeOK'
  <2>1. done' \in [Requests -> {"held", "ok", "dropped", "refused"}]
    BY <1>0 DEF TypeOK
  <2>2. pending' \in Seq(1..submitted)
    BY <1>0, PendingFacts
  <2>3. free_slots' \in Seq(Slots)
    BY <1>2, FreeSlotFacts DEF TypeOK
  <2>4. QED
    BY <1>0, <1>3, <2>1, <2>2, <2>3 DEF TypeOK
<1>5. NoOvertaking'
  <2>1. /\ Sorted(pending')
        /\ Before(active, pending') /\ Before(pending', request_rx)
    BY <1>0, TypeFacts, PopKeepsOrder DEF NoOvertaking
  <2>2. QED
    BY <1>0, <2>1 DEF NoOvertaking
<1>6. SlotIsolation'
  <2>1. CASE free_slots' = free_slots
    BY <1>0, <2>1 DEF SlotIsolation
  <2>2. CASE free_slots # <<>> /\ free_slots' = Tail(free_slots)
    <3>1. \A j \in DOMAIN free_slots' :
              /\ j \in Nat
              /\ j + 1 \in DOMAIN free_slots
              /\ free_slots'[j] = free_slots[j + 1]
      BY <2>2, FreeSlotFacts
    <3>2. ASSUME NEW i \in DOMAIN free_slots', NEW j \in DOMAIN free_slots',
                 free_slots'[i] = free_slots'[j]
          PROVE  i = j
      <4>1. i + 1 = j + 1
        BY <3>1, <3>2 DEF SlotIsolation
      <4>2. QED
        BY <3>1, <4>1
    <3>3. QED
      BY <1>0, <3>1, <3>2 DEF SlotIsolation
  <2>3. QED
    BY <1>2, <2>1, <2>2
<1>7. QueuedIsOpen'
  <2>0. \A x \in Requests : x # r => done'[x] = done[x]
    BY <1>0 DEF TypeOK
  <2>1. ASSUME NEW i \in DOMAIN pending'
        PROVE  done'[pending'[i]] = "held" /\ ~cancelled[pending'[i]]
    <3>1. /\ i + 1 \in DOMAIN pending
          /\ pending'[i] = pending[i + 1]
          /\ pending'[i] # r
      BY <1>0, PendingFacts DEF r
    <3>2. pending[i + 1] \in Requests
      BY <3>1, TypeFacts
    <3>3. QED
      BY <2>0, <3>1, <3>2 DEF QueuedIsOpen
  <2>2. ASSUME NEW i \in DOMAIN active PROVE done'[active[i]] = "held"
    <3>1. active[i] \in Requests
      BY TypeFacts
    <3>2. active[i] # r
      BY <1>1, Distinct DEF r
    <3>3. QED
      BY <2>0, <3>1, <3>2 DEF QueuedIsOpen
  <2>3. ASSUME NEW i \in DOMAIN request_rx
        PROVE  done'[request_rx[i]] = "held" /\ ~cancelled[request_rx[i]]
    <3>1. request_rx[i] \in Requests
      BY TypeFacts
    <3>2. request_rx[i] # r
      BY <1>1, Distinct DEF r
    <3>3. QED
      BY <2>0, <3>1, <3>2 DEF QueuedIsOpen
  <2>4. ASSUME NEW x \in Requests, x > submitted
        PROVE  done'[x] = "held" /\ ~cancelled[x]
    <3>1. x # r
      BY <1>1, <2>4, TypeFacts
    <3>2. QED
      BY <2>0, <2>4, <3>1 DEF QueuedIsOpen
  <2>5. QED
    BY <1>0, <2>1, <2>2, <2>3, <2>4 DEF QueuedIsOpen
<1>8. CancelledIsSkipped' /\ RoundFits' /\ GeneratedWithinBudget'
  BY <1>0 DEF CancelledIsSkipped, RoundFits, GeneratedWithinBudget
<1>9. DoneMeansComplete'
  BY <1>0 DEF DoneMeansComplete, TypeOK
<1>10. QED
  BY <1>4, <1>5, <1>6, <1>7, <1>8, <1>9 DEF IInv
LEMMA CommitIInv ==
    ASSUME IInv, Commit
    PROVE  IInv'
<1> USE DEF IInv
<1>0. /\ UNCHANGED <<submitted, scheduler_open, token_rx, prompt, max_new_tokens,
                      request_rx, received, done, pending, active, slot_id,
                      generated, cancelled, cursor, free_slots, free_pages,
                      cached, metrics>>
      /\ pc = "commit" /\ pc' = "send" /\ cursor <= Len(active)
  BY DEF Commit, clientVars, memoryVars
<1>1. PICK d \in 0..Window(Current) : \E a \in 0..d :
         accepted' = a /\ rejected' = (a < d)
  BY DEF Commit
<1>a. PICK a \in 0..d : accepted' = a /\ rejected' = (a < d)
  BY <1>1
<1>2. cursor \in DOMAIN active /\ Current \in Requests
  <2>1. cursor \in DOMAIN active
    BY <1>0, TypeFacts DEF TypeOK
  <2>2. QED
    BY <2>1, TypeFacts DEF Current
<1>3. /\ Window(Current) \in Nat
      /\ generated[Current] + Window(Current) <= max_new_tokens[Current]
  <2>1. /\ max_new_tokens[Current] \in Nat /\ generated[Current] \in Nat
        /\ generated[Current] <= max_new_tokens[Current]
    BY <1>2, TypeFacts DEF GeneratedWithinBudget
  <2>2. QED
    BY <2>1, ConstantsAssumption DEF Window
<1>4. TypeOK'
  <2>1. accepted' \in Nat
    BY <1>a, <1>3
  <2>2. rejected' \in BOOLEAN
    BY <1>a
  <2>3. QED
    BY <1>0, <2>1, <2>2 DEF TypeOK, Phases
<1>5. RoundFits'
  <2>1. generated[Current] + accepted' + (IF rejected' THEN 1 ELSE 0)
            <= max_new_tokens[Current]
    <3>1. generated[Current] \in Nat /\ max_new_tokens[Current] \in Nat
      BY <1>2, TypeFacts
    <3>2. d \in Nat /\ a \in Nat /\ a <= d
          /\ generated[Current] + d <= max_new_tokens[Current]
      BY <1>3, <3>1
    <3>3. CASE a < d
      BY <1>a, <3>1, <3>2, <3>3
    <3>4. CASE a = d
      <4>1. ~(a < d)
        BY <3>2, <3>4
      <4>2. ~rejected'
        BY <1>a, <4>1
      <4>3. QED
        BY <1>a, <3>1, <3>2, <3>4, <4>2
    <3>5. QED
      BY <3>2, <3>3, <3>4
  <2>2. ~cancelled[Current]
    BY <1>0, <1>2, TypeFacts DEF CancelledIsSkipped, Current, TypeOK
  <2>3. QED
    BY <1>0, <1>2, <2>1, <2>2 DEF RoundFits, Current
<1>6. CancelledIsSkipped'
  BY <1>0, TypeFacts DEF CancelledIsSkipped, TypeOK
<1>7. NoOvertaking' /\ SlotIsolation' /\ QueuedIsOpen'
  BY <1>0 DEF NoOvertaking, SlotIsolation, QueuedIsOpen
<1>8. GeneratedWithinBudget' /\ DoneMeansComplete'
  BY <1>0 DEF GeneratedWithinBudget, DoneMeansComplete
<1>9. QED
  BY <1>4, <1>5, <1>6, <1>7, <1>8 DEF IInv

\* What is known of the request whose tokens are being sent.
LEMMA SendFacts ==
    ASSUME IInv, pc = "send"
    PROVE  /\ cursor \in DOMAIN active /\ cursor \in Nat
           /\ Current \in Requests
           /\ Current <= submitted
           /\ done[Current] = "held"
           /\ \A i \in DOMAIN active : i # cursor => active[i] # Current
           /\ \A i \in DOMAIN pending : pending[i] # Current
           /\ \A i \in DOMAIN request_rx : request_rx[i] # Current
           /\ generated[Current] \in Nat /\ received[Current] \in Nat
           /\ max_new_tokens[Current] \in Nat
<1> USE DEF IInv
<1>1. cursor \in DOMAIN active /\ cursor \in Nat
  BY DEF RoundFits, TypeOK
<1>2. Current \in Requests /\ Current <= submitted
  BY <1>1, TypeFacts DEF Current
<1>3. done[Current] = "held"
  BY <1>1 DEF QueuedIsOpen, Current
<1>4. /\ \A i \in DOMAIN active : i # cursor => active[i] # Current
      /\ \A i \in DOMAIN pending : pending[i] # Current
      /\ \A i \in DOMAIN request_rx : request_rx[i] # Current
  BY <1>1, Distinct DEF Current
<1>5. QED
  BY <1>1, <1>2, <1>3, <1>4, TypeFacts

\* The token that is sent and counted was within the budget of the round.
LEMMA CountFacts ==
    ASSUME IInv, NEW r \in Requests, Count(r)
    PROVE  /\ generated' \in [Requests -> Nat]
           /\ generated'[r] = generated[r] + 1
           /\ \A x \in Requests : x # r => generated'[x] = generated[x]
           /\ metrics' \in [total_tokens_generated : Nat,
                            total_requests_completed : Nat,
                            active_slots : Nat]
<1>1. generated \in [Requests -> Nat]
  BY DEF IInv, TypeOK
<1>2. metrics \in [total_tokens_generated : Nat,
                   total_requests_completed : Nat,
                   active_slots : Nat]
  BY DEF IInv, TypeOK
<1>3. generated' = [generated EXCEPT ![r] = @ + 1]
  BY DEF Count
<1>4. metrics' = [metrics EXCEPT !.total_tokens_generated = @ + 1]
  BY DEF Count
<1>5. QED
  BY <1>1, <1>2, <1>3, <1>4

LEMMA DeliverFacts ==
    ASSUME IInv, NEW r \in Requests, Deliver(r)
    PROVE  /\ received' \in [Requests -> Nat]
           /\ received'[r] = received[r] + 1
           /\ \A x \in Requests : x # r => received'[x] = received[x]
           /\ cancelled' = cancelled
BY DEF IInv, TypeOK, Deliver

LEMMA DeliverFailsFacts ==
    ASSUME IInv, NEW r \in Requests, DeliverFails(r)
    PROVE  /\ cancelled' \in [Requests -> BOOLEAN]
           /\ cancelled'[r]
           /\ \A x \in Requests : x # r => cancelled'[x] = cancelled[x]
           /\ received' = received
<1>1. cancelled \in [Requests -> BOOLEAN]
  BY DEF IInv, TypeOK
<1>2. cancelled' = [cancelled EXCEPT ![r] = TRUE] /\ received' = received
  BY DEF DeliverFails
<1>3. QED
  BY <1>1, <1>2

LEMMA SendAcceptedIInv ==
    ASSUME IInv, SendAccepted
    PROVE  IInv'
<1> USE DEF IInv
<1>0. /\ UNCHANGED <<submitted, scheduler_open, token_rx, prompt, max_new_tokens,
                      request_rx, done, pc, pending, active, slot_id, cursor,
                      rejected, free_slots, free_pages, cached>>
      /\ pc = "send" /\ accepted > 0 /\ accepted' = accepted - 1
  BY DEF SendAccepted, clientVars, memoryVars
<1>1. Deliver(Current) /\ Count(Current)
  BY DEF SendAccepted
<1>2. cancelled' = cancelled
  BY <1>0, <1>1, SendFacts, DeliverFacts
<1>3. TypeOK'
  <2>1. /\ generated' \in [Requests -> Nat]
        /\ received' \in [Requests -> Nat]
        /\ metrics' \in [total_tokens_generated : Nat,
                         total_requests_completed : Nat,
                         active_slots : Nat]
    BY <1>0, <1>1, SendFacts, DeliverFacts, CountFacts
  <2>2. accepted' \in Nat
    BY <1>0 DEF TypeOK
  <2>3. QED
    BY <1>0, <1>2, <2>1, <2>2 DEF TypeOK
<1>4. /\ ~cancelled[Current]
      /\ generated[Current] + accepted + (IF rejected THEN 1 ELSE 0)
            <= max_new_tokens[Current]
  BY <1>0 DEF RoundFits
<1>5. /\ generated[Current] \in Nat /\ accepted \in Nat
      /\ max_new_tokens[Current] \in Nat
      /\ received[Current] = generated[Current]
      /\ generated'[Current] = generated[Current] + 1
      /\ received'[Current] = received[Current] + 1
  BY <1>0, <1>1, <1>4, SendFacts, CountFacts, DeliverFacts
     DEF GeneratedWithinBudget, TypeOK
<1>6. RoundFits'
  <2>1. generated'[Current] + accepted' + (IF rejected THEN 1 ELSE 0)
            <= max_new_tokens[Current]
    BY <1>0, <1>4, <1>5
  <2>2. QED
    BY <1>0, <1>2, <1>4, <2>1, SendFacts DEF RoundFits, Current
<1>7. GeneratedWithinBudget'
  <2>1. ASSUME NEW x \in Requests, x # Current
        PROVE  generated'[x] = generated[x] /\ received'[x] = received[x]
    BY <1>0, <1>1, <2>1, SendFacts, CountFacts, DeliverFacts
  <2>2. generated'[Current] <= max_new_tokens[Current]
    BY <1>0, <1>4, <1>5
  <2>3. ASSUME NEW x \in Requests
        PROVE  /\ generated'[x] <= max_new_tokens[x]
               /\ received'[x] <= generated'[x]
               /\ generated'[x] <= received'[x] + 1
               /\ generated'[x] # received'[x] => cancelled[x]
    <3>1. CASE x = Current
      BY <1>5, <2>2, <3>1
    <3>2. CASE x # Current
      BY <2>1, <3>2 DEF GeneratedWithinBudget
    <3>3. QED
      BY <3>1, <3>2
  <2>4. QED
    BY <1>0, <1>2, <2>3 DEF GeneratedWithinBudget
<1>8. DoneMeansComplete'
  <2>1. ASSUME NEW x \in Requests, done[x] = "ok"
        PROVE  received'[x] = max_new_tokens[x]
    <3>1. x # Current
      BY <1>0, <2>1, SendFacts
    <3>2. QED
      BY <1>0, <1>1, <2>1, <3>1, SendFacts, DeliverFacts DEF DoneMeansComplete
  <2>2. QED
    BY <1>0, <2>1 DEF DoneMeansComplete
<1>9. NoOvertaking' /\ SlotIsolation' /\ QueuedIsOpen' /\ CancelledIsSkipped'
  BY <1>0, <1>2 DEF NoOvertaking, SlotIsolation, QueuedIsOpen, CancelledIsSkipped
<1>10. QED
  BY <1>3, <1>6, <1>7, <1>8, <1>9 DEF IInv

\* After a failed send only the request being sent is marked cancelled.
LEMMA CancelIsLocal ==
    ASSUME IInv, pc = "send", DeliverFails(Current),
           UNCHANGED <<submitted, active, pending, request_rx, done>>
    PROVE  /\ QueuedIsOpen'
           /\ \A i \in DOMAIN active : i > cursor => ~cancelled'[active[i]]
<1> USE DEF IInv
<1>1. \A x \in Requests : x # Current => cancelled'[x] = cancelled[x]
  BY SendFacts, DeliverFailsFacts
<1>2. ASSUME NEW i \in DOMAIN active, i > cursor PROVE ~cancelled'[active[i]]
  <2>1. active[i] # Current /\ active[i] \in Requests
    BY <1>2, SendFacts, TypeFacts
  <2>2. QED
    BY <1>1, <1>2, <2>1 DEF CancelledIsSkipped
<1>3. ASSUME NEW i \in DOMAIN pending PROVE ~cancelled'[pending[i]]
  BY <1>1, SendFacts, TypeFacts DEF QueuedIsOpen
<1>4. ASSUME NEW i \in DOMAIN request_rx PROVE ~cancelled'[request_rx[i]]
  BY <1>1, SendFacts, TypeFacts DEF QueuedIsOpen
<1>5. ASSUME NEW x \in Requests, x > submitted PROVE ~cancelled'[x]
  <2>1. x # Current
    BY <1>5, SendFacts, TypeFacts
  <2>2. QED
    BY <1>1, <1>5, <2>1 DEF QueuedIsOpen
<1>6. QED
  BY <1>2, <1>3, <1>4, <1>5 DEF QueuedIsOpen

LEMMA SendAcceptedFailsIInv ==
    ASSUME IInv, SendAcceptedFails
    PROVE  IInv'
<1> USE DEF IInv
<1>0. /\ UNCHANGED <<submitted, scheduler_open, token_rx, prompt, max_new_tokens,
                      request_rx, done, pending, active, slot_id, generated,
                      free_slots, free_pages, cached, metrics>>
      /\ pc = "send" /\ pc' = "commit" /\ cursor' = cursor + 1
      /\ accepted' = 0 /\ rejected' = FALSE
  BY DEF SendAcceptedFails, clientVars, memoryVars
<1>1. DeliverFails(Current)
  BY DEF SendAcceptedFails
<1>2. /\ cancelled' \in [Requests -> BOOLEAN]
      /\ cancelled'[Current]
      /\ \A x \in Requests : x # Current => cancelled'[x] = cancelled[x]
      /\ received' = received
  BY <1>0, <1>1, SendFacts, DeliverFailsFacts
<1>3. TypeOK'
  <2>0. cursor' \in Nat \ {0} /\ accepted' \in Nat
    BY <1>0, SendFacts
  <2>1. rejected' \in BOOLEAN
    BY <1>0
  <2>2. pc' \in Phases
    BY <1>0 DEF Phases
  <2>3. QED
    BY <1>0, <1>2, <2>0, <2>1, <2>2 DEF TypeOK
<1>4. QueuedIsOpen'
  BY <1>0, <1>1, CancelIsLocal
<1>5. CancelledIsSkipped'
  <2>1. ASSUME NEW i \in DOMAIN active, i >= cursor + 1 PROVE i > cursor
    BY <1>0, <2>1, SendFacts, TypeFacts
  <2>2. QED
    BY <1>0, <1>1, <2>1, CancelIsLocal DEF CancelledIsSkipped
<1>6. RoundFits'
  BY <1>0 DEF RoundFits
<1>7. GeneratedWithinBudget'
  BY <1>0, <1>2 DEF GeneratedWithinBudget
<1>8. NoOvertaking' /\ SlotIsolation' /\ DoneMeansComplete'
  BY <1>0, <1>2 DEF NoOvertaking, SlotIsolation, DoneMeansComplete
<1>9. QED
  BY <1>3, <1>4, <1>5, <1>6, <1>7, <1>8 DEF IInv

LEMMA SendRejectedIInv ==
    ASSUME IInv, SendRejected
    PROVE  IInv'
<1> USE DEF IInv
<1>0. /\ UNCHANGED <<submitted, scheduler_open, token_rx, prompt, max_new_tokens,
                      request_rx, done, pc, pending, active, slot_id, cursor,
                      accepted, free_slots, free_pages, cached>>
      /\ pc = "send" /\ accepted = 0 /\ rejected /\ rejected' = FALSE
  BY DEF SendRejected, clientVars, memoryVars
<1>1. Count(Current) /\ (Deliver(Current) \/ DeliverFails(Current))
  BY DEF SendRejected
<1>2. \/ /\ received' \in [Requests -> Nat]
         /\ received'[Current] = received[Current] + 1
         /\ \A x \in Requests : x # Current => received'[x] = received[x]
         /\ cancelled' = cancelled
      \/ /\ cancelled' \in [Requests -> BOOLEAN]
         /\ cancelled'[Current]
         /\ \A x \in Requests : x # Current => cancelled'[x] = cancelled[x]
         /\ received' = received
  BY <1>0, <1>1, SendFacts, DeliverFacts, DeliverFailsFacts
<1>3. TypeOK'
  <2>1. /\ generated' \in [Requests -> Nat]
        /\ metrics' \in [total_tokens_generated : Nat,
                         total_requests_completed : Nat,
                         active_slots : Nat]
    BY <1>0, <1>1, SendFacts, CountFacts
  <2>2. received' \in [Requests -> Nat] /\ cancelled' \in [Requests -> BOOLEAN]
    BY <1>2 DEF TypeOK
  <2>3. QED
    BY <1>0, <2>1, <2>2 DEF TypeOK
<1>4. /\ ~cancelled[Current]
      /\ generated[Current] + 1 <= max_new_tokens[Current]
      /\ received[Current] = generated[Current]
      /\ generated'[Current] = generated[Current] + 1
  <2>1. ~cancelled[Current]
    BY <1>0 DEF RoundFits
  <2>2. generated[Current] + accepted + 1 <= max_new_tokens[Current]
    BY <1>0 DEF RoundFits
  <2>3. QED
    BY <1>0, <1>1, <2>1, <2>2, SendFacts, CountFacts DEF GeneratedWithinBudget
<1>5. GeneratedWithinBudget'
  <2>1. ASSUME NEW x \in Requests, x # Current
        PROVE  /\ generated'[x] = generated[x]
               /\ received'[x] = received[x]
               /\ cancelled'[x] = cancelled[x]
    BY <1>0, <1>1, <1>2, <2>1, SendFacts, CountFacts
  <2>2. /\ generated'[Current] <= max_new_tokens[Current]
        /\ received'[Current] <= generated'[Current]
        /\ generated'[Current] <= received'[Current] + 1
        /\ generated'[Current] # received'[Current] => cancelled'[Current]
    BY <1>0, <1>2, <1>4, SendFacts
  <2>3. ASSUME NEW x \in Requests
        PROVE  /\ generated'[x] <= max_new_tokens[x]
               /\ received'[x] <= generated'[x]
               /\ generated'[x] <= received'[x] + 1
               /\ generated'[x] # received'[x] => cancelled'[x]
    <3>1. CASE x = Current
      BY <2>2, <3>1
    <3>2. CASE x # Current
      BY <2>1, <3>2 DEF GeneratedWithinBudget
    <3>3. QED
      BY <3>1, <3>2
  <2>4. QED
    BY <1>0, <2>3 DEF GeneratedWithinBudget
<1>6. DoneMeansComplete'
  <2>1. ASSUME NEW x \in Requests, done[x] = "ok"
        PROVE  received'[x] = max_new_tokens[x]
    <3>1. x # Current
      BY <1>0, <2>1, SendFacts
    <3>2. QED
      BY <1>2, <2>1, <3>1 DEF DoneMeansComplete
  <2>2. QED
    BY <1>0, <2>1 DEF DoneMeansComplete
<1>7. QueuedIsOpen' /\ CancelledIsSkipped'
  <2>1. CASE DeliverFails(Current)
    BY <1>0, <2>1, CancelIsLocal DEF CancelledIsSkipped
  <2>2. CASE Deliver(Current)
    <3>1. cancelled' = cancelled
      BY <1>0, <2>2, SendFacts, DeliverFacts
    <3>2. QED
      BY <1>0, <3>1 DEF QueuedIsOpen, CancelledIsSkipped
  <2>3. QED
    BY <1>1, <2>1, <2>2
<1>8. RoundFits'
  BY <1>0, SendFacts DEF RoundFits
<1>9. NoOvertaking' /\ SlotIsolation'
  BY <1>0 DEF NoOvertaking, SlotIsolation
<1>10. QED
  BY <1>3, <1>5, <1>6, <1>7, <1>8, <1>9 DEF IInv

LEMMA CleanupIInv ==
    ASSUME IInv, Cleanup
    PROVE  IInv'
<1> USE DEF IInv
<1> DEFINE r == active[cursor]
           ok == IsDone(r) /\ ~IsCancelled(r)
<1>0. /\ UNCHANGED <<submitted, scheduler_open, token_rx, prompt, max_new_tokens,
                      request_rx, received, pc, pending, generated, cancelled,
                      cursor, accepted, rejected, free_pages, cached>>
      /\ pc = "cleanup" /\ cursor <= Len(active)
  BY DEF Cleanup, clientVars, sendVars
<1>1. /\ active' = RemoveAt(active, cursor)
      /\ free_slots' = Append(free_slots, slot_id[r])
      /\ slot_id' = [slot_id EXCEPT ![r] = NoSlot]
      /\ done' = [done EXCEPT ![r] = IF ok THEN "ok" ELSE "dropped"]
      /\ metrics' = [metrics EXCEPT
                        !.active_slots = Len(active) - 1,
                        !.total_requests_completed = IF ok THEN @ + 1 ELSE @]
  BY DEF Cleanup, Retire, ReleaseSlot, Current
<1>2. /\ cursor \in 1..Len(active) /\ cursor \in DOMAIN active
      /\ r \in Requests /\ r \in Nat /\ r <= submitted
  <2>1. cursor \in 1..Len(active)
    BY <1>0, TypeFacts DEF TypeOK
  <2>2. QED
    BY <2>1, TypeFacts
<1>3. slot_id[r] \in Slots /\ slot_id \in [Requests -> Slots \cup {NoSlot}]
  BY <1>2 DEF SlotIsolation, TypeOK
<1>4. ok => received[r] = max_new_tokens[r]
  <2>1. ASSUME ok
        PROVE  generated[r] >= max_new_tokens[r] /\ ~cancelled[r]
    BY <2>1 DEF IsDone, IsCancelled
  <2>2. ASSUME ok PROVE received[r] = max_new_tokens[r]
    BY <1>2, <2>1, <2>2, TypeFacts DEF GeneratedWithinBudget
  <2>3. QED
    BY <2>2
<1> HIDE DEF ok
<1>5. /\ active' \in Seq(1..submitted)
      /\ DOMAIN active' = 1..(Len(active) - 1)
      /\ \A j \in 1..(Len(active) - 1) :
            active'[j] = IF j < cursor THEN active[j] ELSE active[j + 1]
  <2>0. active \in Seq(1..submitted)
    BY DEF TypeOK
  <2>1. /\ active' \in Seq(1..submitted)
        /\ Len(active') = Len(active) - 1
        /\ \A j \in 1..(Len(active) - 1) :
              active'[j] = IF j < cursor THEN active[j] ELSE active[j + 1]
    BY <1>1, <1>2, <2>0, RemoveAtFacts
  <2>2. QED
    BY <2>1
<1> DEFINE from(j) == IF j < cursor THEN j ELSE j + 1
<1>a. Len(active) \in Nat /\ DOMAIN active = 1..Len(active)
  BY TypeFacts
<1>6. ASSUME NEW j \in DOMAIN active'
      PROVE  /\ from(j) \in DOMAIN active
             /\ from(j) # cursor
             /\ active'[j] = active[from(j)]
  <2>1. CASE j < cursor
    BY <1>2, <1>5, <1>a, <2>1
  <2>2. CASE ~(j < cursor)
    BY <1>2, <1>5, <1>a, <2>2
  <2>3. QED
    BY <2>1, <2>2
<1>7. \A i, j \in DOMAIN active' : from(i) = from(j) => i = j
  BY <1>2, <1>5, <1>a
<1> HIDE DEF from
<1>8. ASSUME NEW j \in DOMAIN active'
      PROVE  /\ active'[j] \in Requests
             /\ active'[j] # r
             /\ slot_id'[active'[j]] = slot_id[active[from(j)]]
             /\ done'[active'[j]] = done[active[from(j)]]
  <2>1. active[from(j)] # r /\ active[from(j)] \in Requests
    BY <1>2, <1>6, Distinct, TypeFacts
  <2>2. slot_id'[active[from(j)]] = slot_id[active[from(j)]]
    BY <1>1, <1>3, <2>1
  <2>3. done'[active[from(j)]] = done[active[from(j)]]
    BY <1>1, <2>1 DEF TypeOK
  <2>4. QED
    BY <1>6, <2>1, <2>2, <2>3
<1>9. /\ free_slots' \in Seq(Slots)
      /\ DOMAIN free_slots' = 1..(Len(free_slots) + 1)
      /\ \A j \in 1..Len(free_slots) : free_slots'[j] = free_slots[j]
      /\ free_slots'[Len(free_slots) + 1] = slot_id[r]
      /\ \A j \in DOMAIN free_slots' :
            j \in DOMAIN free_slots \/ j = Len(free_slots) + 1
  <2>1. free_slots \in Seq(Slots)
    BY DEF TypeOK
  <2>2. QED
    BY <1>1, <1>3, <2>1, AppendProperties
<1>10. TypeOK'
  <2>1. slot_id' \in [Requests -> Slots \cup {NoSlot}]
    BY <1>1, <1>3
  <2>2. done' \in [Requests -> {"held", "ok", "dropped", "refused"}]
    BY <1>1 DEF TypeOK
  <2>3. metrics' \in [total_tokens_generated : Nat,
                      total_requests_completed : Nat,
                      active_slots : Nat]
    <3>1. metrics \in [total_tokens_generated : Nat,
                       total_requests_completed : Nat,
                       active_slots : Nat]
      BY DEF TypeOK
    <3>2. Len(active) - 1 \in Nat
      BY <1>2, TypeFacts
    <3>3. CASE ok
      <4>1. metrics.total_requests_completed + 1 \in Nat
        BY <3>1
      <4>2. metrics' = [metrics EXCEPT
                          !.active_slots = Len(active) - 1,
                          !.total_requests_completed =
                              metrics.total_requests_completed + 1]
        BY <1>1, <3>1, <3>3
      <4>3. QED
        BY <3>1, <3>2, <4>1, <4>2
    <3>4. CASE ~ok
      BY <1>1, <3>1, <3>2, <3>4
    <3>5. QED
      BY <3>3, <3>4
  <2>4. QED
    BY <1>0, <1>5, <1>9, <2>1, <2>2, <2>3 DEF TypeOK
<1>11. NoOvertaking'
  <2>1. /\ Sorted(active')
        /\ Before(active', pending)
        /\ Before(active', request_rx)
    BY <1>1, <1>2, TypeFacts, RemoveKeepsOrder DEF NoOvertaking
  <2>2. QED
    BY <1>0, <2>1 DEF NoOvertaking
<1>12. SlotIsolation'
  <2>1. ASSUME NEW i \in DOMAIN free_slots', NEW j \in DOMAIN free_slots',
               free_slots'[i] = free_slots'[j]
        PROVE  i = j
    <3>0. \A k \in DOMAIN free_slots :
             free_slots'[k] = free_slots[k] /\ free_slots[k] # slot_id[r]
      BY <1>2, <1>9, TypeFacts DEF SlotIsolation
    <3>1. CASE i \in DOMAIN free_slots /\ j \in DOMAIN free_slots
      BY <2>1, <3>0, <3>1 DEF SlotIsolation
    <3>2. CASE i = Len(free_slots) + 1 \/ j = Len(free_slots) + 1
      BY <1>9, <2>1, <3>0, <3>2
    <3>3. QED
      BY <1>9, <3>1, <3>2
  <2>2. ASSUME NEW i \in DOMAIN active', NEW j \in DOMAIN active',
               slot_id'[active'[i]] = slot_id'[active'[j]]
        PROVE  i = j
    <3>1. from(i) = from(j)
      BY <1>6, <1>8, <2>2 DEF SlotIsolation
    <3>2. QED
      BY <1>7, <3>1
  <2>3. ASSUME NEW i \in DOMAIN active'
        PROVE  slot_id'[active'[i]] \in Slots
    BY <1>6, <1>8 DEF SlotIsolation
  <2>4. ASSUME NEW i \in DOMAIN active', NEW j \in DOMAIN free_slots'
        PROVE  free_slots'[j] # slot_id'[active'[i]]
    <3>1. CASE j \in DOMAIN free_slots
      <4>1. free_slots'[j] = free_slots[j]
        BY <1>9, <3>1, TypeFacts
      <4>2. QED
        BY <1>6, <1>8, <3>1, <4>1 DEF SlotIsolation
    <3>2. CASE j = Len(free_slots) + 1
      BY <1>2, <1>6, <1>8, <1>9, <3>2 DEF SlotIsolation
    <3>3. QED
      BY <1>9, <3>1, <3>2
  <2>5. QED
    BY <2>1, <2>2, <2>3, <2>4 DEF SlotIsolation
<1>13. QueuedIsOpen'
  <2>0. \A x \in Requests : x # r => done'[x] = done[x]
    BY <1>1 DEF TypeOK
  <2>1. ASSUME NEW i \in DOMAIN active' PROVE done'[active'[i]] = "held"
    BY <1>6, <1>8 DEF QueuedIsOpen
  <2>2. ASSUME NEW i \in DOMAIN pending
        PROVE  done'[pending[i]] = "held" /\ ~cancelled[pending[i]]
    <3>1. pending[i] \in Requests
      BY TypeFacts
    <3>2. pending[i] # r
      BY <1>2, Distinct
    <3>3. QED
      BY <2>0, <3>1, <3>2 DEF QueuedIsOpen
  <2>3. ASSUME NEW i \in DOMAIN request_rx
        PROVE  done'[request_rx[i]] = "held" /\ ~cancelled[request_rx[i]]
    <3>1. request_rx[i] \in Requests
      BY TypeFacts
    <3>2. request_rx[i] # r
      BY <1>2, Distinct
    <3>3. QED
      BY <2>0, <3>1, <3>2 DEF QueuedIsOpen
  <2>4. ASSUME NEW x \in Requests, x > submitted
        PROVE  done'[x] = "held" /\ ~cancelled[x]
    <3>1. x # r
      BY <1>2, <2>4, TypeFacts
    <3>2. QED
      BY <2>0, <2>4, <3>1 DEF QueuedIsOpen
  <2>5. QED
    BY <1>0, <2>1, <2>2, <2>3, <2>4 DEF QueuedIsOpen
<1>14. CancelledIsSkipped'
  <2>1. ASSUME NEW i \in DOMAIN active', i < cursor
        PROVE  ~cancelled[active'[i]]
    <3>1. from(i) = i
      BY <2>1 DEF from
    <3>2. QED
      BY <1>0, <1>6, <2>1, <3>1 DEF CancelledIsSkipped
  <2>2. QED
    BY <1>0, <2>1 DEF CancelledIsSkipped
<1>15. DoneMeansComplete'
  <2>1. ASSUME NEW x \in Requests, done'[x] = "ok"
        PROVE  received[x] = max_new_tokens[x]
    <3>1. CASE x = r
      <4>1. ok
        BY <1>1, <1>2, <2>1, <3>1 DEF TypeOK
      <4>2. QED
        BY <1>4, <3>1, <4>1
    <3>2. CASE x # r
      BY <1>1, <2>1, <3>2 DEF TypeOK, DoneMeansComplete
    <3>3. QED
      BY <3>1, <3>2
  <2>2. QED
    BY <1>0, <2>1 DEF DoneMeansComplete
<1>16. RoundFits' /\ GeneratedWithinBudget'
  BY <1>0 DEF RoundFits, GeneratedWithinBudget
<1>17. QED
  BY <1>10, <1>11, <1>12, <1>13, <1>14, <1>15, <1>16 DEF IInv

-----------------------------------------------------------------------------
LEMMA StutterIInv == IInv /\ UNCHANGED vars => IInv'
<1> SUFFICES ASSUME IInv, UNCHANGED vars PROVE IInv'
  OBVIOUS
<1> USE DEF vars, IInv
<1>1. TypeOK' /\ NoOvertaking' /\ SlotIsolation' /\ QueuedIsOpen'
  BY DEF TypeOK, NoOvertaking, SlotIsolation, QueuedIsOpen
<1>2. CancelledIsSkipped' /\ RoundFits' /\ GeneratedWithinBudget' /\ DoneMeansComplete'
  BY DEF CancelledIsSkipped, RoundFits, Current, GeneratedWithinBudget,
         DoneMeansComplete
<1>3. QED
  BY <1>1, <1>2 DEF IInv

LEMMA NextIInv == IInv /\ [Next]_vars => IInv'
<1> SUFFICES ASSUME IInv, [Next]_vars PROVE IInv'
  OBVIOUS
<1>1. CASE Clients
  BY <1>1, SubmitIInv, ClientIInv DEF Clients
<1>2. CASE Worker
  BY <1>2, ControlIInv, IntakeIInv, ReceiveIInv, AdmitIInv, RefuseIInv,
     CommitIInv, SendAcceptedIInv, SendAcceptedFailsIInv, SendRejectedIInv,
     CleanupIInv
     DEF Worker, Control
<1>3. CASE UNCHANGED vars
  BY <1>3, StutterIInv
<1>4. QED
  BY <1>1, <1>2, <1>3 DEF Next

\* The inductive invariant holds in every behaviour of clients and worker.
THEOREM Invariance == Spec => []IInv
<1>1. Init => IInv
  BY InitIInv
<1>2. IInv /\ [Next]_vars => IInv'
  BY NextIInv
<1>3. QED
  BY <1>1, <1>2, PTL DEF Spec

\* Every variable of the scheduler keeps its type: in particular the page
\* pool never goes below zero and the queues name submitted requests only.
THEOREM TypeCorrect == Spec => []TypeOK
<1>1. IInv => TypeOK
  BY DEF IInv
<1>2. QED
  BY <1>1, Invariance, PTL

\* No two requests of the batch share a slot, and no slot in use is free:
\* the isolation slot_manager.rs promises, for any number of slots and
\* requests and whatever admissions fail.
THEOREM SlotsAreIsolated == Spec => []SlotIsolation
<1>1. IInv => SlotIsolation
  BY DEF IInv
<1>2. QED
  BY <1>1, Invariance, PTL

\* The subtraction of step never underflows, and a client gets every token
\* that is counted for it, except the last one before it hung up.
THEOREM BudgetIsKept == Spec => []GeneratedWithinBudget
<1>1. IInv => GeneratedWithinBudget
  BY DEF IInv
<1>2. QED
  BY <1>1, Invariance, PTL

\* An Ok on done_tx means that all the tokens asked for were put into the
\* client's channel, whenever it is looked at.
THEOREM OkIsComplete == Spec => []DoneMeansComplete
<1>1. IInv => DoneMeansComplete
  BY DEF IInv
<1>2. QED
  BY <1>1, Invariance, PTL

\* Requests are admitted in the order in which they were submitted.
THEOREM FirstComeFirstServed == Spec => []NoOvertaking
<1>1. IInv => NoOvertaking
  BY DEF IInv
<1>2. QED
  BY <1>1, Invariance, PTL

-----------------------------------------------------------------------------
(***************************************************************************)
(* What Scheduler counts: the slots that go missing and the metrics.  On   *)
(* top of the invariant above, which says that a request is in one place   *)
(* at a time and is cancelled once, each count is preserved by itself.     *)
(***************************************************************************)

(***************************************************************************)
(* Sums and sets of requests.                                              *)
(***************************************************************************)

\* A sum is the last of its partial sums.
LEMMA PartialSums ==
    ASSUME NEW n \in Nat, NEW f \in [1..n -> Nat]
    PROVE  \E s \in [0..n -> Nat] :
              /\ s[0] = 0 /\ \A i \in 1..n : s[i] = s[i - 1] + f[i]
              /\ SumTo(f, n) = s[n]
<1> DEFINE s == CHOOSE s : s = [i \in 0..n |-> IF i = 0 THEN 0 ELSE s[i - 1] + f[i]]
           step == [i \in 1..n |-> [v \in Nat |-> v + f[i]]]
<1>1. SumTo(f, n) = s[n]
  BY DEF SumTo
<1>2. PICK g : IsRecursion(g, Nat, 0, n, step)
  <2>1. step \in [1..n -> [Nat -> Nat]]
    OBVIOUS
  <2> HIDE DEF step
  <2> QED
    BY <2>1, RecursionExists
<1>3. /\ g \in [0..n -> Nat] /\ g[0] = 0
      /\ \A i \in 1..n : g[i] = g[i - 1] + f[i]
  <2>1. g \in [0..n -> Nat] /\ g[0] = 0 /\ \A i \in 1..n : g[i] = step[i][g[i - 1]]
    <3> HIDE DEF step
    <3> QED
      BY <1>2 DEF IsRecursion
  <2>2. \A i \in 1..n : g[i - 1] \in Nat
    BY <2>1
  <2>3. \A i \in 1..n : step[i][g[i - 1]] = g[i - 1] + f[i]
    BY <2>2
  <2> HIDE DEF step
  <2> QED
    BY <2>1, <2>3
<1>4. g = [i \in 0..n |-> IF i = 0 THEN 0 ELSE g[i - 1] + f[i]]
  <2>1. \A i \in 0..n : i # 0 => i \in 1..n
    OBVIOUS
  <2> QED
    BY <1>3, <2>1, Zenon
<1>5. s = [i \in 0..n |-> IF i = 0 THEN 0 ELSE s[i - 1] + f[i]]
  BY <1>4, Zenon
<1> HIDE DEF s
<1> DEFINE S == {i \in 0..n : s[i] = g[i]}
<1>6. S = 0..n
  <2>1. S \in SUBSET (0..n) /\ 0 \in S
    BY <1>3, <1>5
  <2>2. ASSUME NEW i \in 1..n, i - 1 \in S PROVE i \in S
    <3>1. i \in 0..n /\ i # 0
      OBVIOUS
    <3>2. s[i] = s[i - 1] + f[i]
      BY <1>5, <3>1, Zenon
    <3> QED
      BY <1>3, <2>2, <3>1, <3>2
  <2> HIDE DEF S
  <2> QED
    BY <2>1, <2>2, IntervalInduction
<1>7. n \in S
  BY <1>6
<1> QED
  BY <1>1, <1>3, <1>7

\* The sum of a function that is one more in one place.
LEMMA SumOfIncrement ==
    ASSUME NEW n \in Nat, NEW f \in [1..n -> Nat], NEW r \in 1..n,
           NEW g \in [1..n -> Nat], g[r] = f[r] + 1,
           \A i \in 1..n : i # r => g[i] = f[i]
    PROVE  SumTo(g, n) = SumTo(f, n) + 1
<1>1. PICK s \in [0..n -> Nat] :
         /\ s[0] = 0 /\ \A i \in 1..n : s[i] = s[i - 1] + f[i]
         /\ SumTo(f, n) = s[n]
  BY PartialSums
<1>2. PICK t \in [0..n -> Nat] :
         /\ t[0] = 0 /\ \A i \in 1..n : t[i] = t[i - 1] + g[i]
         /\ SumTo(g, n) = t[n]
  BY PartialSums
<1> DEFINE S == {i \in 0..n : (i < r => t[i] = s[i]) /\ (i >= r => t[i] = s[i] + 1)}
<1>3. S = 0..n
  <2>1. S \in SUBSET (0..n) /\ 0 \in S
    BY <1>1, <1>2
  <2>2. ASSUME NEW i \in 1..n, i - 1 \in S PROVE i \in S
    <3>1. /\ i \in 0..n /\ i - 1 \in 0..n /\ s[i - 1] \in Nat /\ f[i] \in Nat
          /\ i - 1 < r => t[i - 1] = s[i - 1]
          /\ i - 1 >= r => t[i - 1] = s[i - 1] + 1
          /\ s[i] = s[i - 1] + f[i] /\ t[i] = t[i - 1] + g[i]
      <4>1. /\ i - 1 < r => t[i - 1] = s[i - 1]
            /\ i - 1 >= r => t[i - 1] = s[i - 1] + 1
        BY <2>2, Zenon
      <4>2. i \in 0..n /\ i - 1 \in 0..n
        OBVIOUS
      <4> HIDE DEF S
      <4>3. /\ s[i - 1] \in Nat /\ f[i] \in Nat
            /\ s[i] = s[i - 1] + f[i] /\ t[i] = t[i - 1] + g[i]
        BY <1>1, <1>2, <4>2
      <4> QED
        BY <4>1, <4>2, <4>3
    <3>2. CASE i = r
      <4>1. i - 1 < r /\ ~(i < r)
        BY <3>2
      <4>2. t[i] = s[i] + 1
        BY <3>1, <3>2, <4>1
      <4> QED
        BY <3>1, <4>1, <4>2
    <3>3. CASE i # r
      <4>1. g[i] = f[i] /\ (i - 1 < r <=> i < r) /\ (i - 1 >= r <=> i >= r)
        BY <3>3
      <4>2. ASSUME i < r PROVE t[i] = s[i]
        <5>1. t[i - 1] = s[i - 1]
          BY <3>1, <4>1, <4>2, Zenon
        <5> QED
          BY <3>1, <4>1, <5>1, Zenon
      <4>3. ASSUME i >= r PROVE t[i] = s[i] + 1
        <5>1. t[i - 1] = s[i - 1] + 1
          BY <3>1, <4>1, <4>3, Zenon
        <5>2. t[i] = (s[i - 1] + 1) + f[i] /\ s[i] = s[i - 1] + f[i]
          BY <3>1, <4>1, <5>1, Zenon
        <5>3. (s[i - 1] + 1) + f[i] = (s[i - 1] + f[i]) + 1
          BY ONLY <3>1
        <5> QED
          BY ONLY <5>2, <5>3
      <4> QED
        BY <3>1, <4>2, <4>3, Zenon
    <3> QED
      BY <3>2, <3>3
  <2> HIDE DEF S
  <2> QED
    BY <2>1, <2>2, IntervalInduction
<1>4. n \in S /\ n >= r
  <2> HIDE DEF S
  <2> QED
    BY <1>3
<1> QED
  BY <1>1, <1>2, <1>4

\* A sum of nothing.
LEMMA SumOfZeros ==
    ASSUME NEW n \in Nat, NEW f \in [1..n -> {0}]
    PROVE  SumTo(f, n) = 0
<1>1. PICK s \in [0..n -> Nat] :
         /\ s[0] = 0 /\ \A i \in 1..n : s[i] = s[i - 1] + f[i]
         /\ SumTo(f, n) = s[n]
  <2>1. f \in [1..n -> Nat]
    OBVIOUS
  <2> QED
    BY <2>1, PartialSums
<1> DEFINE S == {i \in 0..n : s[i] = 0}
<1>2. S = 0..n
  <2>1. S \in SUBSET (0..n) /\ 0 \in S
    BY <1>1
  <2>2. ASSUME NEW i \in 1..n, i - 1 \in S PROVE i \in S
    BY <1>1, <2>2
  <2> HIDE DEF S
  <2> QED
    BY <2>1, <2>2, IntervalInduction
<1>3. n \in S
  BY <1>2
<1> QED
  BY <1>1, <1>3

\* Sets of requests and of slots are finite.
LEMMA FiniteParts ==
    /\ \A S \in SUBSET Requests : IsFiniteSet(S) /\ Cardinality(S) \in Nat
    /\ \A S \in SUBSET Slots : IsFiniteSet(S) /\ Cardinality(S) \in Nat
<1>1. IsFiniteSet(Requests) /\ IsFiniteSet(Slots)
  BY FS_Interval, ConstantsAssumption DEF Requests, Slots
<1> QED
  BY <1>1, FS_Subset, FS_CardinalityType

-----------------------------------------------------------------------------
(***************************************************************************)
(* The lost slots and the metrics depend on these variables only, which    *)
(* most steps of clients and worker leave alone.                           *)
(***************************************************************************)
countVars == <<received, done, active, slot_id, cancelled, free_slots, metrics>>

Quiet == Submit \/ DropScheduler \/ (\E r \in Requests : HangUp(r))
         \/ Control \/ Intake \/ Receive \/ Commit

LEMMA QuietSteps ==
    ASSUME Quiet \/ UNCHANGED vars
    PROVE  UNCHANGED countVars
<1> USE DEF countVars, clientVars, memoryVars, sendVars
<1>1. CASE UNCHANGED vars
  BY <1>1 DEF vars
<1>2. CASE Submit \/ DropScheduler \/ \E r \in Requests : HangUp(r)
  BY <1>2 DEF Submit, DropScheduler, HangUp
<1>3. CASE Intake \/ Receive \/ Commit
  BY <1>3 DEF Intake, Receive, Commit
<1>4. CASE Control
  BY <1>4 DEF Control, EndAdmission, Stop, DraftAndVerify, StepFails, EndCommit,
              EndSend, Keep, EndCleanup
<1> QED
  BY <1>1, <1>2, <1>3, <1>4 DEF Quiet

\* A slot is in circulation when it is queued or held.
LEMMA Circulation ==
    \A s \in Slots :
       s \in LostSlots <=>
          /\ \A i \in DOMAIN free_slots : free_slots[i] # s
          /\ \A i \in DOMAIN active : slot_id[active[i]] # s
BY DEF LostSlots, HeldSlots, ToSet

\* The first clause of what is proved here: slots leave circulation through
\* refused admissions only.
LEMMA InitSlots == Init => SlotsAccountedFor
<1> SUFFICES ASSUME Init PROVE SlotsAccountedFor
  OBVIOUS
<1>1. ASSUME NEW s \in Slots PROVE s \notin LostSlots
  <2>1. s + 1 \in 1..MaxSlots /\ (s + 1) - 1 = s
    BY ConstantsAssumption DEF Slots
  <2>2. free_slots = [i \in 1..MaxSlots |-> i - 1]
    BY DEF Init
  <2>3. s + 1 \in DOMAIN free_slots /\ free_slots[s + 1] = s
    BY <2>1, <2>2
  <2> QED
    BY <2>3, Circulation
<1>2. LostSlots = {}
  BY <1>1 DEF LostSlots
<1>3. Cardinality({r \in Requests : done[r] = "refused"}) \in Nat
  BY FiniteParts
<1> QED
  BY <1>2, <1>3, FS_EmptySet DEF SlotsAccountedFor

\* Fewer slots are lost than requests refused, if no slot is lost by the step
\* and no refusal forgotten.
LEMMA NoSlotLost ==
    ASSUME SlotsAccountedFor, LostSlots' \subseteq LostSlots,
           \A r \in Requests : done[r] = "refused" => done'[r] = "refused"
    PROVE  SlotsAccountedFor'
<1> DEFINE R == {r \in Requests : done[r] = "refused"}
           R1 == {r \in Requests : done'[r] = "refused"}
<1>1. /\ R \in SUBSET R1 /\ R1 \in SUBSET Requests
      /\ LostSlots \in SUBSET Slots /\ LostSlots' \in SUBSET LostSlots
  BY DEF LostSlots
<1>2. Cardinality(LostSlots) <= Cardinality(R)
  BY DEF SlotsAccountedFor
<1> HIDE DEF R, R1
<1>3. IsFiniteSet(R1) /\ IsFiniteSet(LostSlots)
  BY <1>1, FiniteParts
<1>4. Cardinality(R) <= Cardinality(R1) /\ IsFiniteSet(R)
  BY <1>1, <1>3, FS_Subset
<1>5. Cardinality(LostSlots') <= Cardinality(LostSlots) /\ IsFiniteSet(LostSlots')
  BY <1>1, <1>3, FS_Subset
<1>6. /\ Cardinality(R) \in Nat /\ Cardinality(R1) \in Nat
      /\ Cardinality(LostSlots) \in Nat /\ Cardinality(LostSlots') \in Nat
  BY <1>3, <1>4, <1>5, FS_CardinalityType
<1>7. Cardinality(LostSlots') <= Cardinality(R1)
  BY <1>2, <1>4, <1>5, <1>6
<1> QED
  BY <1>7 DEF SlotsAccountedFor, R1

LEMMA AdmitKeepsSlots ==
    ASSUME IInv, SlotsAccountedFor, Admit
    PROVE  SlotsAccountedFor'
<1> DEFINE r == pending[1]
<1>0. /\ done' = done /\ pending # <<>> /\ free_slots # <<>>
      /\ free_slots' = Tail(free_slots)
      /\ slot_id' = [slot_id EXCEPT ![r] = free_slots[1]]
      /\ active' = Append(active, r)
  <2>1. pending # <<>> /\ free_slots # <<>>
    BY DEF Admit, CanAdmit
  <2> QED
    BY <2>1, PendingFacts, FreeSlotFacts DEF Admit, IInv
<1>1. /\ r \in Requests /\ 1 \in DOMAIN pending /\ r \in 1..submitted
      /\ DOMAIN active = 1..Len(active) /\ Len(active) \in Nat
      /\ DOMAIN free_slots = 1..Len(free_slots) /\ Len(free_slots) \in Nat
      /\ active \in Seq(1..submitted) /\ slot_id \in [Requests -> Slots \cup {NoSlot}]
      /\ \A i \in DOMAIN active : active[i] \in Requests /\ active[i] # r
  BY <1>0, PendingFacts, TypeFacts, Distinct DEF IInv, TypeOK
<1> HIDE DEF r
<1>2. /\ DOMAIN active' = 1..(Len(active) + 1)
      /\ \A i \in 1..Len(active) : active'[i] = active[i]
      /\ active'[Len(active) + 1] = r
  BY <1>0, <1>1, AppendProperties
<1>3. \A i \in DOMAIN free_slots : i # 1 => i - 1 \in DOMAIN free_slots'
                                            /\ free_slots'[i - 1] = free_slots[i]
  <2>1. /\ DOMAIN Tail(free_slots) = 1..(Len(free_slots) - 1)
        /\ \A i \in 1..(Len(free_slots) - 1) : Tail(free_slots)[i] = free_slots[i + 1]
    BY <1>0, HeadTailProperties DEF IInv, TypeOK
  <2>2. ASSUME NEW i \in DOMAIN free_slots, i # 1
        PROVE  i - 1 \in 1..(Len(free_slots) - 1) /\ (i - 1) + 1 = i
    BY <1>1, <2>2
  <2> QED
    BY <1>0, <2>1, <2>2
<1>4. ASSUME NEW s \in Slots, s \in LostSlots' PROVE s \in LostSlots
  <2>1. /\ \A i \in DOMAIN free_slots' : free_slots'[i] # s
        /\ \A i \in DOMAIN active' : slot_id'[active'[i]] # s
    BY <1>4, Circulation DEF LostSlots, HeldSlots, ToSet
  <2>2. Len(active) + 1 \in DOMAIN active' /\ 1..Len(active) \subseteq DOMAIN active'
    BY <1>1, <1>2
  <2>3. free_slots[1] # s
    BY <1>0, <1>1, <1>2, <2>1, <2>2
  <2>4. \A i \in DOMAIN free_slots : free_slots[i] # s
    BY <1>3, <2>1, <2>3
  <2>5. \A i \in DOMAIN active : slot_id[active[i]] # s
    BY <1>0, <1>1, <1>2, <2>1, <2>2
  <2> QED
    BY <2>4, <2>5, Circulation
<1>5. LostSlots' \subseteq LostSlots
  BY <1>4 DEF LostSlots
<1> QED
  BY <1>0, <1>5, NoSlotLost

\* What the cleanup of a request does to the batch.
LEMMA CleanupFacts ==
    ASSUME IInv, Cleanup
    PROVE  /\ Current \in Requests /\ cursor \in DOMAIN active
           /\ done[Current] = "held" /\ slot_id[Current] \in Slots
           /\ \E ok \in BOOLEAN :
                 /\ done' = [done EXCEPT ![Current] = IF ok THEN "ok" ELSE "dropped"]
                 /\ metrics' = [metrics EXCEPT
                                  !.active_slots = Len(active) - 1,
                                  !.total_requests_completed = IF ok THEN @ + 1 ELSE @]
           /\ slot_id' = [slot_id EXCEPT ![Current] = NoSlot]
           /\ free_slots' = Append(free_slots, slot_id[Current])
           /\ received' = received /\ cancelled' = cancelled
           /\ Len(active') = Len(active) - 1
           /\ \A i \in DOMAIN active : i # cursor =>
                 \E j \in DOMAIN active' : active'[j] = active[i]
<1>1. cursor \in 1..Len(active) /\ cursor \in DOMAIN active /\ Current \in Requests
  <2>1. cursor <= Len(active) /\ cursor \in Nat \ {0}
    BY DEF Cleanup, IInv, TypeOK
  <2>2. TypeOK
    BY DEF IInv
  <2> QED
    BY <2>1, <2>2, TypeFacts DEF Current
<1>2. done[Current] = "held" /\ slot_id[Current] \in Slots
  BY <1>1 DEF IInv, QueuedIsOpen, SlotIsolation, Current
<1>3. \E ok \in BOOLEAN :
         /\ done' = [done EXCEPT ![Current] = IF ok THEN "ok" ELSE "dropped"]
         /\ metrics' = [metrics EXCEPT
                          !.active_slots = Len(active) - 1,
                          !.total_requests_completed = IF ok THEN @ + 1 ELSE @]
  <2> DEFINE ok == IsDone(Current) /\ ~IsCancelled(Current)
  <2>1. /\ done' = [done EXCEPT ![Current] = IF ok THEN "ok" ELSE "dropped"]
        /\ metrics' = [metrics EXCEPT
                         !.active_slots = Len(active) - 1,
                         !.total_requests_completed = IF ok THEN @ + 1 ELSE @]
    BY DEF Cleanup, Retire
  <2>2. ok \in BOOLEAN
    BY DEF IsDone, IsCancelled
  <2> QED
    BY <2>1, <2>2
<1>4. /\ slot_id' = [slot_id EXCEPT ![Current] = NoSlot]
      /\ free_slots' = Append(free_slots, slot_id[Current])
      /\ received' = received /\ cancelled' = cancelled
      /\ active' = RemoveAt(active, cursor)
  BY DEF Cleanup, Retire, ReleaseSlot
<1>5. /\ active' \in Seq(1..submitted) /\ Len(active') = Len(active) - 1
      /\ \A j \in 1..(Len(active) - 1) :
            active'[j] = IF j < cursor THEN active[j] ELSE active[j + 1]
  <2>1. active \in Seq(1..submitted)
    BY DEF IInv, TypeOK
  <2> QED
    BY <1>1, <1>4, <2>1, RemoveAtFacts
<1>6. ASSUME NEW i \in DOMAIN active, i # cursor
      PROVE  \E j \in DOMAIN active' : active'[j] = active[i]
  <2>1. DOMAIN active = 1..Len(active) /\ Len(active) \in Nat
    BY TypeFacts DEF IInv
  <2>2. DOMAIN active' = 1..(Len(active) - 1)
    BY <1>5
  <2>3. CASE i < cursor
    <3>1. i \in 1..(Len(active) - 1)
      BY <1>1, <2>1, <2>3
    <3> QED
      BY <1>5, <2>2, <2>3, <3>1
  <2>4. CASE i > cursor
    <3>1. i - 1 \in 1..(Len(active) - 1) /\ ~(i - 1 < cursor) /\ (i - 1) + 1 = i
      BY <1>1, <2>1, <2>4
    <3>2. active'[i - 1] = active[i]
      BY <1>5, <3>1
    <3> QED
      BY <2>2, <3>1, <3>2
  <2> QED
    BY <1>1, <1>6, <2>1, <2>3, <2>4
<1> QED
  BY <1>1, <1>2, <1>3, <1>4, <1>5, <1>6

LEMMA CleanupKeepsSlots ==
    ASSUME IInv, SlotsAccountedFor, Cleanup
    PROVE  SlotsAccountedFor'
<1> DEFINE r == Current
<1>0. /\ r \in Requests /\ slot_id[r] \in Slots /\ done[r] = "held"
      /\ slot_id' = [slot_id EXCEPT ![r] = NoSlot]
      /\ free_slots' = Append(free_slots, slot_id[r])
      /\ \A i \in DOMAIN active : i # cursor =>
            \E j \in DOMAIN active' : active'[j] = active[i]
      /\ active[cursor] = r /\ cursor \in DOMAIN active
  BY CleanupFacts DEF Current
<1>a. \E v : done' = [done EXCEPT ![r] = v]
  BY CleanupFacts, Zenon
<1>1. /\ DOMAIN active = 1..Len(active) /\ Len(active) \in Nat
      /\ DOMAIN free_slots = 1..Len(free_slots) /\ Len(free_slots) \in Nat
      /\ slot_id \in [Requests -> Slots \cup {NoSlot}]
      /\ \A i \in DOMAIN active : active[i] \in Requests /\ (i # cursor => active[i] # r)
      /\ free_slots \in Seq(Slots)
      /\ done \in [Requests -> {"held", "ok", "dropped", "refused"}]
  BY <1>0, TypeFacts, Distinct DEF IInv, TypeOK
<1> HIDE DEF r
<1>2. /\ DOMAIN free_slots' = 1..(Len(free_slots) + 1)
      /\ \A i \in 1..Len(free_slots) : free_slots'[i] = free_slots[i]
      /\ free_slots'[Len(free_slots) + 1] = slot_id[r]
  BY <1>0, <1>1, AppendProperties
<1>3. Len(free_slots) + 1 \in DOMAIN free_slots' /\ 1..Len(free_slots) \subseteq DOMAIN free_slots'
  BY <1>1, <1>2
<1>4. ASSUME NEW s \in Slots, s \in LostSlots' PROVE s \in LostSlots
  <2>1. /\ \A i \in DOMAIN free_slots' : free_slots'[i] # s
        /\ \A i \in DOMAIN active' : slot_id'[active'[i]] # s
    BY <1>4 DEF LostSlots, HeldSlots, ToSet
  <2>2. \A i \in DOMAIN free_slots : free_slots[i] # s
    BY <1>1, <1>2, <1>3, <2>1
  <2>3. slot_id[r] # s
    BY <1>2, <1>3, <2>1
  <2>4. ASSUME NEW i \in DOMAIN active PROVE slot_id[active[i]] # s
    <3>1. CASE i = cursor
      BY <1>0, <2>3, <3>1
    <3>2. CASE i # cursor
      <4>1. PICK j \in DOMAIN active' : active'[j] = active[i]
        BY <1>0, <3>2
      <4>2. slot_id'[active[i]] = slot_id[active[i]]
        BY <1>0, <1>1, <3>2
      <4> QED
        BY <2>1, <4>1, <4>2
    <3> QED
      BY <3>1, <3>2
  <2> QED
    BY <2>2, <2>4, Circulation
<1>5. LostSlots' \subseteq LostSlots
  BY <1>4 DEF LostSlots
<1>6. \A x \in Requests : done[x] = "refused" => done'[x] = "refused"
  BY <1>0, <1>1, <1>a
<1> QED
  BY <1>5, <1>6, NoSlotLost

\* A refused request may take one slot out of circulation, and is one more
\* refused request.
LEMMA RefuseKeepsSlots ==
    ASSUME IInv, SlotsAccountedFor, RefuseNoSlot \/ RefusePrefill \/ RefuseBind
    PROVE  SlotsAccountedFor'
<1> DEFINE r == pending[1]
<1>0. /\ pending # <<>> /\ active' = active /\ slot_id' = slot_id
      /\ done' = [done EXCEPT ![r] = "refused"]
      /\ \/ free_slots' = free_slots
         \/ free_slots # <<>> /\ free_slots' = Tail(free_slots)
  BY PendingFacts DEF RefuseNoSlot, RefusePrefill, RefuseBind, Refuse, CanAdmit,
                      clientVars, sendVars, memoryVars
<1>1. /\ r \in Requests /\ done[r] = "held"
      /\ done \in [Requests -> {"held", "ok", "dropped", "refused"}]
      /\ DOMAIN free_slots = 1..Len(free_slots) /\ Len(free_slots) \in Nat
  BY <1>0, PendingFacts, TypeFacts DEF IInv, TypeOK, QueuedIsOpen
<1> HIDE DEF r
<1>2. CASE free_slots' = free_slots
  <2>1. LostSlots' \subseteq LostSlots
    BY <1>0, <1>2 DEF LostSlots, HeldSlots, ToSet
  <2>2. \A x \in Requests : done[x] = "refused" => done'[x] = "refused"
    BY <1>0, <1>1
  <2> QED
    BY <2>1, <2>2, NoSlotLost
<1>3. CASE free_slots # <<>> /\ free_slots' = Tail(free_slots)
  <2> DEFINE h == free_slots[1]
             R == {x \in Requests : done[x] = "refused"}
             R1 == {x \in Requests : done'[x] = "refused"}
             L == LostSlots
             L1 == LostSlots'
  <2>1. \A i \in DOMAIN free_slots : i # 1 => i - 1 \in DOMAIN free_slots'
                                              /\ free_slots'[i - 1] = free_slots[i]
    <3>1. /\ DOMAIN Tail(free_slots) = 1..(Len(free_slots) - 1)
          /\ \A i \in 1..(Len(free_slots) - 1) : Tail(free_slots)[i] = free_slots[i + 1]
      BY <1>3, HeadTailProperties DEF IInv, TypeOK
    <3>2. ASSUME NEW i \in DOMAIN free_slots, i # 1
          PROVE  i - 1 \in 1..(Len(free_slots) - 1) /\ (i - 1) + 1 = i
      BY <1>1, <3>2
    <3> QED
      BY <1>3, <3>1, <3>2
  <2>2. ASSUME NEW s \in Slots, s \in LostSlots', s # h PROVE s \in LostSlots
    <3>1. /\ \A i \in DOMAIN free_slots' : free_slots'[i] # s
          /\ \A i \in DOMAIN active : slot_id[active[i]] # s
      BY <1>0, <2>2 DEF LostSlots, HeldSlots, ToSet
    <3>2. \A i \in DOMAIN free_slots : free_slots[i] # s
      BY <2>1, <2>2, <3>1
    <3> QED
      BY <3>1, <3>2, Circulation
  <2>3. /\ R1 = R \cup {r} /\ r \notin R
    BY <1>0, <1>1
  <2>4. L1 \in SUBSET (L \cup {h}) /\ L \in SUBSET Slots
    BY <2>2 DEF LostSlots
  <2>5. Cardinality(L) <= Cardinality(R) /\ R \in SUBSET Requests
    BY DEF SlotsAccountedFor
  <2> HIDE DEF R, R1, L, L1, h
  <2>6. /\ IsFiniteSet(L) /\ Cardinality(L) \in Nat
        /\ IsFiniteSet(R) /\ Cardinality(R) \in Nat
    BY <2>4, <2>5, FiniteParts
  <2>7. Cardinality(R1) = Cardinality(R) + 1
    BY <2>3, <2>6, FS_AddElement
  <2>8. /\ IsFiniteSet(L \cup {h}) /\ Cardinality(L \cup {h}) \in Nat
        /\ Cardinality(L \cup {h}) <= Cardinality(L) + 1
    <3>1. /\ IsFiniteSet(L \cup {h})
          /\ Cardinality(L \cup {h}) = IF h \in L THEN Cardinality(L) ELSE Cardinality(L) + 1
      BY <2>6, FS_AddElement, Zenon
    <3> QED
      BY <2>6, <3>1
  <2>9. Cardinality(L1) <= Cardinality(L \cup {h}) /\ IsFiniteSet(L1)
    BY <2>4, <2>8, FS_Subset
  <2>10. Cardinality(L1) \in Nat
    BY <2>9, FS_CardinalityType
  <2>11. Cardinality(L1) <= Cardinality(R1)
    BY <2>5, <2>6, <2>7, <2>8, <2>9, <2>10
  <2> QED
    BY <2>11 DEF SlotsAccountedFor, L1, R1
<1> QED
  BY <1>0, <1>2, <1>3

\* The sends touch no slot.
LEMMA SendKeepsSlots ==
    ASSUME SlotsAccountedFor, UNCHANGED <<done, active, slot_id, free_slots>>
    PROVE  SlotsAccountedFor'
BY DEF SlotsAccountedFor, LostSlots, HeldSlots

LEMMA NextSlots ==
    ASSUME IInv, SlotsAccountedFor, [Next]_vars
    PROVE  SlotsAccountedFor'
<1>1. CASE Quiet \/ UNCHANGED vars
  BY <1>1, QuietSteps, SendKeepsSlots DEF countVars
<1>2. CASE SendAccepted \/ SendAcceptedFails \/ SendRejected
  BY <1>2, SendKeepsSlots DEF SendAccepted, SendAcceptedFails, SendRejected, memoryVars
<1> QED
  BY <1>1, <1>2, AdmitKeepsSlots, RefuseKeepsSlots, CleanupKeepsSlots
     DEF Next, Worker, Clients, Quiet, Control

\* A slot of the pool goes missing only through an admission that was
\* refused after allocate_slot, one slot per such request, for any number of
\* slots and requests.
THEOREM SlotsAreAccountedFor == Spec => []SlotsAccountedFor
<1>1. Init => SlotsAccountedFor
  BY InitSlots
<1>2. IInv /\ SlotsAccountedFor /\ [Next]_vars => SlotsAccountedFor'
  BY NextSlots
<1> QED
  BY <1>1, <1>2, Invariance, PTL DEF Spec

-----------------------------------------------------------------------------
(***************************************************************************)
(* The metrics, counter by counter.                                        *)
(***************************************************************************)
Ended == {r \in Requests : done[r] = "ok"}
HungUp == {r \in Requests : cancelled[r]}
Sent == SumTo(received, MaxRequests)

CompletedAgree == metrics.total_requests_completed = Cardinality(Ended)
GaugeAgree == metrics.active_slots = Len(active)
TokensAgree == metrics.total_tokens_generated \in Sent..(Sent + Cardinality(HungUp))

LEMMA MetricsParts == MetricsAgree <=> CompletedAgree /\ GaugeAgree /\ TokensAgree
BY DEF MetricsAgree, CompletedAgree, GaugeAgree, TokensAgree, Ended, HungUp, Sent

LEMMA MetricsTypes ==
    ASSUME IInv
    PROVE  /\ metrics \in [total_tokens_generated : Nat,
                           total_requests_completed : Nat, active_slots : Nat]
           /\ metrics.total_tokens_generated \in Nat
           /\ metrics.total_requests_completed \in Nat
           /\ metrics.active_slots \in Nat
           /\ Sent \in Nat /\ Cardinality(HungUp) \in Nat
           /\ IsFiniteSet(Ended) /\ IsFiniteSet(HungUp)
<1>1. metrics \in [total_tokens_generated : Nat,
                   total_requests_completed : Nat, active_slots : Nat]
  BY DEF IInv, TypeOK
<1>2. received \in [1..MaxRequests -> Nat] /\ MaxRequests \in Nat
  BY ConstantsAssumption DEF IInv, TypeOK, Requests
<1>3. Sent \in Nat
  <2>1. \E s \in [0..MaxRequests -> Nat] : Sent = s[MaxRequests]
    BY <1>2, PartialSums DEF Sent
  <2> QED
    BY <1>2, <2>1
<1>4. Ended \in SUBSET Requests /\ HungUp \in SUBSET Requests
  BY DEF Ended, HungUp
<1>5. IsFiniteSet(Ended) /\ IsFiniteSet(HungUp) /\ Cardinality(HungUp) \in Nat
  BY <1>4, FiniteParts
<1> QED
  BY <1>1, <1>3, <1>5

LEMMA InitMetrics == Init => MetricsAgree
<1> SUFFICES ASSUME Init PROVE MetricsAgree
  OBVIOUS
<1>1. Ended = {} /\ HungUp = {}
  BY DEF Init, Ended, HungUp
<1>2. received \in [1..MaxRequests -> {0}] /\ MaxRequests \in Nat
  BY ConstantsAssumption DEF Init, Requests
<1>3. Sent = 0
  BY <1>2, SumOfZeros DEF Sent
<1>4. Cardinality(Ended) = 0 /\ Cardinality(HungUp) = 0
  BY <1>1, FS_EmptySet
<1>5. /\ metrics.total_tokens_generated = 0
      /\ metrics.total_requests_completed = 0
      /\ metrics.active_slots = Len(active)
  BY DEF Init
<1> QED
  BY <1>3, <1>4, <1>5, MetricsParts DEF CompletedAgree, GaugeAgree, TokensAgree

LEMMA AdmitKeepsMetrics ==
    ASSUME IInv, MetricsAgree, Admit
    PROVE  MetricsAgree'
<1>1. /\ done' = done /\ received' = received /\ cancelled' = cancelled
      /\ metrics' = [metrics EXCEPT !.active_slots = Len(active) + 1]
      /\ active' = Append(active, Head(pending))
  BY DEF Admit
<1>2. Len(active') = Len(active) + 1
  <2>1. active \in Seq(1..submitted) /\ Head(pending) \in 1..submitted
    BY PendingFacts DEF Admit, CanAdmit, IInv, TypeOK
  <2> QED
    BY <1>1, <2>1, AppendProperties
<1>3. /\ metrics'.active_slots = Len(active) + 1
      /\ metrics'.total_tokens_generated = metrics.total_tokens_generated
      /\ metrics'.total_requests_completed = metrics.total_requests_completed
  BY <1>1, MetricsTypes
<1>4. Ended' = Ended /\ HungUp' = HungUp /\ Sent' = Sent
  BY <1>1 DEF Ended, HungUp, Sent
<1>5. CompletedAgree' /\ GaugeAgree' /\ TokensAgree'
  BY <1>2, <1>3, <1>4, MetricsParts DEF CompletedAgree, GaugeAgree, TokensAgree
<1> QED
  BY <1>5 DEF MetricsAgree, CompletedAgree, GaugeAgree, TokensAgree, Ended, HungUp, Sent

\* A refused request was not completed.
LEMMA RefuseKeepsMetrics ==
    ASSUME IInv, MetricsAgree, RefuseNoSlot \/ RefusePrefill \/ RefuseBind
    PROVE  MetricsAgree'
<1> DEFINE r == pending[1]
<1>0. /\ pending # <<>> /\ active' = active /\ received' = received
      /\ cancelled' = cancelled /\ metrics' = metrics
      /\ done' = [done EXCEPT ![r] = "refused"]
  BY PendingFacts DEF RefuseNoSlot, RefusePrefill, RefuseBind, Refuse, CanAdmit,
                      clientVars, sendVars
<1>1. /\ r \in Requests /\ done[r] = "held"
      /\ done \in [Requests -> {"held", "ok", "dropped", "refused"}]
  BY <1>0, PendingFacts DEF IInv, TypeOK, QueuedIsOpen
<1> HIDE DEF r
<1>2. Ended' = Ended
  BY <1>0, <1>1 DEF Ended
<1>3. CompletedAgree' /\ GaugeAgree' /\ TokensAgree'
  BY <1>0, <1>2, MetricsParts
     DEF CompletedAgree, GaugeAgree, TokensAgree, HungUp, Sent
<1> QED
  BY <1>3 DEF MetricsAgree, CompletedAgree, GaugeAgree, TokensAgree, Ended, HungUp, Sent

\* A request is counted as completed when, and only when, its client is told.
LEMMA CleanupKeepsMetrics ==
    ASSUME IInv, MetricsAgree, Cleanup
    PROVE  MetricsAgree'
<1> DEFINE r == Current
<1>1. PICK ok \in BOOLEAN :
         /\ done' = [done EXCEPT ![r] = IF ok THEN "ok" ELSE "dropped"]
         /\ metrics' = [metrics EXCEPT
                          !.active_slots = Len(active) - 1,
                          !.total_requests_completed = IF ok THEN @ + 1 ELSE @]
  BY CleanupFacts
<1>2. /\ r \in Requests /\ done[r] = "held"
      /\ received' = received /\ cancelled' = cancelled
      /\ Len(active') = Len(active) - 1
      /\ done \in [Requests -> {"held", "ok", "dropped", "refused"}]
  BY CleanupFacts DEF IInv, TypeOK
<1> HIDE DEF r
<1>3. /\ metrics'.active_slots = Len(active) - 1
      /\ metrics'.total_tokens_generated = metrics.total_tokens_generated
      /\ ok => metrics'.total_requests_completed = metrics.total_requests_completed + 1
      /\ ~ok => metrics'.total_requests_completed = metrics.total_requests_completed
  BY <1>1, MetricsTypes
<1>4. HungUp' = HungUp /\ Sent' = Sent
  BY <1>2 DEF HungUp, Sent
<1>5. GaugeAgree' /\ TokensAgree'
  BY <1>2, <1>3, <1>4, MetricsParts DEF GaugeAgree, TokensAgree
<1>6. CompletedAgree'
  <2>1. CASE ok
    <3>1. Ended' = Ended \cup {r} /\ r \notin Ended
      BY <1>1, <1>2, <2>1 DEF Ended
    <3>2. Cardinality(Ended') = Cardinality(Ended) + 1
      BY <3>1, MetricsTypes, FS_AddElement
    <3> QED
      BY <1>3, <2>1, <3>2, MetricsParts DEF CompletedAgree
  <2>2. CASE ~ok
    <3>1. Ended' = Ended
      BY <1>1, <1>2, <2>2 DEF Ended
    <3> QED
      BY <1>3, <2>2, <3>1, MetricsParts DEF CompletedAgree
  <2> QED
    BY <2>1, <2>2
<1> QED
  BY <1>5, <1>6 DEF MetricsAgree, CompletedAgree, GaugeAgree, TokensAgree, Ended, HungUp, Sent

\* What a delivered token and a failed delivery do to the counts.
LEMMA DeliverCounts ==
    ASSUME IInv, NEW r \in Requests, Deliver(r)
    PROVE  Sent' = Sent + 1 /\ HungUp' = HungUp
<1>1. /\ received \in [1..MaxRequests -> Nat] /\ MaxRequests \in Nat
      /\ received' \in [1..MaxRequests -> Nat] /\ r \in 1..MaxRequests
      /\ received'[r] = received[r] + 1
      /\ \A x \in 1..MaxRequests : x # r => received'[x] = received[x]
      /\ cancelled' = cancelled
  BY DeliverFacts, ConstantsAssumption DEF IInv, TypeOK, Requests
<1>2. SumTo(received', MaxRequests) = SumTo(received, MaxRequests) + 1
  BY <1>1, SumOfIncrement
<1> QED
  BY <1>1, <1>2 DEF Sent, HungUp

LEMMA DeliverFailsCounts ==
    ASSUME IInv, NEW r \in Requests, DeliverFails(r), ~cancelled[r]
    PROVE  Sent' = Sent /\ Cardinality(HungUp') = Cardinality(HungUp) + 1
<1>1. /\ cancelled'[r] /\ received' = received
      /\ \A x \in Requests : x # r => cancelled'[x] = cancelled[x]
  BY DeliverFailsFacts
<1>2. HungUp' = HungUp \cup {r} /\ r \notin HungUp
  BY <1>1 DEF HungUp
<1>3. Cardinality(HungUp') = Cardinality(HungUp) + 1
  BY <1>2, MetricsTypes, FS_AddElement
<1> QED
  BY <1>1, <1>3 DEF Sent

\* A counted token was put into a channel or was the last one of a client
\* that hung up; a client hangs up once.
LEMMA SendKeepsMetrics ==
    ASSUME IInv, MetricsAgree, SendAccepted \/ SendAcceptedFails \/ SendRejected
    PROVE  MetricsAgree'
<1>1. /\ pc = "send" /\ done' = done /\ active' = active
      /\ accepted > 0 \/ rejected
  BY DEF SendAccepted, SendAcceptedFails, SendRejected
<1>2. Current \in Requests /\ ~cancelled[Current]
  BY <1>1, SendFacts DEF IInv, RoundFits
<1>3. Ended' = Ended /\ Cardinality(HungUp) \in Nat /\ Sent \in Nat
      /\ metrics.total_tokens_generated \in Nat
  BY <1>1, MetricsTypes DEF Ended
<1>4. /\ metrics.total_tokens_generated >= Sent
      /\ metrics.total_tokens_generated <= Sent + Cardinality(HungUp)
  BY <1>3, MetricsParts DEF TokensAgree
<1>5. ASSUME Count(Current)
      PROVE  /\ metrics'.total_tokens_generated = metrics.total_tokens_generated + 1
             /\ metrics'.total_requests_completed = metrics.total_requests_completed
             /\ metrics'.active_slots = metrics.active_slots
  BY <1>5, MetricsTypes DEF Count
<1>6. CompletedAgree' /\ GaugeAgree'
  <2>1. CASE Count(Current)
    BY <1>1, <1>3, <1>5, <2>1, MetricsParts DEF CompletedAgree, GaugeAgree
  <2>2. CASE metrics' = metrics
    BY <1>1, <1>3, <2>2, MetricsParts DEF CompletedAgree, GaugeAgree
  <2> QED
    BY <2>1, <2>2 DEF SendAccepted, SendAcceptedFails, SendRejected
<1>7. TokensAgree'
  <2>1. CASE Deliver(Current) /\ Count(Current)
    <3>1. Sent' = Sent + 1 /\ HungUp' = HungUp
      BY <1>2, <2>1, DeliverCounts
    <3>2. metrics'.total_tokens_generated = metrics.total_tokens_generated + 1
      BY <1>5, <2>1
    <3>3. metrics.total_tokens_generated + 1
             \in (Sent + 1)..((Sent + 1) + Cardinality(HungUp))
      BY ONLY <1>3, <1>4
    <3> QED
      BY <3>1, <3>2, <3>3 DEF TokensAgree
  <2>2. CASE DeliverFails(Current)
    <3>1. Sent' = Sent /\ Cardinality(HungUp') = Cardinality(HungUp) + 1
      BY <1>2, <2>2, DeliverFailsCounts
    <3>2. \/ metrics'.total_tokens_generated = metrics.total_tokens_generated + 1
          \/ metrics'.total_tokens_generated = metrics.total_tokens_generated
      BY <1>5 DEF SendAccepted, SendAcceptedFails, SendRejected
    <3>3. /\ metrics.total_tokens_generated + 1 \in Sent..(Sent + (Cardinality(HungUp) + 1))
          /\ metrics.total_tokens_generated \in Sent..(Sent + (Cardinality(HungUp) + 1))
      BY ONLY <1>3, <1>4
    <3> QED
      BY <3>1, <3>2, <3>3 DEF TokensAgree
  <2> QED
    BY <2>1, <2>2 DEF SendAccepted, SendAcceptedFails, SendRejected
<1> QED
  BY <1>6, <1>7 DEF MetricsAgree, CompletedAgree, GaugeAgree, TokensAgree, Ended, HungUp, Sent

LEMMA NextMetrics ==
    ASSUME IInv, MetricsAgree, [Next]_vars
    PROVE  MetricsAgree'
<1>1. CASE Quiet \/ UNCHANGED vars
  BY <1>1, QuietSteps DEF MetricsAgree, countVars
<1> QED
  BY <1>1, AdmitKeepsMetrics, RefuseKeepsMetrics, CleanupKeepsMetrics, SendKeepsMetrics
     DEF Next, Worker, Clients, Quiet, Control

\* The metrics endpoint counts a request as completed exactly when its client
\* was told so, reports the true size of the batch, and counts the tokens in
\* the channels, up to one for each client that hung up.
THEOREM MetricsAreRight == Spec => []MetricsAgree
<1>1. Init => MetricsAgree
  BY InitMetrics
<1>2. IInv /\ MetricsAgree /\ [Next]_vars => MetricsAgree'
  BY NextMetrics
<1> QED
  BY <1>1, <1>2, Invariance, PTL DEF Spec
=============================================================================
