------------------------------ MODULE Scheduler ------------------------------
(***************************************************************************)
(* The continuous-batching scheduler of velo-core: VeloScheduler::submit,  *)
(* the background worker that VeloScheduler::start spawns, and the slot    *)
(* pool and page pool it draws on through VeloEngine.                      *)
(*                                                                         *)
(* Clients and the worker run on different threads and share three         *)
(* channels per request, so a client may submit or hang up between any two *)
(* channel operations of the worker: the worker is split into one action   *)
(* per channel operation, and the client actions interleave with them.     *)
(*                                                                         *)
(* Tokens are counted, not named (their values are the business of         *)
(* Speculative.tla).  A prompt is an opaque value with a size in pages.    *)
(* Administrative commands (phase 1 of the loop) touch the model pool and  *)
(* the models only, none of the state below.                               *)
(***************************************************************************)
EXTENDS Naturals, Sequences, FiniteSets, SequencesExt

CONSTANTS
    MaxSlots,      \* max_slots of the memory configuration
    DraftWindow,   \* the decoder's draft window
    TotalPages,    \* paged_total_pages of the memory configuration
    Prompts,       \* the prompts clients may submit
    PagesFor,      \* pages_for_tokens of each prompt; 0 for the empty prompt
    Budgets,       \* the values of max_new_tokens clients may ask for
    BindMayFail,   \* whether the models' bind_slot or bind_prefix_cache may fail
    MaxRequests    \* bound: how many requests are submitted in all

ASSUME ConstantsAssumption ==
    /\ MaxSlots \in Nat
    /\ DraftWindow \in Nat \ {0}       \* SpeculativeDecoder::new refuses 0
    /\ TotalPages \in Nat
    /\ PagesFor \in [Prompts -> Nat]
    /\ Budgets \subseteq Nat
    /\ BindMayFail \in BOOLEAN
    /\ MaxRequests \in Nat

\* Requests are numbered in the order of submission.
Requests == 1..MaxRequests
Slots == 0..(MaxSlots - 1)
NoSlot == MaxSlots

VARIABLES
    submitted,      \* number of requests submitted so far
    scheduler_open, \* the VeloScheduler handle, hence request_tx, is alive
    request_rx,     \* the channel of submitted requests
    token_rx,       \* per request: the client's end of the token channel
    received,       \* per request: tokens put into that channel
    done,           \* per request: fate of done_tx; a client cannot tell
                    \* "dropped" (served in part) from "refused" (not at all)
    prompt,         \* per request: SchedulerRequest.prompt
    max_new_tokens, \* per request: SchedulerRequest.max_new_tokens
    pc,             \* where the worker is in its loop
    pending,        \* requests drained from the channel, not yet admitted
    active,         \* admitted requests, in the order of the active vector
    slot_id,        \* per request: ActiveRequestInternal.slot_id
    generated,      \* per request: ActiveRequestInternal.generated_count
    cancelled,      \* per request: ActiveRequestInternal.cancelled
    cursor,         \* index into active of the commit and cleanup loops
    accepted,       \* accepted tokens of the current commit still to send
    rejected,       \* the current session has a pending rejected token
    free_slots,     \* SlotPool.free_slots
    free_pages,     \* number of free pages of the page manager
    cached,         \* prompts the prefix cache holds a handle for
    metrics         \* SchedulerMetrics, the counters the worker maintains

clientVars == <<submitted, scheduler_open, token_rx, prompt, max_new_tokens>>
memoryVars == <<free_slots, free_pages, cached>>
sendVars == <<cursor, accepted, rejected>>
vars == <<submitted, scheduler_open, request_rx, token_rx, received, done,
          prompt, max_new_tokens, pc, pending, active, slot_id, generated,
          cancelled, cursor, accepted, rejected, free_slots, free_pages,
          cached, metrics>>

Phases == {"intake", "admit", "recv", "step", "commit", "send", "cleanup",
           "stopped"}

TypeOK ==
    /\ submitted \in 0..MaxRequests
    /\ scheduler_open \in BOOLEAN
    /\ request_rx \in Seq(1..submitted)
    /\ token_rx \in [Requests -> {"none", "open", "closed"}]
    /\ received \in [Requests -> Nat]
    /\ done \in [Requests -> {"held", "ok", "dropped", "refused"}]
    /\ prompt \in [Requests -> Prompts]
    /\ max_new_tokens \in [Requests -> Budgets]
    /\ pc \in Phases
    /\ pending \in Seq(1..submitted)
    /\ active \in Seq(1..submitted)
    /\ slot_id \in [Requests -> Slots \cup {NoSlot}]
    /\ generated \in [Requests -> Nat]
    /\ cancelled \in [Requests -> BOOLEAN]
    /\ cursor \in Nat \ {0}
    /\ accepted \in Nat
    /\ rejected \in BOOLEAN
    /\ free_slots \in Seq(Slots)
    /\ free_pages \in 0..TotalPages
    /\ cached \in SUBSET Prompts
    /\ metrics \in [total_tokens_generated : Nat,
                    total_requests_completed : Nat,
                    active_slots : Nat]

\* The request the commit loop or the cleanup loop is working on.
Current == active[cursor]

-----------------------------------------------------------------------------
(***************************************************************************)
(* Initial state: SlotPool::new, PagedAttentionBlockManager::new, an empty *)
(* prefix cache, and the worker at the top of its loop.  What each client  *)
(* will ask for is chosen up front and never changes.                      *)
(***************************************************************************)
Init ==
    /\ submitted = 0
    /\ scheduler_open = TRUE
    /\ request_rx = <<>>
    /\ token_rx = [r \in Requests |-> "none"]
    /\ received = [r \in Requests |-> 0]
    /\ done = [r \in Requests |-> "held"]
    /\ prompt \in [Requests -> Prompts]
    /\ max_new_tokens \in [Requests -> Budgets]
    /\ pc = "intake"
    /\ pending = <<>>
    /\ active = <<>>
    /\ slot_id = [r \in Requests |-> NoSlot]
    /\ generated = [r \in Requests |-> 0]
    /\ cancelled = [r \in Requests |-> FALSE]
    /\ cursor = 1
    /\ accepted = 0
    /\ rejected = FALSE
    /\ free_slots = [i \in 1..MaxSlots |-> i - 1]
    /\ free_pages = TotalPages
    /\ cached = {}
    /\ metrics = [total_tokens_generated |-> 0,
                  total_requests_completed |-> 0,
                  active_slots |-> 0]

-----------------------------------------------------------------------------
(***************************************************************************)
(* Clients.                                                                *)
(***************************************************************************)

\* VeloScheduler::submit: both channels are created, the request is queued.
Submit ==
    /\ scheduler_open
    /\ submitted < MaxRequests
    /\ submitted' = submitted + 1
    /\ token_rx' = [token_rx EXCEPT ![submitted + 1] = "open"]
    /\ request_rx' = Append(request_rx, submitted + 1)
    /\ UNCHANGED <<scheduler_open, received, done, prompt, max_new_tokens, pc,
                   pending, active, slot_id, generated, cancelled, sendVars,
                   memoryVars, metrics>>

\* A client drops the token receiver that submit gave it.
HangUp(r) ==
    /\ token_rx[r] = "open"
    /\ token_rx' = [token_rx EXCEPT ![r] = "closed"]
    /\ UNCHANGED <<submitted, scheduler_open, request_rx, received, done,
                   prompt, max_new_tokens, pc, pending, active, slot_id,
                   generated, cancelled, sendVars, memoryVars, metrics>>

\* The owner drops the VeloScheduler: request_tx closes.
DropScheduler ==
    /\ scheduler_open
    /\ scheduler_open' = FALSE
    /\ UNCHANGED <<submitted, request_rx, token_rx, received, done, prompt,
                   max_new_tokens, pc, pending, active, slot_id, generated,
                   cancelled, sendVars, memoryVars, metrics>>

-----------------------------------------------------------------------------
(***************************************************************************)
(* Worker, phases 2 and 3: intake and admission.                           *)
(***************************************************************************)

\* Mutant of Intake: new requests go in front of the waiting ones.
IntakeInFront ==
    /\ pc = "intake"
    /\ pending' = request_rx \o pending
    /\ request_rx' = <<>>
    /\ pc' = "admit"
    /\ UNCHANGED <<clientVars, received, done, active, slot_id, generated,
                   cancelled, sendVars, memoryVars, metrics>>

\* Drain everything the channel holds.
Intake ==
    /\ pc = "intake"
    /\ pending' = pending \o request_rx
    /\ request_rx' = <<>>
    /\ pc' = "admit"
    /\ UNCHANGED <<clientVars, received, done, active, slot_id, generated,
                   cancelled, sendVars, memoryVars, metrics>>

\* Condition of the admission loop.
CanAdmit == Len(active) < MaxSlots /\ pending # <<>>

\* VeloEngine::prefill stores a handle for the whole prompt unless the cache
\* already has one for exactly that prompt, or the prompt is empty.
IsHit(p) == PagesFor[p] = 0 \/ p \in cached

\* Mutant of PrefillSucceeds: the capacity check of allocate is missing.
PrefillUnchecked(p) == TRUE

\* PagedAttentionBlockManager::allocate succeeds, or is not called.
PrefillSucceeds(p) == IsHit(p) \/ PagesFor[p] <= free_pages

Prefill(p) ==
    /\ PrefillSucceeds(p)
    /\ free_pages' = IF IsHit(p) THEN free_pages ELSE free_pages - PagesFor[p]
    /\ cached' = IF IsHit(p) THEN cached ELSE cached \cup {p}

\* A request that admit_request refuses is dropped with both its senders.
Refuse(r) ==
    /\ pending' = Tail(pending)
    /\ done' = [done EXCEPT ![r] = "refused"]
    /\ UNCHANGED <<clientVars, request_rx, received, pc, active, slot_id,
                   generated, cancelled, sendVars, metrics>>

\* admit_request: a slot, then the prompt's pages, then the bindings.
Admit ==
    /\ pc = "admit"
    /\ CanAdmit
    /\ free_slots # <<>>
    /\ LET r == Head(pending) IN
          /\ Prefill(prompt[r])
          /\ slot_id' = [slot_id EXCEPT ![r] = Head(free_slots)]
          /\ active' = Append(active, r)
    /\ free_slots' = Tail(free_slots)
    /\ pending' = Tail(pending)
    /\ metrics' = [metrics EXCEPT !.active_slots = Len(active) + 1]
    /\ UNCHANGED <<clientVars, request_rx, received, done, pc, generated,
                   cancelled, sendVars>>

\* allocate_slot returns None.
RefuseNoSlot ==
    /\ pc = "admit"
    /\ CanAdmit
    /\ free_slots = <<>>
    /\ Refuse(Head(pending))
    /\ UNCHANGED memoryVars

\* prefill fails with OutOfPages; the slot taken before it is not given back.
RefusePrefill ==
    /\ pc = "admit"
    /\ CanAdmit
    /\ free_slots # <<>>
    /\ ~PrefillSucceeds(prompt[Head(pending)])
    /\ free_slots' = Tail(free_slots)
    /\ Refuse(Head(pending))
    /\ UNCHANGED <<free_pages, cached>>

\* One of the four bind calls on the models fails: likewise.
RefuseBind ==
    /\ BindMayFail
    /\ pc = "admit"
    /\ CanAdmit
    /\ free_slots # <<>>
    /\ Prefill(prompt[Head(pending)])
    /\ free_slots' = Tail(free_slots)
    /\ Refuse(Head(pending))

\* Mutant of EndAdmission: waits for a request although a batch is active.
EndAdmissionIgnoringActive ==
    /\ pc = "admit"
    /\ ~CanAdmit
    /\ pc' = IF pending = <<>> THEN "recv"
             ELSE IF active # <<>> THEN "step" ELSE "cleanup"
    /\ cursor' = 1
    /\ UNCHANGED <<clientVars, request_rx, received, done, pending, active,
                   slot_id, generated, cancelled, accepted, rejected,
                   memoryVars, metrics>>

\* The admission loop ends: wait if there is nothing to do, else step the
\* batch if there is one.
EndAdmission ==
    /\ pc = "admit"
    /\ ~CanAdmit
    /\ pc' = IF active # <<>> THEN "step"
             ELSE IF pending = <<>> THEN "recv" ELSE "cleanup"
    /\ cursor' = 1
    /\ UNCHANGED <<clientVars, request_rx, received, done, pending, active,
                   slot_id, generated, cancelled, accepted, rejected,
                   memoryVars, metrics>>

\* request_rx.recv() yields a request: back to the top of the loop.
Receive ==
    /\ pc = "recv"
    /\ request_rx # <<>>
    /\ pending' = Append(pending, Head(request_rx))
    /\ request_rx' = Tail(request_rx)
    /\ pc' = "intake"
    /\ UNCHANGED <<clientVars, received, done, active, slot_id, generated,
                   cancelled, sendVars, memoryVars, metrics>>

\* request_rx.recv() yields None: the channel is closed and empty.
Stop ==
    /\ pc = "recv"
    /\ request_rx = <<>>
    /\ ~scheduler_open
    /\ pc' = "stopped"
    /\ UNCHANGED <<clientVars, request_rx, received, done, pending, active,
                   slot_id, generated, cancelled, sendVars, memoryVars, metrics>>

-----------------------------------------------------------------------------
(***************************************************************************)
(* Worker, phase 4: step, one round of draft, verify, commit and send.     *)
(***************************************************************************)

\* draft_batch and verify_batch succeed; nothing of the requests changes yet.
DraftAndVerify ==
    /\ pc = "step"
    /\ pc' = "commit"
    /\ cursor' = 1
    /\ UNCHANGED <<clientVars, request_rx, received, done, pending, active,
                   slot_id, generated, cancelled, accepted, rejected,
                   memoryVars, metrics>>

\* draft_batch, verify_batch or a session's commit fails: step returns early,
\* the requests from the cursor on keep their state.
StepFails ==
    /\ \/ pc = "step"
       \/ pc = "commit" /\ cursor <= Len(active)
    /\ pc' = "cleanup"
    /\ cursor' = 1
    /\ UNCHANGED <<clientVars, request_rx, received, done, pending, active,
                   slot_id, generated, cancelled, accepted, rejected,
                   memoryVars, metrics>>

\* Mutant of Window: the remaining budget is ignored.
WindowUnclamped(r) == DraftWindow

\* How many tokens are asked of the draft model for request r: the decoder's
\* window, never more than the request still wants.
Window(r) ==
    LET remaining == max_new_tokens[r] - generated[r]
    IN  IF DraftWindow < remaining THEN DraftWindow ELSE remaining

\* The draft model returned d tokens, no more than it was asked for and
\* perhaps fewer.  The target agrees with the first a of them; unless it agrees
\* with all, the session keeps the target's next token as the rejected one.
Commit ==
    /\ pc = "commit"
    /\ cursor <= Len(active)
    /\ \E d \in 0..Window(Current) : \E a \in 0..d :
          /\ accepted' = a
          /\ rejected' = (a < d)
    /\ pc' = "send"
    /\ UNCHANGED <<clientVars, request_rx, received, done, pending, active,
                   slot_id, generated, cancelled, cursor, memoryVars, metrics>>

EndCommit ==
    /\ pc = "commit"
    /\ cursor > Len(active)
    /\ pc' = "cleanup"
    /\ cursor' = 1
    /\ UNCHANGED <<clientVars, request_rx, received, done, pending, active,
                   slot_id, generated, cancelled, accepted, rejected,
                   memoryVars, metrics>>

\* A token goes into the channel of request r and is counted.
Deliver(r) ==
    /\ token_rx[r] = "open"
    /\ received' = [received EXCEPT ![r] = @ + 1]
    /\ UNCHANGED cancelled

\* The send fails because the receiver is gone.
DeliverFails(r) ==
    /\ token_rx[r] = "closed"
    /\ cancelled' = [cancelled EXCEPT ![r] = TRUE]
    /\ UNCHANGED received

Count(r) ==
    /\ generated' = [generated EXCEPT ![r] = @ + 1]
    /\ metrics' = [metrics EXCEPT !.total_tokens_generated = @ + 1]

\* One accepted token is sent and counted.
SendAccepted ==
    /\ pc = "send"
    /\ accepted > 0
    /\ Deliver(Current)
    /\ Count(Current)
    /\ accepted' = accepted - 1
    /\ UNCHANGED <<clientVars, request_rx, done, pc, pending, active, slot_id,
                   cursor, rejected, memoryVars>>

\* The client is gone: the rest of this request's round is abandoned.
SendAcceptedFails ==
    /\ pc = "send"
    /\ accepted > 0
    /\ DeliverFails(Current)
    /\ accepted' = 0
    /\ rejected' = FALSE
    /\ cursor' = cursor + 1
    /\ pc' = "commit"
    /\ UNCHANGED <<clientVars, request_rx, done, pending, active, slot_id,
                   generated, memoryVars, metrics>>

\* The target's own token follows the accepted ones.  It is counted whether
\* or not the send succeeds.
SendRejected ==
    /\ pc = "send"
    /\ accepted = 0
    /\ rejected
    /\ Deliver(Current) \/ DeliverFails(Current)
    /\ Count(Current)
    /\ rejected' = FALSE
    /\ UNCHANGED <<clientVars, request_rx, done, pc, pending, active, slot_id,
                   cursor, accepted, memoryVars>>

EndSend ==
    /\ pc = "send"
    /\ accepted = 0
    /\ ~rejected
    /\ cursor' = cursor + 1
    /\ pc' = "commit"
    /\ UNCHANGED <<clientVars, request_rx, received, done, pending, active,
                   slot_id, generated, cancelled, accepted, rejected,
                   memoryVars, metrics>>

-----------------------------------------------------------------------------
(***************************************************************************)
(* Worker, phase 5: cleanup, one request per step.                         *)
(***************************************************************************)

\* Mutants of IsDone, IsCancelled and ReleaseSlot: an off-by-one, the missing
\* is_closed check, a slot released twice, a slot not released.
IsDoneEarly(r) == generated[r] + 1 >= max_new_tokens[r]
IsCancelledBySendOnly(r) == cancelled[r]
ReleaseSlotTwice(s) == free_slots' = free_slots \o <<s, s>>
ReleaseSlotForgotten(s) == UNCHANGED free_slots

IsDone(r) == generated[r] >= max_new_tokens[r]
IsCancelled(r) == cancelled[r] \/ token_rx[r] = "closed"

\* SlotPool::release: the slot goes to the back of the free queue.
ReleaseSlot(s) == free_slots' = Append(free_slots, s)

Keep ==
    /\ pc = "cleanup"
    /\ cursor <= Len(active)
    /\ ~IsDone(Current)
    /\ ~IsCancelled(Current)
    /\ cursor' = cursor + 1
    /\ UNCHANGED <<clientVars, request_rx, received, done, pc, pending, active,
                   slot_id, generated, cancelled, accepted, rejected,
                   memoryVars, metrics>>

\* Mutant of Retire: a request that was cancelled counts as completed.
RetireCountingAll(r) ==
    /\ active' = RemoveAt(active, cursor)
    /\ ReleaseSlot(slot_id[r])
    /\ slot_id' = [slot_id EXCEPT ![r] = NoSlot]
    /\ LET ok == IsDone(r) /\ ~IsCancelled(r) IN
          /\ done' = [done EXCEPT ![r] = IF ok THEN "ok" ELSE "dropped"]
          /\ metrics' = [metrics EXCEPT
                            !.active_slots = Len(active) - 1,
                            !.total_requests_completed = @ + 1]

\* The request leaves the batch; done_tx is used only if it is done and its
\* client is still there, and dropped otherwise.
Retire(r) ==
    /\ active' = RemoveAt(active, cursor)
    /\ ReleaseSlot(slot_id[r])
    /\ slot_id' = [slot_id EXCEPT ![r] = NoSlot]
    /\ LET ok == IsDone(r) /\ ~IsCancelled(r) IN
          /\ done' = [done EXCEPT ![r] = IF ok THEN "ok" ELSE "dropped"]
          /\ metrics' = [metrics EXCEPT
                            !.active_slots = Len(active) - 1,
                            !.total_requests_completed = IF ok THEN @ + 1 ELSE @]

Cleanup ==
    /\ pc = "cleanup"
    /\ cursor <= Len(active)
    /\ IsDone(Current) \/ IsCancelled(Current)
    /\ Retire(Current)
    /\ UNCHANGED <<clientVars, request_rx, received, pc, pending, generated,
                   cancelled, sendVars, free_pages, cached>>

EndCleanup ==
    /\ pc = "cleanup"
    /\ cursor > Len(active)
    /\ pc' = "intake"
    /\ UNCHANGED <<clientVars, request_rx, received, done, pending, active,
                   slot_id, generated, cancelled, sendVars, memoryVars, metrics>>

-----------------------------------------------------------------------------
Worker ==
    \/ Intake \/ Admit \/ RefuseNoSlot \/ RefusePrefill \/ RefuseBind
    \/ EndAdmission \/ Receive \/ Stop
    \/ DraftAndVerify \/ StepFails \/ Commit \/ EndCommit
    \/ SendAccepted \/ SendAcceptedFails \/ SendRejected \/ EndSend
    \/ Keep \/ Cleanup \/ EndCleanup

Clients == Submit \/ DropScheduler \/ \E r \in Requests : HangUp(r)

Next == Worker \/ Clients

Spec == Init /\ [][Next]_vars

\* The runtime polls the worker task again and again, and every phase of the
\* loop ends, so the worker keeps moving.  Nothing is assumed of the clients.
FairSpec == Spec /\ WF_vars(Worker)

\* The models fail, or draft nothing, now and then but not for ever.
Progress == Commit /\ (Window(Current) > 0 => accepted' > 0 \/ rejected')
FaultsAreTransient == SF_vars(DraftAndVerify) /\ SF_vars(Progress)
-----------------------------------------------------------------------------
(***************************************************************************)
(* Properties.                                                             *)
(***************************************************************************)

HeldSlots == {slot_id[active[i]] : i \in DOMAIN active}
LostSlots == Slots \ (ToSet(free_slots) \cup HeldSlots)

\* slot_manager.rs promises that concurrent requests are isolated in GPU
\* memory: no two requests of the batch hold the same slot, none holds a slot
\* that is still in the free queue, and no slot is queued twice, however
\* admissions, refusals, hang-ups and releases interleave.
SlotIsolation ==
    /\ \A i, j \in DOMAIN free_slots :
          free_slots[i] = free_slots[j] => i = j
    /\ \A i, j \in DOMAIN active :
          slot_id[active[i]] = slot_id[active[j]] => i = j
    /\ \A i \in DOMAIN active :
          /\ slot_id[active[i]] \in Slots
          /\ \A j \in DOMAIN free_slots : free_slots[j] # slot_id[active[i]]

\* A slot leaves circulation only through a refused admission: the cleanup
\* loop of the worker returns the slot of every request that was admitted,
\* finished or hung up.
SlotsAccountedFor ==
    Cardinality(LostSlots)
        <= Cardinality({r \in Requests : done[r] = "refused"})

\* step computes max_new_tokens - generated_count on usize: the count must
\* never pass the budget, whatever the target accepts and whenever the client
\* hangs up.  The count is the number of tokens in the client's channel; only
\* for a cancelled request may it be one more.
GeneratedWithinBudget ==
    \A r \in Requests :
        /\ generated[r] <= max_new_tokens[r]
        /\ received[r] <= generated[r]
        /\ generated[r] <= received[r] + 1
        /\ generated[r] # received[r] => cancelled[r]

\* done_tx carries Ok only to a client whose channel holds exactly the number
\* of tokens it asked for, and stays true afterwards.
DoneMeansComplete ==
    \A r \in Requests : done[r] = "ok" => received[r] = max_new_tokens[r]

\* Requests are served in the order of submission: the batch, the pending
\* queue and the channel, read in this order, are sorted by the number of the
\* request and hold no request twice.
Sorted(q) == \A i, j \in DOMAIN q : i < j => q[i] < q[j]
Before(q, s) == \A i \in DOMAIN q, j \in DOMAIN s : q[i] < s[j]
NoOvertaking ==
    /\ Sorted(active) /\ Sorted(pending) /\ Sorted(request_rx)
    /\ Before(active, pending)
    /\ Before(active, request_rx)
    /\ Before(pending, request_rx)

\* f[1] + ... + f[n].
SumTo(f, n) ==
    LET s[i \in 0..n] == IF i = 0 THEN 0 ELSE s[i - 1] + f[i] IN s[n]

\* What the metrics endpoint reports agrees with what clients were told: the
\* completed counter with the done notifications, the gauge with the batch,
\* the token counter with the channels, up to one token per hang-up.
MetricsAgree ==
    LET ended == {r \in Requests : done[r] = "ok"}
        tokens == SumTo(received, MaxRequests)
        hangups == Cardinality({r \in Requests : cancelled[r]})
    IN  /\ metrics.total_requests_completed = Cardinality(ended)
        /\ metrics.active_slots = Len(active)
        /\ metrics.total_tokens_generated \in tokens..(tokens + hangups)

\* A client that hangs up while it holds a slot gets the slot freed, even if
\* the models fail at every step from then on: what
\* test_scheduler_cancellation asks for.
HangUpFreesSlot ==
    \A r \in Requests :
        (token_rx[r] = "closed" /\ slot_id[r] # NoSlot) ~> (slot_id[r] = NoSlot)

\* Every submitted request is answered or given up in the end, provided the
\* models neither fail nor draft nothing for ever: no request is forgotten in a
\* queue.
EveryRequestResolves ==
    FaultsAreTransient =>
        \A r \in Requests : (token_rx[r] # "none") ~> (done[r] # "held")

\* "ADMISSION: If we have free slots on the GPU, let waiting passengers
\* (requests) on": the admission loop takes active.len() < capacity to mean
\* that a slot is free.  Slots lost by refused admissions make it wrong.
FreeSlotWhenAdmitting == pc = "admit" /\ CanAdmit => free_slots # <<>>
=============================================================================
