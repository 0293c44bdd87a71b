---------------------------- MODULE EngineBatch ----------------------------
(***************************************************************************)
(* VeloEngine::generate_batch: a call takes a slot and the pages of its    *)
(* prompt for each request, runs draft, verify and commit rounds on all of *)
(* them, and gives back the slots and caches the texts.  Any error on the  *)
(* way returns at once and drops the requests as they are.  Composed of    *)
(* the memory of KvMemory, the slot pool, the greedy models of backend.rs  *)
(* and the grammar matchers of constraints.rs.                             *)
(*                                                                         *)
(* A call has the engine for itself (&mut self), so a request's            *)
(* preparation, a round and a request's end are one step each.             *)
(***************************************************************************)
EXTENDS KvMemory

CONSTANTS
    VocabSize,       \* a token is an index of the logits
    DraftLogits(_),  \* the draft model's logits after a context
    TargetLogits(_), \* the target model's logits after a context
    DraftWindow,     \* SpeculativeDecoder.draft_window
    MaxSlots,        \* slots of the engine
    Batches,         \* the request lists a caller may pass
    Start,           \* a matcher that has consumed nothing
    Broken,          \* a matcher that was given a token it does not allow
    Follows(_),      \* the grammar: the tokens allowed after a token or Start
    NoMatcher,       \* the request is not constrained
    MaxCalls         \* bound: calls of generate_batch

Tokens == 0..(VocabSize - 1)
Slots == 0..(MaxSlots - 1)

ASSUME EngineBatchAssumption ==
    /\ VocabSize \in Nat \ {0} /\ DraftWindow \in Nat \ {0}
    /\ MaxSlots \in Nat /\ MaxCalls \in Nat
    /\ Start \notin Tokens /\ Broken \notin Tokens
    /\ NoMatcher \notin Tokens \cup {Start, Broken}
    /\ Batches \subseteq Seq([prompt : Seq(Tokens), max_new_tokens : Nat,
                             constrained : BOOLEAN])
    \* compute_mask_or_eos allows at least the end of the text
    /\ \A q \in Tokens \cup {Start} : Follows(q) \in (SUBSET Tokens) \ {{}}

VARIABLES
    pc,           \* "idle", "prepare", "decode" or "finish"
    calls,        \* calls made so far
    todo,         \* requests still to prepare
    active,       \* the call's `active`, in the order of the requests
    free_slots,   \* SlotPool.free_slots
    rows,         \* the runtime's page table: the pages of each bound slot
    outputs,      \* the call's final_outputs
    outcome       \* of the last call: "none" while it runs, "ok" or "error"

callVars == <<pc, calls, todo, active, free_slots, rows, outputs, outcome>>
engineVars == <<kvVars, callVars>>

EngineInit ==
    /\ Init
    /\ pc = "idle"
    /\ calls = 0
    /\ todo = <<>>
    /\ active = <<>>
    /\ free_slots = [i \in 1..MaxSlots |-> i - 1]
    /\ rows = [s \in Slots |-> <<>>]
    /\ outputs = <<>>
    /\ outcome = "none"

\* The `?` of generate_batch: the local `active` is dropped, the slots of its
\* requests are not given back.
GiveUp ==
    /\ pc' = "idle"
    /\ todo' = <<>>
    /\ active' = <<>>
    /\ outputs' = <<>>
    /\ outcome' = "error"

-----------------------------------------------------------------------------
(***************************************************************************)
(* Matchers and models.                                                    *)
(***************************************************************************)

\* LlguidanceMatcher::next_mask: everything if the parser has failed.
NextMask(q) == IF q \in {Broken, NoMatcher} THEN Tokens ELSE Follows(q)

\* LlguidanceMatcher::advance.
Advance(q, t) ==
    IF q = NoMatcher THEN q
    ELSE IF q # Broken /\ t \in Follows(q) THEN t ELSE Broken

AdvanceOver(q, s) ==
    LET a[i \in 0..Len(s)] == IF i = 0 THEN q ELSE Advance(a[i - 1], s[i])
    IN  a[Len(s)]

\* GreedySampler::sample: the last of the best allowed tokens, or token 0.
Sample(logits, mask) ==
    Max({0} \cup {t \in mask : \A u \in mask : logits[u] <= logits[t]})

\* GreedyDraftModel::draft_batch for one of its requests: n tokens, each
\* sampled after those before it under the mask of the cloned matcher.
Drafted(context, n, q) ==
    LET d[i \in 0..n] ==
            IF i = 0 THEN <<>>
            ELSE Append(d[i - 1], Sample(DraftLogits(context \o d[i - 1]),
                                         NextMask(AdvanceOver(q, d[i - 1]))))
    IN  d[n]

\* GreedyTargetModel::verify_batch for one of its requests.  The logits follow
\* the drafted tokens, the masks the tokens the target itself chose.
Expected(context, d, q) ==
    LET e[i \in 0..Len(d)] ==
            IF i = 0 THEN <<>>
            ELSE Append(e[i - 1], Sample(TargetLogits(context \o SubSeq(d, 1, i - 1)),
                                         NextMask(AdvanceOver(q, e[i - 1]))))
    IN  e[Len(d)]

-----------------------------------------------------------------------------
(***************************************************************************)
(* Step A: preparing the requests.                                         *)
(***************************************************************************)
StartBatch(requests) ==
    /\ pc = "idle" /\ calls < MaxCalls
    /\ pc' = "prepare"
    /\ calls' = calls + 1
    /\ todo' = requests
    /\ active' = <<>>
    /\ outputs' = <<>>
    /\ outcome' = "none"
    /\ UNCHANGED <<kvVars, free_slots, rows>>

Prefill(s) == PrefillHit(s) \/ PrefillMiss(s)

\* Mutant of PagesToBind: the cached prefix comes first.
PagesToBindCachedFirst(prompt) ==
    LET cached == LookupAnswer(map, prompt).handle
    IN  IF cached \in DOMAIN mappings THEN mappings[cached] ELSE span'

\* The pages to bind: of the stored prompt or else of the cached prefix.
PagesToBind(prompt) == span'

\* The matchers a request may get: none if it is not constrained or if
\* LlguidanceMatcher::new refuses the grammar, else one that was fed the prompt.
Matchers(req) ==
    {NoMatcher} \cup IF req.constrained THEN {AdvanceOver(Start, req.prompt)} ELSE {}

\* The handle and the length of the cached prefix, as CacheLookup.
Prepare(q) ==
    LET req == Head(todo)
        slot == Head(free_slots)
    IN  /\ Prefill(req.prompt)
        /\ result' = "ok" /\ PagesToBind(req.prompt) # <<>>
        /\ rows' = [rows EXCEPT ![slot] = PagesToBind(req.prompt)]
        /\ active' = Append(active,
               [prompt |-> req.prompt, max_new_tokens |-> req.max_new_tokens,
                slot_id |-> slot, generated |-> <<>>, matcher |-> q,
                cached_prefix |-> LookupAnswer(map, req.prompt)])
        /\ todo' = Tail(todo)
        /\ free_slots' = Tail(free_slots)
        /\ UNCHANGED <<pc, calls, outputs, outcome>>

\* No slot is left.
NoFreeSlots ==
    /\ free_slots = <<>>
    /\ GiveUp
    /\ UNCHANGED <<kvVars, calls, free_slots, rows>>

\* The slot is taken, the prefill fails or has no pages to bind.
PrefillFails ==
    /\ free_slots # <<>>
    /\ Prefill(Head(todo).prompt)
    /\ result' # "ok" \/ PagesToBind(Head(todo).prompt) = <<>>
    /\ free_slots' = Tail(free_slots)
    /\ GiveUp
    /\ UNCHANGED <<calls, rows>>

PrepareNext ==
    /\ pc = "prepare" /\ todo # <<>>
    /\ \/ \E q \in Matchers(Head(todo)) : free_slots # <<>> /\ Prepare(q)
       \/ NoFreeSlots
       \/ PrefillFails

EndPrepare ==
    /\ pc = "prepare" /\ todo = <<>>
    /\ pc' = "decode"
    /\ UNCHANGED <<kvVars, calls, todo, active, free_slots, rows, outputs,
                   outcome>>

-----------------------------------------------------------------------------
(***************************************************************************)
(* Step B: rounds on the requests that still want tokens.                  *)
(***************************************************************************)
Wanting == {i \in DOMAIN active :
               Len(active[i].generated) < active[i].max_new_tokens}

\* active_indices: the requests of a round by their place in its batch.
ActiveIndices ==
    LET f[i \in 0..Len(active)] ==
            IF i = 0 THEN <<>>
            ELSE IF i \in Wanting THEN Append(f[i - 1], i) ELSE f[i - 1]
    IN  f[Len(active)]

Smaller(m, n) == IF m < n THEN m ELSE n

\* Mutant of BatchPlace: a request's place among all requests, not in the batch.
BatchPlaceInActive(indices, i) == Smaller(i, Len(indices))

\* The place of request i in the batch of a round.
BatchPlace(indices, i) == CHOOSE k \in DOMAIN indices : indices[k] = i

\* SpeculativeSession::commit, and the correction the caller takes.
Kept(d, e) ==
    LET differ == {k \in DOMAIN d : d[k] # e[k]}
    IN  IF differ = {} THEN d ELSE SubSeq(e, 1, Min(differ))

Round ==
    /\ pc = "decode" /\ Wanting # {}
    /\ LET indices == ActiveIndices
           context(i) == active[i].prompt \o active[i].generated
           requested(i) == Smaller(active[i].max_new_tokens - Len(active[i].generated),
                                   DraftWindow)
           draft_results == [k \in DOMAIN indices |->
               LET i == indices[k] IN Drafted(context(i), requested(i), active[i].matcher)]
           verify_results == [k \in DOMAIN indices |->
               LET i == indices[k] IN Expected(context(i), draft_results[k], active[i].matcher)]
       IN  active' = [i \in DOMAIN active |->
               IF i \notin Wanting THEN active[i]
               ELSE LET k == BatchPlace(indices, i)
                    IN  [active[i] EXCEPT
                            !.generated = @ \o Kept(draft_results[k], verify_results[k]),
                            !.matcher = AdvanceOver(@, verify_results[k])]]
    /\ UNCHANGED <<kvVars, pc, calls, todo, free_slots, rows, outputs,
                   outcome>>

\* A model refuses a slot or a prefix, fails, or returns too few logits.
ModelFails ==
    /\ pc = "decode" /\ active # <<>>
    /\ GiveUp
    /\ UNCHANGED <<kvVars, calls, free_slots, rows>>

EndRounds ==
    /\ pc = "decode" /\ Wanting = {}
    /\ pc' = "finish"
    /\ UNCHANGED <<kvVars, calls, todo, active, free_slots, rows, outputs,
                   outcome>>

-----------------------------------------------------------------------------
(***************************************************************************)
(* Step C: slots back, texts into the cache, outputs to the caller.        *)
(***************************************************************************)
Finishing == active[Len(outputs) + 1]

\* Mutant of FullSequence: what was generated without the prompt.
FullSequenceGenerated(req) == req.generated

FullSequence(req) == req.prompt \o req.generated

\* Mutant of ReleaseSlot: the slot of a request that wanted nothing is kept.
ReleaseSlotIfUsed(req) ==
    free_slots' = IF req.generated = <<>> THEN free_slots
                  ELSE Append(free_slots, req.slot_id)

ReleaseSlot(req) == free_slots' = Append(free_slots, req.slot_id)

FinishNext ==
    /\ pc = "finish" /\ Len(outputs) < Len(active)
    /\ ReleaseSlot(Finishing)
    /\ CacheOutput(FullSequence(Finishing))
    /\ UNCHANGED <<calls, rows>>
    /\ \/ /\ result' = "ok"
          /\ outputs' = Append(outputs,
                 [prompt |-> Finishing.prompt, tokens |-> Finishing.generated,
                  cached_prefix |-> Finishing.cached_prefix,
                  inserted_handle |-> next_block_id, inserted_pages |-> span'])
          /\ UNCHANGED <<pc, todo, active, outcome>>
       \/ result' # "ok" /\ GiveUp

Return ==
    /\ pc = "finish" /\ Len(outputs) = Len(active)
    /\ pc' = "idle"
    /\ active' = <<>>
    /\ outcome' = "ok"
    /\ UNCHANGED <<kvVars, calls, todo, free_slots, rows, outputs>>

\* Between calls the owner may limit the cache.
LimitCache(c) ==
    /\ pc = "idle"
    /\ SetCapacity(c)
    /\ UNCHANGED callVars

EngineNext ==
    \/ \E requests \in Batches : StartBatch(requests)
    \/ PrepareNext \/ EndPrepare
    \/ Round \/ ModelFails \/ EndRounds
    \/ FinishNext \/ Return
    \/ \E c \in Capacities : LimitCache(c)

EngineSpec == EngineInit /\ [][EngineNext]_engineVars

-----------------------------------------------------------------------------
(***************************************************************************)
(* Properties.                                                             *)
(***************************************************************************)

\* The requests of the call that hold a slot: those not yet finished.
Held == {active[i].slot_id : i \in (Len(outputs) + 1)..Len(active)}

LostSlots == Slots \ (ToSet(free_slots) \cup Held)

\* A slot is in the free queue at most once and not while a request of the
\* call holds it, no two requests of a call hold the same one, and a slot goes
\* missing only in a step that ends the call with an error: a call that returns
\* its outputs has given all its slots back.
SlotsSafe ==
    [][/\ IsInjective(free_slots') /\ ToSet(free_slots') \cap Held' = {}
       /\ pc' \in {"prepare", "decode"} => Cardinality(Held') = Len(active')
       /\ LostSlots' # LostSlots => outcome' = "error"]_engineVars

\* While a batch is prepared and decoded, the page table row of each of its
\* slots names pages for the request's whole prompt that belong to a cached
\* block: what the requests after it prefill, replace or evict frees none.
BoundPagesLive ==
    pc \in {"prepare", "decode"} =>
        \A i \in DOMAIN active :
            LET row == rows[active[i].slot_id]
            IN  /\ Len(row) * BlockSize >= Len(active[i].prompt)
                /\ \E h \in DOMAIN mappings : mappings[h] = row

Text(o) == o.prompt \o o.tokens
CachedText(o) == SubSeq(o.prompt, 1, o.cached_prefix.matched_tokens)

\* What a call returns can be used: the pages of an output are mapped to its
\* handle and hold its text unless a later output of the call has the same
\* text and replaced it; and the cached prefix it names is still mapped unless
\* an output of the call, or its own, has just that text.
OutputsBacked ==
    outcome = "ok" =>
        \A i \in DOMAIN outputs :
            LET o == outputs[i]
            IN  /\ \/ \E j \in (i + 1)..Len(outputs) : Text(outputs[j]) = Text(o)
                   \/ /\ o.inserted_handle \in DOMAIN mappings
                      /\ mappings[o.inserted_handle] = o.inserted_pages
                      /\ Len(o.inserted_pages) * BlockSize >= Len(Text(o))
                /\ \/ o.cached_prefix.handle \in DOMAIN mappings \cup {NoHandle}
                   \/ \E j \in DOMAIN outputs : Text(outputs[j]) = CachedText(o)

\* Batching changes nothing: a request without a matcher gets, whatever the
\* other requests of the batch ask for and when they drop out of the rounds,
\* the tokens that the target model alone would choose after its own prompt,
\* never more than it asked for, and all of them when the call returns.
BatchLossless ==
    \A i \in DOMAIN active :
        LET r == active[i]
            text == r.prompt \o r.generated
        IN  /\ Len(r.generated) <= r.max_new_tokens
            /\ pc = "finish" => Len(r.generated) = r.max_new_tokens
            /\ r.matcher = NoMatcher =>
                   \A n \in Len(r.prompt)..(Len(text) - 1) :
                       text[n + 1] = Sample(TargetLogits(SubSeq(text, 1, n)), Tokens)

\* "Integrated `llguidance` for constrained generation (JSON, Regex) with
\* speculative state cloning support" (README): a request with a matcher, whose
\* prompt the grammar allows, gets tokens that the grammar allows.
GrammarRespected ==
    \A i \in DOMAIN active :
        (active[i].matcher # NoMatcher /\ AdvanceOver(Start, active[i].prompt) # Broken) =>
            AdvanceOver(Start, active[i].prompt \o active[i].generated) # Broken
=============================================================================
