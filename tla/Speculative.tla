---------------------------- MODULE Speculative ----------------------------
(***************************************************************************)
(* Speculative decoding: a session of speculative.rs and the two loops     *)
(* that drive one.  SpeculativeDecoder::generate calls session.draft,      *)
(* which asks for as many tokens as the session's adaptive window allows;  *)
(* the engine's generate_batch calls the models itself, with the decoder's *)
(* fixed window, and then session.commit.  (The scheduler's step runs the  *)
(* same round as generate_batch, without counting the calls.)              *)
(*                                                                         *)
(* The draft model may return anything.  The target model is a function of *)
(* the context (GreedyTarget: the greedy sampler on its logits), or fails. *)
(***************************************************************************)
EXTENDS Integers, Sequences

CONSTANTS
    Tokens,        \* TokenId
    Target(_),     \* the target model's token after a context
    Prompts,       \* the prompts of requests
    MaxNewTokens,  \* the values of max_new_tokens
    DraftWindow,   \* SpeculativeDecoder.draft_window
    MaxWindow,     \* SpeculativeDecoder.max_window
    EmptyRounds,   \* bound: the rounds in which a batch may see an empty draft
    None           \* no rejected token

\* SpeculativeDecoder::with_max_window refuses other windows.
ASSUME SpeculativeAssumption ==
    /\ Prompts \subseteq Seq(Tokens)
    /\ MaxNewTokens \subseteq Nat
    /\ DraftWindow \in Nat \ {0}
    /\ MaxWindow \in Nat /\ DraftWindow <= MaxWindow
    /\ EmptyRounds \in Nat
    /\ None \notin Tokens

\* Assumed by the theorems; too large a domain for TLC to go through.
TargetReturnsTokens == \A s \in Seq(Tokens) : Target(s) \in Tokens

VARIABLES
    mode,            \* which loop: "generate" or "batch"
    pc,              \* its place: "draft", "verify", "commit", "take" or "end"
    prompt, max_new_tokens,
    draft_window, context, rejected_token, stats,   \* the session
    drafted,         \* the draft model's tokens in this round
    verified,        \* what the target model expected in their places
    generated,       \* the tokens the loop has collected
    result           \* "none" until the loop ends

session == <<draft_window, context, rejected_token, stats>>
round == <<drafted, verified>>
specVars == <<mode, pc, prompt, max_new_tokens, session, round, generated, result>>

Stats == [draft_calls : Nat, target_calls : Nat, drafted_tokens : Nat,
          accepted_tokens : Nat, rejected_tokens : Nat]

\* SpeculativeDecoder::begin.
Init ==
    /\ mode \in {"generate", "batch"}
    /\ pc = "draft"
    /\ prompt \in Prompts
    /\ max_new_tokens \in MaxNewTokens
    /\ draft_window = DraftWindow
    /\ context = prompt
    /\ rejected_token = None
    /\ stats = [draft_calls |-> 0, target_calls |-> 0, drafted_tokens |-> 0,
                accepted_tokens |-> 0, rejected_tokens |-> 0]
    /\ drafted = <<>>
    /\ verified = <<>>
    /\ generated = <<>>
    /\ result = "none"

-----------------------------------------------------------------------------
EndWith(r) ==
    /\ pc' = "end"
    /\ result' = r

Smaller(m, n) == IF m < n THEN m ELSE n

\* Mutant of Requested: the window is not cut down to what is missing.
RequestedInFull == IF mode = "generate" THEN draft_window ELSE DraftWindow

Requested ==
    Smaller(max_new_tokens - Len(generated),
            IF mode = "generate" THEN draft_window ELSE DraftWindow)

\* The loops' condition.
Wanting == pc = "draft" /\ Len(generated) < max_new_tokens

\* Mutant of Complete: waits for one token more than was asked for.
CompleteBeyond ==
    /\ pc = "draft"
    /\ Len(generated) > max_new_tokens
    /\ EndWith("ok")
    /\ UNCHANGED <<mode, prompt, max_new_tokens, session, round, generated>>

\* The loop has all its tokens.
Complete ==
    /\ pc = "draft"
    /\ Len(generated) >= max_new_tokens
    /\ EndWith("ok")
    /\ UNCHANGED <<mode, prompt, max_new_tokens, session, round, generated>>

\* The draft model returns the tokens d.  Only session.draft checks that there
\* are not too many, and stops at none.  The batch loop relies on the model for
\* the former: GreedyDraftModel returns no more than it was asked for.
Draft(d) ==
    /\ Wanting
    /\ Len(d) <= Requested
    /\ d = <<>> => mode = "batch" /\ stats.draft_calls < EmptyRounds
    /\ drafted' = d
    /\ stats' = [stats EXCEPT !.draft_calls = @ + 1,
                              !.drafted_tokens = IF mode = "generate"
                                                 THEN @ + Len(d) ELSE @]
    /\ pc' = "verify"
    /\ UNCHANGED <<mode, prompt, max_new_tokens, draft_window, context,
                   rejected_token, verified, generated, result>>

\* DraftReturnedTooMany.
DraftTooMany ==
    /\ Wanting
    /\ mode = "generate"
    /\ stats' = [stats EXCEPT !.draft_calls = @ + 1]
    /\ EndWith("DraftReturnedTooMany")
    /\ UNCHANGED <<mode, prompt, max_new_tokens, draft_window, context,
                   rejected_token, round, generated>>

\* generate gives up when the draft model returns nothing.
DraftNothing ==
    /\ Wanting
    /\ mode = "generate"
    /\ stats' = [stats EXCEPT !.draft_calls = @ + 1]
    /\ EndWith("ok")
    /\ UNCHANGED <<mode, prompt, max_new_tokens, draft_window, context,
                   rejected_token, round, generated>>

\* Either model fails.
ModelFails ==
    /\ Wanting \/ pc = "verify"
    /\ EndWith("Model")
    /\ UNCHANGED <<mode, prompt, max_new_tokens, session, round, generated>>

-----------------------------------------------------------------------------
\* Mutant of Expected: each token is checked against the context alone.
ExpectedWithoutDraft(ctx, d) == [i \in 1..Len(d) |-> Target(ctx)]

\* TargetModel::verify: what the target model puts in the place of each
\* drafted token, given the drafted tokens before it.
Expected(ctx, d) ==
    [i \in 1..Len(d) |-> Target(ctx \o SubSeq(d, 1, i - 1))]

Verify(v) ==
    /\ pc = "verify"
    /\ verified' = v
    /\ stats' = [stats EXCEPT !.target_calls = @ + 1]
    /\ pc' = "commit"
    /\ UNCHANGED <<mode, prompt, max_new_tokens, draft_window, context,
                   rejected_token, drafted, generated, result>>

\* TargetReturnedWrongLength: before anything is committed.
WrongLength ==
    /\ pc = "commit"
    /\ Len(verified) # Len(drafted)
    /\ EndWith("TargetReturnedWrongLength")
    /\ UNCHANGED <<mode, prompt, max_new_tokens, session, round, generated>>

-----------------------------------------------------------------------------
\* The number of drafted tokens before the first that the target rejects.
AcceptedCount(d, v) ==
    CHOOSE n \in 0..Len(d) :
        /\ \A i \in 1..n : d[i] = v[i]
        /\ n < Len(d) => d[n + 1] # v[n + 1]

\* Mutant of Rejection: the rejected guess is kept.
RejectionOfDraft(d, v, n) == IF n < Len(d) THEN d[n + 1] ELSE None

\* The target's token in place of the first rejected one.
Rejection(d, v, n) == IF n < Len(d) THEN v[n + 1] ELSE None

\* Mutant of AsSeq: an absent token is not told from a token.
AsSeqUnchecked(token) == <<token>>

AsSeq(token) == IF token = None THEN <<>> ELSE <<token>>

\* Mutant of AdjustedWindow: two tokens after the accepted ones, not one.
AdjustedWindowTooWide(window, accepted, n) ==
    IF accepted = n THEN (IF window < MaxWindow THEN window + 1 ELSE window)
    ELSE accepted + 2

\* adjust_window.
AdjustedWindow(window, accepted, n) ==
    IF accepted = n THEN (IF window < MaxWindow THEN window + 1 ELSE window)
    ELSE accepted + 1

\* Mutant of CountedAfter: only the token at the rejection counts.
CountedAfterOne(n) ==
    [stats EXCEPT !.drafted_tokens = IF mode = "batch" THEN @ + Len(drafted) ELSE @,
                  !.accepted_tokens = @ + n,
                  !.rejected_tokens = IF n < Len(drafted) THEN @ + 1 ELSE @]

CountedAfter(n) ==
    [stats EXCEPT !.drafted_tokens = IF mode = "batch" THEN @ + Len(drafted) ELSE @,
                  !.accepted_tokens = @ + n,
                  !.rejected_tokens = @ + (Len(drafted) - n)]

\* The end of session.draft, and session.commit: the accepted tokens and the
\* target's correction go to the context; the caller gets the accepted ones.
Commit ==
    /\ pc = "commit"
    /\ Len(verified) = Len(drafted)
    /\ LET n == AcceptedCount(drafted, verified)
           rejected == Rejection(drafted, verified, n)
       IN  /\ context' = context \o SubSeq(drafted, 1, n) \o AsSeq(rejected)
           /\ rejected_token' = rejected
           /\ generated' = generated \o SubSeq(drafted, 1, n)
           /\ stats' = CountedAfter(n)
           /\ draft_window' = AdjustedWindow(draft_window, n, Len(drafted))
    /\ pc' = "take"
    /\ UNCHANGED <<mode, prompt, max_new_tokens, round, result>>

\* Mutant of Take: a round that accepted nothing is skipped.
TakeAfterAccepting ==
    /\ pc = "take"
    /\ generated' = IF AcceptedCount(drafted, verified) = 0 THEN generated
                    ELSE generated \o AsSeq(rejected_token)
    /\ rejected_token' = None
    /\ pc' = "draft"
    /\ UNCHANGED <<mode, prompt, max_new_tokens, draft_window, context, stats,
                   round, result>>

\* The caller takes the target's token in place of the rejected one.
Take ==
    /\ pc = "take"
    /\ generated' = generated \o AsSeq(rejected_token)
    /\ rejected_token' = None
    /\ pc' = "draft"
    /\ UNCHANGED <<mode, prompt, max_new_tokens, draft_window, context, stats,
                   round, result>>

\* The token sequences a draft model may return, and what a target model may
\* return for them: the expected tokens, or a result of another length.
Drafts == UNION {[1..n -> Tokens] : n \in 0..MaxWindow}
Verdicts == {Expected(context, drafted), Append(Expected(context, drafted), Target(context))}

Next ==
    \/ Complete \/ DraftTooMany \/ DraftNothing \/ ModelFails
    \/ \E d \in Drafts : Draft(d)
    \/ \E v \in Verdicts : Verify(v)
    \/ WrongLength \/ Commit \/ Take

Spec == Init /\ [][Next]_specVars

\* The loop runs in the caller's thread, and models return.
FairSpec == Spec /\ WF_specVars(Next)

-----------------------------------------------------------------------------
(***************************************************************************)
(* Properties.                                                             *)
(***************************************************************************)
TypeOK ==
    /\ mode \in {"generate", "batch"}
    /\ pc \in {"draft", "verify", "commit", "take", "end"}
    /\ prompt \in Seq(Tokens) /\ max_new_tokens \in Nat
    /\ draft_window \in Nat
    /\ context \in Seq(Tokens) /\ generated \in Seq(Tokens)
    /\ drafted \in Seq(Tokens) /\ verified \in Seq(Tokens)
    /\ rejected_token \in Tokens \cup {None}
    /\ stats \in Stats
    /\ result \in {"none", "ok", "Model", "DraftReturnedTooMany",
                   "TargetReturnedWrongLength"}

\* The loop never returns, even before it ends, more tokens than were asked
\* for, although a round adds the accepted tokens and one token more.
WithinBudget ==
    Len(generated) + Len(AsSeq(rejected_token)) <= max_new_tokens

\* What the loop has collected is what the session, from whose context the
\* next round starts, has decided: no accepted token and no correction is
\* lost or reported twice between commit, take_rejected_token and an error.
OutputIsContext == context = prompt \o generated \o AsSeq(rejected_token)

\* The adaptive window allows at least one token, or generate would stop, and
\* at most max_window tokens, in every order of good and bad rounds.
WindowInRange == draft_window \in 1..MaxWindow

\* The counters account for every drafted token once a round is over: it was
\* accepted or rejected; and the session's text grew by the accepted ones and
\* at most one correction per verified round.
StatsAgree ==
    /\ pc = "draft" =>
          stats.drafted_tokens = stats.accepted_tokens + stats.rejected_tokens
    /\ stats.target_calls <= stats.draft_calls
    /\ Len(context) - Len(prompt) \in
          stats.accepted_tokens..(stats.accepted_tokens + stats.target_calls)

Greedy == INSTANCE GreedyDecoding WITH text <- context, ended <- (pc = "end")

\* Speculation is lossless: with any draft model, the session's text is what
\* the target model alone would write.
Lossless == Greedy!WrittenByTarget(context, Len(prompt))

\* The same as a step by step promise: every round either leaves the text
\* alone or extends it the way target-only decoding would, within the budget.
RefinesGreedyDecoding == Greedy!Spec

\* generate ends, however short and wrong the drafts are: every round it does
\* not end in adds a token.
GenerateTerminates == mode = "generate" ~> pc = "end"
=============================================================================
