--------------------------- MODULE GreedyDecoding ---------------------------
(***************************************************************************)
(* What decoding with a draft model promises: the text the target model    *)
(* would have written alone, one token after the other, and no more of it  *)
(* than was asked for.  Speculative implements it.                         *)
(***************************************************************************)
EXTENDS Integers, Sequences

CONSTANTS
    Tokens,       \* TokenId
    Target(_)     \* the target model's token after a context

VARIABLES
    prompt,           \* the tokens decoding starts from
    max_new_tokens,   \* the number of tokens asked for
    text,             \* the prompt and what was written so far
    ended             \* has the call returned?

\* From position n on, text is what the target model writes.
WrittenByTarget(t, n) ==
    \A i \in (n + 1)..Len(t) : t[i] = Target(SubSeq(t, 1, i - 1))

Init ==
    /\ prompt \in Seq(Tokens)
    /\ max_new_tokens \in Nat
    /\ text = prompt
    /\ ended = FALSE

\* Some tokens are written.
Write ==
    /\ ~ended
    /\ Len(text) < Len(text')
    /\ Len(text') <= Len(prompt) + max_new_tokens
    /\ SubSeq(text', 1, Len(text)) = text
    /\ WrittenByTarget(text', Len(text))
    /\ UNCHANGED <<prompt, max_new_tokens, ended>>

\* The call returns, with all the tokens, with the tokens up to where the
\* draft model gave up, or with an error.
End ==
    /\ ~ended
    /\ ended' = TRUE
    /\ UNCHANGED <<prompt, max_new_tokens, text>>

Next == Write \/ End

greedyVars == <<prompt, max_new_tokens, text, ended>>

Spec == Init /\ [][Next]_greedyVars
=============================================================================
