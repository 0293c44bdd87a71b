--------------------------- MODULE MCEngineBatch ---------------------------
(***************************************************************************)
(* Instances of EngineBatch for TLC: three tokens, a target whose choice   *)
(* depends on the length and the end of the text, and a draft model that   *)
(* is wrong every other time.  In the grammar a text has no two 0 and no   *)
(* two others next to each other.                                         *)
(***************************************************************************)
EXTENDS EngineBatch

Last1(s) == IF s = <<>> THEN 0 ELSE s[Len(s)]

MCTargetLogits(s) == (0 :> 1) @@ (1 :> Last1(s)) @@ (2 :> IF Len(s) % 2 = 0 THEN 1 ELSE 3)
MCDraftLogits(s) == (0 :> 1) @@ (1 :> IF Len(s) % 3 = 0 THEN 1 ELSE 2) @@ (2 :> Last1(s))

MCFollows(q) == IF q = Start THEN Tokens ELSE IF q = 0 THEN {1, 2} ELSE {0}

Request(prompt, n, constrained) ==
    [prompt |-> prompt, max_new_tokens |-> n, constrained |-> constrained]

MCTexts == {<<>>, <<0>>, <<0, 1>>, <<0, 1, 2>>}
MCRequests ==
    {Request(p, n, FALSE) : p \in MCTexts, n \in {0, 3}}
        \cup {Request(<<0>>, 1, FALSE), Request(<<1>>, 2, TRUE)}
MCBatches ==
    {<<>>} \cup {<<r>> : r \in MCRequests} \cup (MCRequests \X MCRequests)
        \cup {<<Request(<<0>>, 1, FALSE), Request(<<0, 1>>, n, FALSE),
                Request(<<0>>, 3, FALSE)>> : n \in {1, 3}}

\* Constrained requests alone and next to another.
MCGrammarBatches ==
    {<<Request(<<0>>, n, TRUE)>> : n \in 1..4}
        \cup {<<Request(<<0>>, 1, FALSE), Request(<<1>>, n, TRUE)>> : n \in 1..4}
=============================================================================
