--------------------------- MODULE MCSpeculative ---------------------------
(***************************************************************************)
(* An instance of Speculative for TLC.                                     *)
(***************************************************************************)
EXTENDS Speculative

CONSTANTS a, b

\* A target whose next token depends on the length and the end of the context.
MCTarget(s) ==
    IF Len(s) % 3 = 0 \/ s[Len(s)] = b THEN a ELSE b

MCPrompts == {<<>>, <<a, b>>}
=============================================================================
