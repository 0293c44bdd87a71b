---------------------------- MODULE MCRadixCache ----------------------------
(***************************************************************************)
(* An instance of RadixCache for TLC.                                      *)
(***************************************************************************)
EXTENDS RadixCache

CONSTANTS a, b

\* A sequence and its extensions, two ways to split an edge, a split exactly
\* at an inserted sequence, and the empty sequence, whose node is the root.
MCTexts == {<<>>, <<a>>, <<a, b>>, <<a, b, a>>, <<a, b, b>>}
=============================================================================
