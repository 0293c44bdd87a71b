----------------------------- MODULE MCKvMemory -----------------------------
(***************************************************************************)
(* Instances of KvMemory for TLC.                                          *)
(***************************************************************************)
EXTENDS KvMemory

CONSTANTS a, b

\* Lengths below, at and above the block size of 2, one text the prefix of
\* others, and the empty prompt.
MCTexts == {<<>>, <<a>>, <<a, b>>, <<a, b, a>>, <<b, b>>}
=============================================================================
