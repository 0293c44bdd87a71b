---------------------------- MODULE MCScheduler ----------------------------
(***************************************************************************)
(* Instances of Scheduler for TLC.                                         *)
(***************************************************************************)
EXTENDS Scheduler

CONSTANTS p1, p2

\* Each prompt needs one page.
MCPagesFor == [p \in Prompts |-> 1]

\* The prompts differ only in identity.  Used where no liveness is checked.
PromptSymmetry == Permutations(Prompts)
=============================================================================
