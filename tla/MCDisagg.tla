------------------------------ MODULE MCDisagg ------------------------------
(***************************************************************************)
(* An instance of Disagg for TLC: a node is idle or nearly full, a block   *)
(* has one token and fits a region, or two and does not.                   *)
(***************************************************************************)
EXTENDS Disagg

MCReports == {[utilisation |-> 0, free_tokens |-> 2], [utilisation |-> 1, free_tokens |-> 1]}
MCTasks == {[token_len |-> 1, payload |-> 4], [token_len |-> 2, payload |-> 5]}
=============================================================================
