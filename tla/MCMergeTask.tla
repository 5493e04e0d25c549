---------------------------- MODULE MCMergeTask ----------------------------
(* Model-checking instance of MergeTask: up to two rows and two gathering  *)
(* columns, so that a cancellation can land before, between and after      *)
(* pulls and columns; one projection of one nested execute() call.         *)
EXTENDS MergeTask

MC_Modes == {"Ordinary", "Collapsing"}
=============================================================================
