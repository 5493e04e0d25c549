------------------------ MODULE MCDecoupleEligibility ------------------------
(* Two source parts and two vector indexes: every combination of empty and *)
(* non-empty parts with absent, built and unbuilt indexes.                 *)
EXTENDS DecoupleEligibility
=============================================================================
