-------------------------- MODULE DecoupleEligibility --------------------------
(***************************************************************************)
(* Whether a merged part may reuse the source parts' vector indexes        *)
(* (MergeTask::ExecuteAndFinalizeHorizontalPart::prepare, the              *)
(* enable_decouple_vector_index block).  For every vector index of the     *)
(* table the code counts the source parts whose index is BUILT and the     *)
(* empty parts among those that have the index at all; the index is        *)
(* reusable when the two counts add up to the number of parts.  A merge    *)
(* whose only indexed part carries no lightweight delete becomes a plain   *)
(* VPart instead, reusing the index of parts[first_part_with_data].        *)
(*                                                                         *)
(* The computation is one step of prepare; the inputs are every           *)
(* combination of small part shapes, so the check is exhaustive over them. *)
(***************************************************************************)
EXTENDS Integers, Sequences, FiniteSets, SequencesExt

CONSTANTS
    NumParts,     \* future_part->parts.size()
    NumIndexes    \* vector indexes of the table's metadata

ASSUME NumParts \in Nat \ {0} /\ NumIndexes \in Nat \ {0}

Part == 0..NumParts - 1
VecIndex == 1..NumIndexes

(* State of a part's column index: no column index for it, BUILT, or any   *)
(* other state (pending, building, error).                                 *)
IndexState == {"absent", "BUILT", "other"}

VARIABLES
    rows_count,   \* part -> 0 (empty) or 1 (has rows)
    has_lwd,      \* part -> hasLightweightDelete()
    index_state,  \* part -> vector index -> IndexState
    result,       \* the flags prepare leaves in global_ctx
    prepared      \* prepare has run

vars == <<rows_count, has_lwd, index_state, result, prepared>>

-----------------------------------------------------------------------------
(* The code                                                                *)

(* The inner loop for one vector index, folded over the parts in order:    *)
(* acc.first is first_part_with_data, carried across indexes.              *)
PartStep(v, acc, i) ==
    IF index_state[i][v] = "absent" THEN acc
    ELSE [acc EXCEPT
            !.with_index = @ + (IF index_state[i][v] = "BUILT" THEN 1 ELSE 0),
            !.empty = @ + (IF rows_count[i] = 0 THEN 1 ELSE 0),
            !.first = IF @ = -1 /\ rows_count[i] # 0 THEN i ELSE @]

(* The outer loop, over the vector indexes in order.                       *)
IndexStep(acc, v) ==
    LET inner == FoldLeft(LAMBDA a, i : PartStep(v, a, i),
                          [with_index |-> 0, empty |-> 0, first |-> acc.first],
                          [k \in 1..NumParts |-> k - 1])
        eligible == NumParts > 0 /\ inner.with_index + inner.empty = NumParts
    IN [first |-> inner.first,
        max_with_index |-> IF acc.max_with_index < inner.with_index
                           THEN inner.with_index ELSE acc.max_with_index,
        all_have |-> IF eligible THEN acc.all_have \cup {v} ELSE acc.all_have,
        can_be_decouple |-> acc.can_be_decouple \/ eligible]

Loops == FoldLeft(IndexStep,
                  [first |-> -1, max_with_index |-> 0, all_have |-> {},
                   can_be_decouple |-> FALSE],
                  [k \in 1..NumIndexes |-> k])

(* The single-VPart test reads parts[first_part_with_data]; with -1 the    *)
(* index is out of range and the value read is undefined.                  *)
PrepareDecouple ==
    LET l == Loops
        single == l.can_be_decouple /\ l.max_with_index = 1
    IN \E lwd_read \in IF single /\ l.first \notin Part THEN BOOLEAN
                       ELSE IF single THEN {has_lwd[l.first]} ELSE {TRUE} :
         result' = [all_have |-> l.all_have,
                    first_part_with_data |-> l.first,
                    can_be_decouple |-> l.can_be_decouple /\ ~(single /\ ~lwd_read),
                    only_one_vpart_merged |-> single /\ ~lwd_read]

-----------------------------------------------------------------------------

Init ==
    /\ rows_count \in [Part -> {0, 1}]
    /\ has_lwd \in [Part -> BOOLEAN]
    /\ \A p \in Part : rows_count[p] = 0 => ~has_lwd[p]
    /\ index_state \in [Part -> [VecIndex -> IndexState]]
    /\ result = [all_have |-> {}, first_part_with_data |-> -1,
                 can_be_decouple |-> FALSE, only_one_vpart_merged |-> FALSE]
    /\ prepared = FALSE

Prepare ==
    /\ ~prepared
    /\ PrepareDecouple
    /\ prepared' = TRUE
    /\ UNCHANGED <<rows_count, has_lwd, index_state>>

Done == prepared /\ UNCHANGED vars

Next == Prepare \/ Done

Spec == Init /\ [][Next]_vars

-----------------------------------------------------------------------------
(* Properties                                                              *)

(* Spec 4.5 and P7: an index may be reused only when every non-empty       *)
(* source part has it BUILT; empty parts are ignored.                      *)
ReusableByReference(v) ==
    \A p \in Part : rows_count[p] # 0 => index_state[p][v] = "BUILT"

(* Index files and row-ID maps are taken over only for an index that every *)
(* non-empty source part has built: otherwise rows of a part without the   *)
(* index would be missing from vector search on the merged part.           *)
ReusedIndexBuiltInEveryPart ==
    prepared => \A v \in result.all_have : ReusableByReference(v)

(* The single-VPart path reads parts[first_part_with_data] only with an    *)
(* index in range.                                                         *)
VPartSourceInRange ==
    prepared =>
        ((Loops.can_be_decouple /\ Loops.max_with_index = 1)
            => result.first_part_with_data \in Part)

=============================================================================
