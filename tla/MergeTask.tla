------------------------------ MODULE MergeTask ------------------------------
(***************************************************************************)
(* The MergeTask driver (src/Storages/MergeTree/MergeTask.cpp).            *)
(*                                                                         *)
(* A merge is a fixed list of three stages, each a list of three subtasks: *)
(*   ExecuteAndFinalizeHorizontalPart: prepare, executeImpl,               *)
(*                                     generateRowIdsMap                   *)
(*   VerticalMergeStage:  prepareVerticalMergeForAllColumns,               *)
(*                        executeVerticalMergeForAllColumns,               *)
(*                        finalizeVerticalMergeForAllColumns               *)
(*   MergeProjectionsStage: mergeMinMaxIndexAndPrepareProjections,         *)
(*                          executeProjections,                            *)
(*                          finalizeProjectionsAndWholeMerge               *)
(* A scheduler thread calls MergeTask::execute() again while it returns    *)
(* true; each call runs one subtask call.  Other threads meanwhile cancel  *)
(* the merge: the merges blocker and the TTL-merges blocker (ActionBlocker,*)
(* set and released by SYSTEM STOP/START MERGES), and the sticky           *)
(* is_cancelled flag of the merge-list entry.                              *)
(*                                                                         *)
(* Data is abstracted to counts: one pull of the merged pipeline consumes  *)
(* one source row, which the deleted mask may filter out, the merging      *)
(* transform may skip (collapsing modes), or DEDUPLICATE / the TTL         *)
(* transform may remove after the transform.  The row-ID maps themselves   *)
(* are modelled in RowIdsMap; here generateRowIdsMap is one step with its  *)
(* side effect on the source parts.  A projection merge is a nested        *)
(* MergeTask, abstracted to ChildSteps execute() calls that abort when the *)
(* merges blocker is set.                                                  *)
(***************************************************************************)
EXTENDS Integers

CONSTANTS
    MaxRows,            \* bound on the physical rows of all source parts
    MaxColumns,         \* bound on the gathering (non-key) columns
    MaxProjections,     \* bound on the projections merged
    ChildSteps,         \* execute() calls a projection merge takes
    MaxDelayedStreams,  \* max_delayed_streams of the vertical stage
    Modes,              \* merging modes, "Ordinary" and/or "Collapsing"
    BlockerReleasable   \* TRUE: a blocker may be released after being set

ASSUME MaxRows \in Nat /\ MaxColumns \in Nat /\ MaxProjections \in Nat
ASSUME ChildSteps \in Nat /\ MaxDelayedStreams \in Nat
ASSUME Modes \subseteq {"Ordinary", "Collapsing"}
ASSUME BlockerReleasable \in BOOLEAN

Failures == {"Aborted", "LogicalError", "DirectoryAlreadyExists"}
Outcomes == {"running", "published"} \cup Failures

VARIABLES
    \* other threads
    merges_blocked,     \* merges_blocker->isCancelled()
    ttl_blocked,        \* ttl_merges_blocker->isCancelled()
    list_cancelled,     \* merge_list_element_ptr->is_cancelled
    \* the merge as assigned (future part, metadata, settings)
    total_rows,         \* physical rows of the source parts
    num_parts,          \* future_part->parts.size()
    mode,               \* merging_params.mode
    ttl_merge_type,     \* isTTLMergeType(future_part->merge_type)
    ttl_expired,        \* some TTL is due at time_of_merge or not yet calculated
    deduplicate,        \* global_ctx->deduplicate
    vertical_shape,     \* the part-shape and settings conditions of chooseMergeAlgorithm
    decouple,           \* can_be_decouple as computed in prepare
    gathering_count,    \* gathering_column_names.size()
    num_projections,    \* projections every source part has
    tmp_dir_exists,     \* a stale temporary directory of the new part
    \* the driver
    stage,              \* current stage, or "Done"
    sub,                \* current subtask of the stage, 1..3
    impl_pc,            \* executeImpl: "loop", or "check" after the pull loop ended
    need_remove,        \* ctx->need_remove_expired_values
    algorithm,          \* chosen_merge_algorithm
    has_row_sources,    \* rows_sources_write_buf exists
    rows_read,          \* merge_list_element->rows_read
    rows_filtered,      \* *input_rows_filtered (deleted mask)
    rows_sources_count, \* records written to rows_sources
    skipped_records,    \* of which with the skip flag
    rows_written,       \* global_ctx->rows_written
    column_num,         \* column_num_for_vertical_merge
    column_state,       \* vertical_merge_one_column_state
    column_elems,       \* column_elems_written
    delayed,            \* delayed_streams not yet finished
    proj_idx,           \* projections_iterator
    child_steps,        \* execute() calls of the current projection task
    outcome

env_vars == <<merges_blocked, ttl_blocked, list_cancelled>>
input_vars == <<total_rows, num_parts, mode, ttl_merge_type, ttl_expired,
                deduplicate, vertical_shape, decouple, gathering_count,
                num_projections, tmp_dir_exists>>
task_vars == <<stage, sub, impl_pc, need_remove, algorithm, has_row_sources,
               rows_read, rows_filtered, rows_sources_count, skipped_records,
               rows_written, column_num, column_state, column_elems, delayed,
               proj_idx, child_steps, outcome>>
vars == <<env_vars, input_vars, task_vars>>

-----------------------------------------------------------------------------
(* Helpers                                                                 *)

(* chooseMergeAlgorithm: Horizontal when deduplicating, when expired       *)
(* values are removed, or when the shape and settings rule Vertical out.   *)
ChooseMergeAlgorithm(remove) ==
    IF deduplicate \/ remove \/ ~vertical_shape THEN "Horizontal" ELSE "Vertical"

(* The is_cancelled lambda of prepare, with need_remove captured.          *)
IsCancelled ==
    merges_blocked \/ (need_remove /\ ttl_blocked) \/ list_cancelled

(* A subtask returned: MergeTask::execute moves to the next subtask, or    *)
(* installs the next stage's context, or ends after the last stage.        *)
NextStage == [s \in {"Horizontal", "Vertical", "Projections"} |->
                 CASE s = "Horizontal" -> "Vertical"
                   [] s = "Vertical"   -> "Projections"
                   [] s = "Projections" -> "Done"]

SubtaskReturned(more) ==
    IF more THEN UNCHANGED <<stage, sub>>
    ELSE IF sub < 3 THEN sub' = sub + 1 /\ UNCHANGED stage
    ELSE stage' = NextStage[stage] /\ sub' = 1

(* An exception propagates out of execute(): the task is dropped.          *)
Throw(kind) ==
    /\ outcome' = kind
    /\ stage' = "Done"
    /\ UNCHANGED sub

At(s, i) == outcome = "running" /\ stage = s /\ sub = i

-----------------------------------------------------------------------------
(* Other threads                                                           *)

BlockMerges == ~merges_blocked /\ merges_blocked' = TRUE
                /\ UNCHANGED <<ttl_blocked, list_cancelled, input_vars, task_vars>>
UnblockMerges == BlockerReleasable /\ merges_blocked /\ merges_blocked' = FALSE
                /\ UNCHANGED <<ttl_blocked, list_cancelled, input_vars, task_vars>>
BlockTTLMerges == ~ttl_blocked /\ ttl_blocked' = TRUE
                /\ UNCHANGED <<merges_blocked, list_cancelled, input_vars, task_vars>>
UnblockTTLMerges == BlockerReleasable /\ ttl_blocked /\ ttl_blocked' = FALSE
                /\ UNCHANGED <<merges_blocked, list_cancelled, input_vars, task_vars>>
CancelMerge == ~list_cancelled /\ list_cancelled' = TRUE
                /\ UNCHANGED <<merges_blocked, ttl_blocked, input_vars, task_vars>>

-----------------------------------------------------------------------------
(* ExecuteAndFinalizeHorizontalPart                                        *)

(* prepare: the cancellation checks, the stale-directory check, TTL and    *)
(* algorithm choice, and the rows_sources buffer for Vertical or decouple. *)
Prepare ==
    /\ At("Horizontal", 1)
    /\ IF merges_blocked \/ list_cancelled THEN
          Throw("Aborted") /\ UNCHANGED <<need_remove, algorithm, has_row_sources>>
       ELSE IF ttl_merge_type /\ ttl_blocked THEN
          Throw("Aborted") /\ UNCHANGED <<need_remove, algorithm, has_row_sources>>
       ELSE IF tmp_dir_exists THEN
          Throw("DirectoryAlreadyExists")
          /\ UNCHANGED <<need_remove, algorithm, has_row_sources>>
       ELSE LET remove == ttl_expired /\ ~ttl_blocked
                alg == ChooseMergeAlgorithm(remove)
            IN /\ need_remove' = remove
               /\ algorithm' = alg
               /\ has_row_sources' = (alg = "Vertical" \/ decouple)
               /\ SubtaskReturned(FALSE)
               /\ UNCHANGED outcome
    /\ UNCHANGED <<env_vars, input_vars, impl_pc, rows_read, rows_filtered,
                   rows_sources_count, skipped_records, rows_written, column_num,
                   column_state, column_elems, delayed, proj_idx, child_steps>>

(* executeImpl, one pulled block: the row is filtered by the deleted mask, *)
(* or goes through the merging transform (recorded in rows_sources, maybe  *)
(* skipped) and then maybe removed by DEDUPLICATE or TTL before it is      *)
(* written.                                                                *)
HorizontalPull ==
    /\ At("Horizontal", 2)
    /\ impl_pc = "loop"
    /\ ~IsCancelled
    /\ rows_read < total_rows
    /\ rows_read' = rows_read + 1
    /\ \E filtered \in BOOLEAN :
       \E skip \in IF mode = "Collapsing" /\ ~filtered THEN BOOLEAN ELSE {FALSE} :
       \E removed \in IF (deduplicate \/ need_remove) /\ ~filtered /\ ~skip
                      THEN BOOLEAN ELSE {FALSE} :
        /\ rows_filtered' = rows_filtered + (IF filtered THEN 1 ELSE 0)
        /\ rows_sources_count' = rows_sources_count
                                 + (IF has_row_sources /\ ~filtered THEN 1 ELSE 0)
        /\ skipped_records' = skipped_records
                              + (IF has_row_sources /\ skip THEN 1 ELSE 0)
        /\ rows_written' = rows_written
                           + (IF filtered \/ skip \/ removed THEN 0 ELSE 1)
    /\ UNCHANGED <<env_vars, input_vars, stage, sub, impl_pc, need_remove,
                   algorithm, has_row_sources, column_num, column_state,
                   column_elems, delayed, proj_idx, child_steps,
                   outcome>>

(* executeImpl: the pull loop ends because is_cancelled() held or the      *)
(* pipeline is drained; the executor and pipeline are reset.               *)
HorizontalLoopEnd ==
    /\ At("Horizontal", 2)
    /\ impl_pc = "loop"
    /\ IsCancelled \/ rows_read = total_rows
    /\ impl_pc' = "check"
    /\ UNCHANGED <<env_vars, input_vars, stage, sub, need_remove, algorithm,
                   has_row_sources, rows_read, rows_filtered, rows_sources_count,
                   skipped_records, rows_written, column_num, column_state,
                   column_elems, delayed, proj_idx, child_steps,
                   outcome>>

(* Faulty variant: the pull loop's end taken as success, without reading   *)
(* the blockers again.                                                     *)
HorizontalCheckNoRecheck ==
    /\ At("Horizontal", 2)
    /\ impl_pc = "check"
    /\ SubtaskReturned(FALSE)
    /\ UNCHANGED <<env_vars, input_vars, impl_pc, need_remove, algorithm,
                   has_row_sources, rows_read, rows_filtered, rows_sources_count,
                   skipped_records, rows_written, column_num, column_state,
                   column_elems, delayed, proj_idx, child_steps,
                   outcome>>

(* executeImpl after the loop: the blockers are read again.                *)
HorizontalCheck ==
    /\ At("Horizontal", 2)
    /\ impl_pc = "check"
    /\ IF merges_blocked \/ list_cancelled THEN Throw("Aborted")
       ELSE IF need_remove /\ ttl_blocked THEN Throw("Aborted")
       ELSE SubtaskReturned(FALSE) /\ UNCHANGED outcome
    /\ UNCHANGED <<env_vars, input_vars, impl_pc, need_remove, algorithm,
                   has_row_sources, rows_read, rows_filtered, rows_sources_count,
                   skipped_records, rows_written, column_num, column_state,
                   column_elems, delayed, proj_idx, child_steps>>

(* generateRowIdsMap: one step of the horizontal subtasks; the maps it     *)
(* writes and the bitmap push are modelled in RowIdsMap.                   *)
GenerateRowIdsMap ==
    /\ At("Horizontal", 3)
    /\ SubtaskReturned(FALSE)
    /\ UNCHANGED <<env_vars, input_vars, impl_pc, need_remove, algorithm,
                   has_row_sources, rows_read, rows_filtered, rows_sources_count,
                   skipped_records, rows_written, column_num, column_state,
                   column_elems, delayed, proj_idx, child_steps, outcome>>

-----------------------------------------------------------------------------
(* VerticalMergeStage                                                      *)

(* Faulty variant: the count check forgets the rows the deleted mask       *)
(* filtered out.                                                           *)
PrepareVerticalIgnoringFiltered ==
    /\ At("Vertical", 1)
    /\ IF algorithm # "Vertical" THEN
          SubtaskReturned(FALSE) /\ UNCHANGED <<outcome, column_num, column_state>>
       ELSE IF (rows_sources_count > 0 \/ num_parts > 1)
               /\ rows_read # rows_sources_count THEN
          Throw("LogicalError") /\ UNCHANGED <<column_num, column_state>>
       ELSE /\ column_num' = 0
            /\ column_state' = "NEED_PREPARE"
            /\ SubtaskReturned(FALSE)
            /\ UNCHANGED outcome
    /\ UNCHANGED <<env_vars, input_vars, impl_pc, need_remove, algorithm,
                   has_row_sources, rows_read, rows_filtered, rows_sources_count,
                   skipped_records, rows_written, column_elems, delayed,
                   proj_idx, child_steps>>

(* prepareVerticalMergeForAllColumns: the rows_sources count check.        *)
PrepareVerticalForAllColumns ==
    /\ At("Vertical", 1)
    /\ IF algorithm # "Vertical" THEN
          SubtaskReturned(FALSE) /\ UNCHANGED <<outcome, column_num, column_state>>
       ELSE IF (rows_sources_count > 0 \/ num_parts > 1)
               /\ rows_read # rows_sources_count + rows_filtered THEN
          Throw("LogicalError") /\ UNCHANGED <<column_num, column_state>>
       ELSE /\ column_num' = 0
            /\ column_state' = "NEED_PREPARE"
            /\ SubtaskReturned(FALSE)
            /\ UNCHANGED outcome
    /\ UNCHANGED <<env_vars, input_vars, impl_pc, need_remove, algorithm,
                   has_row_sources, rows_read, rows_filtered, rows_sources_count,
                   skipped_records, rows_written, column_elems, delayed,
                   proj_idx, child_steps>>

(* executeVerticalMergeForAllColumns, past the external cycle condition.   *)
GatheringColumnLeft ==
    /\ At("Vertical", 2)
    /\ algorithm = "Vertical"
    /\ column_num < gathering_count

(* NEED_PREPARE: prepareVerticalMergeForOneColumn opens the gatherer.      *)
PrepareOneColumn ==
    /\ GatheringColumnLeft
    /\ column_state = "NEED_PREPARE"
    /\ column_elems' = 0
    /\ column_state' = "NEED_EXECUTE"
    /\ UNCHANGED <<env_vars, input_vars, stage, sub, impl_pc, need_remove,
                   algorithm, has_row_sources, rows_read, rows_filtered,
                   rows_sources_count, skipped_records, rows_written, column_num,
                   delayed, proj_idx, child_steps, outcome>>

(* NEED_EXECUTE, one block: the gatherer yields a row for every record of  *)
(* rows_sources without the skip flag.                                     *)
GatherPull ==
    /\ GatheringColumnLeft
    /\ column_state = "NEED_EXECUTE"
    /\ ~merges_blocked /\ ~list_cancelled
    /\ column_elems < rows_sources_count - skipped_records
    /\ column_elems' = column_elems + 1
    /\ UNCHANGED <<env_vars, input_vars, stage, sub, impl_pc, need_remove,
                   algorithm, has_row_sources, rows_read, rows_filtered,
                   rows_sources_count, skipped_records, rows_written, column_num,
                   column_state, delayed, proj_idx, child_steps,
                   outcome>>

(* NEED_EXECUTE: cancelled, or the gatherer is drained.                    *)
GatherEnd ==
    /\ GatheringColumnLeft
    /\ column_state = "NEED_EXECUTE"
    /\ \/ merges_blocked \/ list_cancelled
       \/ column_elems = rows_sources_count - skipped_records
    /\ column_state' = "NEED_FINISH"
    /\ UNCHANGED <<env_vars, input_vars, stage, sub, impl_pc, need_remove,
                   algorithm, has_row_sources, rows_read, rows_filtered,
                   rows_sources_count, skipped_records, rows_written, column_num,
                   column_elems, delayed, proj_idx, child_steps,
                   outcome>>

(* Faulty variant: streams queued without finishing the oldest ones.      *)
FinishOneColumnUnbounded ==
    /\ GatheringColumnLeft
    /\ column_state = "NEED_FINISH"
    /\ IF merges_blocked \/ list_cancelled THEN
          Throw("Aborted") /\ UNCHANGED <<delayed, column_num, column_state>>
       ELSE /\ delayed' = delayed + 1
            /\ IF rows_written # column_elems THEN
                  Throw("LogicalError") /\ UNCHANGED <<column_num, column_state>>
               ELSE /\ column_num' = column_num + 1
                    /\ column_state' = "NEED_PREPARE"
                    /\ UNCHANGED <<stage, sub, outcome>>
    /\ UNCHANGED <<env_vars, input_vars, impl_pc, need_remove, algorithm,
                   has_row_sources, rows_read, rows_filtered, rows_sources_count,
                   skipped_records, rows_written, column_elems, proj_idx,
                   child_steps>>

(* NEED_FINISH: finalizeVerticalMergeForOneColumn.  The cancellation check,*)
(* the column stream queued and the oldest finished beyond                 *)
(* max_delayed_streams, then the element count check.                      *)
FinishOneColumn ==
    /\ GatheringColumnLeft
    /\ column_state = "NEED_FINISH"
    /\ IF merges_blocked \/ list_cancelled THEN
          Throw("Aborted") /\ UNCHANGED <<delayed, column_num, column_state>>
       ELSE /\ delayed' = IF delayed + 1 > MaxDelayedStreams
                          THEN MaxDelayedStreams ELSE delayed + 1
            /\ IF rows_written # column_elems THEN
                  Throw("LogicalError") /\ UNCHANGED <<column_num, column_state>>
               ELSE /\ column_num' = column_num + 1
                    /\ column_state' = "NEED_PREPARE"
                    /\ UNCHANGED <<stage, sub, outcome>>
    /\ UNCHANGED <<env_vars, input_vars, impl_pc, need_remove, algorithm,
                   has_row_sources, rows_read, rows_filtered, rows_sources_count,
                   skipped_records, rows_written, column_elems, proj_idx,
                   child_steps>>

(* executeVerticalMergeForAllColumns returns false: Horizontal, or every   *)
(* gathering column done.                                                  *)
VerticalColumnsDone ==
    /\ At("Vertical", 2)
    /\ algorithm # "Vertical" \/ column_num >= gathering_count
    /\ SubtaskReturned(FALSE)
    /\ UNCHANGED <<env_vars, input_vars, impl_pc, need_remove, algorithm,
                   has_row_sources, rows_read, rows_filtered, rows_sources_count,
                   skipped_records, rows_written, column_num, column_state,
                   column_elems, delayed, proj_idx, child_steps,
                   outcome>>

(* finalizeVerticalMergeForAllColumns: every delayed stream is finished.   *)
FinalizeVerticalForAllColumns ==
    /\ At("Vertical", 3)
    /\ delayed' = 0
    /\ SubtaskReturned(FALSE)
    /\ UNCHANGED <<env_vars, input_vars, impl_pc, need_remove, algorithm,
                   has_row_sources, rows_read, rows_filtered, rows_sources_count,
                   skipped_records, rows_written, column_num, column_state,
                   column_elems, proj_idx, child_steps, outcome>>

-----------------------------------------------------------------------------
(* MergeProjectionsStage                                                   *)

(* mergeMinMaxIndexAndPrepareProjections: one nested task per projection  *)
(* that every source part has.                                             *)
PrepareProjections ==
    /\ At("Projections", 1)
    /\ proj_idx' = 0
    /\ child_steps' = 0
    /\ SubtaskReturned(FALSE)
    /\ UNCHANGED <<env_vars, input_vars, impl_pc, need_remove, algorithm,
                   has_row_sources, rows_read, rows_filtered, rows_sources_count,
                   skipped_records, rows_written, column_num, column_state,
                   column_elems, delayed, outcome>>

(* Faulty variant: a finished nested task is restarted instead of the     *)
(* iterator moving on.                                                     *)
ExecuteProjectionNoAdvance ==
    /\ At("Projections", 2)
    /\ IF proj_idx = num_projections THEN
          SubtaskReturned(FALSE) /\ UNCHANGED <<proj_idx, child_steps, outcome>>
       ELSE IF merges_blocked THEN
          Throw("Aborted") /\ UNCHANGED <<proj_idx, child_steps>>
       ELSE IF child_steps < ChildSteps THEN
          child_steps' = child_steps + 1 /\ SubtaskReturned(TRUE)
          /\ UNCHANGED <<proj_idx, outcome>>
       ELSE /\ child_steps' = 0
            /\ SubtaskReturned(TRUE)
            /\ UNCHANGED <<proj_idx, outcome>>
    /\ UNCHANGED <<env_vars, input_vars, impl_pc, need_remove, algorithm,
                   has_row_sources, rows_read, rows_filtered, rows_sources_count,
                   skipped_records, rows_written, column_num, column_state,
                   column_elems, delayed>>

(* executeProjections: one execute() of the current nested task; it       *)
(* aborts on the merges blocker it shares with the parent.  When it        *)
(* returns false the iterator advances; at the end the subtask returns     *)
(* false.                                                                  *)
ExecuteProjection ==
    /\ At("Projections", 2)
    /\ IF proj_idx = num_projections THEN
          SubtaskReturned(FALSE) /\ UNCHANGED <<proj_idx, child_steps, outcome>>
       ELSE IF merges_blocked THEN
          Throw("Aborted") /\ UNCHANGED <<proj_idx, child_steps>>
       ELSE IF child_steps < ChildSteps THEN
          child_steps' = child_steps + 1 /\ SubtaskReturned(TRUE)
          /\ UNCHANGED <<proj_idx, outcome>>
       ELSE /\ proj_idx' = proj_idx + 1
            /\ child_steps' = 0
            /\ SubtaskReturned(TRUE)
            /\ UNCHANGED outcome
    /\ UNCHANGED <<env_vars, input_vars, impl_pc, need_remove, algorithm,
                   has_row_sources, rows_read, rows_filtered, rows_sources_count,
                   skipped_records, rows_written, column_num, column_state,
                   column_elems, delayed>>

(* finalizeProjectionsAndWholeMerge: finalizePart; decouple is dropped for *)
(* an empty new part; otherwise the sources' vector index files are moved  *)
(* into the new part; the transaction is precommitted and the promise set. *)
FinalizeWholeMerge ==
    /\ At("Projections", 3)
    /\ outcome' = "published"
    /\ SubtaskReturned(FALSE)
    /\ UNCHANGED <<env_vars, input_vars, impl_pc, need_remove, algorithm,
                   has_row_sources, rows_read, rows_filtered, rows_sources_count,
                   skipped_records, rows_written, column_num, column_state,
                   column_elems, delayed, proj_idx, child_steps>>

-----------------------------------------------------------------------------
(* Specification                                                           *)

Init ==
    /\ merges_blocked = FALSE
    /\ ttl_blocked \in BOOLEAN
    /\ list_cancelled = FALSE
    /\ total_rows \in 0..MaxRows
    /\ num_parts \in {1, 2}
    /\ mode \in Modes
    /\ ttl_merge_type \in BOOLEAN
    /\ ttl_expired \in BOOLEAN
    /\ deduplicate \in BOOLEAN
    /\ vertical_shape \in BOOLEAN
    /\ decouple \in BOOLEAN
    /\ gathering_count \in 0..MaxColumns
    /\ num_projections \in 0..MaxProjections
    /\ tmp_dir_exists \in BOOLEAN
    /\ stage = "Horizontal"
    /\ sub = 1
    /\ impl_pc = "loop"
    /\ need_remove = FALSE
    /\ algorithm = "Undecided"
    /\ has_row_sources = FALSE
    /\ rows_read = 0
    /\ rows_filtered = 0
    /\ rows_sources_count = 0
    /\ skipped_records = 0
    /\ rows_written = 0
    /\ column_num = 0
    /\ column_state = "NEED_PREPARE"
    /\ column_elems = 0
    /\ delayed = 0
    /\ proj_idx = 0
    /\ child_steps = 0
    /\ outcome = "running"

(* One MergeTask::execute() call, or part of one when another thread may   *)
(* act between two reads of the blockers.                                  *)
TaskStep ==
    \/ Prepare \/ HorizontalPull \/ HorizontalLoopEnd \/ HorizontalCheck
    \/ GenerateRowIdsMap
    \/ PrepareVerticalForAllColumns \/ PrepareOneColumn \/ GatherPull
    \/ GatherEnd \/ FinishOneColumn \/ VerticalColumnsDone
    \/ FinalizeVerticalForAllColumns
    \/ PrepareProjections \/ ExecuteProjection \/ FinalizeWholeMerge

Environment ==
    \/ BlockMerges \/ UnblockMerges \/ BlockTTLMerges \/ UnblockTTLMerges
    \/ CancelMerge

(* The task is over; the other threads may still act.                      *)
Terminated == stage = "Done" /\ UNCHANGED vars

Next == TaskStep \/ Environment \/ Terminated

(* The background executor keeps calling execute() while it returns true;  *)
(* the other threads owe nothing.                                          *)
Spec == Init /\ [][Next]_vars /\ WF_vars(TaskStep)

-----------------------------------------------------------------------------
(* Properties                                                              *)

TypeOK ==
    /\ env_vars \in BOOLEAN \X BOOLEAN \X BOOLEAN
    /\ stage \in {"Horizontal", "Vertical", "Projections", "Done"}
    /\ sub \in 1..3
    /\ impl_pc \in {"loop", "check"}
    /\ algorithm \in {"Undecided", "Horizontal", "Vertical"}
    /\ rows_read \in 0..total_rows
    /\ rows_filtered \in 0..rows_read
    /\ rows_sources_count \in 0..rows_read
    /\ skipped_records \in 0..rows_sources_count
    /\ rows_written \in 0..rows_read
    /\ column_num \in 0..MaxColumns
    /\ column_state \in {"NEED_PREPARE", "NEED_EXECUTE", "NEED_FINISH"}
    /\ column_elems \in Nat
    /\ delayed \in 0..MaxDelayedStreams
    /\ proj_idx \in 0..MaxProjections
    /\ child_steps \in 0..ChildSteps
    /\ outcome \in Outcomes

(* Row conservation (spec P1, section 5 "no partial new part is exposed"): *)
(* a published part went through every row of the source parts, and a      *)
(* vertical merge gathered every non-key column for every written row.     *)
PublishedPartComplete ==
    outcome = "published" =>
        /\ rows_read = total_rows
        /\ algorithm = "Vertical" => column_num = gathering_count

(* A LOGICAL_ERROR ("It is a bug") is never thrown: neither the            *)
(* rows_sources count check nor the gathered-column count check fails.     *)
NoLogicalError == outcome # "LogicalError"

(* Every merge ends: it is published or fails.                             *)
MergeEnds == <>(outcome # "running")


=============================================================================
