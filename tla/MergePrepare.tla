---------------------------- MODULE MergePrepare ----------------------------
(***************************************************************************)
(* What ExecuteAndFinalizeHorizontalPart::prepare decides once its         *)
(* cancellation and directory checks have passed (those are modelled with  *)
(* the other threads in MergeTask): the split of the table's columns into  *)
(* merging and gathering columns, whether expired TTL values are removed,  *)
(* the merge algorithm, decouple eligibility (module DecoupleEligibility,  *)
(* used here through INSTANCE), the rows_sources buffer and whether its    *)
(* file is kept, which merging transform createMergedStream builds and     *)
(* whether it is handed the buffer, and the columns dropped as expired.    *)
(*                                                                         *)
(* prepare is one subtask call, so the model is one step from every        *)
(* combination of inputs: table shape, TTL state, settings and part        *)
(* formats, DEDUPLICATE, and the source parts' vector indexes.  Columns    *)
(* are names; the table's first column is "key".                          *)
(***************************************************************************)
EXTENDS Integers, FiniteSets, Sequences

CONSTANTS
    NumParts, NumIndexes,  \* source parts and vector indexes (DecoupleEligibility)
    Modes,                 \* merging_params.mode values of the tables checked
    SettingsChoices,       \* MergeTreeSettings and part formats, as records
    TTLChoices             \* TTL state of the source parts, as records

AllModes == {"Ordinary", "Collapsing", "Summing", "Aggregating", "Replacing",
             "Graphite", "VersionedCollapsing"}

ASSUME Modes \subseteq AllModes

VARIABLES
    rows_count, has_lwd, index_state, result, prepared,  \* DecoupleEligibility
    table,              \* metadata: mode, merging params, sorting key, skip indexes
    ttl,                \* TTL infos of the source parts
    deduplicate,        \* global_ctx->deduplicate
    settings,           \* data settings and future_part->part_format
    enable_decouple,    \* enable_decouple_vector_index
    need_remove,        \* ctx->need_remove_expired_values
    algorithm,          \* chosen_merge_algorithm
    merging,            \* merging_column_names
    gathering,          \* gathering_column_names
    expired,            \* new_data_part->expired_columns
    has_row_sources,    \* ctx->rows_sources_write_buf exists
    kept,               \* rows_sources_file->keep() was called
    writes_row_sources, \* the merging transform got rows_sources_write_buf
    pipeline            \* transforms of merged_pipeline after the sources, in order

Elig == INSTANCE DecoupleEligibility

elig_vars == <<rows_count, has_lwd, index_state, result, prepared>>
input_vars == <<table, ttl, deduplicate, settings, enable_decouple>>
out_vars == <<need_remove, algorithm, merging, gathering, expired,
              has_row_sources, kept, writes_row_sources, pipeline>>
vars == <<elig_vars, input_vars, out_vars>>

-----------------------------------------------------------------------------
(* Tables                                                                  *)

(* Merging params per mode: the sign, version and is_deleted column names, *)
(* "" when the engine has none.  is_deleted needs a version column.        *)
ParamsOf(m) ==
    CASE m = "Collapsing" ->
            {[sign |-> "sign", version |-> "", is_deleted |-> ""]}
      [] m = "VersionedCollapsing" ->
            {[sign |-> "sign", version |-> "ver", is_deleted |-> ""]}
      [] m = "Replacing" ->
            {[sign |-> "", version |-> v, is_deleted |-> d] :
                <<v, d>> \in {<<"", "">>, <<"ver", "">>, <<"ver", "del">>}}
      [] OTHER -> {[sign |-> "", version |-> "", is_deleted |-> ""]}

(* A table: ORDER BY key or ORDER BY tuple(), with or without a skip index *)
(* on column x.                                                            *)
Tables == UNION {{[mode |-> m, params |-> p, sort_key |-> s, indexes |-> i] :
                     p \in ParamsOf(m), s \in {{}, {"key"}}, i \in {{}, {"x"}}} : m \in Modes}

StorageColumns(t) ==
    {"key", "x", "y"} \cup ({t.params.sign, t.params.version, t.params.is_deleted} \ {""})

(* VersionedCollapsing appends its version column to the sorting key.      *)
SortingKeyColumns(t) ==
    t.sort_key \cup (IF t.mode = "VersionedCollapsing" THEN {"ver"} ELSE {})

(* extractMergingAndGatheringColumns: the key columns are the sorting key, *)
(* the skip-index columns and the columns the mode forces; Replacing       *)
(* forces is_deleted and version even when they are "".  Only an empty key *)
(* set makes the first column a key column.                                *)
KeyColumns(t) ==
    LET forced == CASE t.mode \in {"Collapsing", "VersionedCollapsing"} -> {t.params.sign}
                    [] t.mode = "Replacing" -> {t.params.is_deleted, t.params.version}
                    [] OTHER -> {}
        keys == SortingKeyColumns(t) \cup t.indexes \cup forced
    IN IF keys = {} THEN {"key"} ELSE keys

MergingColumns(t) == StorageColumns(t) \cap KeyColumns(t)
GatheringColumns(t) == StorageColumns(t) \ KeyColumns(t)

-----------------------------------------------------------------------------
(* Decisions                                                               *)

(* RowSourcePart::MAX_PARTS: source numbers have 7 bits.                   *)
MAX_PARTS == 127

(* need_remove_expired_values: TTL not calculated for some part forces a   *)
(* recalculation; a due part_min_ttl removes values; a cancelled TTL       *)
(* merges blocker turns removal off again.                                 *)
NeedRemoveExpiredValues(x) ==
    (x.not_calculated \/ x.min_ttl_due) /\ ~x.blocked

(* chooseMergeAlgorithm, its early returns in order, then the four         *)
(* conditions of Vertical.                                                 *)
VerticalModes == {"Ordinary", "Collapsing", "Replacing", "VersionedCollapsing"}

ChooseMergeAlgorithm(t, s, remove) ==
    IF \/ deduplicate
       \/ ~s.enable_vertical
       \/ remove
       \/ ~s.wide
       \/ ~s.full
       \/ ~s.allow_compact_to_wide /\ ~s.sources_wide
    THEN "Horizontal"
    ELSE IF /\ t.mode \in VerticalModes
            /\ s.enough_rows
            /\ Cardinality(GatheringColumns(t)) >= s.min_columns
            /\ NumParts <= MAX_PARTS
         THEN "Vertical" ELSE "Horizontal"

(* createMergedStream: the transforms built with rows_sources_write_buf.   *)
TransformTakesRowSources(m) == m \in VerticalModes

(* createMergedStream: the merging transform of the mode, then DISTINCT    *)
(* for DEDUPLICATE, TTLTransform when expired values are removed, and the  *)
(* skip-index expression with its materialization.                         *)
MergedPipeline(t, remove) ==
    <<t.mode>>
    \o (IF deduplicate THEN <<"Distinct">> ELSE <<>>)
    \o (IF remove THEN <<"TTL">> ELSE <<>>)
    \o (IF t.indexes # {} THEN <<"Expression", "Materializing">> ELSE <<>>)

(* The columns dropped as expired when values are not removed: those whose *)
(* column TTL has finished.                                                *)
ExpiredColumns(x, remove) == IF remove THEN {} ELSE x.finished

-----------------------------------------------------------------------------

Init ==
    /\ Elig!Init
    /\ table \in Tables
    /\ ttl \in TTLChoices
    /\ deduplicate \in BOOLEAN
    /\ settings \in SettingsChoices
    /\ enable_decouple \in BOOLEAN
    /\ need_remove = FALSE
    /\ algorithm = "none"
    /\ merging = {}
    /\ gathering = {}
    /\ expired = {}
    /\ has_row_sources = FALSE
    /\ kept = FALSE
    /\ writes_row_sources = FALSE
    /\ pipeline = <<>>

(* prepare, from extractMergingAndGatheringColumns to createMergedStream   *)
(* and the expired columns.  The Horizontal case merges every column; the  *)
(* decouple block creates the rows_sources buffer when Vertical did not    *)
(* and keeps its file.                                                     *)
Prepare ==
    /\ ~prepared
    /\ LET remove == NeedRemoveExpiredValues(ttl)
           alg == ChooseMergeAlgorithm(table, settings, remove)
           drop == ExpiredColumns(ttl, remove)
       IN /\ need_remove' = remove
          /\ algorithm' = alg
          /\ IF enable_decouple THEN Elig!PrepareDecouple ELSE UNCHANGED result
          /\ has_row_sources' = (alg = "Vertical" \/ result'.can_be_decouple)
          /\ kept' = result'.can_be_decouple
          /\ writes_row_sources' = (has_row_sources' /\ TransformTakesRowSources(table.mode))
          /\ pipeline' = MergedPipeline(table, remove)
          /\ merging' = (IF alg = "Horizontal" THEN StorageColumns(table)
                         ELSE MergingColumns(table)) \ drop
          /\ gathering' = (IF alg = "Horizontal" THEN {} ELSE GatheringColumns(table)) \ drop
          /\ expired' = drop
    /\ prepared' = TRUE
    /\ UNCHANGED <<rows_count, has_lwd, index_state, input_vars>>

Done == prepared /\ UNCHANGED vars

Next == Prepare \/ Done

Spec == Init /\ [][Next]_vars

-----------------------------------------------------------------------------
(* Properties                                                              *)

(* Spec 4.2: when the merge is Vertical, or when the vector index remapper *)
(* needs it (can_be_decouple), the merging transform writes the            *)
(* RowSourceStream.  Both readers, the vertical column gather and          *)
(* generateRowIdsMap, replay what the transform wrote.                     *)
RowSourcesWrittenForReaders ==
    prepared =>
        ((algorithm = "Vertical" \/ result.can_be_decouple) => writes_row_sources)

=============================================================================
