# TLA+ models of the MergeTree part merge (MergeTask)

These modules model `src/src/Storages/MergeTree/MergeTask.cpp`. That file holds the staged merge of MergeTree data parts, and the vector-index "decouple" extension: it lets a merged part reuse the source parts' built vector indexes through row-ID maps. The other two source files, `MergeTreeBlockReadUtils.h` and `AlterCommands.h`, contain declarations and small inline estimators (see *Not modelled*).

## The system

`MergeTask::execute` is called again and again by a background executor until it returns false. Each call does a bounded piece of work: one subtask of the current stage. An exception thrown from any subtask ends the task.

The stages and their subtasks, in order:

1. **ExecuteAndFinalizeHorizontalPart**
   - `prepare`:
     - checks for cancellation and an existing temporary directory;
     - decides TTL removal (`need_remove_expired_values`);
     - chooses the algorithm (`chooseMergeAlgorithm`);
     - decides decouple eligibility for vector indexes;
     - creates the `rows_sources` buffer for a Vertical or decoupled merge;
     - builds the pipeline (`createMergedStream`).
   - `executeImpl`:
     - pulls blocks while `is_cancelled()` is false;
     - reads the blockers again after the loop.
   - `generateRowIdsMap`:
     - replays `rows_sources` into the inverted and forward row-ID maps;
     - in the collapsing modes, pushes dropped rows into the source parts' vector-index delete bitmaps (`updateBitMap`).
2. **VerticalMergeStage**
   - A `rows_sources` count check.
   - A per-column state machine (NEED_PREPARE → NEED_EXECUTE → NEED_FINISH) that gathers each non-key column.
   - A bounded queue of delayed streams.
   - An element count check per column.
3. **MergeProjectionsStage**
   - One nested merge task per projection, stepped one `execute()` at a time.
   - Finalization: moves the vector index files out of the source parts, recomputes checksums and precommits.

Other threads interact with the task only through cancellation:
- the `merges_blocker` and `ttl_merges_blocker` ActionBlockers, which are taken and released by ALTER, DROP, SYSTEM STOP MERGES and similar commands;
- the sticky `merge_list_element->is_cancelled` flag.

The code reads these flags at several points. What another thread does between two of those reads is the main concurrency hazard.

## Modules

| Module | Models | State | Actions |
|---|---|---|---|
| `MergeTask` | the driver and all three stages (MergeTask.cpp 133-1355, 1524-1565) | the blockers; the merge's inputs; stage/subtask counters; `executeImpl`'s loop/check position; the row counters (`rows_read`, filtered, `rows_sources` records, skipped, written); the vertical column state; delayed streams; the projection iterator; the outcome | one action per subtask. `executeImpl` is split into `HorizontalPull`, `HorizontalLoopEnd` and `HorizontalCheck`, because other threads act between the loop's cancellation read and the post-loop read. The vertical machine is `PrepareOneColumn`, `GatherPull`, `GatherEnd` and `FinishOneColumn`. The environment actions are `BlockMerges`, `UnblockMerges`, `BlockTTLMerges`, `UnblockTTLMerges` and `CancelMerge`. |
| `RowIdsMap` | `generateRowIdsMap` (565-832); which modes get a `rows_sources` buffer, and the post-merge filters of `createMergedStream` (1438-1504) | source part sizes and deleted masks, mode, the `rows_sources` byte file, the new part's rows, the inverted map, the forward maps, the vector-index delete bitmaps | `MergeRow(p)`: the merging transform consumes part p's next live row. `GenerateRowIdsMap`: the whole remap, including the trailing `updateBitMap`. |
| `FinalizeMerge` | the vector-index path from `prepare` to precommit: kept temp file and map file names (382-407), map files written by `generateRowIdsMap` (636-650), and `finalizeProjectionsAndWholeMerge` (1114-1274); composed with `DecoupleEligibility` through `Elig == INSTANCE DecoupleEligibility` | the eligibility state and result; `pc`; `new_rows`; the `decouple`/`vpart` flags as finalize sees them; the remaining (index, part) moves; per-part index files; the new part's files; the temp `rows_sources` file; per-index checksums | `Prepare` (`Elig!Prepare` plus the kept temp file), `MergeAndRemap`, `FinalizeStart` (decouple dropped for an empty part), `VPartSourceOutOfRange`, `MoveIndexFiles` (one `moveVectorIndexFiles`), `MovesDone`, `CopyRowSources`, `WriteChecksums`, `Precommit`, and `Fail`: an exception at any step after prepare abandons the temporary directory |
| `MergePrepare` | what `prepare` decides after its exception checks: `extractMergingAndGatheringColumns` (52-100), `need_remove_expired_values` (226-265), `chooseMergeAlgorithm` in full (1524-1565), the algorithm switch (284-312), the decouple buffer and `keep()` (377-395), the transform chain of `createMergedStream` (1431-1510) and the expired columns (410-445); composed with `DecoupleEligibility` through INSTANCE | the eligibility state; the inputs (table mode, merging params, sorting key and skip index; TTL state; DEDUPLICATE; settings and part formats; `enable_decouple_vector_index`); the outputs (`need_remove`, `algorithm`, merging and gathering columns, expired columns, whether the buffer exists, is kept and is handed to the transform, the transform chain) | `Prepare`, one step from every combination of inputs, and `Done` |
| `DecoupleEligibility` | the `enable_decouple_vector_index` block of `prepare` (319-373) | per part: rows, lightweight-delete flag, per-index state; the resulting `global_ctx` flags | `Prepare`: both loops, as nested `FoldLeft`s, plus the single-VPart test |

`MCRowIdsMap`, `MCMergeTask`, `MCFinalizeMerge`, `MCDecoupleEligibility` and `MCMergePrepare` give the constant sets used by the `.cfg` files.

### Abstractions

- **Merge transforms.** The transforms (Processors/Merges) are not under `src/`. `MergeRow` therefore lets the transform consume any interleaving of the sources' live rows, each in its part's order. In the dropping modes any row may be skipped, and after the transform DEDUPLICATE or TTL may remove any kept row. Every such pattern arises from some choice of keys, signs and versions, so checking all of them covers every real merge of the bounded size.
- **Map files.** A file of tab-separated decimal UInt64 values is modelled as the sequence of its values. `UInt64 new_row_id = -1` is modelled as `AsUInt(-1) = 2^RowIdBits - 1`, with `RowIdBits = 16`.
- **RowSourcePart.** The byte keeps its layout: source number in the low 7 bits, `MASK_FLAG = 128` for the skip flag.
- **Algorithm choice.** `MergePrepare` translates `chooseMergeAlgorithm` in full. In `MergeTask`, the part-shape and settings conditions are folded into one input, `vertical_shape`; the deduplicate and TTL branches stay explicit there, because they interact with the other actions.
- **Columns.** `MergePrepare` names columns: `key` (the first storage column), `x` (the one that may carry a skip index), `y`, and `sign`, `ver`, `del` when the mode's merging params name them. Replacing's empty version and is_deleted names are kept as `""`, because the code inserts them into the key set even when empty.
- **Projections.** A nested projection task is `ChildSteps` calls of `execute()` that abort on the shared merges blocker.
- **Undefined behaviour.** Reading `parts[-1]` is a nondeterministic choice of the flag that is read.

## Runs

| Run | Result | What it shows |
|---|---|---|
| `rowids_maps` | pass | Checked for every interleaving, skip pattern and deleted mask of two parts of up to two rows, in the four modes with a `rows_sources` buffer: the inverted map and the emitted records name exactly the new part's rows; in Ordinary mode the forward maps hold, for every old row, its new row or UINT64_MAX |
| `rowids_delete_bitmap` | violation | `deleteRowIds` is padded with zeros, so old row 0 is marked deleted in a source part's vector index although it survived. |
| `rowids_post_filter` | violation | Rows removed by DEDUPLICATE or TTL after the transform still get inverted-map entries. |
| `merge_task_sticky` | pass | With cancellation that is never withdrawn (`BlockerReleasable = FALSE`), all of these hold over all inputs with up to 2 rows, 2 gathered columns and 1 projection (about 1.08M states): a published part read every row and gathered every column; LOGICAL_ERROR is never thrown; every merge ends. |
| `merge_task_release_ends` | pass | Blockers are taken and released at any time, and every merge still ends. |
| `merge_task_release_truncates` | violation | A released blocker publishes a truncated part: the loop stopped at line 521, and the recheck at line 552 passes. |
| `merge_task_release_logical_error` | violation | A released blocker turns a cancelled column into LOGICAL_ERROR at line 975. |
| `decouple_reuse` | violation | An index is reused although a non-empty part has not built it: an empty part with a BUILT index is counted twice. |
| `decouple_vpart_range` | violation | `first_part_with_data` stays -1 and is used as an index. |
| `finalize_publish` | pass | Over 2 parts × 2 indexes, every eligibility input and IO failure at every step: a published decoupled part's checksums list exactly the files spec P8 names, and all of them are in the part. |
| `prepare_decouple_row_sources` | violation | Over all seven modes, tables with and without a sorting key and skip index, every TTL state, every settings early return and 2 parts × 1 index: a Summing, Aggregating or Graphite table that passes decouple eligibility gets a kept `rows_sources` file, but `createMergedStream` builds its transform without the buffer (line 1460). Spec §4.2 says the transform writes the RowSourceStream whenever the remapper needs it. |
| `finalize_io_failure` | violation | An exception after `moveVectorIndexFiles` (a later move, checksums, load or precommit) abandons the temporary directory and the index files moved into it, so the source part has lost its index. Spec §7 says sources are unchanged on failure, and the code's comment at 1163-1165 admits the gap. |

Each violation run is listed with its finding in `PROJECT.json`.

The composition of `FinalizeMerge` with `DecoupleEligibility` also reaches `VPartSourceOutOfRange`. Because of the double count of empty parts with a BUILT index, `only_one_vpart_merged` can hold with `first_part_with_data = -1` while another part (one without the index) has rows. The new part is then non-empty, and line 1242 reads `parts[-1]`. This is recorded with the `decouple_vpart_range` finding.

An earlier run, `merge_task_source_side_effects`, stated that a failed merge leaves the source parts' vector-index bitmaps unchanged. It was retired, because spec §7 explicitly exempts the bitmap push ("idempotent and safe to redo"), so the finding did not hold against the spec.

One further divergence has no run. In the dropping modes, the forward map omits dropped rows (lines 704-719), where spec §3 says they get UINT64_MAX. A reader that indexes the forward map by old row offset is misled. The `rowids_maps` run checks the sentinel layout only for Ordinary mode.

Each property of a passing run has a mutant in `PROJECT.json`: a faulty variant of the mapped code, defined just before it in the module, that TLC shows violates the property. The variants are:

| Mutant | Plausible bug |
|---|---|
| `ReplayRecordCursorOnEmit` | the cursor advances only for emitted records |
| `ReplayRecordIdAfterIncrement` | the new ID is taken after the increment |
| `ForwardMapSignedSentinel` | the sentinel is written as a signed -1 |
| `HorizontalCheckNoRecheck` | the blockers are not read again after the loop |
| `PrepareVerticalIgnoringFiltered` | the count check forgets the filtered rows |
| `FinishOneColumnUnbounded` | the delayed queue is never drained |
| `ExecuteProjectionNoAdvance` | the projection iterator is never advanced |
| `WriteChecksumsAllForwardMaps` | the `continue` for empty sources at line 1196 is dropped |

## Bounds

- **RowIdsMap:** two parts of up to two rows, with every deleted mask. Every bug above needs at most two parts and two rows: a dropped row beside a kept row, or one filtered row.
- **MergeTask:** up to 2 rows, 2 gathered columns, 1 projection with 1 extra step, and a delayed-stream bound of 1. With these bounds the delayed queue overflows its bound, filtering and skipping both occur, and a cancellation can fall between any two reads.
- **FinalizeMerge:** 2 parts and 2 indexes (1 index for the failure run, which only needs one move before a failure). This gives the decouple branch with several moves across indexes and parts, the single-VPart branch, empty parts with and without built indexes, and an empty new part.
- **MergePrepare:** 2 parts and 1 index (2 parts so that an empty part sits beside a non-empty one); all seven modes with each engine's merging params; a settings record per early return of `chooseMergeAlgorithm`, plus Vertical candidates with and without enough rows, at column thresholds 1 and 3 (3 exceeds the gathering columns of some tables); every TTL state. The run has about 1.7M initial states.
- **DecoupleEligibility:** 2 parts × 2 indexes × 3 index states × row and lightweight-delete flags, enumerated exhaustively.

## Fairness

`Spec` of `MergeTask` assumes `WF_vars(TaskStep)`: the executor keeps calling `execute()` while it returns true, and a subtask that can run eventually runs. The environment actions have no fairness, because other threads owe the merge nothing.

## Not modelled, and the plan for later work

- **File contents in finalize.** Hashes, sizes and `loadDecoupleCache` are left out: files are names. The temporary `rows_sources` file is tracked (`tmp_file`). It is left behind after a failure or when decouple is dropped for an empty new part, but nothing in the spec or the code promises its removal, so no property states it.
- **RowIdsMap and MergeTask composed.** A composed module would use RowIdsMap's remap inside MergeTask's horizontal stage, so that cancellation is checked against the actual maps. This remains for a later sitting.
- **`ColumnSizeEstimator`:** only feeds progress reporting.
- **`MergeTreeBlockSizePredictor`** (MergeTreeBlockReadUtils.h) is declarations plus inline estimators over `double` (`estimateNumRowsForMaxSizeColumn`, `updateFilteredRowsRation`). TLC has no reals, and the only subtraction that could wrap (`quota / max_size_per_row - block_size_rows`) is guarded by `quota > block_size_rows * max_size_per_row` with an integer quota. The predictor is not called from MergeTask.cpp.
- **`AlterCommands.h`:** declarations only.
- **Source number wrap:** the 7-bit wrap of source numbers beyond 127 parts is out of TLC's reach.
- **Single-source `rows_sources` skip:** the comment at lines 851-853 says the transform may leave `rows_sources` unwritten when there is one source part and no skipped rows. With decouple and one source part that has a lightweight delete, `generateRowIdsMap` would then replay an empty stream. The transforms are not under `src/`, and spec §4.2 says Ordinary always writes a record, so `RowIdsMap` always writes it. The case is listed as a hazard without a property.
- **The remaining uncovered code of MergeTask.cpp** is I/O and plumbing: `addMissedColumnsToSerializationInfos`, the output stream and reservation set-up at the end of `prepare`, `getContextForNextStage`, the reader and sort-description set-up of `createMergedStream`, the buffer finalization and the catch block of `generateRowIdsMap`. None of it decides anything a property depends on.
- **Properties removed on review.** These were dropped because each held by construction or repeated another property:
  - a refinement of `MergeTask` to an abstract merge (it added nothing beyond `PublishedPartComplete` and `MergeEnds`);
  - the conservation of index files before a failure (it follows from the paired assignment in `MoveIndexFiles`);
  - a bound of replayed records by `part_offsets`. The model derives `part_offsets` from the same live rows the merge reads, so it cannot show the two readers disagreeing. Whether they agree is decided by reader code that is not under `src/`.
  - the second check of `MergeTask`'s type invariant in the release run.
