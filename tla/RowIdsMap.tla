------------------------------ MODULE RowIdsMap ------------------------------
(***************************************************************************)
(* The row-ID maps of a decoupled vector-index merge.                      *)
(*                                                                         *)
(* While the sorted merge runs, the merging transform appends one          *)
(* RowSourcePart byte per row it consumes to the rows_sources file: which  *)
(* source part the row came from and whether it was skipped (collapsed or  *)
(* replaced away).  After the merge, MergeTask::ExecuteAndFinalize-        *)
(* HorizontalPart::generateRowIdsMap replays that file to write            *)
(*   - the inverted map: new-part row -> offset of that row in its source, *)
(*   - one forward map per source: old row -> new-part row,                *)
(* and, in the modes that drop rows, pushes the dropped old rows into the  *)
(* delete bitmap of every vector index of the source part.                 *)
(*                                                                         *)
(* The merge transform itself (Processors/Merges) is not under src/: it is *)
(* modelled from the spec as any interleaving of the sources' live rows in *)
(* their own order, each row kept or, in the dropping modes, skipped.  Any *)
(* such pattern arises from some choice of sort keys, signs and versions,  *)
(* and the remap must be right for every one of them.  Rows removed after  *)
(* the transform (DEDUPLICATE, TTL) are written to rows_sources as kept    *)
(* but never reach the new part.                                           *)
(*                                                                         *)
(* The map files hold tab-terminated decimal UInt64 values; a file is      *)
(* modelled as the sequence of the values it holds.                        *)
(***************************************************************************)
EXTENDS Integers, Sequences, FiniteSets, SequencesExt

CONSTANTS
    NumParts,         \* number of source parts of the merge
    MaxRows,          \* bound on rows_count of a source part
    Modes,            \* merging modes the merge may run in
    PostMergeFilter,  \* TRUE: DEDUPLICATE or a TTL transform follows the merge
    RowIdBits         \* width of the UInt64 row ids, scaled down for TLC

ASSUME NumParts \in Nat \ {0}
ASSUME MaxRows \in Nat
ASSUME Modes \subseteq {"Ordinary", "Collapsing", "Replacing",
                        "VersionedCollapsing", "Summing", "Aggregating",
                        "Graphite"}
ASSUME PostMergeFilter \in BOOLEAN
ASSUME RowIdBits \in 4..30

Part == 0..NumParts - 1
Offset == 0..MaxRows - 1

(* Modes whose remap branch honours the skip flag (lines 660-662).         *)
DropModes == {"Collapsing", "Replacing", "VersionedCollapsing"}

(* Modes whose transform is handed rows_sources_write_buf (lines 1440-1486)*)
RowSourceModes == {"Ordinary", "Collapsing", "Replacing", "VersionedCollapsing"}

(* UInt64 arithmetic at width RowIdBits; "UInt64 new_row_id = -1" is       *)
(* the largest value, the sentinel of a row that did not survive.          *)
AsUInt(x) == x % (2 ^ RowIdBits)
Sentinel == AsUInt(-1)

(* RowSourcePart: one byte, source number in the low 7 bits, the skip flag *)
(* in the high bit.                                                        *)
MASK_FLAG == 128
EncodeRowSource(s, skip) == (s % MASK_FLAG) + (IF skip THEN MASK_FLAG ELSE 0)
GetSourceNum(b) == b % MASK_FLAG
GetSkipFlag(b) == b >= MASK_FLAG

VARIABLES
    rows_count,       \* part -> rows_count of the source part
    lwd,              \* part -> offsets deleted by a lightweight delete
    mode,             \* merging_params.mode
    read_pos,         \* part -> live rows the merge has consumed from it
    rows_sources,     \* the rows_sources file: a sequence of RowSourcePart bytes
    new_part,         \* rows of the new part, as [part, offset] of their origin
    inverted,         \* merged-inverted_row_ids_map
    forward,          \* part -> merged-<i>-<name>-row_ids_map
    bitmap,           \* part -> offsets marked deleted in its vector indexes
    remapped          \* generateRowIdsMap has run

vars == <<rows_count, lwd, mode, read_pos, rows_sources, new_part,
          inverted, forward, bitmap, remapped>>

-----------------------------------------------------------------------------
(* Sources                                                                 *)

(* The offsets a reader with the deleted mask applied returns, in order.   *)
LiveOffsets(p) ==
    SetToSortSeq({k \in 0..rows_count[p] - 1 : k \notin lwd[p]}, <)

MergeFinished == \A p \in Part : read_pos[p] = Len(LiveOffsets(p))

-----------------------------------------------------------------------------
(* generateRowIdsMap                                                       *)

(* part_offsets: the _part_offset column read over the whole mark range of *)
(* every part; a part without marks is skipped.                            *)
PartOffsets == [p \in Part |-> IF rows_count[p] = 0 THEN <<>> ELSE LiveOffsets(p)]

NONE == -1
NoIds == [p \in Part |-> [k \in Offset |-> NONE]]

(* Faulty variants, each of which some property below rules out:          *)
(* the cursor advanced only for emitted records, the new id taken after    *)
(* the increment, and the sentinel written as a signed -1.                 *)
ReplayRecordCursorOnEmit(acc, b) ==
    LET s == GetSourceNum(b)
        off == PartOffsets[s][acc.cursor[s] + 1]
        emit == ~(mode \in DropModes /\ GetSkipFlag(b))
    IN [ids    |-> IF emit THEN [acc.ids EXCEPT ![s][off] = acc.n] ELSE acc.ids,
        inv    |-> IF emit THEN Append(acc.inv, off) ELSE acc.inv,
        n      |-> IF emit THEN acc.n + 1 ELSE acc.n,
        cursor |-> IF emit THEN [acc.cursor EXCEPT ![s] = @ + 1] ELSE acc.cursor]

ReplayRecordIdAfterIncrement(acc, b) ==
    LET s == GetSourceNum(b)
        off == PartOffsets[s][acc.cursor[s] + 1]
        emit == ~(mode \in DropModes /\ GetSkipFlag(b))
    IN [ids    |-> IF emit THEN [acc.ids EXCEPT ![s][off] = acc.n + 1] ELSE acc.ids,
        inv    |-> IF emit THEN Append(acc.inv, off) ELSE acc.inv,
        n      |-> IF emit THEN acc.n + 1 ELSE acc.n,
        cursor |-> [acc.cursor EXCEPT ![s] = @ + 1]]

(* One record of the replay loop.  acc.ids is parts_new_row_ids, acc.cursor*)
(* is source_row_ids, acc.n is new_part_row_id.  In the dropping modes a   *)
(* skipped record only advances the cursor; the other modes ignore the     *)
(* skip flag.                                                              *)
ReplayRecord(acc, b) ==
    LET s == GetSourceNum(b)
        off == PartOffsets[s][acc.cursor[s] + 1]
        emit == ~(mode \in DropModes /\ GetSkipFlag(b))
    IN [ids    |-> IF emit THEN [acc.ids EXCEPT ![s][off] = acc.n] ELSE acc.ids,
        inv    |-> IF emit THEN Append(acc.inv, off) ELSE acc.inv,
        n      |-> IF emit THEN acc.n + 1 ELSE acc.n,
        cursor |-> [acc.cursor EXCEPT ![s] = @ + 1]]

Replay == FoldLeft(ReplayRecord,
                   [ids |-> NoIds, inv |-> <<>>, n |-> 0,
                    cursor |-> [p \in Part |-> 0]],
                   rows_sources)

OldRows(p) == [i \in 1..rows_count[p] |-> i - 1]

ForwardMapSignedSentinel(ids, p) ==
    IF mode \in DropModes
    THEN [i \in 1..Len(SelectSeq(OldRows(p), LAMBDA k : ids[p][k] # NONE))
            |-> ids[p][SelectSeq(OldRows(p), LAMBDA k : ids[p][k] # NONE)[i]]]
    ELSE [i \in 1..rows_count[p] |->
            IF ids[p][i - 1] # NONE THEN ids[p][i - 1] ELSE -1]

(* Forward map of part p.  Dropping modes write only the rows that have a  *)
(* new id; the other modes write the sentinel for the rest.                *)
ForwardMap(ids, p) ==
    IF mode \in DropModes
    THEN [i \in 1..Len(SelectSeq(OldRows(p), LAMBDA k : ids[p][k] # NONE))
            |-> ids[p][SelectSeq(OldRows(p), LAMBDA k : ids[p][k] # NONE)[i]]]
    ELSE [i \in 1..rows_count[p] |->
            IF ids[p][i - 1] # NONE THEN ids[p][i - 1] ELSE Sentinel]

(* deleteRowIds: a vector of rows_count zeros whose first i entries are    *)
(* the old rows without a new id; the whole vector goes to updateBitMap.   *)
DeleteRowIds(ids, p) ==
    LET missing == SelectSeq(OldRows(p), LAMBDA k : ids[p][k] = NONE)
    IN [i \in 1..rows_count[p] |-> IF i <= Len(missing) THEN missing[i] ELSE 0]

BitmapAfter(ids, p) ==
    IF mode \in DropModes /\ \E k \in 0..rows_count[p] - 1 : ids[p][k] = NONE
    THEN bitmap[p] \cup Range(DeleteRowIds(ids, p))
    ELSE bitmap[p]

-----------------------------------------------------------------------------
(* Actions                                                                 *)

(* The merging transform consumes the next live row of part p: it records  *)
(* a RowSourcePart when it has a rows_sources buffer, and the row reaches  *)
(* the new part unless it is skipped or removed by a later filter.         *)
MergeRow(p) ==
    /\ ~remapped
    /\ read_pos[p] < Len(LiveOffsets(p))
    /\ \E skip \in IF mode \in DropModes THEN BOOLEAN ELSE {FALSE} :
       \E filtered \in IF PostMergeFilter /\ ~skip THEN BOOLEAN ELSE {FALSE} :
        /\ rows_sources' = IF mode \in RowSourceModes
                           THEN Append(rows_sources, EncodeRowSource(p, skip))
                           ELSE rows_sources
        /\ new_part' = IF skip \/ filtered THEN new_part
                       ELSE Append(new_part, [part |-> p,
                                              offset |-> LiveOffsets(p)[read_pos[p] + 1]])
    /\ read_pos' = [read_pos EXCEPT ![p] = @ + 1]
    /\ UNCHANGED <<rows_count, lwd, mode, inverted, forward, bitmap, remapped>>

(* generateRowIdsMap after the merge has drained every source.             *)
GenerateRowIdsMap ==
    /\ ~remapped
    /\ MergeFinished
    /\ LET r == Replay IN
        /\ inverted' = r.inv
        /\ forward' = [p \in Part |-> ForwardMap(r.ids, p)]
        /\ bitmap' = [p \in Part |-> BitmapAfter(r.ids, p)]
    /\ remapped' = TRUE
    /\ UNCHANGED <<rows_count, lwd, mode, read_pos, rows_sources, new_part>>

(* The merge ran with inputs: the parts' sizes, their deleted masks and    *)
(* the merging mode.                                                       *)
Init ==
    /\ rows_count \in [Part -> 0..MaxRows]
    /\ lwd \in [Part -> SUBSET Offset]
    /\ \A p \in Part : lwd[p] \subseteq 0..rows_count[p] - 1
    /\ mode \in Modes
    /\ read_pos = [p \in Part |-> 0]
    /\ rows_sources = <<>>
    /\ new_part = <<>>
    /\ inverted = <<>>
    /\ forward = [p \in Part |-> <<>>]
    /\ bitmap = [p \in Part |-> {}]
    /\ remapped = FALSE

Done == remapped /\ UNCHANGED vars

Next ==
    \/ \E p \in Part : MergeRow(p)
    \/ GenerateRowIdsMap
    \/ Done

Spec == Init /\ [][Next]_vars

-----------------------------------------------------------------------------
(* Properties                                                              *)

TypeOK ==
    /\ rows_count \in [Part -> 0..MaxRows]
    /\ lwd \in [Part -> SUBSET Offset]
    /\ read_pos \in [Part -> 0..MaxRows]
    /\ rows_sources \in Seq(0..255)
    /\ new_part \in Seq([part : Part, offset : Offset])
    /\ inverted \in Seq(Offset)
    /\ forward \in [Part -> Seq(Nat)]
    /\ bitmap \in [Part -> SUBSET Offset]
    /\ remapped \in BOOLEAN

(* Position in the new part (0-based) of old row k of part p, or NONE.     *)
NewRowOf(p, k) ==
    IF \E j \in 1..Len(new_part) : new_part[j] = [part |-> p, offset |-> k]
    THEN (CHOOSE j \in 1..Len(new_part) : new_part[j] = [part |-> p, offset |-> k]) - 1
    ELSE NONE

(* The records of rows_sources that the readers take as emitted rows.      *)
EmittedSources ==
    SelectSeq(rows_sources,
              LAMBDA b : ~(mode \in DropModes /\ GetSkipFlag(b)))

(* Inverted map (spec P2, I1): after the remap, new-part row j is old row  *)
(* inverted[j] of the part that the j-th emitted rows_sources record names,*)
(* and both sequences are exactly as long as the new part.                 *)
InvertedMapMatchesNewPart ==
    remapped =>
        /\ Len(inverted) = Len(new_part)
        /\ Len(EmittedSources) = Len(new_part)
        /\ \A j \in 1..Len(new_part) :
              /\ inverted[j] = new_part[j].offset
              /\ GetSourceNum(EmittedSources[j]) = new_part[j].part

(* Forward maps (spec section 3, P2, I2): in the modes that keep every    *)
(* record, the forward map of every source has one entry per old row, the *)
(* new-part row of that row or UINT64_MAX when it did not survive.  (The   *)
(* dropping modes write only the surviving rows' entries, lines 704-719.)  *)
ForwardMapInvertsNewPart ==
    (remapped /\ mode \notin DropModes) =>
        \A p \in Part :
            /\ Len(forward[p]) = rows_count[p]
            /\ \A k \in 0..rows_count[p] - 1 :
                  forward[p][k + 1] = IF NewRowOf(p, k) = NONE THEN Sentinel
                                      ELSE NewRowOf(p, k)

(* Delete bitmap (spec 4.5 step 4): the rows the remap marks deleted in a  *)
(* source part's vector indexes are rows that did not survive the merge.   *)
BitmapHidesOnlyDroppedRows ==
    \A p \in Part : \A k \in bitmap[p] : NewRowOf(p, k) = NONE

=============================================================================
