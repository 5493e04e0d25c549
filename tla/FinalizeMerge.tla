---------------------------- MODULE FinalizeMerge ----------------------------
(***************************************************************************)
(* The vector-index side of a merge, from prepare to precommit.            *)
(*                                                                         *)
(* prepare decides decouple eligibility (module DecoupleEligibility, used  *)
(* here through INSTANCE) and, for a decoupled merge, keeps the temporary  *)
(* rows_sources file and names one row-ids map file per source.  The       *)
(* merge and generateRowIdsMap write the map files into the new part's     *)
(* directory.  MergeProjectionsStage::finalizeProjectionsAndWholeMerge     *)
(* then moves the reused index files out of the source parts one (index,   *)
(* part) at a time, copies the rows_sources file into the new part,        *)
(* writes a checksums file per index and precommits.                       *)
(*                                                                         *)
(* Any of these steps does IO and may throw; the exception abandons the    *)
(* new part's temporary directory.  File contents are not modelled: a      *)
(* file is a name, and a directory the set of names it holds.              *)
(***************************************************************************)
EXTENDS Integers, Sequences, FiniteSets, SequencesExt

CONSTANTS NumParts, NumIndexes

VARIABLES
    rows_count, has_lwd, index_state, result, prepared,  \* DecoupleEligibility
    pc,           \* where the merge is
    new_rows,     \* rows_count of the new part
    decouple,     \* can_be_decouple as finalize sees it
    vpart,        \* only_one_vpart_merged as finalize sees it
    moves,        \* (index, part) pairs the move loops have still to do
    src_files,    \* part -> vector indexes whose files are in the part
    new_files,    \* files in the new part's temporary directory
    tmp_file,     \* the temporary rows_sources file: none, kept, removed
    checksums     \* index -> files its checksums file lists

Elig == INSTANCE DecoupleEligibility

elig_vars == <<rows_count, has_lwd, index_state, result, prepared>>
vars == <<elig_vars, pc, new_rows, decouple, vpart, moves, src_files,
          new_files, tmp_file, checksums>>

Part == Elig!Part
VecIndex == Elig!VecIndex

(* File names of the new part: moved index files, the inverted map, the   *)
(* persisted rows_sources, and the forward map of each source.            *)
IndexFile(v, p) == <<"index", v, p>>
InvIdsFile == <<"inverted_row_ids_map", 0, 0>>
InvSourcesFile == <<"inverted_row_sources_map", 0, 0>>
FwdFile(p) == <<"row_ids_map", 0, p>>

NonEmpty == {p \in Part : rows_count[p] # 0}

-----------------------------------------------------------------------------
(* prepare: eligibility, then the kept temporary file for a decoupled      *)
(* merge.                                                                  *)
Prepare ==
    /\ pc = "prepare"
    /\ Elig!Prepare
    /\ tmp_file' = IF result'.can_be_decouple THEN "kept" ELSE "none"
    /\ pc' = "merge"
    /\ UNCHANGED <<new_rows, decouple, vpart, moves, src_files, new_files,
                   checksums>>

(* The merge and generateRowIdsMap: the new part gets its rows (none when  *)
(* every source is empty, possibly none after collapsing or TTL) and, when *)
(* decoupled, the inverted map and one forward map per source, empty       *)
(* sources included.                                                       *)
MergeAndRemap ==
    /\ pc = "merge"
    /\ \E n \in IF NonEmpty = {} THEN {0} ELSE {0, 1} : new_rows' = n
    /\ new_files' = IF result.can_be_decouple
                    THEN {InvIdsFile} \cup {FwdFile(p) : p \in Part}
                    ELSE {}
    /\ pc' = "finalize"
    /\ UNCHANGED <<elig_vars, decouple, vpart, moves, src_files, tmp_file,
                   checksums>>

(* The move loops, in the code's order: indexes in metadata order, parts   *)
(* in source order, empty parts skipped.                                   *)
DecoupleMoves ==
    FoldLeft(LAMBDA acc, v :
                acc \o [k \in 1..Cardinality(NonEmpty) |->
                          <<v, SetToSortSeq(NonEmpty, <)[k]>>],
             <<>>, SetToSortSeq(result.all_have, <))

VPartMoves ==
    [k \in 1..Cardinality(result.all_have) |->
        <<SetToSortSeq(result.all_have, <)[k], result.first_part_with_data>>]

(* finalizePart, then decouple and the single VPart are dropped for an     *)
(* empty new part; the branch chooses which index files to move.           *)
DecoupleKept == result.can_be_decouple /\ new_rows # 0
VPartKept == result.only_one_vpart_merged /\ new_rows # 0

FinalizeStart ==
    /\ pc = "finalize"
    /\ VPartKept => result.first_part_with_data \in Part
    /\ decouple' = DecoupleKept
    /\ vpart' = VPartKept
    /\ moves' = IF DecoupleKept THEN DecoupleMoves
                ELSE IF VPartKept THEN VPartMoves ELSE <<>>
    /\ pc' = "moves"
    /\ UNCHANGED <<elig_vars, new_rows, src_files, new_files, tmp_file,
                   checksums>>

(* The single-VPart branch with first_part_with_data = -1: parts[-1] is    *)
(* read out of range and what follows is undefined.                        *)
VPartSourceOutOfRange ==
    /\ pc = "finalize"
    /\ VPartKept
    /\ result.first_part_with_data \notin Part
    /\ pc' = "undefined"
    /\ UNCHANGED <<elig_vars, new_rows, decouple, vpart, moves, src_files,
                   new_files, tmp_file, checksums>>

(* moveVectorIndexFiles for the next (index, part): the files leave the    *)
(* source part for the new part's directory.  A part without the files     *)
(* makes the move throw (only Fail is then enabled).                       *)
MoveIndexFiles ==
    /\ pc = "moves"
    /\ moves # <<>>
    /\ LET v == Head(moves)[1]
           p == Head(moves)[2]
       IN /\ v \in src_files[p]
          /\ src_files' = [src_files EXCEPT ![p] = @ \ {v}]
          /\ new_files' = new_files \cup {IndexFile(v, p)}
    /\ moves' = Tail(moves)
    /\ UNCHANGED <<elig_vars, pc, new_rows, decouple, vpart, tmp_file,
                   checksums>>

MovesDone ==
    /\ pc = "moves"
    /\ moves = <<>>
    /\ pc' = IF decouple THEN "row_sources" ELSE "checksums"
    /\ UNCHANGED <<elig_vars, new_rows, decouple, vpart, moves, src_files,
                   new_files, tmp_file, checksums>>

(* The temporary rows_sources file is copied into the new part as the      *)
(* inverted row-sources map and removed.                                   *)
CopyRowSources ==
    /\ pc = "row_sources"
    /\ new_files' = new_files \cup {InvSourcesFile}
    /\ tmp_file' = "removed"
    /\ pc' = "checksums"
    /\ UNCHANGED <<elig_vars, new_rows, decouple, vpart, moves, src_files,
                   checksums>>

(* Map files hashed into a decoupled index's checksums: both inverted maps *)
(* and the forward map of every non-empty source.                         *)
IndexMapFiles == {InvSourcesFile, InvIdsFile} \cup {FwdFile(p) : p \in NonEmpty}

(* Faulty variant: the forward maps of empty sources are hashed as well.  *)
WriteChecksumsAllForwardMaps ==
    /\ pc = "checksums"
    /\ LET moved(v) == {f \in new_files : f[1] = "index" /\ f[2] = v}
           listed == {v \in VecIndex : moved(v) # {}}
       IN checksums' = [v \in listed |->
                          moved(v) \cup (IF decouple
                                         THEN IndexMapFiles \cup {FwdFile(p) : p \in Part}
                                         ELSE {})]
    /\ pc' = "precommit"
    /\ UNCHANGED <<elig_vars, new_rows, decouple, vpart, moves, src_files,
                   new_files, tmp_file>>

(* dumpCheckSums for every index that had files moved: its moved files,    *)
(* and in the decoupled case the map files.  The new part then loads its   *)
(* index metadata and the decouple cache (no state of the merge).          *)
WriteChecksums ==
    /\ pc = "checksums"
    /\ LET moved(v) == {f \in new_files : f[1] = "index" /\ f[2] = v}
           listed == {v \in VecIndex : moved(v) # {}}
       IN checksums' = [v \in listed |->
                          moved(v) \cup (IF decouple THEN IndexMapFiles ELSE {})]
    /\ pc' = "precommit"
    /\ UNCHANGED <<elig_vars, new_rows, decouple, vpart, moves, src_files,
                   new_files, tmp_file>>

(* precommitTransaction and the promise: the part is published.            *)
Precommit ==
    /\ pc = "precommit"
    /\ pc' = "published"
    /\ UNCHANGED <<elig_vars, new_rows, decouple, vpart, moves, src_files,
                   new_files, tmp_file, checksums>>

(* An exception from any step after prepare (cancellation, a failed read  *)
(* or write, a move of absent files): the temporary directory of the new  *)
(* part is abandoned; what was moved out of the sources goes with it; the *)
(* kept rows_sources file stays.                                           *)
Fail ==
    /\ pc \in {"merge", "finalize", "moves", "row_sources", "checksums",
              "precommit"}
    /\ pc' = "failed"
    /\ new_files' = {}
    /\ checksums' = [v \in {} |-> {}]
    /\ UNCHANGED <<elig_vars, new_rows, decouple, vpart, moves, src_files,
                   tmp_file>>

-----------------------------------------------------------------------------

Init ==
    /\ Elig!Init
    /\ pc = "prepare"
    /\ new_rows = 0
    /\ decouple = FALSE
    /\ vpart = FALSE
    /\ moves = <<>>
    /\ src_files = [p \in Part |-> {v \in VecIndex : index_state[p][v] = "BUILT"}]
    /\ new_files = {}
    /\ tmp_file = "none"
    /\ checksums = [v \in {} |-> {}]

Ended == pc \in {"published", "failed", "undefined"} /\ UNCHANGED vars

Next ==
    \/ Prepare \/ MergeAndRemap \/ FinalizeStart \/ VPartSourceOutOfRange
    \/ MoveIndexFiles
    \/ MovesDone \/ CopyRowSources \/ WriteChecksums \/ Precommit
    \/ Fail \/ Ended

Spec == Init /\ [][Next]_vars

-----------------------------------------------------------------------------
(* Properties                                                              *)

(* Checksum completeness (spec P8): the checksums file of every index a    *)
(* published decoupled part reuses lists exactly the index files moved in  *)
(* from every non-empty source, both inverted maps and the forward maps of *)
(* the non-empty sources, and every file it lists is in the part.          *)
PublishedChecksumsComplete ==
    (pc = "published" /\ decouple) =>
        \A v \in result.all_have :
            NonEmpty # {} =>
                /\ v \in DOMAIN checksums
                /\ checksums[v] = {IndexFile(v, p) : p \in NonEmpty} \cup IndexMapFiles
                /\ checksums[v] \subseteq new_files

(* Spec section 7: a failed merge leaves its source parts unchanged; in    *)
(* particular every source keeps the vector index files it had built.      *)
FailedMergeKeepsSourceIndexes ==
    pc = "failed" =>
        \A p \in Part, v \in VecIndex :
            index_state[p][v] = "BUILT" => v \in src_files[p]

=============================================================================
