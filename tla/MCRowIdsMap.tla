---------------------------- MODULE MCRowIdsMap ----------------------------
(* Model-checking instance of RowIdsMap: two or three source parts of at   *)
(* most two rows, so that interleavings, skipped rows, deleted rows and    *)
(* empty parts all occur together.                                         *)
EXTENDS RowIdsMap

MC_OrdinaryModes == {"Ordinary"}
MC_RowSourceModes == {"Ordinary", "Collapsing", "Replacing", "VersionedCollapsing"}
MC_DropModes == {"Collapsing", "Replacing", "VersionedCollapsing"}
=============================================================================
