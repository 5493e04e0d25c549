--------------------------- MODULE MCMergePrepare ---------------------------
(* MergePrepare for TLC: two source parts, one vector index, and the       *)
(* settings and TTL states that reach each branch of prepare.              *)
EXTENDS MergePrepare

(* Part formats and MergeTreeSettings: vertical merges on, a Wide/Full new *)
(* part from Wide sources, with or without enough rows, with a column      *)
(* threshold of 1 or 3; plus one configuration per early return.           *)
MCSettingsChoices ==
    LET base == [enable_vertical |-> TRUE, wide |-> TRUE, full |-> TRUE,
                 allow_compact_to_wide |-> TRUE, sources_wide |-> TRUE,
                 enough_rows |-> TRUE, min_columns |-> 1]
    IN {[base EXCEPT !.enough_rows = r, !.min_columns = c] : r \in BOOLEAN, c \in {1, 3}}
       \cup {[base EXCEPT !.enable_vertical = FALSE],
             [base EXCEPT !.wide = FALSE],
             [base EXCEPT !.full = FALSE],
             [base EXCEPT !.allow_compact_to_wide = FALSE, !.sources_wide = FALSE],
             [base EXCEPT !.allow_compact_to_wide = FALSE]}

(* TTL state of the sources: nothing due, a due part_min_ttl, values not   *)
(* calculated, either of those with TTL merges cancelled, and a finished   *)
(* column TTL on y.                                                        *)
MCTTLChoices ==
    {[not_calculated |-> n, min_ttl_due |-> d, blocked |-> b, finished |-> f] :
        n \in BOOLEAN, d \in BOOLEAN, b \in BOOLEAN, f \in {{}, {"y"}}}
=============================================================================
