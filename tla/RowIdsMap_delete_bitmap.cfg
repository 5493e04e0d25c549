CONSTANTS
    NumParts = 2
    MaxRows = 2
    Modes <- MC_DropModes
    PostMergeFilter = FALSE
    RowIdBits = 16
SPECIFICATION Spec
INVARIANT BitmapHidesOnlyDroppedRows
