CONSTANTS
    NumParts = 2
    MaxRows = 2
    Modes <- MC_OrdinaryModes
    PostMergeFilter = TRUE
    RowIdBits = 16
SPECIFICATION Spec
INVARIANT InvertedMapMatchesNewPart
