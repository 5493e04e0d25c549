CONSTANTS
    NumParts = 2
    MaxRows = 2
    Modes <- MC_RowSourceModes
    PostMergeFilter = FALSE
    RowIdBits = 16
SPECIFICATION Spec
INVARIANT TypeOK
INVARIANT InvertedMapMatchesNewPart
INVARIANT ForwardMapInvertsNewPart
