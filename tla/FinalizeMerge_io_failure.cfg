CONSTANTS
    NumParts = 2
    NumIndexes = 1
SPECIFICATION Spec
INVARIANT FailedMergeKeepsSourceIndexes
