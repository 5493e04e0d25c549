CONSTANTS
    NumParts = 2
    NumIndexes = 2
SPECIFICATION Spec
INVARIANT ReusedIndexBuiltInEveryPart
