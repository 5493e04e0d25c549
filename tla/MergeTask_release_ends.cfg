CONSTANTS
    MaxRows = 1
    MaxColumns = 2
    MaxProjections = 1
    ChildSteps = 1
    MaxDelayedStreams = 1
    Modes <- MC_Modes
    BlockerReleasable = TRUE
SPECIFICATION Spec
PROPERTY MergeEnds
