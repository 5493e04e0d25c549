CONSTANTS
    MaxRows = 2
    MaxColumns = 2
    MaxProjections = 1
    ChildSteps = 1
    MaxDelayedStreams = 1
    Modes <- MC_Modes
    BlockerReleasable = FALSE
SPECIFICATION Spec
INVARIANT TypeOK
INVARIANT PublishedPartComplete
INVARIANT NoLogicalError
PROPERTY MergeEnds
