CONSTANTS
    MaxRows = 2
    MaxColumns = 1
    MaxProjections = 1
    ChildSteps = 1
    MaxDelayedStreams = 1
    Modes <- MC_Modes
    BlockerReleasable = TRUE
SPECIFICATION Spec
INVARIANT NoLogicalError
