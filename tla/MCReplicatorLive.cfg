\* Default configuration (no cleanup); C holds no more than one batch, at first
\* perhaps with a record B cannot store.
SPECIFICATION FairSpec
CONSTANTS
    Keys = {1, 2}
    Timed = {1}
    Unreadable <- FirstUnreadable
    Size <- UnitSize
    ResponseLimit = 2
    BatchSize = 2
    Cleanup = FALSE
    MinAge = 1
    MaxVersion = 2
    MaxTime = 1
    MaxId = 3
    MaxFaults = 2
    None = None
PROPERTY ReplicaCatchesUp
