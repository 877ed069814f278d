\* Cleanup on, records uploaded again and changed, one of them first without raw
\* JSON, every fault.  The two instants of the clock lie further apart than the
\* minimum age, so that what comes from the earlier one may be deleted.
SPECIFICATION Spec
CONSTANTS
    Keys = {1, 2}
    Timed = {1}
    Unreadable <- FirstUnreadable
    Size <- UnitSize
    ResponseLimit = 2
    BatchSize = 2
    Cleanup = TRUE
    MinAge = 0
    MaxVersion = 2
    MaxTime = 1
    MaxId = 3
    MaxFaults = 1
    None = None
INVARIANTS
    TypeOK
    JobMatchesReplica
PROPERTIES
    DeletedKnown
    ReplicaAdvances
    ImplementsDelivery
