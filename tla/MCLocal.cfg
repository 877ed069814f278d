\* The daemon and a sync-now process share the cache; a record is refused.
SPECIFICATION FairSpec
CONSTANTS
    Records = {1, 2, 3, 4, 5}
    Reading <- Readings
    Foreign <- Tons
    Refused = {1}
    j1 = j1
    j2 = j2
    m1 = m1
    Jobs <- TwoJobs
    Manual <- OneManual
    BatchSize = 2
    MaxFaults = 1
    NoProc = NoProc
INVARIANTS
    TypeOK
PROPERTIES
    JobsKeepMarks
    EventuallySynced
    OldestFirst
    ImplementsDelivery
