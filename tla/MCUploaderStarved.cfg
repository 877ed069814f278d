\* One table holds more pending rows than BATCH_SIZE; nothing fails.
SPECIFICATION FairSpec
CONSTANTS
    Rows <- ThreeRows
    CKey <- SameKeys
    Blank = {}
    BatchSize = 1
    MaxVersion = 1
    Faults = {}
    MaxFaults = 0
    Torn = Torn
    NoRecord = NoRecord
PROPERTY EventuallyConfirmed
