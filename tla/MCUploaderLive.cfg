\* No table holds more pending rows than BATCH_SIZE; the process dies only with
\* its machine, writes to the state file succeed, requests die with their sender.
\* A fourth row, which may or may not appear, has no serial number.
SPECIFICATION FairSpec
CONSTANTS
    Rows <- FourRows
    CKey <- SameKeys
    Blank <- BlankSecondPhoto
    BatchSize = 2
    MaxVersion = 2
    Faults = {"fetch", "refuse", "lost", "power"}
    MaxFaults = 2
    Torn = Torn
    NoRecord = NoRecord
INVARIANT IdleIsDurable
PROPERTIES
    VersionsAdvance
    EventuallyConfirmed
