\* Every fault, keys C derives differently, a photo without serial number.
SPECIFICATION Spec
CONSTANTS
    Rows <- ThreeRows
    CKey <- OtherKeys
    Blank <- BlankPhoto
    BatchSize = 2
    MaxVersion = 2
    Faults <- AllFaults
    MaxFaults = 2
    Torn = Torn
    NoRecord = NoRecord
INVARIANTS
    TypeOK
    ConfirmedCommitted
    MemoryBackedByFile
PROPERTY ImplementsDelivery
