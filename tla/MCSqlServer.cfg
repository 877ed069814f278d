\* Four rows, one of them at first not convertible, against batches of three and
\* chunks of two; edits, a deletion, partial acceptance, failing and hanging chunks.
SPECIFICATION FairSpec
CONSTANTS
    Rows = {"s1", "s2", "s3", "s4"}
    Content <- Contents
    Scales = {0, 2}
    Deletable = {"s3"}
    NoRecord = NoRecord
    Blank = {}
    BatchSize = 3
    ChunkSize = 2
    MarkUploaded = TRUE
    EditResetsFlag = TRUE
    MaxFaults = 1
INVARIANTS
    TypeOK
    DecimalsExact
PROPERTIES
    ImplementsDelivery
    EventuallyMarked
