\* The application clears the mark of a row it edits; nothing fails.
SPECIFICATION Spec
CONSTANTS
    Rows = {"s1", "s2"}
    Content <- Corrected
    Scales = {0}
    Deletable = {}
    NoRecord = NoRecord
    Blank = {}
    BatchSize = 2
    ChunkSize = 1
    MarkUploaded = TRUE
    EditResetsFlag = TRUE
    MaxFaults = 0
INVARIANT MarkedIsCurrent
