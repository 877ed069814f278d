\* Empty and small batches; batches and answers around the limit, with the short and
\* the longer frame header; write buffers around these; sums that overflow usize.
SPECIFICATION FairSpec
CONSTANTS
    BatchLengths = {0, 1, 2}
    PayloadSizes = {90, 126}
    Limits = {0, 90, 126}
    WriteBuffers = {0, 6, 8, 20}
    FrameSizes = {91, 126}
    UsizeMax = 140
    None = None
INVARIANTS
    OkMeansStored
    CompleteIsOk
    PayloadFits
PROPERTY Returns
