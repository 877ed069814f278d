\* All commands, a configuration and its variants, two requests at once, one fault.
SPECIFICATION FairSpec
CONSTANTS
    Handlers = {1, 2}
    Batches <- SomeBatches
    Serials = {"s1", "s2"}
    Configs <- Some
    Commands = {"run", "serve", "sync_now"}
    MaxRequests = 2
    MaxFaults = 1
    MaxWaiting = 2
    MaxSignals = 1
INVARIANTS
    OneCycle
    MarkedKept
    AnsweredMarked
PROPERTIES
    ComesToSync
    StopsOnSignal
