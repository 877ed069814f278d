\* Two handlers, a window and a minimum age of one second, two and a half
\* seconds of time, one restart.
SPECIFICATION Spec
CONSTANTS
    Keys = {1, 2}
    h1 = h1
    h2 = h2
    n1 = n1
    SourceTimes <- RecordTimes
    Handlers <- TwoHandlers
    Nonces = {n1}
    Skew = 2
    MinAge = 2
    Limit = 1
    MaxTime = 4
    MaxRestarts = 1
    None = None
INVARIANTS
    TypeOK
    PagesAgree
PROPERTIES
    NonceOnce
    RefusedOnlyIfUsed
    DeletedOldEnough
SYMMETRY Symmetry
