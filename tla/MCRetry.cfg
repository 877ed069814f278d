\* Delays of 0, caps below the delay, doubling past the largest Duration.
SPECIFICATION FairSpec
CONSTANTS
    InitialDelays <- SmallDelays
    MaxDelays <- SmallCaps
    Budgets <- SmallBudgets
    DurationMax = 7
    MaxOp = 2
    MaxLate = 1
INVARIANTS
    TypeOK
    BudgetHeld
    BackoffBounded
PROPERTY Terminates
