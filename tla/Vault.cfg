SPECIFICATION FairSpec
CONSTANTS
    r1 = r1
    r2 = r2
    r3 = r3
    r4 = r4
    x1 = x1
    NoSwap = NoSwap
    Path = {f}
    Receipt = {r1, r2, r3, r4}
    Swap <- SwapMC
    NoPath = NoPath
    Rewrites = FALSE
    MaxLength = 6
    MaxTruncates = 1
    MaxRestarts = 1
    MaxFaults = 1
CHECK_DEADLOCK FALSE
INVARIANTS
    OffsetMatchesPartial
PROPERTIES
    ImplementsTable
    WrittenIsStored
