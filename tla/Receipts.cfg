SPECIFICATION Spec
CONSTANTS
    s1 = s1
    s2 = s2
    s3 = s3
    v1 = v1
    m1 = m1
    m2 = m2
    NoMaker = NoMaker
    NoSwap = NoSwap
    NoReceipt = NoReceipt
    Submission = {s1, s2}
    Traced = {s1, s2}
    SecondHop <- SecondHopMC
    Vanilla = {v1}
    Maker = {m1, m2}
    Directory = NoMaker
    MaxCalls = 1
    MaxFailures = 2
CHECK_DEADLOCK FALSE
INVARIANTS
    TypeOK
    ReceiptsAreFailures
    OrderlyFault
PROPERTIES
    FiledOnce
