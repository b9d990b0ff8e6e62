SPECIFICATION FairDefence
CONSTANTS
    maker = maker
    a = a
    e1 = e1
    Address = {maker, a}
    Refusing = {}
    Registry = registry
    Court = court
    Zero = zero
    Funds = 2
    MaxTime = 3
    NoKey = nokey
    KeyHashes = {k}
    MinStake = 2
    CooldownPeriod = 2
    Amounts = {}
    Makers = {maker}
    Accusers = {a}
    Bonds = {1}
    Evidence = {e1}
    ChallengeWindow = 1
    GrievanceBondMin = 1
    SlashBps = 5000
    BountyBps = 5000
    SlashingWindow = 2
    Donations = {}
    Daemons = {maker, a}
    Judge = judge
    Defending = {maker}
    Resolving = {a}
    AutoAdjudicate = TRUE
    VerdictExonerate = TRUE
    Receipt <- ReceiptMC
    Arrivals <- ArrivalsMC
    MaxFaults = 3
    MaxCrashes = 1
CHECK_DEADLOCK FALSE
INVARIANTS
    DefenceTypeOK
    SentWithReceipt
PROPERTIES
    SilenceHasACause
    DaemonsCloseCases
