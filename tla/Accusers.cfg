SPECIFICATION MCSpec
CONSTANTS
    Address = {m, a}
    Refusing = {}
    Registry = registry
    Court = court
    Zero = zero
    Funds = 3
    MaxTime = 6
    NoKey = nokey
    KeyHashes = {k}
    MinStake = 2
    CooldownPeriod = 2
    Amounts = {1, 3}
    Makers = {m}
    Accusers = {a, m}
    Bonds = {1}
    Evidence = {e}
    ChallengeWindow = 1
    GrievanceBondMin = 1
    SlashBps = 5000
    BountyBps = 5000
    SlashingWindow = 2
    Donations = {1}
CHECK_DEADLOCK FALSE
INVARIANTS
    TypeOK
    FrozenIffAccused
    CountIsLiveCases
    MakersMeetMinStake
    RegistrySolvent
    CourtHoldsLiveBonds
PROPERTIES
    StakeAtRisk
    ExitServesItsTime
    ImplementsCustody
