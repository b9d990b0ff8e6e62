SPECIFICATION MCSpec
CONSTANTS
    Address = {m, a, b}
    Refusing = {}
    Registry = registry
    Court = court
    Zero = zero
    Funds = 4
    MaxTime = 6
    NoKey = nokey
    KeyHashes = {k}
    MinStake = 2
    CooldownPeriod = 2
    Amounts = {1, 3}
    Makers = {m}
    Accusers = {a, b}
    Bonds = {1}
    Evidence = {e}
    ChallengeWindow = 1
    GrievanceBondMin = 1
    SlashBps = 5000
    BountyBps = 5000
    SlashingWindow = 2
    Donations = {}
CHECK_DEADLOCK FALSE
PROPERTIES
    PartialWithdrawDisabled
