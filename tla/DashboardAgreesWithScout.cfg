SPECIFICATION DiscoverySpec
CONSTANTS
    maker = maker
    r1 = r1
    r2 = r2
    k1 = k1
    k2 = k2
    Address = {maker, a}
    Refusing = {}
    Registry = registry
    Court = court
    Zero = zero
    Funds = 3
    MaxTime = 2
    NoKey = nokey
    KeyHashes = {k1, k2}
    MinStake = 2
    CooldownPeriod = 1
    Amounts = {3}
    Makers = {maker}
    Accusers = {a}
    Bonds = {0}
    Evidence = {e}
    ChallengeWindow = 1
    GrievanceBondMin = 0
    SlashBps = 5000
    BountyBps = 5000
    SlashingWindow = 0
    Donations = {}
    Run = {r1}
    Operator <- OperatorMC
    Key <- KeyMC
    Forced = {}
    Executing = {r1}
    Ads <- AdsMC
CHECK_DEADLOCK FALSE
INVARIANTS
    DashboardAgreesWithScout
