SPECIFICATION FairSpec
CONSTANTS
    o1 = o1
    o2 = o2
    o3 = o3
    k1 = k1
    k2 = k2
    N = 3
    Onion = {o1, o2}
    Coin = {k1, k2}
    Spends <- SpendsMC
    Value <- SameValueMC
    PeelsAt <- PeelsMC
    HopFee <- HopFeeMC
    OutputCost = 1
    KernelCost = 1
    Routed = {}
    MaxCalls = 2
    MaxFaults = 1
CHECK_DEADLOCK FALSE
PROPERTIES
    SoundOnionsAreBroadcast
