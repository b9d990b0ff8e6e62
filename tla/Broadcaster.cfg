SPECIFICATION Spec
CONSTANTS
    x = x
    y = y
    z = z
    Relays <- RelaysMC
    Steady = {z}
    Envs <- EnvsMC
    MaxRestarts = 1
CHECK_DEADLOCK FALSE
INVARIANTS
    OneHangIsSurvived
PROPERTIES
    SteadyRelayStaysFresh
