SPECIFICATION LimiterSpec
CONSTANTS
    FailureThreshold = 1
    SuccessThreshold = 2
    ResetTimeout = 1
    Requests = {r1, r2}
    Limit = 2
    Window = 2
    Callers = {c1, c2}
    Unit = 2
    Rate = 1
    BurstSize = 3
    EvictionTTL = 4
    MaxDelay = 1
    Horizon = 3
    Sweeping = TRUE
INVARIANTS
    WindowBound
    FallbackHasRecovery
    RateBound
PROPERTY
    BreakerUse
