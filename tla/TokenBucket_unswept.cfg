SPECIFICATION FairBucketSpec
CONSTANTS
    Callers = {r1, r2}
    Unit = 1
    Rate = 1
    BurstSize = 1
    EvictionTTL = 1
    MaxDelay = 1
    Horizon = 1
    Sweeping = FALSE
PROPERTY
    InactiveIsSwept
