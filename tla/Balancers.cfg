SPECIFICATION Spec
CHECK_DEADLOCK FALSE
CONSTANTS
    Requests = {r1, r2}
    N = 2
    CounterSize = 3
    Scale = 2
    InitialLatency = 1
    MaxLatency = 2
    MaxConcurrent = 1
    Weights <- MCWeights
    MinScore = 1
    LatencyAlpha = 2
    ErrorAlpha = 1
    Latencies = {1, 4}
    MaxPicks = 4
SYMMETRY Symmetry
INVARIANTS
    InflightAccounted
    FeedbackShows
    WheelIsFair
    RoundRobinEven
