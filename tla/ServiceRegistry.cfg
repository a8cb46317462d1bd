SPECIFICATION FairRegistrySpec
CONSTANTS
    Services = {s1}
    FailureThreshold = 2
    SuccessThreshold = 2
    MaxReloads = 3
INVARIANTS
    CheckersMatchConfig
PROPERTY
    HealthFollowsUpstream
