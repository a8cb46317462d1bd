SPECIFICATION FairSpec
CONSTANTS
    FailureThreshold = 1
    SuccessThreshold = 2
    ResetTimeout = 1
    Requests = {r1, r2}
    Length = 2
    External = {1}
    OnErrorConfigs = {"ignore", "reject"}
INVARIANTS
    UpstreamNeedsConsent
    AbortStopsChain
PROPERTIES
    HealthLoopResolves
    RecoversWithSidecar
