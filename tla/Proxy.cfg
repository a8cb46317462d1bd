SPECIFICATION Spec
SYMMETRY Symmetry
CONSTANTS
    FailureThreshold = 1
    SuccessThreshold = 1
    ResetTimeout = 1
    Requests = {r1, r2}
    Instances = {i1, i2}
    Bodies = {"whole"}
    MaxRetries = 1
INVARIANTS
    TypeOK
    SentAtMost
    ProbeLostOnDeadlineOnly
PROPERTIES
    ServiceBreakerUse
    InstanceBreakerUse
    StepsAdvance
