SPECIFICATION FairSpec
CONSTANTS
    FailureThreshold = 2
    SuccessThreshold = 2
    ResetTimeout = 2
    Callers = {c1, c2, c3}
PROPERTY
    ProbeDecides
