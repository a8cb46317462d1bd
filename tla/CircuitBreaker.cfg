SPECIFICATION FairSpec
CONSTANTS
    FailureThreshold = 3
    SuccessThreshold = 2
    ResetTimeout = 3
    Callers = {c1, c2, c3, c4}
INVARIANTS
    HalfOpenAccounted
    NoMissedTrip
PROPERTIES
    TransitionsNeedEvidence
    ImplementsContract
    OpenIsProbed
