SPECIFICATION FairSpec
CONSTANTS
    FailureThreshold = 1
    SuccessThreshold = 2
    ResetTimeout = 1
    Requests = {r1, r2}
    Limit = 1
    Window = 1
PROPERTY
    RedisIsTriedAgain
