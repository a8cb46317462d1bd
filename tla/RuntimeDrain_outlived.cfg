SPECIFICATION FairDrainSpec
CONSTANTS
    Requests = {r1, r2}
    MaxConcurrent = 2
    RequestTimeout = 2
    DrainWindow = 2
    MaxVersion = 1
INVARIANT
    NoUseAfterClose
