SPECIFICATION FairDrainSpec
CONSTANTS
    Requests = {r1, r2, r3}
    MaxConcurrent = 2
    RequestTimeout = 2
    DrainWindow = 2
    MaxVersion = 3
INVARIANTS
    DrainCoversDeadline
    OneLifeCycle
    SlotsAccounted
PROPERTY
    RetiredIsClosed
