SPECIFICATION FairSpec
CONSTANTS
    Configs = {good1, good2}
    Invalid = {}
    Unbuildable = {}
    InitialConfig = good1
    EditModes = {"rename"}
    Loaders = {l1}
    MaxEdits = 2
    MaxAdmin = 1
CHECK_DEADLOCK FALSE
PROPERTY
    LoadedCatchesUp
