SPECIFICATION FairSpec
CONSTANTS
    Configs = {good1, good2, unbuildable, invalid}
    Invalid = {invalid}
    Unbuildable = {unbuildable}
    InitialConfig = good1
    EditModes = {"write", "rename"}
    Loaders = {l1, l2}
    MaxEdits = 3
    MaxAdmin = 1
CHECK_DEADLOCK FALSE
INVARIANTS
    ServedIsVetted
    QuiescentAgreement
    RegistryAheadOnFailure
PROPERTIES
    CurrentUnlessLost
    ServedUnlessLost
