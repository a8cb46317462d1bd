SPECIFICATION RegistrySpec
CONSTANTS
    Services = {s1}
    FailureThreshold = 1
    SuccessThreshold = 2
    MaxReloads = 2
INVARIANT
    RegisteredIsChecked
