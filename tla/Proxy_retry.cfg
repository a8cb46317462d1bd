SPECIFICATION Spec
CONSTANTS
    FailureThreshold = 1
    SuccessThreshold = 1
    ResetTimeout = 1
    Requests = {r1, r2}
    Instances = {i1, i2}
    Bodies = {"none", "whole"}
    MaxRetries = 2
PROPERTY
    RetryIsClean
