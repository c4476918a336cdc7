SPECIFICATION Spec
CONSTANTS
    MaxAttempts = 1
    MaxCalls = 1
INVARIANT
    FailedMeansReported
CHECK_DEADLOCK FALSE
