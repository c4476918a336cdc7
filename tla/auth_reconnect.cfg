SPECIFICATION Spec
CONSTANTS
    MaxTokens = 2
    MaxAttempts = 3
    MaxRestarts = 0
    InitialDelay = 1
    MaxDelay = 3
\* The program may have ended.
CHECK_DEADLOCK FALSE
PROPERTIES
    ReconnectUsesSavedToken
