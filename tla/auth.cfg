SPECIFICATION FairSpec
CONSTANTS
    MaxTokens = 3
    MaxAttempts = 4
    MaxRestarts = 1
    InitialDelay = 1
    MaxDelay = 3
\* The program may have ended.
CHECK_DEADLOCK FALSE
INVARIANTS
    SavedTokenWorked
PROPERTIES
    SmsAreSpaced
    LoginIsRemembered
    LoginEnds
