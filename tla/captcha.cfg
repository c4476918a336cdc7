SPECIFICATION FairSpec
CONSTANTS
    MaxAttempts = 2
    MaxCalls = 2
INVARIANTS
    TokenIsOwn
    AnsweredOnce
    PortIsFreed
PROPERTY
    SolveEnds
CHECK_DEADLOCK FALSE
