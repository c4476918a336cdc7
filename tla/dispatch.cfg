SPECIFICATION Spec
CONSTANTS
    MaxPushes = 3
    MaxSessions = 2
INVARIANTS
    HandledInOrder
    LostOnlyWithSession
    EchoIsOld
CHECK_DEADLOCK FALSE
