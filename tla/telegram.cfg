SPECIFICATION Spec
CONSTANTS
    PageLimit = 2
    MaxUpdates = 5
    MaxRequests = 3
INVARIANTS
    CodeIsFresh
    RepliesAreNotSkipped
CHECK_DEADLOCK FALSE
