SPECIFICATION Spec
CONSTANTS
    Calls = {c1, c2, c3}
    Reader = reader_task
    None = none
    Gone = gone
    SeqModulus = 4
    MaxPushes = 1
SYMMETRY Symmetry
\* Every call may have ended and the connection closed.
CHECK_DEADLOCK FALSE
INVARIANTS
    ResponseMatches
    WireInOrder
    NoWaiterLost
PROPERTIES
    ImplementsRequestReply
