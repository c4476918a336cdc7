SPECIFICATION FairSpec
CONSTANTS
    Calls = {c1, c2}
    Reader = reader_task
    None = none
    Gone = gone
    SeqModulus = 4
    MaxPushes = 1
\* Every call may have ended and the connection closed.
CHECK_DEADLOCK FALSE
PROPERTIES
    CallsReturn
    SinkWaitsEnd
