SPECIFICATION Spec
CONSTANTS
    Runners = {r1, r2}
    Disconnecters = {d1}
    Handlers = {h1}
    Senders = {s1}
    Free = free
    MaxAttempts = 2
SYMMETRY Symmetry
\* Every caller may have returned.
CHECK_DEADLOCK FALSE
INVARIANTS
    OneSupervisor
    OneLiveSession
    ReadyIsUsable
    DisconnectIsComplete
    HandlersOutliveReconnects
    StopIsCaused
PROPERTIES
    ImplementsClientHandle
