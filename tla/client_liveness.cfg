SPECIFICATION FairSpec
CONSTANTS
    Runners = {r1}
    Disconnecters = {d1}
    Handlers = {h1}
    Senders = {s1}
    Free = free
    MaxAttempts = 2
\* Every caller may have returned.
CHECK_DEADLOCK FALSE
INVARIANTS
    NoLostWakeup
    SessionIsServed
PROPERTIES
    SendNeverReusesSession
    DisconnectReturns
    StopEndsRun
    StopEndsHandlers
    SendsReturn
