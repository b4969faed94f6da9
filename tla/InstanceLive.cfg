SPECIFICATION FairSpec
CONSTANTS
    QueueCap = 2
    MaxSockets = 1
    MaxTimers = 1
    LastSid = 1
    LastTid = 1
    MaxPackets = 1
    MaxChunks = 1
    MaxConnects = 2
    GuestBinds = TRUE
    GuestConnectsOnce = TRUE
INVARIANTS
    TimersAccounted
    ClosedSocketsHoldNothing
PROPERTIES
    ShutdownEndsAll
    DataIsRead
CHECK_DEADLOCK FALSE
