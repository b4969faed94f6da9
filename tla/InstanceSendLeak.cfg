SPECIFICATION Spec
CONSTANTS
    QueueCap = 2
    MaxSockets = 1
    MaxTimers = 1
    LastSid = 1
    LastTid = 0
    MaxPackets = 0
    MaxChunks = 0
    MaxConnects = 1
    GuestBinds = FALSE
    GuestConnectsOnce = TRUE
INVARIANTS
    ClosedSocketsHoldNothing
CHECK_DEADLOCK FALSE
