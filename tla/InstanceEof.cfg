SPECIFICATION Spec
CONSTANTS
    QueueCap = 2
    MaxSockets = 1
    MaxTimers = 1
    LastSid = 1
    LastTid = 0
    MaxPackets = 0
    MaxChunks = 1
    MaxConnects = 1
    GuestBinds = TRUE
    GuestConnectsOnce = TRUE
INVARIANTS
    FailureIsCollected
CHECK_DEADLOCK FALSE
