SPECIFICATION Spec
CONSTANTS
    QueueCap = 3
    MaxSockets = 1
    MaxTimers = 0
    LastSid = 1
    LastTid = 0
    MaxPackets = 2
    MaxChunks = 2
    MaxConnects = 2
    GuestBinds = FALSE
    GuestConnectsOnce = FALSE
INVARIANTS
    TypeOK
    NoLostReadiness
    NoLostError
CHECK_DEADLOCK FALSE
