SPECIFICATION Spec
CONSTANTS
    Evs = {e1, e2}
    Fds <- MCFds
    BitSets <- MCBitSets
    LastSid = 2
    LastTid = 2
    MaxIo = 1
INVARIANTS
    TypeOK
    NoUseAfterFree
    FiresOncePerDelivery
    StoppedTimersStaySilent
    NoOrphanTimers
SYMMETRY Symmetry
CHECK_DEADLOCK FALSE
