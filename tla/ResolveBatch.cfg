SPECIFICATION FairSpec
CONSTANTS
    N = 3
    MaxSlots = 2
    MaxBatches = 2
INVARIANTS
    TypeOK
    PendingExact
    ResultsBelong
    SlotsFreed
PROPERTIES
    SettlesEveryQuery
    StopsWhenTold
CHECK_DEADLOCK FALSE
