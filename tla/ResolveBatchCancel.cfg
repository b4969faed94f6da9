SPECIFICATION Spec
CONSTANTS
    N = 2
    MaxSlots = 2
    MaxBatches = 1
INVARIANTS
    CancelClosesInstance
CHECK_DEADLOCK FALSE
