SPECIFICATION FairSpec
CONSTANTS
    Ports = {1, 3}
    Sizes = {0, 3}
    MinPort = 2
    MinSize = 3
    BufferSize = 2
    Slots = {A, B}
    Factory = A
    NoPartition = NoPartition
    TimerQueueLength = 3
    MaxSessions = 2
    MaxPowerLosses = 1
INVARIANTS NoAssertFails SessionLeavesNothing UpdateInv
PROPERTIES IsABUpdate SessionEnds
CHECK_DEADLOCK FALSE
