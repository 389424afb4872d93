SPECIFICATION FairSpec
CONSTANTS
    Times = {0, 1, 3}
    DebounceTicks = 1
    TimerQueueLength = 4
    MaxRegistrations = 3
    MaxLate = 1
    None = None
    NoState = NoState
    NoChange = NoChange
    NoEvent = NoEvent
INVARIANTS TypeOK ButtonFollowsEdges CallbacksAlternate TimedOnTime CallbacksSorted
PROPERTIES PinIsFollowed
