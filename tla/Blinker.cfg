SPECIFICATION FairSpec
CONSTANTS
    BlinkTimes = {2, 3}
    QueueLength = 3
    MaxCalls = 4
INVARIANT RestsAsAsked
PROPERTY LimitedEnds
CHECK_DEADLOCK FALSE
