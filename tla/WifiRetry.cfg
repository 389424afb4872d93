SPECIFICATION FairSpec
CONSTANTS
    Calls = {"Connect"}
    MaxCalls = 1
    MaxRetries = 2
    MaxStations = 0
    MaxLosses = 1
    MaxFailures = 0
    NoState = NoState
    NoChange = NoChange
    NoEvent = NoEvent
PROPERTY KeepsTrying
CHECK_DEADLOCK FALSE
