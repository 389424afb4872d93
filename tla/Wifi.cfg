SPECIFICATION FairSpec
CONSTANTS
    Calls = {"Connect", "SwitchToAP", "Disconnect"}
    MaxCalls = 3
    MaxRetries = 1
    MaxStations = 1
    MaxLosses = 2
    MaxFailures = 1
    NoState = NoState
    NoChange = NoChange
    NoEvent = NoEvent
INVARIANTS TypeOK FsmFollowsDriver LoneConnect
PROPERTY ConnectingMeansAttempt
CHECK_DEADLOCK FALSE
