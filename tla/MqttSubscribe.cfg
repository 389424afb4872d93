SPECIFICATION FairSpec
CONSTANTS
    Users = {app}
    Registrars = {app}
    Topics = {t1}
    Payloads = {}
    Messages = {}
    QueueSize = 3
    Capacity = 2
    MaxConnects = 1
    MaxFlaps = 2
    SubscribeMayFail = FALSE
    Empty = Empty
    Mixed = Mixed
    NoState = NoState
    NoChange = NoChange
    NoEvent = NoEvent
INVARIANTS TypeOK StartedBeforeConnecting FsmFollowsLink HandlersSubscribed
PROPERTY LinkUpIsUsed
CHECK_DEADLOCK FALSE
