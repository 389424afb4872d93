SPECIFICATION Spec
CONSTANTS
    Users = {app}
    Registrars = {app}
    Topics = {t1, t2}
    Payloads = {}
    Messages = {m1, m2}
    QueueSize = 2
    Capacity = 2
    MaxConnects = 1
    MaxFlaps = 1
    SubscribeMayFail = TRUE
    Empty = Empty
    Mixed = Mixed
    NoState = NoState
    NoChange = NoChange
    NoEvent = NoEvent
SYMMETRY Symmetry
VIEW LiveState
INVARIANTS DeliveredWasSent LastMessageDelivered
CHECK_DEADLOCK FALSE
