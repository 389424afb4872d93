SPECIFICATION Spec
CONSTANTS
    Users = {app, ui}
    Registrars = {app}
    Topics = {t1, t2}
    Payloads = {p1, p2}
    Messages = {m1}
    QueueSize = 1
    Capacity = 1
    MaxConnects = 1
    MaxFlaps = 1
    SubscribeMayFail = FALSE
    Empty = Empty
    Mixed = Mixed
    NoState = NoState
    NoChange = NoChange
    NoEvent = NoEvent
SYMMETRY Symmetry
VIEW LiveState
INVARIANTS QueuedPayloadsLive PublishedInOrder
CHECK_DEADLOCK FALSE
