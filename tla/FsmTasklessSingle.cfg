SPECIFICATION Spec
CONSTANTS
    Callers = {app}
    Starter = app
    States = {s1, s2, s3, s4}
    Events = {e1, e2, e3, e4}
    OnEvent <- AnyResult
    EntryState = s1
    StartArgs <- AnyStart
    NoState = NoState
    NoChange = NoChange
    NoEvent = NoEvent
INVARIANT HandlerOperands
PROPERTY RunToCompletion
CHECK_DEADLOCK FALSE
