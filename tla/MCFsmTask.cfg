SPECIFICATION FairSpec
CONSTANTS
    Tasks = {app, ui}
    Isrs = {isr}
    States = {s1, s2}
    Events = {e1, e2}
    OnEvent <- AnyResult
    EntryState = s1
    StartArgs <- AnyStart
    QueueSize = 2
    NoState = NoState
    NoChange = NoChange
    NoEvent = NoEvent
INVARIANTS TypeOK WakesInStartState
PROPERTIES RunToCompletion QueuedEventIsHandled
