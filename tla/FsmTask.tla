------------------------------- MODULE FsmTask -------------------------------
(***************************************************************************)
(* common/fsm_task.h: a finite state machine with a FreeRTOS task and a    *)
(* bounded event queue of its own.  Tasks and interrupts put events in the *)
(* queue (Dispatch, DispatchFromISR); the machine's task takes them out    *)
(* and runs on_event and on_entry.  One action is one access to shared     *)
(* state, so that the callers, the task that calls Start and the machine's *)
(* own task interleave as they do on the two cores.                        *)
(***************************************************************************)
EXTENDS Naturals, Sequences

CONSTANTS
    Tasks,          \* tasks that call Dispatch
    Isrs,           \* interrupt handlers that call DispatchFromISR
    States, Events,
    OnEvent,        \* OnEvent[s, e]: the results on_event(s, e) may return
    EntryState,     \* the first alternative of the state variant
    StartArgs,      \* arguments of Start: states, or NoState for Start()
    QueueSize,      \* eventQueueSize
    NoState, NoChange, NoEvent

Callers == Tasks \cup Isrs

ASSUME FsmConstants ==
    /\ Tasks \cap Isrs = {}
    /\ EntryState \in States
    /\ StartArgs \subseteq States \cup {NoState}
    /\ NoState \notin States
    /\ NoChange \notin States
    /\ NoEvent \notin Events
    /\ OnEvent \in [States \X Events -> SUBSET (States \cup {NoChange})]
    /\ QueueSize \in Nat \ {0}

VARIABLES
    m_isRunning,
    m_states,       \* the state variant
    m_events,       \* the event variant the task receives into
    m_eventQueue,
    notified,       \* the machine's task has a notification pending
    task,           \* where the machine's task is
    newState,       \* dispatch()'s local, between on_event and handleNewState
    start,          \* where the call of Start is
    startArg,
    blocked,        \* blocked[c]: the event c waits to send, or NoEvent
    answer          \* answer[c]: the result of c's last call

startVars  == <<start, startArg>>
callVars   == <<blocked, answer>>
workerVars == <<m_events, task, newState>>
fsmVars    == <<m_isRunning, m_states, m_eventQueue, notified,
                startVars, callVars, workerVars>>

(* The task is blocked in ulTaskNotifyTake ("notify"), about to run        *)
(* on_entry ("entry"), at xQueueReceive ("receive"), about to visit        *)
(* on_event ("dispatch"), or about to assign m_states ("commit").          *)
TaskLocations  == {"notify", "entry", "receive", "dispatch", "commit"}
StartLocations == {"none", "state", "notify", "done"}

TypeOK ==
    /\ m_isRunning \in BOOLEAN
    /\ m_states \in States
    /\ m_events \in Events \cup {NoEvent}
    /\ m_eventQueue \in Seq(Events)
    /\ Len(m_eventQueue) <= QueueSize
    /\ notified \in BOOLEAN
    /\ task \in TaskLocations
    /\ newState \in States \cup {NoChange}
    /\ start \in StartLocations
    /\ startArg \in States \cup {NoState}
    /\ blocked \in [Callers -> Events \cup {NoEvent}]
    /\ answer \in [Callers -> {"none", "taken", "refused"}]

Init ==
    /\ m_isRunning = FALSE
    /\ m_states = EntryState
    /\ m_events = NoEvent
    /\ m_eventQueue = <<>>
    /\ notified = FALSE
    /\ task = "notify"
    /\ newState = NoChange
    /\ start = "none"
    /\ startArg = NoState
    /\ blocked = [c \in Callers |-> NoEvent]
    /\ answer = [c \in Callers |-> "none"]

-----------------------------------------------------------------------------
(* Start() and Start(state), called once: the flag that lets Dispatch in   *)
(* is raised first, the state is assigned next, the task is woken last.    *)

\* Mutant: the task is woken as soon as the flag is raised.
StartFlagWakesTask(s) ==
    /\ start = "none"
    /\ m_isRunning' = TRUE
    /\ startArg' = s
    /\ start' = IF s = NoState THEN "notify" ELSE "state"
    /\ notified' = TRUE
    /\ UNCHANGED <<m_states, m_eventQueue, callVars, workerVars>>

StartFlag(s) ==
    /\ start = "none"
    /\ m_isRunning' = TRUE
    /\ startArg' = s
    /\ start' = IF s = NoState THEN "notify" ELSE "state"
    /\ UNCHANGED <<m_states, m_eventQueue, notified, callVars, workerVars>>

StartState ==
    /\ start = "state"
    /\ m_states' = startArg
    /\ start' = "notify"
    /\ UNCHANGED <<m_isRunning, m_eventQueue, notified, startArg, callVars, workerVars>>

\* Mutant: Start forgets xTaskNotifyGive.
StartWithoutNotify ==
    /\ start = "notify"
    /\ start' = "done"
    /\ UNCHANGED <<m_isRunning, m_states, m_eventQueue, notified, startArg, callVars, workerVars>>

StartNotify ==
    /\ start = "notify"
    /\ notified' = TRUE
    /\ start' = "done"
    /\ UNCHANGED <<m_isRunning, m_states, m_eventQueue, startArg, callVars, workerVars>>

-----------------------------------------------------------------------------
(* Dispatch and DispatchFromISR.  xQueueSend without a timeout is one      *)
(* critical section of the kernel; with a timeout a full queue makes the   *)
(* caller wait for a slot or for the end of its patience, and the two race.*)

QueueFull == Len(m_eventQueue) >= QueueSize

Return(c, result) ==
    /\ answer' = [answer EXCEPT ![c] = result]
    /\ UNCHANGED <<m_isRunning, m_states, notified, startVars, workerVars>>

\* Mutant: the send does not look at the queue's length.
EnqueueUnbounded(c, e) ==
    /\ Len(m_eventQueue) <= QueueSize
    /\ m_eventQueue' = Append(m_eventQueue, e)
    /\ Return(c, "taken")

Enqueue(c, e) ==
    /\ ~QueueFull
    /\ m_eventQueue' = Append(m_eventQueue, e)
    /\ Return(c, "taken")

Refuse(c) ==
    /\ UNCHANGED m_eventQueue
    /\ Return(c, "refused")

DispatchNotRunning(c) == ~m_isRunning /\ Refuse(c)

DispatchFull(c) == QueueFull /\ Refuse(c)

\* Dispatch(event) with the default timeout of 0, which never waits.
Dispatch(c, e) ==
    /\ blocked[c] = NoEvent
    /\ \/ DispatchNotRunning(c)
       \/ m_isRunning /\ Enqueue(c, e)
       \/ m_isRunning /\ DispatchFull(c)
    /\ UNCHANGED blocked

\* Dispatch(event, timeout) when the queue is full.
DispatchBlock(c, e) ==
    /\ blocked[c] = NoEvent
    /\ m_isRunning
    /\ QueueFull
    /\ blocked' = [blocked EXCEPT ![c] = e]
    /\ UNCHANGED <<m_isRunning, m_states, m_eventQueue, notified, startVars,
                   answer, workerVars>>

BlockedSend(c) ==
    /\ blocked[c] # NoEvent
    /\ Enqueue(c, blocked[c])
    /\ blocked' = [blocked EXCEPT ![c] = NoEvent]

BlockedTimeout(c) ==
    /\ blocked[c] # NoEvent
    /\ Refuse(c)
    /\ blocked' = [blocked EXCEPT ![c] = NoEvent]

DispatchFromISR(c, e) ==
    /\ Enqueue(c, e) \/ DispatchFull(c)
    /\ UNCHANGED blocked

-----------------------------------------------------------------------------
(* mainTaskFunc, dispatch and handleNewState, in the machine's own task.   *)

NotifyTake ==
    /\ task = "notify"
    /\ notified
    /\ notified' = FALSE
    /\ task' = "entry"
    /\ UNCHANGED <<m_isRunning, m_states, m_eventQueue, m_events, newState,
                   startVars, callVars>>

OnEntry ==
    /\ task = "entry"
    /\ task' = "receive"
    /\ UNCHANGED <<m_isRunning, m_states, m_eventQueue, notified, m_events,
                   newState, startVars, callVars>>

\* Mutant: xQueuePeek in the place of xQueueReceive.
PeekEvent ==
    /\ task = "receive"
    /\ m_eventQueue # <<>>
    /\ m_events' = Head(m_eventQueue)
    /\ task' = "dispatch"
    /\ UNCHANGED <<m_isRunning, m_states, m_eventQueue, notified, newState,
                   startVars, callVars>>

Receive ==
    /\ task = "receive"
    /\ m_eventQueue # <<>>
    /\ m_events' = Head(m_eventQueue)
    /\ m_eventQueue' = Tail(m_eventQueue)
    /\ task' = "dispatch"
    /\ UNCHANGED <<m_isRunning, m_states, notified, newState, startVars, callVars>>

dispatch(r) ==
    /\ task = "dispatch"
    /\ r \in OnEvent[<<m_states, m_events>>]
    /\ newState' = r
    /\ task' = IF r = NoChange THEN "receive" ELSE "commit"
    /\ UNCHANGED <<m_isRunning, m_states, m_eventQueue, notified, m_events,
                   startVars, callVars>>

handleNewState ==
    /\ task = "commit"
    /\ m_states' = newState
    /\ newState' = NoChange
    /\ task' = "entry"
    /\ UNCHANGED <<m_isRunning, m_eventQueue, notified, m_events, startVars, callVars>>

-----------------------------------------------------------------------------
StartStep == (\E s \in StartArgs : StartFlag(s)) \/ StartState \/ StartNotify

TaskStep ==
    \/ NotifyTake
    \/ OnEntry
    \/ Receive
    \/ \E r \in States \cup {NoChange} : dispatch(r)
    \/ handleNewState

CallStep ==
    \/ \E c \in Tasks :
          \/ \E e \in Events : Dispatch(c, e) \/ DispatchBlock(c, e)
          \/ BlockedSend(c)
          \/ BlockedTimeout(c)
    \/ \E c \in Isrs, e \in Events : DispatchFromISR(c, e)

Next == StartStep \/ TaskStep \/ CallStep

Spec == Init /\ [][Next]_fsmVars

(* The scheduler runs the machine's task whenever it is ready and the task *)
(* that called Start to the end of the call.                               *)
Fairness ==
    /\ WF_fsmVars(TaskStep)
    /\ WF_fsmVars(StartStep)

FairSpec == Spec /\ Fairness

-----------------------------------------------------------------------------
(* The promise.  An event is in the inbox until its handler's result has   *)
(* been taken over into m_states, although the task has already copied it  *)
(* out of the queue; the machine is launched when its task first wakes.    *)

Machine == INSTANCE EventMachine WITH
    inbox    <- IF task \in {"dispatch", "commit"}
                THEN <<m_events>> \o m_eventQueue ELSE m_eventQueue,
    state    <- IF task = "notify" THEN NoState ELSE m_states,
    entering <- (task = "entry")

(* Whatever the interleaving of Start, callers and interrupts, the events  *)
(* for which Dispatch or DispatchFromISR returned true are handled once    *)
(* each and in that order; a refused event is never handled, and no        *)
(* handler runs before the launch or while an on_entry is outstanding.     *)
RunToCompletion == Machine!Spec

(* The task wakes only after Start has assigned the state it was asked     *)
(* for, although the flag that lets events in is raised before it.         *)
WakesInStartState ==
    /\ (notified \/ task # "notify") => start = "done"
    /\ task = "notify" =>
          m_states = IF start \in {"notify", "done"} /\ startArg # NoState
                     THEN startArg ELSE EntryState

(* The operands of a pending on_event or transition are an event that was  *)
(* received and a result of its handler for the present state: nobody      *)
(* else has touched m_events or m_states in between.                       *)
HandlerOperands ==
    /\ task \in {"dispatch", "commit"} => m_events \in Events
    /\ task = "commit" => newState \in OnEvent[<<m_states, m_events>>] \ {NoChange}
    /\ start = "state" => startArg \in States

\* The inductive invariant of the proofs.
Inv == TypeOK /\ WakesInStartState /\ HandlerOperands

(* An event in the queue reaches on_event, however many callers keep the   *)
(* queue busy (mainTaskFunc's loop), also one that an interrupt queued     *)
(* before Start.                                                           *)
QueuedEventIsHandled ==
    \A e \in Events :
        (\E i \in 1..Len(m_eventQueue) : m_eventQueue[i] = e)
            ~> (task = "dispatch" /\ m_events = e)
=============================================================================
