-------------------------- MODULE MqttClientProofs --------------------------
(***************************************************************************)
(* Theorems of MqttClient, for every number of users, topics, payloads and *)
(* messages and every queue size: the client is a FsmTask, so that what is *)
(* proved of FsmTask holds of it; what its handlers add to that is safe;   *)
(* its state follows the link; and incoming messages and the handlers'     *)
(* flags survive what the queue and the reconnects do to them.             *)
(***************************************************************************)
EXTENDS MqttClient, TLAPS

TaskProofs == INSTANCE FsmTaskProofs WITH
    Tasks <- Users \cup {Esp}, Isrs <- {},
    EntryState <- "STATE_DISABLED", StartArgs <- {"STATE_DISABLED"}

(* What on_event may return is a state or "no change".                     *)
LEMMA TransitionType ==
    ASSUME NEW s \in States, NEW n
    PROVE  Transition(s, n) \subseteq States \cup {NoChange}
<1>1. ASSUME NEW x \in Transition(s, n) PROVE x \in States \cup {NoChange}
  BY <1>1 DEF Transition, States
<1> QED BY <1>1

(* The client's states, events and handlers meet what FsmTask assumes.     *)
LEMMA Constants == TaskProofs!FsmConstants
<1>1. OnEvent \in [States \X Events -> SUBSET (States \cup {NoChange})]
  BY TransitionType DEF OnEvent
<1> QED BY <1>1, MqttConstants DEF TaskProofs!FsmConstants, States

(* An event is a publishing or carries nothing.                            *)
LEMMA EventShape ==
    ASSUME NEW e \in Events, e.name = "EVENT_PUBLISH"
    PROVE  /\ e.topic \in Topics /\ e.payload \in Payloads
           /\ e = Publishing(e.topic, e.payload)
BY DEF Events, Event, Publishing

(* The library's events, and what users send, are events of the machine.   *)
LEMMA EventsSent ==
    /\ \A n \in {"EVENT_BEFORE_CONNECT", "EVENT_CONNECTED", "EVENT_CONNECT",
                 "EVENT_DISCONNECTED", "EVENT_SUBSCRIBED", "EVENT_ERROR",
                 "EVENT_INCOMING_DATA"} : Event(n) \in Events
    /\ \A t \in Topics, p \in Payloads : Publishing(t, p) \in Events
BY DEF Events

-----------------------------------------------------------------------------
(* The client is a FsmTask.                                                *)

(* A call of Dispatch is a step of the machine.                            *)
LEMMA DispatchIsFsmStep ==
    ASSUME NEW c \in Users \cup {Esp}, NEW e \in Events, Fsm!Dispatch(c, e)
    PROVE  TaskProofs!Next
<1>1. TaskProofs!Dispatch(c, e)
  BY DEF Fsm!Dispatch, Fsm!DispatchNotRunning, Fsm!Enqueue, Fsm!DispatchFull,
         Fsm!Refuse, Fsm!Return, Fsm!QueueFull, Fsm!startVars, Fsm!workerVars,
         TaskProofs!Dispatch, TaskProofs!DispatchNotRunning, TaskProofs!Enqueue,
         TaskProofs!DispatchFull, TaskProofs!Refuse, TaskProofs!Return,
         TaskProofs!QueueFull, TaskProofs!startVars, TaskProofs!workerVars
<1> QED BY <1>1 DEF TaskProofs!Next, TaskProofs!CallStep

(* A handler's return is a step of the machine.                            *)
LEMMA dispatchIsFsmStep ==
    ASSUME NEW r \in States \cup {NoChange}, Fsm!dispatch(r)
    PROVE  TaskProofs!Next
<1>1. TaskProofs!dispatch(r)
  BY DEF Fsm!dispatch, TaskProofs!dispatch, Fsm!startVars, Fsm!callVars,
         TaskProofs!startVars, TaskProofs!callVars
<1> QED BY <1>1 DEF TaskProofs!Next, TaskProofs!TaskStep

(* Whatever the handlers do, they do it inside the machine's steps.        *)
LEMMA NextIsFsmStep == [Next]_vars => [TaskProofs!Next]_TaskProofs!fsmVars
<1> SUFFICES ASSUME [Next]_vars
             PROVE  TaskProofs!Next \/ UNCHANGED TaskProofs!fsmVars
  OBVIOUS
<1> USE DEF fsmVars, TaskProofs!fsmVars, TaskProofs!startVars, TaskProofs!callVars,
            TaskProofs!workerVars
<1>1. CASE InitStep
  BY <1>1 DEF InitStep, Fsm!StartStep, Fsm!StartFlag, Fsm!StartState, Fsm!StartNotify,
        Fsm!startVars, Fsm!callVars, Fsm!workerVars, TaskProofs!Next,
        TaskProofs!StartStep, TaskProofs!StartFlag, TaskProofs!StartState,
        TaskProofs!StartNotify
<1>2. CASE TaskStep
  <2>1. CASE BaseStep
    <3>1. CASE Fsm!NotifyTake \/ Fsm!Receive \/ Fsm!OnEntry
      BY <3>1 DEF Fsm!NotifyTake, Fsm!Receive, Fsm!OnEntry, Fsm!startVars,
            Fsm!callVars, TaskProofs!Next, TaskProofs!TaskStep,
            TaskProofs!NotifyTake, TaskProofs!Receive, TaskProofs!OnEntry
    <3>2. CASE \E r \in States \cup {NoChange} : Fsm!dispatch(r)
      BY <3>2, dispatchIsFsmStep
    <3> QED BY <2>1, <3>1, <3>2 DEF BaseStep
  <2>2. CASE ChangeState
    BY <2>2 DEF ChangeState, Fsm!handleNewState, Fsm!startVars, Fsm!callVars,
          TaskProofs!Next, TaskProofs!TaskStep, TaskProofs!handleNewState
  <2>3. ASSUME NEW c \in {"null", "created", "registered", "started"}, connect(c)
        PROVE  TaskProofs!Next
    <3>1. \E r \in States \cup {NoChange} : Fsm!dispatch(r)
      BY <2>3 DEF connect, States
    <3> QED BY <3>1, dispatchIsFsmStep
  <2>4. CASE reSubscribe \/ PublishClear \/ PublishPrint \/ PublishTopic
    BY <2>4 DEF reSubscribe, PublishClear, PublishPrint, PublishTopic
  <2>5. CASE reSubscribeEnd
    BY <2>5 DEF reSubscribeEnd, Fsm!OnEntry, Fsm!startVars, Fsm!callVars,
          TaskProofs!Next, TaskProofs!TaskStep, TaskProofs!OnEntry
  <2>6. CASE PublishSend \/ PublishTooLong \/ handleData
    BY <2>6, dispatchIsFsmStep DEF PublishSend, PublishTooLong, handleData
  <2> QED BY <1>2, <2>1, <2>2, <2>3, <2>4, <2>5, <2>6 DEF TaskStep
<1>3. CASE EspStep
  <2>1. ASSUME NEW n \in {"EVENT_BEFORE_CONNECT", "EVENT_CONNECTED", "EVENT_SUBSCRIBED",
                 "EVENT_DISCONNECTED", "EVENT_ERROR", "EVENT_INCOMING_DATA"}, Report(n)
        PROVE  TaskProofs!Next
    BY <2>1, EventsSent, DispatchIsFsmStep DEF Report
  <2>2. CASE EspBeforeConnect \/ EspConnected \/ EspError \/ EspDisconnected
             \/ EspSubscribed \/ DataNotify
    BY <2>1, <2>2 DEF EspBeforeConnect, EspConnected, EspError, EspDisconnected,
                      EspSubscribed, DataNotify
  <2>3. CASE DataPayload \/ \E t \in Topics, m \in Messages : DataTopic(t, m)
    BY <2>3 DEF DataPayload, DataTopic
  <2> QED BY <1>3, <2>2, <2>3 DEF EspStep
<1>4. CASE UserStep
  <2>1. ASSUME NEW u \in Users, NEW t \in Topics, OnCall(u, t)
        PROVE  UNCHANGED TaskProofs!fsmVars
    BY <2>1 DEF OnCall
  <2>2. ASSUME NEW u \in Users, TryConnectCall(u) PROVE UNCHANGED TaskProofs!fsmVars
    BY <2>2 DEF TryConnectCall
  <2>3. ASSUME NEW u \in Users, CallStep(u)
        PROVE  TaskProofs!Next \/ UNCHANGED TaskProofs!fsmVars
    <3>1. CASE TryConnectSend(u)
      BY <3>1, EventsSent, DispatchIsFsmStep DEF TryConnectSend
    <3> QED BY <2>3, <3>1 DEF CallStep, OnCopy, OnCheck, OnConstruct, OnSubscribe,
          OnSubscribeAsserts, OnPush, TryConnectReadConnected
  <2>4. ASSUME NEW u \in Users, NEW t \in Topics, NEW p \in Payloads, Publish(u, t, p)
        PROVE  TaskProofs!Next
    BY <2>4, EventsSent, DispatchIsFsmStep DEF Publish
  <2> QED BY <1>4, <2>1, <2>2, <2>3, <2>4, MqttConstants DEF UserStep
<1>5. CASE UNCHANGED vars
  BY <1>5 DEF vars
<1> QED BY <1>1, <1>2, <1>3, <1>4, <1>5 DEF Next

(* The client is created as a FsmTask is.                                  *)
LEMMA InitIsFsmInit == Init => TaskProofs!Init
BY DEF Init, Fsm!Init, Fsm!Callers, TaskProofs!Init, TaskProofs!Callers

(* The client is a FsmTask: none of its handlers, calls and callbacks      *)
(* touches the machine's members but through the base class.               *)
THEOREM IsFsmTask == Spec => TaskProofs!Spec
BY InitIsFsmInit, NextIsFsmStep, PTL DEF Spec, TaskProofs!Spec

(* The invariant of FsmTask holds of the client.                           *)
THEOREM FsmInvariance == Spec => []TaskProofs!Inv
BY IsFsmTask, Constants, TaskProofs!Invariance, PTL

(* What FsmTask promises holds of the client: events that were accepted    *)
(* are handled once, in order and to completion, those of the users and    *)
(* those of the esp-mqtt task alike.                                       *)
THEOREM EventsRunToCompletion == Spec => TaskProofs!RunToCompletion
BY IsFsmTask, Constants, TaskProofs!Implements, PTL

-----------------------------------------------------------------------------
(* What a step of the base class does to the queue, for the invariants of  *)
(* the client.                                                             *)

(* The part of the machine's invariant that the client's proofs use.       *)
LEMMA MachineFacts ==
    ASSUME TaskProofs!Inv
    PROVE  /\ m_eventQueue \in Seq(Events)
           /\ m_states \in States
           /\ task \in {"dispatch", "commit"} => m_events \in Events
           /\ task = "commit" =>
                 newState \in OnEvent[<<m_states, m_events>>] \ {NoChange}
           /\ task # "notify" => start = "done"
           /\ start = "state" => startArg \in States
BY DEF TaskProofs!Inv, TaskProofs!TypeOK, TaskProofs!WakesInStartState,
       TaskProofs!HandlerOperands

Untouched == UNCHANGED <<m_states, m_events, task, newState, start, startArg>>

(* Dispatch appends the event and says so, or leaves the queue alone.      *)
LEMMA DispatchEffect ==
    ASSUME NEW c \in Users \cup {Esp}, NEW e, Fsm!Dispatch(c, e), TaskProofs!Inv
    PROVE  /\ Untouched
           /\ \/ m_eventQueue' = Append(m_eventQueue, e) /\ answer'[c] = "taken"
              \/ m_eventQueue' = m_eventQueue /\ answer'[c] = "refused"
<1>1. answer \in [Users \cup {Esp} -> {"none", "taken", "refused"}]
  BY DEF TaskProofs!Inv, TaskProofs!TypeOK, TaskProofs!Callers
<1> QED BY <1>1 DEF Untouched, Fsm!Dispatch, Fsm!DispatchNotRunning, Fsm!Enqueue,
      Fsm!DispatchFull, Fsm!Refuse, Fsm!Return, Fsm!startVars, Fsm!workerVars

(* on_event, for a handler of this client, ends in "receive" or "commit".  *)
LEMMA dispatchEffect ==
    ASSUME NEW r, Fsm!dispatch(r)
    PROVE  /\ task = "dispatch"
           /\ r \in OnEvent[<<m_states, m_events>>]
           /\ task' = IF r = NoChange THEN "receive" ELSE "commit"
           /\ newState' = r
           /\ UNCHANGED <<m_states, m_events, m_eventQueue, start, startArg>>
BY DEF Fsm!dispatch, Fsm!startVars

(* Taking an event out of the queue.                                       *)
LEMMA ReceiveEffect ==
    ASSUME Fsm!Receive, TaskProofs!Inv
    PROVE  /\ m_events' \in Events
           /\ Len(m_eventQueue) \in Nat \ {0}
           /\ m_events' = m_eventQueue[1]
           /\ m_eventQueue' \in Seq(Events)
           /\ Len(m_eventQueue') = Len(m_eventQueue) - 1
           /\ \A i \in 1..Len(m_eventQueue') : m_eventQueue'[i] = m_eventQueue[i + 1]
           /\ task = "receive" /\ task' = "dispatch"
           /\ UNCHANGED <<m_states, newState, start, startArg>>
<1>1. m_eventQueue \in Seq(Events) /\ m_eventQueue # <<>>
  BY MachineFacts DEF Fsm!Receive
<1> QED BY <1>1 DEF Fsm!Receive, Fsm!startVars

(* Where the transitions of the machine lead.                              *)
LEMMA WhereTransitionsLead ==
    ASSUME NEW s \in States, NEW e \in Events, NEW r \in OnEvent[<<s, e>>], r # NoChange
    PROVE  /\ e.name # "EVENT_PUBLISH"
           /\ s = "STATE_DISABLED" =>
                 e.name \in {"EVENT_CONNECT", "EVENT_BEFORE_CONNECT"}
<1>1. r \in Transition(s, e.name)
  BY DEF OnEvent
<1> QED BY <1>1 DEF Transition, States

-----------------------------------------------------------------------------
(* A client that is not started stays disabled.                            *)

(* Every trace of the esp-mqtt client's existence, a link, an event of its *)
(* or a transition, is of a client that connect() has started.             *)
StartedInv ==
    /\ StartedBeforeConnecting
    /\ link # "idle" => m_client = "started"
    /\ task = "commit" => m_client = "started"
    /\ task = "dispatch" /\ m_events.name = "EVENT_BEFORE_CONNECT" => m_client = "started"
    /\ \A i \in 1..Len(m_eventQueue) :
          m_eventQueue[i].name = "EVENT_BEFORE_CONNECT" => m_client = "started"
    /\ start # "none" => startArg = "STATE_DISABLED"

LEMMA InitStarted == Init => StartedInv
BY DEF Init, Fsm!Init, StartedInv, StartedBeforeConnecting

(* Events other than the library's BEFORE_CONNECT may be sent at any time. *)
LEMMA StartedSend ==
    ASSUME StartedInv, TaskProofs!Inv, NEW c \in Users \cup {Esp}, NEW e \in Events,
           Fsm!Dispatch(c, e), UNCHANGED m_client,
           e.name = "EVENT_BEFORE_CONNECT" => m_client = "started",
           link' # "idle" => m_client = "started"
    PROVE  StartedInv'
<1>1. CASE m_eventQueue' = m_eventQueue
  BY <1>1, DispatchEffect DEF Untouched, StartedInv, StartedBeforeConnecting
<1>2. CASE m_eventQueue' = Append(m_eventQueue, e)
  <2>1. ASSUME NEW i \in 1..Len(m_eventQueue'),
               m_eventQueue'[i].name = "EVENT_BEFORE_CONNECT"
        PROVE  m_client = "started"
    <3>1. m_eventQueue \in Seq(Events)
      BY MachineFacts
    <3>2. \/ i = Len(m_eventQueue) + 1 /\ m_eventQueue'[i] = e
          \/ i \in 1..Len(m_eventQueue) /\ m_eventQueue'[i] = m_eventQueue[i]
      BY <1>2, <3>1
    <3> QED BY <2>1, <3>2 DEF StartedInv
  <2> QED BY <2>1, DispatchEffect DEF Untouched, StartedInv, StartedBeforeConnecting
<1> QED BY <1>1, <1>2, DispatchEffect

(* A transition of this machine out of a handler other than connect().     *)
LEMMA StartedDispatch ==
    ASSUME StartedInv, TaskProofs!Inv, NEW r, Fsm!dispatch(r), UNCHANGED <<m_client, link>>,
           ~Visiting("STATE_DISABLED", "EVENT_CONNECT")
    PROVE  StartedInv'
<1>1. r # NoChange => m_client = "started"
  <2> SUFFICES ASSUME r # NoChange PROVE m_client = "started"
    OBVIOUS
  <2>1. task = "dispatch" /\ r \in OnEvent[<<m_states, m_events>>]
    BY dispatchEffect
  <2>2. m_states \in States /\ m_events \in Events
    BY <2>1, MachineFacts
  <2> QED BY <2>1, <2>2, WhereTransitionsLead
          DEF Visiting, StartedInv, StartedBeforeConnecting
<1> QED BY <1>1, dispatchEffect DEF StartedInv, StartedBeforeConnecting

LEMMA NextStarted == StartedInv /\ TaskProofs!Inv /\ [Next]_vars => StartedInv'
<1> SUFFICES ASSUME StartedInv, TaskProofs!Inv, [Next]_vars PROVE StartedInv'
  OBVIOUS
<1> USE DEF fsmVars, linkVars
<1>1. ASSUME UNCHANGED <<m_client, link, m_states, task, m_events, m_eventQueue, start,
                         startArg>>
      PROVE  StartedInv'
  BY <1>1 DEF StartedInv, StartedBeforeConnecting
<1>2. CASE InitStep
  BY <1>2, MachineFacts
     DEF InitStep, Fsm!StartStep, Fsm!StartFlag, Fsm!StartState, Fsm!StartNotify,
         Fsm!startVars, Fsm!callVars, Fsm!workerVars, StartedInv, StartedBeforeConnecting
<1>3. CASE TaskStep
  <2>1. CASE BaseStep
    <3>1. CASE Fsm!NotifyTake \/ Fsm!OnEntry
      BY <2>1, <3>1 DEF BaseStep, Fsm!NotifyTake, Fsm!OnEntry, Fsm!startVars,
            StartedInv, StartedBeforeConnecting
    <3>2. CASE Fsm!Receive
      <4>1. ASSUME NEW i \in 1..Len(m_eventQueue')
            PROVE  i + 1 \in 1..Len(m_eventQueue) /\ m_eventQueue'[i] = m_eventQueue[i + 1]
        BY <3>2, ReceiveEffect
      <4>2. 1 \in 1..Len(m_eventQueue)
        BY <3>2, ReceiveEffect
      <4> QED BY <2>1, <3>2, <4>1, <4>2, ReceiveEffect
              DEF BaseStep, StartedInv, StartedBeforeConnecting
    <3>3. ASSUME NEW r \in States \cup {NoChange}, Fsm!dispatch(r),
                 ~Visiting("STATE_DISABLED", "EVENT_CONNECT")
          PROVE  StartedInv'
      BY <2>1, <3>3, StartedDispatch DEF BaseStep
    <3> QED BY <2>1, <3>1, <3>2, <3>3 DEF BaseStep
  <2>2. CASE ChangeState
    BY <2>2 DEF ChangeState, Fsm!handleNewState, Fsm!startVars, StartedInv,
          StartedBeforeConnecting
  <2>3. ASSUME NEW c \in {"null", "created", "registered", "started"}, connect(c)
        PROVE  StartedInv'
    <3>1. CASE m_client # "null"
      BY <2>3, <3>1, dispatchEffect DEF connect, StartedInv, StartedBeforeConnecting
    <3>2. CASE m_client = "null"
      BY <2>3, <3>2, dispatchEffect DEF connect, StartedInv, StartedBeforeConnecting
    <3> QED BY <3>1, <3>2
  <2>4. CASE reSubscribe \/ PublishClear \/ PublishPrint \/ PublishTopic
    BY <1>1, <2>4 DEF reSubscribe, PublishClear, PublishPrint, PublishTopic
  <2>5. CASE reSubscribeEnd
    BY <2>5 DEF reSubscribeEnd, Fsm!OnEntry, Fsm!startVars, StartedInv,
          StartedBeforeConnecting
  <2>6. CASE PublishSend
    <3>1. Fsm!dispatch(NoChange) /\ UNCHANGED <<m_client, link>>
      BY <2>6 DEF PublishSend
    <3> QED BY <3>1, dispatchEffect DEF StartedInv, StartedBeforeConnecting
  <2>7. CASE PublishTooLong \/ handleData
    <3>1. Fsm!dispatch(NoChange) /\ UNCHANGED <<m_client, link>>
      BY <2>7 DEF PublishTooLong, handleData
    <3> QED BY <3>1, dispatchEffect DEF StartedInv, StartedBeforeConnecting
  <2> QED BY <1>3, <2>1, <2>2, <2>3, <2>4, <2>5, <2>6, <2>7 DEF TaskStep
<1>4. CASE EspStep
  <2>1. ASSUME NEW n \in {"EVENT_BEFORE_CONNECT", "EVENT_CONNECTED", "EVENT_SUBSCRIBED",
                 "EVENT_DISCONNECTED", "EVENT_ERROR", "EVENT_INCOMING_DATA"},
               Report(n), link # "idle" \/ n # "EVENT_BEFORE_CONNECT",
               link' = "idle" \/ link # "idle"
        PROVE  StartedInv'
    <3>1. Event(n) \in Events /\ Event(n).name = n
      BY EventsSent DEF Event
    <3> QED BY <2>1, <3>1, StartedSend DEF Report, StartedInv
  <2>2. CASE EspBeforeConnect \/ EspConnected \/ EspError \/ EspDisconnected
    BY <2>1, <2>2 DEF EspBeforeConnect, EspConnected, EspError, EspDisconnected
  <2>3. CASE EspSubscribed \/ DataNotify
    BY <2>1, <2>3 DEF EspSubscribed, DataNotify
  <2>4. CASE DataPayload \/ \E t \in Topics, m \in Messages : DataTopic(t, m)
    BY <1>1, <2>4 DEF DataPayload, DataTopic
  <2> QED BY <1>4, <2>2, <2>3, <2>4 DEF EspStep
<1>5. CASE UserStep
  <2>1. ASSUME NEW u \in Users, NEW t \in Topics, OnCall(u, t) PROVE StartedInv'
    BY <1>1, <2>1 DEF OnCall
  <2>2. ASSUME NEW u \in Users, TryConnectCall(u) PROVE StartedInv'
    BY <1>1, <2>2 DEF TryConnectCall
  <2>3. ASSUME NEW u \in Users, TryConnectSend(u) PROVE StartedInv'
    <3>1. Event("EVENT_CONNECT") \in Events
          /\ Event("EVENT_CONNECT").name # "EVENT_BEFORE_CONNECT"
      BY EventsSent DEF Event
    <3> QED BY <2>3, <3>1, StartedSend DEF TryConnectSend, StartedInv
  <2>4. ASSUME NEW u \in Users, CallStep(u), ~TryConnectSend(u) PROVE StartedInv'
    <3>1. UNCHANGED <<m_client, link, m_states, task, m_events, m_eventQueue, start,
                      startArg>>
      BY <2>4 DEF CallStep, OnCopy, OnCheck, OnConstruct, OnSubscribe, OnSubscribeAsserts,
            OnPush, TryConnectReadConnected
    <3> QED BY <1>1, <3>1
  <2>5. ASSUME NEW u \in Users, NEW t \in Topics, NEW p \in Payloads, Publish(u, t, p)
        PROVE  StartedInv'
    <3>1. Publishing(t, p) \in Events /\ Publishing(t, p).name # "EVENT_BEFORE_CONNECT"
      BY EventsSent DEF Publishing
    <3> QED BY <2>5, <3>1, StartedSend DEF Publish, StartedInv
  <2> QED BY <1>5, <2>1, <2>2, <2>3, <2>4, <2>5, MqttConstants DEF UserStep
<1>6. CASE UNCHANGED vars
  BY <1>1, <1>6 DEF vars
<1> QED BY <1>2, <1>3, <1>4, <1>5, <1>6 DEF Next

(* No event, however old, and no failed attempt at connect() moves the     *)
(* machine out of DISABLED without a client that is started.               *)
THEOREM StartedInvariance == Spec => []StartedBeforeConnecting
<1>1. StartedInv => StartedBeforeConnecting
  BY DEF StartedInv
<1> QED BY <1>1, InitStarted, NextStarted, FsmInvariance, PTL DEF Spec

-----------------------------------------------------------------------------
(* Publishing: payloads and their order.                                   *)

(* The events that wait, and before them the one whose handler is running. *)
InLine == IF task = "dispatch" THEN <<m_events>> \o m_eventQueue ELSE m_eventQueue

Pub(e)     == e.name = "EVENT_PUBLISH"
message(e) == <<e.topic, e.payload>>

Logged(x, log)    == \E k \in 1..Len(log) : log[k] = x
Before(x, y, log) == \A k, l \in 1..Len(log) : log[k] = x /\ log[l] = y => k < l

(* Every payload is logged once, and none is still its user's.             *)
LogOnce(log, own) ==
    /\ \A k, l \in 1..Len(log) : log[k][2] = log[l][2] => k = l
    /\ \A k \in 1..Len(log) : own[log[k][2]] # "user"

(* The line q holds publishings in the order of the log, and their         *)
(* payloads have not been freed.                                           *)
Lined(q, log, own) ==
    /\ \A i \in 1..Len(q) : Pub(q[i]) =>
          own[q[i].payload] = "queue" /\ Logged(message(q[i]), log)
    /\ \A i, j \in 1..Len(q) : i < j /\ Pub(q[i]) /\ Pub(q[j]) =>
          Before(message(q[i]), message(q[j]), log)

(* What has left is in the log, in its order, and before all of the line.  *)
Left(pub, q, log) ==
    /\ \A i \in 1..Len(pub) : Logged(pub[i], log)
    /\ \A i, j \in 1..Len(pub) : i < j => Before(pub[i], pub[j], log)
    /\ \A i \in 1..Len(pub), j \in 1..Len(q) :
          Pub(q[j]) => Before(pub[i], message(q[j]), log)

(* Payloads that wait have not been freed, and wait in the order in which  *)
(* Publish was called.                                                     *)
QueuedInv ==
    /\ requested \in Seq(Topics \X Payloads)
    /\ owner \in [Payloads -> {"user", "queue", "freed", "nobody"}]
    /\ LogOnce(requested, owner)
    /\ Lined(InLine, requested, owner)
    /\ visit \in {"none", "print", "topic", "publish"}
    /\ visit # "none" => Visiting("STATE_CONNECTED", "EVENT_PUBLISH")

(* Two messages in order carry different payloads.                         *)
LEMMA DistinctPayloads ==
    ASSUME NEW log, NEW own, LogOnce(log, own), NEW x, NEW y,
           Logged(x, log), Logged(y, log), Before(x, y, log)
    PROVE  x[2] # y[2]
<1>1. PICK k \in 1..Len(log) : log[k] = x
  BY DEF Logged
<1>2. PICK l \in 1..Len(log) : log[l] = y
  BY DEF Logged
<1>3. k < l
  BY <1>1, <1>2 DEF Before
<1> QED BY <1>1, <1>2, <1>3 DEF LogOnce

(* An event without a payload joins the line.                              *)
LEMMA LinedAppend ==
    ASSUME NEW q \in Seq(Events), NEW e \in Events, ~Pub(e)
    PROVE  /\ \A log, own : Lined(q, log, own) => Lined(Append(q, e), log, own)
           /\ \A pub, log : Left(pub, q, log) => Left(pub, Append(q, e), log)
<1>1. ASSUME NEW i \in 1..Len(Append(q, e)), Pub(Append(q, e)[i])
      PROVE  i \in 1..Len(q) /\ Append(q, e)[i] = q[i]
  BY <1>1
<1> QED BY <1>1 DEF Lined, Left

(* A payload that is logged is not one that its user still holds.          *)
LEMMA UserPayloadIsNew ==
    ASSUME NEW log \in Seq(Topics \X Payloads), NEW own, LogOnce(log, own),
           NEW t \in Topics, NEW p \in Payloads, own[p] = "user"
    PROVE  /\ ~Logged(<<t, p>>, log)
           /\ \A x : Logged(x, log) => x[2] # p
<1> QED BY DEF LogOnce, Logged

(* A longer log orders what was logged as before, and before what is new.  *)
LEMMA LogGrows ==
    ASSUME NEW log \in Seq(Topics \X Payloads), NEW z \in Topics \X Payloads,
           ~Logged(z, log)
    PROVE  /\ Logged(z, Append(log, z))
           /\ \A x : Logged(x, log) =>
                 Logged(x, Append(log, z)) /\ Before(x, z, Append(log, z))
           /\ \A x, y : Logged(x, log) /\ Logged(y, log) /\ Before(x, y, log) =>
                 Before(x, y, Append(log, z))
<1>1. /\ Len(Append(log, z)) = Len(log) + 1 /\ Len(log) \in Nat
      /\ Append(log, z)[Len(log) + 1] = z
      /\ \A k \in 1..Len(log) : Append(log, z)[k] = log[k]
  OBVIOUS
<1>2. \A k \in 1..Len(Append(log, z)) : k \in 1..Len(log) \/ k = Len(log) + 1
  BY <1>1
<1>3. Logged(z, Append(log, z))
  BY <1>1 DEF Logged
<1>4. ASSUME NEW x, Logged(x, log)
      PROVE  Logged(x, Append(log, z)) /\ Before(x, z, Append(log, z))
  BY <1>1, <1>2, <1>4 DEF Logged, Before
<1>5. ASSUME NEW x, NEW y, Logged(x, log), Logged(y, log), Before(x, y, log)
      PROVE  Before(x, y, Append(log, z))
  <2>1. x # z /\ y # z
    BY <1>5
  <2> QED BY <1>1, <1>2, <1>5, <2>1 DEF Before
<1> QED BY <1>3, <1>4, <1>5

(* Publish puts a payload in the line and in the log.                      *)
LEMMA LinedPublish ==
    ASSUME NEW q \in Seq(Events), NEW log \in Seq(Topics \X Payloads),
           NEW own \in [Payloads -> {"user", "queue", "freed", "nobody"}],
           LogOnce(log, own), Lined(q, log, own),
           NEW t \in Topics, NEW p \in Payloads, own[p] = "user"
    PROVE  LET e == Publishing(t, p)
               log2 == Append(log, <<t, p>>)
               own2 == [own EXCEPT ![p] = "queue"]
           IN  /\ LogOnce(log2, own2)
               /\ Lined(Append(q, e), log2, own2)
               /\ \A pub : Left(pub, q, log) => Left(pub, Append(q, e), log2)
<1> DEFINE e == Publishing(t, p)
           log2 == Append(log, <<t, p>>)
           own2 == [own EXCEPT ![p] = "queue"]
           q2 == Append(q, e)
<1>1. /\ Len(log2) = Len(log) + 1 /\ Len(log) \in Nat
      /\ log2[Len(log) + 1] = <<t, p>>
      /\ \A k \in 1..Len(log) : log2[k] = log[k] /\ log[k][2] \in Payloads
      /\ \A k \in 1..Len(log2) : k \in 1..Len(log) \/ k = Len(log) + 1
  OBVIOUS
<1>2. /\ Len(q2) = Len(q) + 1 /\ Len(q) \in Nat
      /\ q2[Len(q) + 1] = e
      /\ \A k \in 1..Len(q) : q2[k] = q[k]
      /\ \A k \in 1..Len(q2) : k \in 1..Len(q) \/ k = Len(q) + 1
  BY EventsSent
<1>3. own2[p] = "queue" /\ \A r \in Payloads : r # p => own2[r] = own[r]
  OBVIOUS
<1>4. Pub(e) /\ e.payload = p /\ message(e) = <<t, p>>
  BY DEF Publishing, Pub, message
<1>5. \A k \in 1..Len(log) : log[k][2] # p
  BY DEF LogOnce
<1> HIDE DEF e, log2, own2, q2
<1>6. LogOnce(log2, own2)
  <2>1. \A k, l \in 1..Len(log2) : log2[k][2] = log2[l][2] => k = l
    BY <1>1, <1>5 DEF LogOnce
  <2>2. \A k \in 1..Len(log2) : own2[log2[k][2]] # "user"
    BY <1>1, <1>3, <1>5 DEF LogOnce
  <2> QED BY <2>1, <2>2 DEF LogOnce
<1>7. /\ Logged(<<t, p>>, log2)
      /\ \A x : Logged(x, log) => Logged(x, log2) /\ Before(x, <<t, p>>, log2)
      /\ \A x, y : Logged(x, log) /\ Logged(y, log) /\ Before(x, y, log) =>
            Before(x, y, log2)
  BY UserPayloadIsNew, LogGrows DEF log2
<1>8. Lined(q2, log2, own2)
  <2>1. ASSUME NEW i \in 1..Len(q2), Pub(q2[i])
        PROVE  own2[q2[i].payload] = "queue" /\ Logged(message(q2[i]), log2)
    <3>1. CASE i = Len(q) + 1
      BY <1>2, <1>3, <1>4, <1>7, <3>1
    <3>2. CASE i \in 1..Len(q)
      <4>1. q2[i] = q[i] /\ q[i] \in Events /\ q[i].payload \in Payloads
        BY <1>2, <2>1, <3>2, EventShape DEF Pub
      <4> QED BY <1>3, <1>7, <2>1, <3>2, <4>1 DEF Lined
    <3> QED BY <1>2, <3>1, <3>2
  <2>2. ASSUME NEW i \in 1..Len(q2), NEW j \in 1..Len(q2), i < j, Pub(q2[i]), Pub(q2[j])
        PROVE  Before(message(q2[i]), message(q2[j]), log2)
    <3>1. i \in 1..Len(q) /\ q2[i] = q[i] /\ Logged(message(q[i]), log)
      BY <1>2, <2>2 DEF Lined
    <3>2. CASE j = Len(q) + 1
      BY <1>2, <1>4, <1>7, <3>1, <3>2
    <3>3. CASE j \in 1..Len(q)
      BY <1>2, <1>7, <2>2, <3>1, <3>3 DEF Lined
    <3> QED BY <1>2, <3>2, <3>3
  <2> QED BY <2>1, <2>2 DEF Lined
<1>9. ASSUME NEW pub, Left(pub, q, log) PROVE Left(pub, q2, log2)
  <2>1. ASSUME NEW i \in 1..Len(pub), NEW j \in 1..Len(q2), Pub(q2[j])
        PROVE  Before(pub[i], message(q2[j]), log2)
    <3>1. CASE j = Len(q) + 1
      BY <1>2, <1>4, <1>7, <1>9, <3>1 DEF Left
    <3>2. CASE j \in 1..Len(q)
      BY <1>2, <1>7, <1>9, <2>1, <3>2 DEF Left, Lined
    <3> QED BY <1>2, <3>1, <3>2
  <2> QED BY <1>7, <1>9, <2>1 DEF Left
<1> QED BY <1>6, <1>8, <1>9 DEF e, log2, own2, q2

(* Publish is refused: its payload is in nobody's line.                    *)
LEMMA LinedRefuse ==
    ASSUME NEW q \in Seq(Events), NEW log \in Seq(Topics \X Payloads),
           NEW own \in [Payloads -> {"user", "queue", "freed", "nobody"}],
           LogOnce(log, own), Lined(q, log, own), NEW p \in Payloads, own[p] = "user"
    PROVE  LET own2 == [own EXCEPT ![p] = "nobody"]
           IN  LogOnce(log, own2) /\ Lined(q, log, own2)
<1> DEFINE own2 == [own EXCEPT ![p] = "nobody"]
<1>1. own2[p] = "nobody" /\ \A r \in Payloads : r # p => own2[r] = own[r]
  OBVIOUS
<1>2. \A k \in 1..Len(log) : log[k][2] \in Payloads
  OBVIOUS
<1>3. \A i \in 1..Len(q) : Pub(q[i]) => q[i].payload \in Payloads
  BY EventShape DEF Pub
<1> HIDE DEF own2
<1>4. LogOnce(log, own2)
  BY <1>1, <1>2 DEF LogOnce
<1>5. Lined(q, log, own2)
  BY <1>1, <1>3 DEF Lined
<1> QED BY <1>4, <1>5 DEF own2

(* The first of the line leaves it.                                        *)
LEMMA LinedTail ==
    ASSUME NEW q \in Seq(Events), q # <<>>, NEW log, NEW own, Lined(q, log, own)
    PROVE  /\ Lined(Tail(q), log, own)
           /\ \A pub : Left(pub, q, log) => Left(pub, Tail(q), log)
<1>1. /\ Len(Tail(q)) = Len(q) - 1 /\ Len(q) \in Nat
      /\ \A i \in 1..Len(Tail(q)) : i + 1 \in 1..Len(q) /\ Tail(q)[i] = q[i + 1]
  OBVIOUS
<1>2. Lined(Tail(q), log, own)
  <2>1. ASSUME NEW i \in 1..Len(Tail(q)), Pub(Tail(q)[i])
        PROVE  own[Tail(q)[i].payload] = "queue" /\ Logged(message(Tail(q)[i]), log)
    BY <1>1, <2>1 DEF Lined
  <2>2. ASSUME NEW i \in 1..Len(Tail(q)), NEW j \in 1..Len(Tail(q)), i < j,
               Pub(Tail(q)[i]), Pub(Tail(q)[j])
        PROVE  Before(message(Tail(q)[i]), message(Tail(q)[j]), log)
    <3>1. i + 1 < j + 1
      BY <1>1, <2>2
    <3> QED BY <1>1, <2>2, <3>1 DEF Lined
  <2> QED BY <2>1, <2>2 DEF Lined
<1>3. ASSUME NEW pub, Left(pub, q, log) PROVE Left(pub, Tail(q), log)
  BY <1>1, <1>3 DEF Left
<1> QED BY <1>2, <1>3

(* Its payload is freed, or forgotten, and nobody else's with it; and it   *)
(* may join what has left.                                                 *)
LEMMA LinedHandled ==
    ASSUME NEW q \in Seq(Events), q # <<>>, NEW log \in Seq(Topics \X Payloads),
           NEW own \in [Payloads -> {"user", "queue", "freed", "nobody"}],
           LogOnce(log, own), Lined(q, log, own), Pub(Head(q)), NEW x, x # "user"
    PROVE  LET own2 == [own EXCEPT ![Head(q).payload] = x]
           IN  /\ LogOnce(log, own2) /\ Lined(Tail(q), log, own2)
               /\ \A pub \in Seq(Topics \X Payloads) : Left(pub, q, log) =>
                     Left(Append(pub, message(Head(q))), Tail(q), log)
<1> DEFINE p == Head(q).payload
           own2 == [own EXCEPT ![p] = x]
           z == message(Head(q))
<1>1. /\ Len(q) \in Nat /\ 1 \in 1..Len(q) /\ Head(q) = q[1]
      /\ Len(Tail(q)) = Len(q) - 1
      /\ \A i \in 1..Len(Tail(q)) :
            i + 1 \in 1..Len(q) /\ 1 < i + 1 /\ Tail(q)[i] = q[i + 1]
      /\ Head(q) \in Events
  OBVIOUS
<1>2. p \in Payloads /\ z \in Topics \X Payloads
  BY <1>1, EventShape DEF Pub, message
<1>3. own2[p] = x /\ \A r \in Payloads : r # p => own2[r] = own[r]
  BY <1>2
<1>4. \A k \in 1..Len(log) : log[k][2] \in Payloads
  OBVIOUS
<1>5. Logged(z, log)
  BY <1>1 DEF Lined
<1>6. ASSUME NEW i \in 1..Len(Tail(q)), Pub(Tail(q)[i])
      PROVE  /\ Logged(message(Tail(q)[i]), log)
             /\ Before(z, message(Tail(q)[i]), log)
             /\ own[Tail(q)[i].payload] = "queue"
             /\ Tail(q)[i].payload \in Payloads
             /\ Tail(q)[i].payload # p
  <2>1. /\ Logged(message(Tail(q)[i]), log)
        /\ Before(z, message(Tail(q)[i]), log)
        /\ own[Tail(q)[i].payload] = "queue"
    BY <1>1, <1>6 DEF Lined
  <2>2. z[2] # message(Tail(q)[i])[2]
    BY <1>5, <2>1, DistinctPayloads
  <2>3. Tail(q)[i] \in Events
    BY <1>1, <1>6
  <2> QED BY <1>6, <2>1, <2>2, <2>3, EventShape DEF message, Pub
<1> HIDE DEF own2, p, z
<1>7. LogOnce(log, own2)
  BY <1>3, <1>4 DEF LogOnce
<1>8. Lined(Tail(q), log, own2)
  <2>1. Lined(Tail(q), log, own)
    BY LinedTail
  <2> QED BY <1>3, <1>6, <2>1 DEF Lined
<1>9. ASSUME NEW pub \in Seq(Topics \X Payloads), Left(pub, q, log)
      PROVE  Left(Append(pub, z), Tail(q), log)
  <2> DEFINE pub2 == Append(pub, z)
  <2>1. /\ Len(pub2) = Len(pub) + 1 /\ Len(pub) \in Nat
        /\ pub2[Len(pub) + 1] = z
        /\ \A i \in 1..Len(pub) : pub2[i] = pub[i]
        /\ \A i \in 1..Len(pub2) : i \in 1..Len(pub) \/ i = Len(pub) + 1
    BY <1>2
  <2>2. \A i \in 1..Len(pub) : Before(pub[i], z, log)
    BY <1>1, <1>9 DEF Left, z
  <2>3. Left(pub, Tail(q), log)
    BY <1>9, LinedTail
  <2> HIDE DEF pub2
  <2>4. \A i \in 1..Len(pub2) : Logged(pub2[i], log)
    BY <1>5, <2>1, <2>3 DEF Left
  <2>5. ASSUME NEW i \in 1..Len(pub2), NEW j \in 1..Len(pub2), i < j
        PROVE  Before(pub2[i], pub2[j], log)
    <3>1. i \in 1..Len(pub)
      BY <2>1, <2>5
    <3> QED BY <2>1, <2>2, <2>3, <2>5, <3>1 DEF Left
  <2>6. ASSUME NEW i \in 1..Len(pub2), NEW j \in 1..Len(Tail(q)), Pub(Tail(q)[j])
        PROVE  Before(pub2[i], message(Tail(q)[j]), log)
    BY <1>6, <2>1, <2>3, <2>6 DEF Left
  <2> QED BY <2>4, <2>5, <2>6 DEF Left, pub2
<1> QED BY <1>7, <1>8, <1>9 DEF own2, p, z

-----------------------------------------------------------------------------
(* How the steps move the line.                                            *)

LEMMA InLineType ==
    ASSUME TaskProofs!Inv
    PROVE  InLine \in Seq(Events)
BY MachineFacts DEF InLine

LEMMA InLineSame ==
    ASSUME UNCHANGED <<m_eventQueue, m_events, task>>
    PROVE  InLine' = InLine
BY DEF InLine

LEMMA InLineOutside ==
    ASSUME UNCHANGED m_eventQueue, task # "dispatch", task' # "dispatch"
    PROVE  InLine' = InLine
BY DEF InLine

LEMMA InLineSend ==
    ASSUME TaskProofs!Inv, NEW e \in Events, m_eventQueue' = Append(m_eventQueue, e),
           UNCHANGED <<m_events, task>>
    PROVE  InLine' = Append(InLine, e)
<1>1. task = "dispatch" =>
        <<m_events>> \o Append(m_eventQueue, e) = Append(<<m_events>> \o m_eventQueue, e)
  BY MachineFacts, Constants, TaskProofs!AppendBehindHead
<1> QED BY <1>1 DEF InLine

LEMMA InLineReceive ==
    ASSUME TaskProofs!Inv, Fsm!Receive
    PROVE  InLine' = InLine
<1>1. m_eventQueue \in Seq(Events) /\ m_eventQueue # <<>>
  BY MachineFacts DEF Fsm!Receive
<1>2. <<Head(m_eventQueue)>> \o Tail(m_eventQueue) = m_eventQueue
  BY <1>1
<1> QED BY <1>2 DEF Fsm!Receive, InLine

LEMMA InLineHandled ==
    ASSUME TaskProofs!Inv, NEW r, Fsm!dispatch(r)
    PROVE  InLine # <<>> /\ Head(InLine) = m_events /\ InLine' = Tail(InLine)
<1>1. /\ <<m_events>> \o m_eventQueue # <<>>
      /\ Head(<<m_events>> \o m_eventQueue) = m_events
      /\ Tail(<<m_events>> \o m_eventQueue) = m_eventQueue
  BY MachineFacts, dispatchEffect, Constants, TaskProofs!RemoveHead
<1> QED BY <1>1, dispatchEffect DEF InLine

-----------------------------------------------------------------------------
(* QueuedInv is inductive.                                                 *)

LEMMA InitQueued == Init => QueuedInv
BY DEF Init, Fsm!Init, QueuedInv, InLine, LogOnce, Lined

(* Steps that leave the line and the payloads alone.                       *)
LEMMA QueuedKept ==
    ASSUME QueuedInv, InLine' = InLine, UNCHANGED <<requested, owner, visit>>,
           \/ UNCHANGED <<task, m_states, m_events>>
           \/ ~Visiting("STATE_CONNECTED", "EVENT_PUBLISH")
    PROVE  QueuedInv'
BY DEF QueuedInv, Visiting

(* The line grows by an event that carries nothing.                        *)
LEMMA QueuedSend ==
    ASSUME QueuedInv, TaskProofs!Inv, NEW c \in Users \cup {Esp}, NEW e \in Events,
           Fsm!Dispatch(c, e), ~Pub(e), UNCHANGED <<requested, owner, visit>>
    PROVE  QueuedInv'
<1>1. UNCHANGED <<task, m_states, m_events>>
  BY DispatchEffect DEF Untouched
<1>2. CASE m_eventQueue' = m_eventQueue
  BY <1>1, <1>2, InLineSame, QueuedKept
<1>3. CASE m_eventQueue' = Append(m_eventQueue, e)
  <2>1. InLine' = Append(InLine, e)
    BY <1>1, <1>3, InLineSend
  <2>2. Lined(InLine', requested, owner)
    BY <2>1, InLineType, LinedAppend DEF QueuedInv
  <2> QED BY <1>1, <2>2 DEF QueuedInv, Visiting
<1> QED BY <1>2, <1>3, DispatchEffect

(* The line loses its first event, and what it carried changes hands.      *)
LEMMA QueuedHandled ==
    ASSUME QueuedInv, TaskProofs!Inv, NEW r, Fsm!dispatch(r), UNCHANGED requested,
           visit' = "none",
           \/ ~Pub(m_events) /\ UNCHANGED owner
           \/ Pub(m_events) /\ \E x \in {"freed", "nobody"} :
                 owner' = [owner EXCEPT ![m_events.payload] = x]
    PROVE  QueuedInv'
<1>1. InLine \in Seq(Events) /\ InLine # <<>>
      /\ Head(InLine) = m_events /\ InLine' = Tail(InLine)
  BY InLineType, InLineHandled
<1>2. owner' \in [Payloads -> {"user", "queue", "freed", "nobody"}]
  BY DEF QueuedInv
<1>3. LogOnce(requested, owner') /\ Lined(Tail(InLine), requested, owner')
  <2>1. CASE ~Pub(m_events) /\ UNCHANGED owner
    BY <1>1, <2>1, LinedTail DEF QueuedInv
  <2>2. ASSUME Pub(m_events), NEW x \in {"freed", "nobody"},
               owner' = [owner EXCEPT ![m_events.payload] = x]
        PROVE  LogOnce(requested, owner') /\ Lined(Tail(InLine), requested, owner')
    BY <1>1, <2>2, LinedHandled DEF QueuedInv
  <2> QED BY <2>1, <2>2
<1> QED BY <1>1, <1>2, <1>3 DEF QueuedInv

(* A call of Publish.                                                      *)
LEMMA QueuedPublish ==
    ASSUME QueuedInv, TaskProofs!Inv,
           NEW u \in Users, NEW t \in Topics, NEW p \in Payloads, Publish(u, t, p)
    PROVE  QueuedInv'
<1>1. Fsm!Dispatch(u, Publishing(t, p)) /\ Publishing(t, p) \in Events
      /\ owner[p] = "user" /\ UNCHANGED visit
  BY EventsSent DEF Publish
<1>2. UNCHANGED <<task, m_states, m_events>>
  BY <1>1, DispatchEffect DEF Untouched
<1>3. CASE m_eventQueue' = m_eventQueue /\ answer'[u] = "refused"
  <2>1. InLine' = InLine
    BY <1>2, <1>3, InLineSame
  <2>2. owner' = [owner EXCEPT ![p] = "nobody"] /\ UNCHANGED requested
    BY <1>3 DEF Publish
  <2>3. LogOnce(requested, owner') /\ Lined(InLine, requested, owner')
    BY <1>1, <2>2, InLineType, LinedRefuse DEF QueuedInv
  <2> QED BY <1>1, <1>2, <2>1, <2>2, <2>3 DEF QueuedInv, Visiting
<1>4. CASE m_eventQueue' = Append(m_eventQueue, Publishing(t, p)) /\ answer'[u] = "taken"
  <2>1. InLine' = Append(InLine, Publishing(t, p))
    BY <1>1, <1>2, <1>4, InLineSend
  <2>2. owner' = [owner EXCEPT ![p] = "queue"]
        /\ requested' = Append(requested, <<t, p>>)
    BY <1>4 DEF Publish
  <2>3. LogOnce(requested', owner') /\ Lined(InLine', requested', owner')
    BY <1>1, <2>1, <2>2, InLineType, LinedPublish DEF QueuedInv
  <2> QED BY <1>1, <1>2, <2>1, <2>2, <2>3 DEF QueuedInv, Visiting
<1> QED BY <1>1, <1>3, <1>4, DispatchEffect

LEMMA NextQueued == QueuedInv /\ TaskProofs!Inv /\ [Next]_vars => QueuedInv'
<1> SUFFICES ASSUME QueuedInv, TaskProofs!Inv, [Next]_vars PROVE QueuedInv'
  OBVIOUS
<1> USE DEF fsmVars, pubVars
<1>1. ASSUME UNCHANGED <<m_eventQueue, m_events, task, m_states, requested, owner, visit>>
      PROVE  QueuedInv'
  BY <1>1, InLineSame, QueuedKept
<1>2. CASE InitStep
  <2>1. CASE UNCHANGED m_states
    BY <1>1, <1>2, <2>1 DEF InitStep, Fsm!StartStep, Fsm!StartFlag, Fsm!StartState,
          Fsm!StartNotify, Fsm!startVars, Fsm!callVars, Fsm!workerVars
  <2>2. CASE Fsm!StartState
    <3>1. task # "dispatch"
      BY <2>2, MachineFacts DEF Fsm!StartState
    <3> QED BY <1>2, <2>2, <3>1, InLineSame, QueuedKept
            DEF InitStep, Fsm!StartState, Fsm!workerVars, Visiting
  <2> QED BY <1>2, <2>1, <2>2 DEF InitStep, Fsm!StartStep, Fsm!StartFlag, Fsm!StartNotify
<1>3. CASE TaskStep
  <2>1. CASE BaseStep
    <3>1. CASE Fsm!NotifyTake \/ Fsm!OnEntry
      <4>1. UNCHANGED <<m_eventQueue, m_events, requested, owner, visit>>
            /\ task # "dispatch" /\ task' # "dispatch"
        BY <2>1, <3>1 DEF BaseStep, Fsm!NotifyTake, Fsm!OnEntry
      <4> QED BY <4>1, InLineOutside, QueuedKept DEF Visiting
    <3>2. CASE Fsm!Receive
      <4>1. UNCHANGED <<requested, owner, visit>> /\ task # "dispatch"
        BY <2>1, <3>2 DEF BaseStep, Fsm!Receive
      <4> QED BY <3>2, <4>1, InLineReceive, QueuedKept DEF Visiting
    <3>3. ASSUME NEW r \in States \cup {NoChange}, Fsm!dispatch(r),
                 ~Visiting("STATE_CONNECTED", "EVENT_PUBLISH")
          PROVE  QueuedInv'
      <4>1. visit' = "none" /\ UNCHANGED requested
        BY <2>1, <3>3 DEF BaseStep, QueuedInv
      <4>2. \/ ~Pub(m_events) /\ UNCHANGED owner
            \/ Pub(m_events) /\ owner' = [owner EXCEPT ![m_events.payload] = "nobody"]
        BY <2>1, <3>3, dispatchEffect DEF BaseStep, Pub
      <4> QED BY <3>3, <4>1, <4>2, QueuedHandled
    <3> QED BY <2>1, <3>1, <3>2, <3>3 DEF BaseStep
  <2>2. CASE ChangeState
    <3>1. UNCHANGED <<m_eventQueue, m_events, requested, owner, visit>>
          /\ task # "dispatch" /\ task' # "dispatch"
      BY <2>2 DEF ChangeState, Fsm!handleNewState
    <3> QED BY <3>1, InLineOutside, QueuedKept DEF Visiting
  <2>3. ASSUME NEW c \in {"null", "created", "registered", "started"}, connect(c)
        PROVE  QueuedInv'
    <3>1. PICK r : Fsm!dispatch(r)
      BY <2>3 DEF connect
    <3>2. visit' = "none" /\ UNCHANGED <<requested, owner>> /\ ~Pub(m_events)
      BY <2>3 DEF connect, QueuedInv, Visiting, Pub
    <3> QED BY <3>1, <3>2, QueuedHandled
  <2>4. CASE reSubscribe
    BY <1>1, <2>4 DEF reSubscribe
  <2>5. CASE reSubscribeEnd
    <3>1. UNCHANGED <<m_eventQueue, m_events, requested, owner, visit>>
          /\ task # "dispatch" /\ task' # "dispatch"
      BY <2>5 DEF reSubscribeEnd, Fsm!OnEntry
    <3> QED BY <3>1, InLineOutside, QueuedKept DEF Visiting
  <2>6. CASE PublishClear \/ PublishPrint \/ PublishTopic
    <3>1. InLine' = InLine
          /\ UNCHANGED <<requested, owner, task, m_states, m_events>>
          /\ visit' \in {"none", "print", "topic", "publish"}
      BY <2>6, InLineSame DEF PublishClear, PublishPrint, PublishTopic
    <3>2. Visiting("STATE_CONNECTED", "EVENT_PUBLISH")
      BY <2>6 DEF PublishClear, PublishPrint, PublishTopic, QueuedInv
    <3> QED BY <3>1, <3>2 DEF QueuedInv, Visiting
  <2>7. CASE PublishSend
    <3>1. Fsm!dispatch(NoChange) /\ visit' = "none" /\ UNCHANGED requested
          /\ owner' = [owner EXCEPT ![m_events.payload] = "freed"]
      BY <2>7 DEF PublishSend
    <3>2. Pub(m_events)
      BY <2>7 DEF PublishSend, QueuedInv, Visiting, Pub
    <3> QED BY <3>1, <3>2, QueuedHandled
  <2>8. CASE PublishTooLong
    <3>1. Fsm!dispatch(NoChange) /\ visit' = "none" /\ UNCHANGED requested
          /\ owner' = [owner EXCEPT ![m_events.payload] = "freed"] /\ Pub(m_events)
      BY <2>8 DEF PublishTooLong, QueuedInv, Visiting, Pub
    <3> QED BY <3>1, QueuedHandled
  <2>9. CASE handleData
    <3>1. Fsm!dispatch(NoChange) /\ visit' = "none" /\ UNCHANGED <<requested, owner>>
          /\ ~Pub(m_events)
      BY <2>9 DEF handleData, QueuedInv, Visiting, Pub
    <3> QED BY <3>1, QueuedHandled
  <2> QED BY <1>3, <2>1, <2>2, <2>3, <2>4, <2>5, <2>6, <2>7, <2>8, <2>9 DEF TaskStep
<1>4. CASE EspStep
  <2>1. ASSUME NEW n \in {"EVENT_BEFORE_CONNECT", "EVENT_CONNECTED", "EVENT_SUBSCRIBED",
                 "EVENT_DISCONNECTED", "EVENT_ERROR", "EVENT_INCOMING_DATA"}, Report(n)
        PROVE  QueuedInv'
    <3>1. Event(n) \in Events /\ ~Pub(Event(n))
      BY EventsSent DEF Event, Pub
    <3> QED BY <2>1, <3>1, QueuedSend DEF Report
  <2>2. CASE EspBeforeConnect \/ EspConnected \/ EspError \/ EspDisconnected
             \/ EspSubscribed \/ DataNotify
    BY <2>1, <2>2 DEF EspBeforeConnect, EspConnected, EspError, EspDisconnected,
                      EspSubscribed, DataNotify
  <2>3. CASE DataPayload \/ \E t \in Topics, m \in Messages : DataTopic(t, m)
    BY <1>1, <2>3 DEF DataPayload, DataTopic
  <2> QED BY <1>4, <2>2, <2>3 DEF EspStep
<1>5. CASE UserStep
  <2>1. ASSUME NEW u \in Users, NEW t \in Topics, OnCall(u, t) PROVE QueuedInv'
    BY <1>1, <2>1 DEF OnCall
  <2>2. ASSUME NEW u \in Users, TryConnectCall(u) PROVE QueuedInv'
    BY <1>1, <2>2 DEF TryConnectCall
  <2>3. ASSUME NEW u \in Users, TryConnectSend(u) PROVE QueuedInv'
    <3>1. Event("EVENT_CONNECT") \in Events /\ ~Pub(Event("EVENT_CONNECT"))
      BY EventsSent DEF Event, Pub
    <3> QED BY <2>3, <3>1, QueuedSend DEF TryConnectSend
  <2>4. ASSUME NEW u \in Users, CallStep(u), ~TryConnectSend(u) PROVE QueuedInv'
    <3>1. UNCHANGED <<m_eventQueue, m_events, task, m_states, requested, owner, visit>>
      BY <2>4 DEF CallStep, OnCopy, OnCheck, OnConstruct, OnSubscribe, OnSubscribeAsserts,
            OnPush, TryConnectReadConnected
    <3> QED BY <1>1, <3>1
  <2>5. ASSUME NEW u \in Users, NEW t \in Topics, NEW p \in Payloads, Publish(u, t, p)
        PROVE  QueuedInv'
    BY <2>5, QueuedPublish
  <2> QED BY <1>5, <2>1, <2>2, <2>3, <2>4, <2>5, MqttConstants DEF UserStep
<1>6. CASE UNCHANGED vars
  BY <1>1, <1>6 DEF vars
<1> QED BY <1>2, <1>3, <1>4, <1>5, <1>6 DEF Next

LEMMA QueuedInvariance == Spec => []QueuedInv
BY InitQueued, NextQueued, FsmInvariance, PTL DEF Spec

(* A payload in the queue or in the handler's hands is alive, and no other *)
(* event holds it, for any number of users and payloads.                   *)
THEOREM PayloadsLive == Spec => []QueuedPayloadsLive
<1>1. TaskProofs!Inv /\ QueuedInv => QueuedPayloadsLive
  <2> SUFFICES ASSUME TaskProofs!Inv, QueuedInv,
                      NEW i \in 1..Len(InLine), Pub(InLine[i])
               PROVE  /\ owner[InLine[i].payload] = "queue"
                      /\ \A j \in 1..Len(InLine) :
                            /\ Pub(InLine[j])
                            /\ InLine[i].payload = InLine[j].payload
                            => i = j
    BY DEF QueuedPayloadsLive, InLine, Pub
  <2>1. \A k \in 1..Len(InLine) : Pub(InLine[k]) =>
            owner[InLine[k].payload] = "queue" /\ Logged(message(InLine[k]), requested)
    BY DEF QueuedInv, Lined
  <2>2. ASSUME NEW j \in 1..Len(InLine), NEW k \in 1..Len(InLine), k < j,
               Pub(InLine[k]), Pub(InLine[j])
        PROVE  InLine[k].payload # InLine[j].payload
    <3>1. Before(message(InLine[k]), message(InLine[j]), requested)
      BY <2>2 DEF QueuedInv, Lined
    <3> QED BY <2>1, <2>2, <3>1, DistinctPayloads DEF message, QueuedInv
  <2>3. Len(InLine) \in Nat
    BY InLineType
  <2> QED BY <2>1, <2>2, <2>3
<1> QED BY <1>1, QueuedInvariance, FsmInvariance, PTL

-----------------------------------------------------------------------------
(* The state and the link.                                                 *)

(* The machine's state when a transition that is decided has been made.    *)
Decided == IF task = "commit" THEN newState ELSE m_states

Up(e)    == e.name = "EVENT_CONNECTED"
Down(e)  == e.name \in {"EVENT_ERROR", "EVENT_DISCONNECTED"}
Turns(e) == Up(e) \/ Down(e)
Opens(e) == e.name = "EVENT_BEFORE_CONNECT"
Data(e)  == e.name = "EVENT_INCOMING_DATA"

Still(q) == \A i \in 1..Len(q) : ~Turns(q[i])

(* The last event of the line q that is about the connection tells how the *)
(* link is; if there is none, the state s does.                            *)
Agrees(q, s, l) ==
    \/ Still(q) /\ (s = "STATE_CONNECTED" <=> l = "up")
    \/ \E i \in 1..Len(q) :
          /\ Turns(q[i]) /\ (Up(q[i]) <=> l = "up")
          /\ \A k \in 1..Len(q) : i < k => ~Turns(q[k])

(* Between a connection and the next the line, or the machine, has seen    *)
(* the end of the first.                                                   *)
Alternates(q, s) ==
    \A i \in 1..Len(q) : Up(q[i]) =>
        \/ s # "STATE_CONNECTED" /\ \A j \in 1..Len(q) : j < i => ~Up(q[j])
        \/ \E j \in 1..Len(q) :
              /\ j < i /\ Down(q[j])
              /\ \A k \in 1..Len(q) : j < k /\ k < i => ~Up(q[k])

(* A machine that is still disabled has in its line the BEFORE_CONNECT of  *)
(* the attempt that is made, before any report of its success.             *)
Prepared(q, s, l) ==
    s = "STATE_DISABLED" =>
        /\ \A i \in 1..Len(q) : Up(q[i]) => \E j \in 1..Len(q) : j < i /\ Opens(q[j])
        /\ l \in {"trying", "failing", "up"} => \E j \in 1..Len(q) : Opens(q[j])

LinkLine(q, s, l) == Agrees(q, s, l) /\ Alternates(q, s) /\ Prepared(q, s, l)

(* As long as no report was lost, the line leads the machine to the link.  *)
LinkInv == ~dropped => LinkLine(InLine, Decided, link)

(* What an event at the end of a line may say of the link that was l.      *)
Tells(e, l, l2) ==
    \/ ~Turns(e) /\ l2 = l
    \/ Opens(e) /\ l = "waiting" /\ l2 = "trying"
    \/ Up(e) /\ l = "trying" /\ l2 = "up"
    \/ Down(e) /\ l # "idle" /\ l2 \in {"failing", "waiting"}
       /\ (l2 = "failing" => l \in {"trying", "up"})

(* The indices of a line that has grown.                                   *)
LEMMA AppendIndices ==
    ASSUME NEW S, NEW q \in Seq(S), NEW e \in S
    PROVE  /\ Append(q, e) \in Seq(S)
           /\ Len(q) \in Nat /\ Len(Append(q, e)) = Len(q) + 1
           /\ Append(q, e)[Len(q) + 1] = e
           /\ Len(q) + 1 \in 1..Len(Append(q, e))
           /\ \A i \in 1..Len(q) :
                 i \in 1..Len(Append(q, e)) /\ i < Len(q) + 1 /\ Append(q, e)[i] = q[i]
           /\ \A i \in 1..Len(Append(q, e)) : i \in 1..Len(q) \/ i = Len(q) + 1
OBVIOUS

(* The indices of a line whose first event has left.                       *)
LEMMA TailIndices ==
    ASSUME NEW S, NEW q \in Seq(S), q # <<>>
    PROVE  /\ Tail(q) \in Seq(S)
           /\ Len(q) \in Nat /\ Len(Tail(q)) = Len(q) - 1
           /\ 1 \in 1..Len(q) /\ Head(q) = q[1] /\ Head(q) \in S
           /\ \A i \in 1..Len(Tail(q)) :
                 i + 1 \in 1..Len(q) /\ 1 < i + 1 /\ Tail(q)[i] = q[i + 1]
           /\ \A i \in 1..Len(q) :
                 i # 1 => i - 1 \in 1..Len(Tail(q)) /\ Tail(q)[i - 1] = q[i] /\ 1 < i
<1>1. /\ Tail(q) \in Seq(S)
      /\ Len(q) \in Nat \ {0} /\ Len(Tail(q)) = Len(q) - 1
      /\ Head(q) = q[1] /\ Head(q) \in S
      /\ \A i \in 1..Len(Tail(q)) : Tail(q)[i] = q[i + 1]
  OBVIOUS
<1> DEFINE n == Len(q)
           t == Tail(q)
           m == Len(t)
<1>2. n \in Nat \ {0} /\ m = n - 1 /\ \A i \in 1..m : t[i] = q[i + 1]
  BY <1>1
<1> HIDE DEF n, m, t
<1>3. \A i \in 1..m : i + 1 \in 1..n /\ 1 < i + 1
  BY <1>2
<1>4. ASSUME NEW i \in 1..n, i # 1
      PROVE  i - 1 \in 1..m /\ t[i - 1] = q[i] /\ 1 < i
  <2>1. i - 1 \in 1..m /\ (i - 1) + 1 = i /\ 1 < i
    BY <1>2, <1>4
  <2> QED BY <1>2, <2>1
<1>5. 1 \in 1..n
  BY <1>2
<1> QED BY <1>1, <1>3, <1>4, <1>5 DEF n, m, t

(* A report, or an event that is none, joins the line.                     *)
LEMMA LinkLineSend ==
    ASSUME NEW q \in Seq(Events), NEW e \in Events, NEW s, NEW l, NEW l2,
           LinkLine(q, s, l), Tells(e, l, l2)
    PROVE  LinkLine(Append(q, e), s, l2)
<1> DEFINE q2 == Append(q, e)
<1>1. /\ Len(q) \in Nat /\ Len(q2) = Len(q) + 1
      /\ q2[Len(q) + 1] = e
      /\ Len(q) + 1 \in 1..Len(q2)
      /\ \A i \in 1..Len(q) : i \in 1..Len(q2) /\ i < Len(q) + 1 /\ q2[i] = q[i]
      /\ \A i \in 1..Len(q2) : i \in 1..Len(q) \/ i = Len(q) + 1
  BY AppendIndices
<1> HIDE DEF q2
<1>2. Agrees(q2, s, l2)
  <2>1. CASE Turns(e)
    <3>1. Up(e) <=> l2 = "up"
      BY <2>1 DEF Tells, Up, Down, Turns, Opens
    <3>2. \A k \in 1..Len(q2) : ~(Len(q) + 1 < k)
      BY <1>1
    <3> QED BY <1>1, <2>1, <3>1, <3>2 DEF Agrees
  <2>2. CASE ~Turns(e)
    <3>1. l = "up" <=> l2 = "up"
      BY <2>2 DEF Tells, Turns
    <3>2. CASE Still(q) /\ (s = "STATE_CONNECTED" <=> l = "up")
      BY <1>1, <2>2, <3>1, <3>2 DEF Agrees, Still
    <3>3. ASSUME NEW i \in 1..Len(q), Turns(q[i]), Up(q[i]) <=> l = "up",
                 \A k \in 1..Len(q) : i < k => ~Turns(q[k])
          PROVE  Agrees(q2, s, l2)
      <4>1. i \in 1..Len(q2) /\ q2[i] = q[i]
        BY <1>1
      <4>2. \A k \in 1..Len(q2) : i < k => ~Turns(q2[k])
        BY <1>1, <2>2, <3>3
      <4> QED BY <3>1, <3>3, <4>1, <4>2 DEF Agrees
    <3> QED BY <3>2, <3>3 DEF LinkLine, Agrees
  <2> QED BY <2>1, <2>2
<1>3. Alternates(q2, s)
  <2> SUFFICES ASSUME NEW i \in 1..Len(q2), Up(q2[i])
               PROVE  \/ s # "STATE_CONNECTED" /\ \A j \in 1..Len(q2) : j < i => ~Up(q2[j])
                      \/ \E j \in 1..Len(q2) :
                            /\ j < i /\ Down(q2[j])
                            /\ \A k \in 1..Len(q2) : j < k /\ k < i => ~Up(q2[k])
    BY DEF Alternates
  <2>1. \A j \in 1..Len(q2) : j < i => j \in 1..Len(q) /\ q2[j] = q[j]
    BY <1>1
  <2>2. CASE i \in 1..Len(q)
    BY <1>1, <2>1, <2>2 DEF LinkLine, Alternates
  <2>3. CASE i = Len(q) + 1
    <3>1. Up(e) /\ l = "trying"
      BY <1>1, <2>3 DEF Tells, Turns, Up, Down, Opens
    <3>2. CASE Still(q) /\ s # "STATE_CONNECTED"
      BY <2>1, <3>2 DEF Still, Turns
    <3>3. ASSUME NEW n \in 1..Len(q), Turns(q[n]), ~Up(q[n]),
                 \A k \in 1..Len(q) : n < k => ~Turns(q[k])
          PROVE  \E j \in 1..Len(q2) :
                    /\ j < i /\ Down(q2[j])
                    /\ \A k \in 1..Len(q2) : j < k /\ k < i => ~Up(q2[k])
      <4>1. n \in 1..Len(q2) /\ n < i /\ Down(q2[n])
        BY <1>1, <2>3, <3>3 DEF Turns
      <4>2. \A k \in 1..Len(q2) : n < k /\ k < i => ~Up(q2[k])
        BY <2>1, <3>3 DEF Turns
      <4> QED BY <4>1, <4>2
    <3> QED BY <3>1, <3>2, <3>3 DEF LinkLine, Agrees
  <2> QED BY <1>1, <2>2, <2>3
<1>4. Prepared(q2, s, l2)
  <2> SUFFICES ASSUME s = "STATE_DISABLED" PROVE Prepared(q2, s, l2)
    BY DEF Prepared
  <2>1. ASSUME NEW i \in 1..Len(q2), Up(q2[i])
        PROVE  \E j \in 1..Len(q2) : j < i /\ Opens(q2[j])
    <3>1. CASE i \in 1..Len(q)
      BY <1>1, <2>1, <3>1 DEF LinkLine, Prepared
    <3>2. CASE i = Len(q) + 1
      <4>1. l = "trying"
        BY <1>1, <2>1, <3>2 DEF Tells, Turns, Up, Down, Opens
      <4>2. PICK j \in 1..Len(q) : Opens(q[j])
        BY <4>1 DEF LinkLine, Prepared
      <4> QED BY <1>1, <3>2, <4>2
    <3> QED BY <1>1, <3>1, <3>2
  <2>2. ASSUME l2 \in {"trying", "failing", "up"}
        PROVE  \E j \in 1..Len(q2) : Opens(q2[j])
    <3>1. Opens(e) \/ l \in {"trying", "failing", "up"}
      BY <2>2 DEF Tells
    <3> QED BY <1>1, <3>1 DEF LinkLine, Prepared
  <2> QED BY <2>1, <2>2 DEF Prepared
<1> QED BY <1>2, <1>3, <1>4 DEF LinkLine, q2

(* What the reports do to the state.                                       *)
LEMMA TurnEffect ==
    ASSUME NEW s \in States, NEW e \in Events, NEW r \in OnEvent[<<s, e>>],
           NEW s2, s2 = IF r = NoChange THEN s ELSE r
    PROVE  /\ s2 \in States
           /\ Up(e) /\ s # "STATE_DISABLED" => s2 = "STATE_CONNECTED"
           /\ Down(e) => s2 # "STATE_CONNECTED"
           /\ ~Turns(e) => (s2 = "STATE_CONNECTED" <=> s = "STATE_CONNECTED")
           /\ s2 = "STATE_DISABLED" => s = "STATE_DISABLED" /\ ~Opens(e)
<1>1. r \in Transition(s, e.name)
  BY DEF OnEvent
<1> QED BY <1>1, MqttConstants DEF Transition, States, Up, Down, Turns, Opens

(* The first event of the line is handled.                                 *)
LEMMA LinkLineHandled ==
    ASSUME NEW q \in Seq(Events), q # <<>>, NEW s \in States, NEW l,
           NEW r \in OnEvent[<<s, Head(q)>>], NEW s2, s2 = IF r = NoChange THEN s ELSE r,
           LinkLine(q, s, l)
    PROVE  LinkLine(Tail(q), s2, l)
<1> DEFINE t == Tail(q)
<1>1. /\ Len(q) \in Nat /\ Len(t) = Len(q) - 1
      /\ 1 \in 1..Len(q) /\ Head(q) = q[1] /\ q[1] \in Events
      /\ \A i \in 1..Len(t) : i + 1 \in 1..Len(q) /\ 1 < i + 1 /\ t[i] = q[i + 1]
      /\ \A i \in 1..Len(q) : i # 1 => i - 1 \in 1..Len(t) /\ t[i - 1] = q[i] /\ 1 < i
  BY TailIndices
<1>2. /\ s2 \in States
      /\ Up(q[1]) /\ s # "STATE_DISABLED" => s2 = "STATE_CONNECTED"
      /\ Down(q[1]) => s2 # "STATE_CONNECTED"
      /\ ~Turns(q[1]) => (s2 = "STATE_CONNECTED" <=> s = "STATE_CONNECTED")
      /\ s2 = "STATE_DISABLED" => s = "STATE_DISABLED" /\ ~Opens(q[1])
  BY <1>1, TurnEffect
<1>3. Up(q[1]) => s # "STATE_DISABLED"
  <2> SUFFICES ASSUME Up(q[1]), s = "STATE_DISABLED" PROVE FALSE
    OBVIOUS
  <2>1. PICK j \in 1..Len(q) : j < 1
    BY <1>1 DEF LinkLine, Prepared
  <2> QED BY <1>1, <2>1
<1> HIDE DEF t
<1>4. Agrees(t, s2, l)
  <2>1. CASE Still(q) /\ (s = "STATE_CONNECTED" <=> l = "up")
    BY <1>1, <1>2, <2>1 DEF Agrees, Still
  <2>2. ASSUME NEW i \in 1..Len(q), Turns(q[i]), Up(q[i]) <=> l = "up",
               \A k \in 1..Len(q) : i < k => ~Turns(q[k])
        PROVE  Agrees(t, s2, l)
    <3>1. CASE i = 1
      <4>1. Still(t)
        BY <1>1, <2>2, <3>1 DEF Still
      <4>2. s2 = "STATE_CONNECTED" <=> l = "up"
        BY <1>2, <1>3, <2>2, <3>1 DEF Turns
      <4> QED BY <4>1, <4>2 DEF Agrees
    <3>2. CASE i # 1
      <4>1. i - 1 \in 1..Len(t) /\ t[i - 1] = q[i]
        BY <1>1, <3>2
      <4>2. ASSUME NEW k \in 1..Len(t), i - 1 < k PROVE ~Turns(t[k])
        <5>1. k + 1 \in 1..Len(q) /\ t[k] = q[k + 1] /\ i < k + 1
          BY <1>1, <4>2
        <5> QED BY <2>2, <5>1
      <4> QED BY <2>2, <4>1, <4>2 DEF Agrees
    <3> QED BY <3>1, <3>2
  <2> QED BY <2>1, <2>2 DEF LinkLine, Agrees
<1>5. Alternates(t, s2)
  <2> SUFFICES ASSUME NEW i \in 1..Len(t), Up(t[i])
               PROVE  \/ s2 # "STATE_CONNECTED" /\ \A j \in 1..Len(t) : j < i => ~Up(t[j])
                      \/ \E j \in 1..Len(t) :
                            /\ j < i /\ Down(t[j])
                            /\ \A k \in 1..Len(t) : j < k /\ k < i => ~Up(t[k])
    BY DEF Alternates
  <2>1. i + 1 \in 1..Len(q) /\ Up(q[i + 1]) /\ 1 < i + 1
    BY <1>1
  <2>2. ASSUME NEW j \in 1..Len(t), j < i
        PROVE  j + 1 \in 1..Len(q) /\ j + 1 < i + 1 /\ t[j] = q[j + 1] /\ 1 < j + 1
    BY <1>1, <2>2
  <2>3. CASE s # "STATE_CONNECTED" /\ \A j \in 1..Len(q) : j < i + 1 => ~Up(q[j])
    <3>1. ~Up(q[1])
      BY <1>1, <2>1, <2>3
    <3>2. s2 # "STATE_CONNECTED"
      BY <1>2, <2>3, <3>1 DEF Turns
    <3> QED BY <2>2, <2>3, <3>2
  <2>4. ASSUME NEW j \in 1..Len(q), j < i + 1, Down(q[j]),
               \A k \in 1..Len(q) : j < k /\ k < i + 1 => ~Up(q[k])
        PROVE  \/ s2 # "STATE_CONNECTED" /\ \A n \in 1..Len(t) : n < i => ~Up(t[n])
               \/ \E n \in 1..Len(t) :
                     /\ n < i /\ Down(t[n])
                     /\ \A k \in 1..Len(t) : n < k /\ k < i => ~Up(t[k])
    <3>1. CASE j = 1
      BY <1>2, <2>2, <2>4, <3>1
    <3>2. CASE j # 1
      <4>1. j - 1 \in 1..Len(t) /\ j - 1 < i /\ Down(t[j - 1])
        BY <1>1, <2>4, <3>2
      <4>2. ASSUME NEW k \in 1..Len(t), j - 1 < k, k < i PROVE ~Up(t[k])
        <5>1. k + 1 \in 1..Len(q) /\ t[k] = q[k + 1] /\ j < k + 1 /\ k + 1 < i + 1
          BY <1>1, <4>2
        <5> QED BY <2>4, <5>1
      <4> QED BY <4>1, <4>2
    <3> QED BY <3>1, <3>2
  <2> QED BY <2>1, <2>3, <2>4 DEF LinkLine, Alternates
<1>6. Prepared(t, s2, l)
  <2> SUFFICES ASSUME s2 = "STATE_DISABLED" PROVE Prepared(t, s2, l)
    BY DEF Prepared
  <2>1. s = "STATE_DISABLED" /\ ~Opens(q[1])
    BY <1>2
  <2>2. ASSUME NEW j \in 1..Len(q), Opens(q[j])
        PROVE  j - 1 \in 1..Len(t) /\ Opens(t[j - 1])
    BY <1>1, <2>1, <2>2
  <2>3. ASSUME NEW i \in 1..Len(t), Up(t[i])
        PROVE  \E j \in 1..Len(t) : j < i /\ Opens(t[j])
    <3>1. i + 1 \in 1..Len(q) /\ Up(q[i + 1])
      BY <1>1, <2>3
    <3>2. PICK j \in 1..Len(q) : j < i + 1 /\ Opens(q[j])
      BY <2>1, <3>1 DEF LinkLine, Prepared
    <3>3. j - 1 < i
      BY <1>1, <3>2
    <3> QED BY <2>2, <3>2, <3>3
  <2> QED BY <2>1, <2>2, <2>3 DEF LinkLine, Prepared
<1> QED BY <1>4, <1>5, <1>6 DEF LinkLine, t

(* A client that connect() has started waits: nothing else changes.        *)
LEMMA LinkLineWaits ==
    ASSUME NEW q, NEW s, LinkLine(q, s, "idle")
    PROVE  LinkLine(q, s, "waiting")
BY DEF LinkLine, Agrees, Alternates, Prepared

(* The steps, by what they do to the line, the state and the link.         *)
LineKept == InLine' = InLine /\ Decided' = Decided /\ UNCHANGED <<link, dropped>>

LineHandled ==
    /\ InLine # <<>> /\ InLine' = Tail(InLine)
    /\ \E r \in OnEvent[<<Decided, Head(InLine)>>] :
          Decided' = IF r = NoChange THEN Decided ELSE r
    /\ UNCHANGED link \/ (link = "idle" /\ link' = "waiting")
    /\ UNCHANGED dropped
    /\ Data(Head(InLine)) /\ Decided = "STATE_CONNECTED" => handleData
    /\ Decided = m_states /\ UNCHANGED m_states
    /\ Decided' # Decided => task' = "commit"

\* A user's event, from TryConnect or Publish.
LineJoined ==
    /\ \E e \in Events :
          /\ InLine' = Append(InLine, e) /\ ~Turns(e) /\ ~Data(e)
          /\ Pub(e) => \E u \in Users, t \in Topics, p \in Payloads : Publish(u, t, p)
    /\ Decided' = Decided
    /\ UNCHANGED <<link, dropped>>

\* A report of the library.
LineReported(n) ==
    /\ Decided' = Decided
    /\ \/ InLine' = Append(InLine, Event(n)) /\ (dropped' \/ ~dropped)
       \/ InLine' = InLine /\ dropped'
    /\ Tells(Event(n), link, link')

Reportable == {"EVENT_BEFORE_CONNECT", "EVENT_CONNECTED", "EVENT_SUBSCRIBED",
               "EVENT_DISCONNECTED", "EVENT_ERROR", "EVENT_INCOMING_DATA"}

LEMMA DecidedType ==
    ASSUME TaskProofs!Inv
    PROVE  Decided \in States
<1>1. task = "commit" => newState \in States
  <2> SUFFICES ASSUME task = "commit" PROVE newState \in States
    OBVIOUS
  <2>1. m_states \in States /\ m_events \in Events
        /\ newState \in OnEvent[<<m_states, m_events>>] \ {NoChange}
    BY MachineFacts
  <2>2. newState \in Transition(m_states, m_events.name)
    BY <2>1 DEF OnEvent
  <2> QED BY <2>1, <2>2, TransitionType
<1> QED BY <1>1, MachineFacts DEF Decided

(* A handler has run.                                                      *)
LEMMA LineDispatch ==
    ASSUME TaskProofs!Inv, NEW r, Fsm!dispatch(r), UNCHANGED dropped,
           UNCHANGED link \/ (link = "idle" /\ link' = "waiting"),
           Visiting("STATE_CONNECTED", "EVENT_INCOMING_DATA") => handleData
    PROVE  LineHandled
<1>1. InLine # <<>> /\ Head(InLine) = m_events /\ InLine' = Tail(InLine)
  BY InLineHandled
<1>2. Decided = m_states /\ r \in OnEvent[<<m_states, m_events>>]
      /\ Decided' = IF r = NoChange THEN m_states ELSE r
  BY dispatchEffect DEF Decided
<1>3. Data(m_events) /\ m_states = "STATE_CONNECTED" => handleData
  BY dispatchEffect DEF Visiting, Data
<1>4. UNCHANGED m_states /\ (Decided' # Decided => task' = "commit")
  BY <1>2, dispatchEffect
<1> QED BY <1>1, <1>2, <1>3, <1>4 DEF LineHandled

(* A user has called Dispatch.                                             *)
LEMMA LineUser ==
    ASSUME TaskProofs!Inv, NEW u \in Users, NEW e \in Events, Fsm!Dispatch(u, e),
           UNCHANGED <<link, dropped>>, ~Turns(e), ~Data(e),
           Pub(e) => \E v \in Users, t \in Topics, p \in Payloads : Publish(v, t, p)
    PROVE  LineKept \/ LineJoined
<1>1. UNCHANGED <<task, m_states, m_events, newState>>
  BY DispatchEffect DEF Untouched
<1>2. CASE m_eventQueue' = m_eventQueue
  BY <1>1, <1>2, InLineSame DEF LineKept, Decided
<1>3. CASE m_eventQueue' = Append(m_eventQueue, e)
  BY <1>1, <1>3, InLineSend DEF LineJoined, Decided
<1> QED BY <1>2, <1>3, DispatchEffect

(* The esp-mqtt task has called Dispatch.                                  *)
LEMMA LineReport ==
    ASSUME TaskProofs!Inv, NEW n \in Reportable, Report(n), Tells(Event(n), link, link')
    PROVE  LineReported(n)
<1>1. Event(n) \in Events
  BY EventsSent DEF Reportable
<1>2. Fsm!Dispatch(Esp, Event(n)) /\ dropped' = (dropped \/ answer'[Esp] = "refused")
  BY DEF Report
<1>3. UNCHANGED <<task, m_states, m_events, newState>>
  BY <1>1, <1>2, DispatchEffect DEF Untouched
<1>4. CASE m_eventQueue' = m_eventQueue /\ answer'[Esp] = "refused"
  BY <1>2, <1>3, <1>4, InLineSame DEF LineReported, Decided
<1>5. CASE m_eventQueue' = Append(m_eventQueue, Event(n))
  BY <1>1, <1>2, <1>3, <1>5, InLineSend DEF LineReported, Decided
<1> QED BY <1>1, <1>2, <1>4, <1>5, DispatchEffect

(* Every step is one of these.                                             *)
LEMMA LineSteps ==
    ASSUME TaskProofs!Inv, StartedInv, QueuedInv, [Next]_vars
    PROVE  LineKept \/ LineHandled \/ LineJoined \/ \E n \in Reportable : LineReported(n)
<1> USE DEF fsmVars, linkVars, espVars
<1>1. ASSUME UNCHANGED <<m_eventQueue, m_events, task, m_states, newState, link, dropped>>
      PROVE  LineKept
  BY <1>1, InLineSame DEF LineKept, Decided
<1>2. CASE InitStep
  <2>1. UNCHANGED <<link, dropped, m_eventQueue, m_events, task, newState>>
    BY <1>2 DEF InitStep, Fsm!StartStep, Fsm!StartFlag, Fsm!StartState, Fsm!StartNotify,
          Fsm!workerVars
  <2>2. UNCHANGED m_states
    <3>1. CASE Fsm!StartState
      <4>1. startArg = "STATE_DISABLED"
        BY <3>1 DEF Fsm!StartState, StartedInv
      <4>2. m_states = "STATE_DISABLED"
        BY <3>1 DEF Fsm!StartState, TaskProofs!Inv, TaskProofs!WakesInStartState
      <4> QED BY <3>1, <4>1, <4>2 DEF Fsm!StartState
    <3> QED BY <1>2, <3>1 DEF InitStep, Fsm!StartStep, Fsm!StartFlag, Fsm!StartNotify
  <2> QED BY <1>1, <2>1, <2>2
<1>3. CASE TaskStep
  <2>1. CASE BaseStep
    <3>1. UNCHANGED <<link, dropped>>
      BY <2>1 DEF BaseStep
    <3>2. CASE Fsm!NotifyTake \/ Fsm!OnEntry
      <4>1. UNCHANGED <<m_eventQueue, m_states, newState>>
            /\ task \in {"notify", "entry"} /\ task' \in {"entry", "receive"}
        BY <3>2 DEF Fsm!NotifyTake, Fsm!OnEntry
      <4> QED BY <3>1, <4>1, InLineOutside DEF LineKept, Decided
    <3>3. CASE Fsm!Receive
      <4>1. Decided' = Decided
        BY <3>3, ReceiveEffect DEF Decided
      <4> QED BY <3>1, <3>3, <4>1, InLineReceive DEF LineKept
    <3>4. ASSUME NEW r \in States \cup {NoChange}, Fsm!dispatch(r),
                 ~Visiting("STATE_CONNECTED", "EVENT_INCOMING_DATA")
          PROVE  LineHandled
      BY <3>1, <3>4, LineDispatch
    <3> QED BY <2>1, <3>2, <3>3, <3>4 DEF BaseStep
  <2>2. CASE ChangeState
    <3>1. UNCHANGED <<m_eventQueue, link, dropped>>
          /\ task = "commit" /\ task' = "entry" /\ m_states' = newState
      BY <2>2 DEF ChangeState, Fsm!handleNewState
    <3> QED BY <3>1, InLineOutside DEF LineKept, Decided
  <2>3. ASSUME NEW c \in {"null", "created", "registered", "started"}, connect(c)
        PROVE  LineHandled
    <3>1. PICK r : Fsm!dispatch(r)
      BY <2>3 DEF connect
    <3>2. UNCHANGED dropped /\ (UNCHANGED link \/ (link = "idle" /\ link' = "waiting"))
      BY <2>3 DEF connect, StartedInv
    <3>3. ~Visiting("STATE_CONNECTED", "EVENT_INCOMING_DATA")
      BY <2>3 DEF connect, Visiting
    <3> QED BY <3>1, <3>2, <3>3, LineDispatch
  <2>4. CASE reSubscribe \/ PublishClear \/ PublishPrint \/ PublishTopic
    BY <1>1, <2>4 DEF reSubscribe, PublishClear, PublishPrint, PublishTopic
  <2>5. CASE reSubscribeEnd
    <3>1. UNCHANGED <<m_eventQueue, m_states, newState, link, dropped>>
          /\ task = "entry" /\ task' = "receive"
      BY <2>5 DEF reSubscribeEnd, Fsm!OnEntry
    <3> QED BY <3>1, InLineOutside DEF LineKept, Decided
  <2>6. CASE PublishSend \/ PublishTooLong \/ handleData
    <3>1. Fsm!dispatch(NoChange) /\ UNCHANGED <<link, dropped>>
      BY <2>6 DEF PublishSend, PublishTooLong, handleData
    <3>2. Visiting("STATE_CONNECTED", "EVENT_INCOMING_DATA") => handleData
      BY <2>6 DEF PublishSend, PublishTooLong, QueuedInv, Visiting
    <3> QED BY <3>1, <3>2, LineDispatch
  <2> QED BY <1>3, <2>1, <2>2, <2>3, <2>4, <2>5, <2>6 DEF TaskStep
<1>4. CASE EspStep
  <2> USE DEF Reportable, Tells, Turns, Up, Down, Opens, Event
  <2>1. CASE EspBeforeConnect
    BY <2>1, LineReport DEF EspBeforeConnect
  <2>2. CASE EspConnected
    BY <2>2, LineReport DEF EspConnected
  <2>3. CASE EspError
    BY <2>3, LineReport DEF EspError
  <2>4. CASE EspDisconnected
    BY <2>4, LineReport DEF EspDisconnected
  <2>5. CASE EspSubscribed \/ DataNotify
    BY <2>5, LineReport DEF EspSubscribed, DataNotify
  <2>6. CASE DataPayload \/ \E t \in Topics, m \in Messages : DataTopic(t, m)
    BY <1>1, <2>6 DEF DataPayload, DataTopic
  <2> QED BY <1>4, <2>1, <2>2, <2>3, <2>4, <2>5, <2>6 DEF EspStep
<1>5. CASE UserStep
  <2>1. ASSUME NEW u \in Users, NEW t \in Topics, OnCall(u, t) PROVE LineKept
    BY <1>1, <2>1 DEF OnCall
  <2>2. ASSUME NEW u \in Users, TryConnectCall(u) PROVE LineKept
    BY <1>1, <2>2 DEF TryConnectCall
  <2>3. ASSUME NEW u \in Users, TryConnectSend(u) PROVE LineKept \/ LineJoined
    <3>1. Event("EVENT_CONNECT") \in Events
          /\ ~Turns(Event("EVENT_CONNECT")) /\ ~Data(Event("EVENT_CONNECT"))
          /\ ~Pub(Event("EVENT_CONNECT"))
      BY EventsSent DEF Event, Turns, Up, Down, Data, Pub
    <3> QED BY <2>3, <3>1, LineUser DEF TryConnectSend
  <2>4. ASSUME NEW u \in Users, CallStep(u), ~TryConnectSend(u) PROVE LineKept
    <3>1. UNCHANGED <<m_eventQueue, m_events, task, m_states, newState, link, dropped>>
      BY <2>4 DEF CallStep, OnCopy, OnCheck, OnConstruct, OnSubscribe, OnSubscribeAsserts,
            OnPush, TryConnectReadConnected
    <3> QED BY <1>1, <3>1
  <2>5. ASSUME NEW u \in Users, NEW t \in Topics, NEW p \in Payloads, Publish(u, t, p)
        PROVE  LineKept \/ LineJoined
    <3>1. Publishing(t, p) \in Events
          /\ ~Turns(Publishing(t, p)) /\ ~Data(Publishing(t, p))
      BY EventsSent DEF Publishing, Turns, Up, Down, Data
    <3> QED BY <2>5, <3>1, LineUser DEF Publish
  <2> QED BY <1>5, <2>1, <2>2, <2>3, <2>4, <2>5, MqttConstants DEF UserStep
<1>6. CASE UNCHANGED vars
  BY <1>1, <1>6 DEF vars
<1> QED BY <1>2, <1>3, <1>4, <1>5, <1>6 DEF Next

LEMMA InitLink == Init => LinkInv
BY DEF Init, Fsm!Init, LinkInv, LinkLine, Agrees, Alternates, Prepared, Still, InLine,
       Decided

LEMMA NextLink ==
    LinkInv /\ StartedInv /\ QueuedInv /\ TaskProofs!Inv /\ [Next]_vars => LinkInv'
<1> SUFFICES ASSUME LinkInv, StartedInv, QueuedInv, TaskProofs!Inv, [Next]_vars, ~dropped'
             PROVE  LinkLine(InLine', Decided', link')
  BY DEF LinkInv
<1>1. InLine \in Seq(Events) /\ Decided \in States
  BY InLineType, DecidedType
<1>2. CASE LineKept
  BY <1>2 DEF LineKept, LinkInv
<1>3. CASE LineHandled
  <2>1. LinkLine(InLine, Decided, link)
    BY <1>3 DEF LineHandled, LinkInv
  <2>2. LinkLine(InLine', Decided', link)
    BY <1>1, <1>3, <2>1, LinkLineHandled DEF LineHandled
  <2> QED BY <1>3, <2>2, LinkLineWaits DEF LineHandled
<1>4. CASE LineJoined
  <2>1. LinkLine(InLine, Decided, link)
    BY <1>4 DEF LineJoined, LinkInv
  <2> QED BY <1>1, <1>4, <2>1, LinkLineSend DEF LineJoined, Tells
<1>5. ASSUME NEW n \in Reportable, LineReported(n)
      PROVE  LinkLine(InLine', Decided', link')
  <2>1. Event(n) \in Events
    BY EventsSent DEF Reportable
  <2>2. LinkLine(InLine, Decided, link)
    BY <1>5 DEF LineReported, LinkInv
  <2> QED BY <1>1, <1>5, <2>1, <2>2, LinkLineSend DEF LineReported
<1> QED BY <1>2, <1>3, <1>4, <1>5, LineSteps

LEMMA StartedInvar == Spec => []StartedInv
BY InitStarted, NextStarted, FsmInvariance, PTL DEF Spec

LEMMA LinkInvariance == Spec => []LinkInv
BY InitLink, NextLink, StartedInvar, QueuedInvariance, FsmInvariance, PTL DEF Spec

(* When every report has been handled the line is empty, and the machine   *)
(* says connected exactly when the link is up.                             *)
LEMMA QuietLine ==
    ASSUME Quiescent
    PROVE  InLine = <<>> /\ Decided = m_states
BY DEF Quiescent, InLine, Decided

(* For any order of errors, disconnects and reconnects, any length of the  *)
(* queue and any number of users: once all reports have been handled, and  *)
(* none was lost, the machine says connected exactly when the link is up.  *)
THEOREM FollowsLink == Spec => []FsmFollowsLink
<1>1. LinkInv => FsmFollowsLink
  BY QuietLine DEF LinkInv, LinkLine, Agrees, FsmFollowsLink
<1> QED BY <1>1, LinkInvariance, PTL

-----------------------------------------------------------------------------
(* Who writes what, for the invariants about the client's own members.     *)

(* The handlers and the loop that subscribes them.                         *)
HandlersWritten ==
    \/ UNCHANGED <<m_handlers, index, overtaken>>
    \/ ChangeState
    \/ reSubscribe
    \/ \E u \in Users : OnCheck(u) \/ OnSubscribe(u) \/ OnPush(u)

(* The buffer that topics are built in.                                    *)
BufferWritten ==
    \/ UNCHANGED buffer
    \/ PublishTopic
    \/ \E u \in Registrars, t \in Topics : OnCall(u, t)
    \/ \E u \in Users : OnConstruct(u)

(* The users' locals.                                                      *)
CallsWritten ==
    \/ UNCHANGED <<call, connects>>
    \/ \E u \in Registrars, t \in Topics : OnCall(u, t)
    \/ \E u \in Users : TryConnectCall(u) \/ CallStep(u)

(* The incoming message, its place in mqttEventHandler and the mutex.      *)
MessageWritten ==
    \/ UNCHANGED <<m_topic, sent, m_dataMutex, handling>>
    \/ \E t \in Topics, m \in Messages : DataTopic(t, m)
    \/ DataPayload
    \/ DataNotify

(* The payload's buffer, which Publish uses as well, and what is handed    *)
(* to the callbacks.                                                       *)
PayloadWritten ==
    \/ UNCHANGED m_payload
    \/ PublishClear \/ PublishPrint \/ PublishTooLong
    \/ \E t \in Topics, m \in Messages : DataTopic(t, m)
    \/ DataPayload

DeliveredWritten == UNCHANGED delivered \/ handleData

(* What is asked to be published, and what is.                             *)
PublishingWritten ==
    /\ UNCHANGED requested
          \/ \E u \in Users, t \in Topics, p \in Payloads : Publish(u, t, p)
    /\ UNCHANGED published \/ PublishSend
    /\ \/ UNCHANGED visit
       \/ PublishClear \/ PublishPrint \/ PublishTopic \/ PublishSend \/ PublishTooLong

(* The client, its link and the broker's session.                          *)
SessionWritten ==
    \/ UNCHANGED <<m_client, link, subscribed, acks, flaps, dropped>>
    \/ \E c \in {"null", "created", "registered", "started"} : connect(c)
    \/ reSubscribe
    \/ \E u \in Users : OnSubscribe(u)
    \/ EspBeforeConnect \/ EspConnected \/ EspError \/ EspDisconnected \/ EspSubscribed
    \/ DataNotify

LEMMA Writers ==
    ASSUME [Next]_vars
    PROVE  /\ HandlersWritten /\ BufferWritten /\ CallsWritten
           /\ MessageWritten /\ PayloadWritten /\ DeliveredWritten /\ SessionWritten
           /\ PublishingWritten
<1> DEFINE All == /\ HandlersWritten /\ BufferWritten /\ CallsWritten
                  /\ MessageWritten /\ PayloadWritten /\ DeliveredWritten
                  /\ SessionWritten /\ PublishingWritten
<1> USE DEF HandlersWritten, BufferWritten, CallsWritten, MessageWritten, PayloadWritten,
            DeliveredWritten, SessionWritten, PublishingWritten, fsmVars, dataVars,
            linkVars, espVars, onVars, pubVars, userVars
<1>1. CASE InitStep
  BY <1>1 DEF InitStep
<1>2. CASE TaskStep
  <2>1. CASE BaseStep
    BY <2>1 DEF BaseStep
  <2>2. CASE ChangeState
    BY <2>2 DEF ChangeState
  <2>3. ASSUME NEW c \in {"null", "created", "registered", "started"}, connect(c)
        PROVE  All
    <3>1. UNCHANGED <<dataVars, espVars, onVars, pubVars, userVars, buffer>>
      BY <2>3 DEF connect
    <3>2. SessionWritten
      BY <2>3
    <3> QED BY <3>1, <3>2
  <2>4. CASE reSubscribe
    BY <2>4 DEF reSubscribe
  <2>5. CASE reSubscribeEnd
    BY <2>5 DEF reSubscribeEnd
  <2>6. CASE PublishClear \/ PublishPrint
    BY <2>6 DEF PublishClear, PublishPrint
  <2>7. CASE PublishTopic
    BY <2>7 DEF PublishTopic
  <2>8. CASE PublishSend
    BY <2>8 DEF PublishSend
  <2>9. CASE PublishTooLong
    BY <2>9 DEF PublishTooLong
  <2>10. CASE handleData
    BY <2>10 DEF handleData
  <2> QED BY <1>2, <2>1, <2>2, <2>3, <2>4, <2>5, <2>6, <2>7, <2>8, <2>9, <2>10 DEF TaskStep
<1>3. CASE EspStep
  <2>1. CASE EspBeforeConnect \/ EspConnected \/ EspError \/ EspDisconnected
             \/ EspSubscribed
    <3>1. UNCHANGED <<dataVars, onVars, pubVars, userVars, buffer, handling>>
      BY <2>1 DEF EspBeforeConnect, EspConnected, EspError, EspDisconnected, EspSubscribed,
                  Report
    <3> QED BY <2>1, <3>1
  <2>2. CASE DataNotify
    BY <2>2 DEF DataNotify, Report
  <2>3. ASSUME NEW t \in Topics, NEW m \in Messages, DataTopic(t, m) PROVE All
    BY <2>3 DEF DataTopic
  <2>4. CASE DataPayload
    BY <2>4 DEF DataPayload
  <2> QED BY <1>3, <2>1, <2>2, <2>3, <2>4 DEF EspStep
<1>4. CASE UserStep
  <2>1. ASSUME NEW u \in Registrars, NEW t \in Topics, OnCall(u, t) PROVE All
    BY <2>1 DEF OnCall
  <2>2. ASSUME NEW u \in Users, TryConnectCall(u) PROVE All
    BY <2>2 DEF TryConnectCall
  <2>3. ASSUME NEW u \in Users, CallStep(u) PROVE All
    <3>1. UNCHANGED <<dataVars, espVars, pubVars, m_client, link, flaps>>
      BY <2>3 DEF CallStep, OnCopy, OnCheck, OnConstruct, OnSubscribe, OnSubscribeAsserts,
            OnPush, TryConnectReadConnected, TryConnectSend
    <3>2. HandlersWritten
      BY <2>3 DEF CallStep, OnCopy, OnConstruct, OnSubscribeAsserts,
            TryConnectReadConnected, TryConnectSend
    <3>3. BufferWritten
      BY <2>3 DEF CallStep, OnCopy, OnCheck, OnSubscribe, OnSubscribeAsserts, OnPush,
            TryConnectReadConnected, TryConnectSend
    <3>4. SessionWritten
      BY <2>3 DEF CallStep, OnCopy, OnCheck, OnConstruct, OnSubscribeAsserts, OnPush,
            TryConnectReadConnected, TryConnectSend
    <3> QED BY <2>3, <3>1, <3>2, <3>3, <3>4
  <2>4. ASSUME NEW u \in Users, NEW t \in Topics, NEW p \in Payloads, Publish(u, t, p)
        PROVE  All
    BY <2>4 DEF Publish
  <2> QED BY <1>4, <2>1, <2>2, <2>3, <2>4 DEF UserStep
<1>5. CASE UNCHANGED vars
  BY <1>5 DEF vars
<1> QED BY <1>1, <1>2, <1>3, <1>4, <1>5 DEF Next

(* A lost report is not forgotten.                                         *)
LEMMA DroppedStays ==
    ASSUME [Next]_vars, dropped
    PROVE  dropped'
<1>1. ASSUME NEW n, Report(n) PROVE dropped'
  BY <1>1 DEF Report
<1>2. CASE EspBeforeConnect \/ EspConnected \/ EspError \/ EspDisconnected
           \/ EspSubscribed \/ DataNotify
  BY <1>1, <1>2 DEF EspBeforeConnect, EspConnected, EspError, EspDisconnected,
                    EspSubscribed, DataNotify
<1>3. CASE reSubscribe \/ \E u \in Users : OnSubscribe(u)
  BY <1>3 DEF reSubscribe, OnSubscribe, espVars
<1>4. ASSUME NEW c \in {"null", "created", "registered", "started"}, connect(c)
      PROVE  dropped'
  BY <1>4 DEF connect, espVars
<1> QED BY <1>2, <1>3, <1>4, Writers DEF SessionWritten
-----------------------------------------------------------------------------
(* Types.                                                                  *)

Places == {"idle", "read_connected", "send_connect", "copy", "check", "construct",
           "subscribe", "call", "push", "capacity_assert", "subscribe_assert"}
CallLocals == [at : Places, topic : Topics \cup {Empty}, saved : Topics \cup {Empty},
               isSubscribed : BOOLEAN]
Handlers == [topic : Topics, isSubscribed : BOOLEAN, late : BOOLEAN]

\* Inside On, before and after the topic is copied, and before push_back.
CopiedOn == {"check", "construct", "subscribe", "call", "push", "subscribe_assert"}
InOn     == {"copy"} \cup CopiedOn
Pushing  == {"copy", "check", "construct", "subscribe", "call", "push"}

(* A handler's topic is one: On has written it to the buffer before it     *)
(* copies it, whoever else writes there.                                   *)
OnTypes ==
    /\ m_handlers \in Seq(Handlers)
    /\ index \in 1..(Len(m_handlers) + 1)
    /\ overtaken \in BOOLEAN
    /\ buffer \in Topics \cup {Empty}
    /\ call \in [Users -> CallLocals]
    /\ \A u \in Users : call[u].at \in InOn =>
          /\ u \in Registrars /\ buffer \in Topics /\ call[u].topic \in Topics
          /\ call[u].at \in CopiedOn => call[u].saved \in Topics

(* With one registrar the assertion on the capacity protects push_back.    *)
OneRegistrar == \A u, v \in Registrars : u = v

CapacityInv ==
    /\ Len(m_handlers) <= Capacity
    /\ \A u \in Registrars : call[u].at \in Pushing => Len(m_handlers) < Capacity

SentMessages == [topic : Topics, payload : Messages, expected : BOOLEAN]
Last == sent[Len(sent)]

(* mqttEventHandler's copies: the topic is that of the last message, and   *)
(* the mutex is held from there until the payload has been copied.         *)
MessageTypes ==
    /\ m_payload \in Payloads \cup Messages \cup {Empty, Mixed}
    /\ handling \in {"none", "payload", "notify"}
    /\ m_dataMutex = IF handling = "payload" THEN Esp ELSE "free"
    /\ sent \in Seq(SentMessages)
    /\ m_topic = IF sent = <<>> THEN Empty ELSE Last.topic
    /\ handling # "none" => sent # <<>> /\ link = "up"

SessionTypes ==
    /\ m_client \in {"null", "created", "registered", "started"}
    /\ link \in {"idle", "waiting", "trying", "failing", "up"}
    /\ subscribed \subseteq Topics
    /\ acks \in Nat
    /\ connects \in 0..MaxConnects
    /\ flaps \in 0..MaxFlaps
    /\ dropped \in BOOLEAN

(* Records with Boolean fields, for any set of such.                       *)
LEMMA CallRecords ==
    ASSUME NEW A, NEW T, NEW B
    PROVE  LET R == [at : A, topic : T, saved : T, isSubscribed : B] IN
           /\ \A a \in A, t \in T, s \in T, b \in B :
                 [at |-> a, topic |-> t, saved |-> s, isSubscribed |-> b] \in R
           /\ \A c \in R, a \in A :
                 /\ [c EXCEPT !.at = a] \in R
                 /\ [c EXCEPT !.at = a].at = a
                 /\ [c EXCEPT !.at = a].topic = c.topic
                 /\ [c EXCEPT !.at = a].saved = c.saved
                 /\ [c EXCEPT !.at = a].isSubscribed = c.isSubscribed
           /\ \A c \in R, a \in A, t \in T :
                 /\ [c EXCEPT !.at = a, !.saved = t] \in R
                 /\ [c EXCEPT !.at = a, !.saved = t].at = a
                 /\ [c EXCEPT !.at = a, !.saved = t].topic = c.topic
                 /\ [c EXCEPT !.at = a, !.saved = t].saved = t
           /\ \A c \in R, a \in A, t \in T :
                 /\ [c EXCEPT !.at = a, !.topic = t] \in R
                 /\ [c EXCEPT !.at = a, !.topic = t].at = a
                 /\ [c EXCEPT !.at = a, !.topic = t].topic = t
           /\ \A c \in R, a \in A, b \in B :
                 /\ [c EXCEPT !.at = a, !.isSubscribed = b] \in R
                 /\ [c EXCEPT !.at = a, !.isSubscribed = b].at = a
                 /\ [c EXCEPT !.at = a, !.isSubscribed = b].topic = c.topic
                 /\ [c EXCEPT !.at = a, !.isSubscribed = b].saved = c.saved
                 /\ [c EXCEPT !.at = a, !.isSubscribed = b].isSubscribed = b
OBVIOUS

LEMMA HandlerRecord ==
    ASSUME NEW T, NEW B, NEW t \in T, NEW b \in B, NEW l \in B
    PROVE  [topic |-> t, isSubscribed |-> b, late |-> l]
              \in [topic : T, isSubscribed : B, late : B]
OBVIOUS

LEMMA ElementType ==
    ASSUME NEW S, NEW q \in Seq(S), NEW i \in 1..Len(q)
    PROVE  q[i] \in S
OBVIOUS

LEMMA HandlerFlag ==
    ASSUME NEW T, NEW B, NEW h \in [topic : T, isSubscribed : B, late : B], NEW b \in B
    PROVE  /\ [h EXCEPT !.isSubscribed = b] \in [topic : T, isSubscribed : B, late : B]
           /\ [h EXCEPT !.isSubscribed = b].isSubscribed = b
           /\ [h EXCEPT !.isSubscribed = b].topic = h.topic
           /\ [h EXCEPT !.isSubscribed = b].late = h.late
OBVIOUS

(* The flag of one handler is set.                                         *)
LEMMA HandlersFlag ==
    ASSUME NEW q \in Seq(Handlers), NEW i \in 1..Len(q), NEW b \in BOOLEAN,
           NEW q2, q2 = [q EXCEPT ![i].isSubscribed = b]
    PROVE  /\ q2 \in Seq(Handlers) /\ Len(q2) = Len(q)
           /\ q2[i].isSubscribed = b
           /\ \A k \in 1..Len(q) : q2[k].topic = q[k].topic /\ q2[k].late = q[k].late
           /\ \A k \in 1..Len(q) : k # i => q2[k] = q[k]
<1> DEFINE x == [q[i] EXCEPT !.isSubscribed = b]
<1>1. q[i] \in Handlers
  BY ElementType
<1>2. x \in Handlers /\ x.isSubscribed = b /\ x.topic = q[i].topic /\ x.late = q[i].late
  BY <1>1, HandlerFlag, Zenon DEF Handlers
<1>3. q2 = [q EXCEPT ![i] = x]
  OBVIOUS
<1> HIDE DEF x
<1>4. q2 \in Seq(Handlers) /\ Len(q2) = Len(q) /\ q2[i] = x
      /\ \A k \in 1..Len(q) : k # i => q2[k] = q[k]
  BY <1>2, <1>3
<1>5. \A k \in 1..Len(q) : q2[k].topic = q[k].topic /\ q2[k].late = q[k].late
  BY <1>2, <1>4
<1>6. q2[i].isSubscribed = b
  BY <1>2, <1>4
<1> QED BY <1>4, <1>5, <1>6

LEMMA HandlerFields ==
    ASSUME NEW T, NEW B, NEW h \in [topic : T, isSubscribed : B, late : B]
    PROVE  h.topic \in T /\ h.isSubscribed \in B /\ h.late \in B
OBVIOUS

LEMMA HandlerTopic ==
    ASSUME NEW q \in Seq(Handlers), NEW i \in 1..Len(q)
    PROVE  q[i].topic \in Topics
<1>1. q[i] \in Handlers
  BY ElementType
<1> QED BY <1>1, HandlerFields, Zenon DEF Handlers

(* The types hold at first.                                               *)
LEMMA InitTypes ==
    Init => OnTypes /\ CapacityInv /\ MessageTypes /\ SessionTypes
<1> SUFFICES ASSUME Init PROVE OnTypes /\ CapacityInv /\ MessageTypes /\ SessionTypes
  OBVIOUS
<1>1. "idle" \in Places /\ Empty \in Topics \cup {Empty} /\ FALSE \in BOOLEAN
  BY DEF Places
<1>2. Idle \in CallLocals
  BY <1>1, CallRecords, Zenon DEF Idle, CallLocals
<1>3. OnTypes
  <2>1. call = [u \in Users |-> Idle] /\ m_handlers = <<>> /\ index = 1
        /\ overtaken = FALSE /\ buffer = Empty
    BY DEF Init
  <2>2. overtaken \in BOOLEAN
    BY <2>1
  <2>3. \A u \in Users : call[u].at = "idle"
    BY <2>1 DEF Idle
  <2> QED BY <1>2, <2>1, <2>2, <2>3 DEF OnTypes, InOn, CopiedOn
<1>4. CapacityInv
  BY MqttConstants DEF Init, CapacityInv, Idle, Pushing
<1>5. MessageTypes
  BY DEF Init, MessageTypes
<1>6. SessionTypes
  <2>1. dropped \in BOOLEAN
    BY DEF Init
  <2> QED BY <2>1, MqttConstants DEF Init, SessionTypes
<1> QED BY <1>3, <1>4, <1>5, <1>6

(* A step of one user leaves the others where they are.                    *)
LEMMA OneCall ==
    ASSUME call \in [Users -> CallLocals], NEW u \in Users, NEW c \in CallLocals,
           call' = [call EXCEPT ![u] = c]
    PROVE  /\ call' \in [Users -> CallLocals]
           /\ call'[u] = c
           /\ \A v \in Users : v # u => call'[v] = call[v]
OBVIOUS

(* A user goes on inside its call.                                         *)
LEMMA GotoCall ==
    ASSUME call \in [Users -> CallLocals], NEW u \in Users, NEW at \in Places, Goto(u, at)
    PROVE  /\ call' \in [Users -> CallLocals]
           /\ call'[u].at = at
           /\ call'[u].topic = call[u].topic
           /\ call'[u].saved = call[u].saved
           /\ call'[u].isSubscribed = call[u].isSubscribed
           /\ \A v \in Users : v # u => call'[v] = call[v]
<1>1. call[u] \in CallLocals
  OBVIOUS
<1>2. /\ [call[u] EXCEPT !.at = at] \in CallLocals
      /\ [call[u] EXCEPT !.at = at].at = at
      /\ [call[u] EXCEPT !.at = at].topic = call[u].topic
      /\ [call[u] EXCEPT !.at = at].saved = call[u].saved
      /\ [call[u] EXCEPT !.at = at].isSubscribed = call[u].isSubscribed
  BY <1>1, CallRecords, Zenon DEF CallLocals
<1>3. call' = [call EXCEPT ![u] = [call[u] EXCEPT !.at = at]]
  BY DEF Goto
<1> DEFINE c == [call[u] EXCEPT !.at = at]
<1> HIDE DEF c
<1>4. /\ call' \in [Users -> CallLocals] /\ call'[u] = c
      /\ \A v \in Users : v # u => call'[v] = call[v]
  BY <1>2, <1>3, OneCall DEF c
<1> QED BY <1>2, <1>4 DEF c

(* The steps of a call of On, by where they go and what they write.        *)
LEMMA OnSteps ==
    ASSUME OnTypes, NEW u \in Users
    PROVE  /\ \A t \in Topics : OnCall(u, t) =>
                 /\ call' \in [Users -> CallLocals]
                 /\ \/ /\ Len(m_handlers) # Capacity
                       /\ call'[u].at = "copy" /\ call'[u].topic = t /\ buffer' = t
                    \/ call'[u].at = "capacity_assert" /\ UNCHANGED buffer
           /\ OnCopy(u) =>
                 /\ call' \in [Users -> CallLocals]
                 /\ call'[u].at = "check" /\ call'[u].topic = call[u].topic
                 /\ call'[u].saved = buffer
           /\ OnSubscribe(u) =>
                 /\ call' \in [Users -> CallLocals]
                 /\ call'[u].at = "push"
                 /\ call'[u].topic = call[u].topic /\ call'[u].saved = call[u].saved
                 /\ EspSubscribe(buffer, call'[u].isSubscribed)
           /\ OnPush(u) =>
                 /\ call' \in [Users -> CallLocals]
                 /\ call'[u].at = "idle"
           /\ ((\E t \in Topics : OnCall(u, t)) \/ OnCopy(u) \/ OnSubscribe(u) \/ OnPush(u))
                 => \A v \in Users : v # u => call'[v] = call[v]
<1> USE DEF OnTypes
<1>1. call[u] \in CallLocals
  OBVIOUS
<1>2. "idle" \in Places /\ "copy" \in Places /\ "check" \in Places /\ "push" \in Places
      /\ "capacity_assert" \in Places
      /\ Empty \in Topics \cup {Empty} /\ FALSE \in BOOLEAN
  BY DEF Places
<1>3. Idle \in CallLocals
  BY <1>2, CallRecords, Zenon DEF Idle, CallLocals
<1>4. ASSUME NEW t \in Topics, OnCall(u, t)
      PROVE  /\ call' \in [Users -> CallLocals]
             /\ \/ /\ Len(m_handlers) # Capacity
                   /\ call'[u].at = "copy" /\ call'[u].topic = t /\ buffer' = t
                \/ call'[u].at = "capacity_assert" /\ UNCHANGED buffer
             /\ \A v \in Users : v # u => call'[v] = call[v]
  <2>1. CASE Len(m_handlers) # Capacity
    <3> DEFINE c == [Idle EXCEPT !.at = "copy", !.topic = t]
    <3>1. t \in Topics \cup {Empty}
      OBVIOUS
    <3>2. c \in CallLocals /\ c.at = "copy" /\ c.topic = t
      BY <1>2, <1>3, <3>1, CallRecords, Zenon DEF CallLocals
    <3>3. call' = [call EXCEPT ![u] = c] /\ buffer' = t
      BY <1>4, <2>1 DEF OnCall
    <3> HIDE DEF c
    <3> QED BY <2>1, <3>2, <3>3, OneCall
  <2>2. CASE Len(m_handlers) = Capacity
    <3>1. Goto(u, "capacity_assert") /\ UNCHANGED buffer
      BY <1>4, <2>2 DEF OnCall
    <3> QED BY <1>2, <3>1, GotoCall
  <2> QED BY <2>1, <2>2
<1>5. ASSUME OnCopy(u)
      PROVE  /\ call' \in [Users -> CallLocals]
             /\ call'[u].at = "check" /\ call'[u].topic = call[u].topic
             /\ call'[u].saved = buffer
             /\ \A v \in Users : v # u => call'[v] = call[v]
  <2> DEFINE c == [call[u] EXCEPT !.at = "check", !.saved = buffer]
  <2>1. c \in CallLocals /\ c.at = "check" /\ c.topic = call[u].topic /\ c.saved = buffer
    BY <1>1, <1>2, CallRecords, Zenon DEF CallLocals
  <2>2. call' = [call EXCEPT ![u] = c]
    BY <1>5 DEF OnCopy
  <2> HIDE DEF c
  <2> QED BY <2>1, <2>2, OneCall
<1>6. ASSUME OnSubscribe(u)
      PROVE  /\ call' \in [Users -> CallLocals]
             /\ call'[u].at = "push"
             /\ call'[u].topic = call[u].topic /\ call'[u].saved = call[u].saved
             /\ EspSubscribe(buffer, call'[u].isSubscribed)
             /\ \A v \in Users : v # u => call'[v] = call[v]
  <2>1. PICK ok \in BOOLEAN :
           /\ EspSubscribe(buffer, ok)
           /\ call' = [call EXCEPT ![u].at = "push", ![u].isSubscribed = ok]
    BY <1>6 DEF OnSubscribe
  <2> DEFINE c == [call[u] EXCEPT !.at = "push", !.isSubscribed = ok]
  <2>2. c \in CallLocals /\ c.at = "push" /\ c.topic = call[u].topic
        /\ c.saved = call[u].saved /\ c.isSubscribed = ok
    BY <1>1, <1>2, <2>1, CallRecords, Zenon DEF CallLocals
  <2>3. call' = [call EXCEPT ![u] = c]
    BY <2>1
  <2> HIDE DEF c
  <2>4. /\ call' \in [Users -> CallLocals] /\ call'[u] = c
        /\ \A v \in Users : v # u => call'[v] = call[v]
    BY <2>2, <2>3, OneCall
  <2> QED BY <2>1, <2>2, <2>4
<1>7. ASSUME OnPush(u)
      PROVE  /\ call' \in [Users -> CallLocals]
             /\ call'[u].at = "idle"
             /\ \A v \in Users : v # u => call'[v] = call[v]
  <2>1. call' = [call EXCEPT ![u] = Idle]
    BY <1>7 DEF OnPush
  <2> QED BY <1>3, <2>1, OneCall DEF Idle
<1> QED BY <1>4, <1>5, <1>6, <1>7

(* The other steps of a user's call.                                       *)
LEMMA GotoSteps ==
    ASSUME NEW u \in Users,
           \/ TryConnectCall(u) \/ TryConnectReadConnected(u) \/ TryConnectSend(u)
           \/ OnCheck(u) \/ OnConstruct(u) \/ OnSubscribeAsserts(u)
    PROVE  \E at \in Places :
              /\ Goto(u, at)
              /\ at \in InOn => call[u].at \in CopiedOn /\ at \in CopiedOn
              /\ at \in Pushing => call[u].at \in Pushing
              /\ at = "subscribe" => OnConstruct(u)
              /\ at = "push" => OnCheck(u) /\ m_states # "STATE_CONNECTED"
BY DEF TryConnectCall, TryConnectReadConnected, TryConnectSend, OnCheck, OnConstruct,
       OnSubscribeAsserts, Places, InOn, CopiedOn, Pushing

LEMMA NextOnTypes ==
    OnTypes /\ QueuedInv /\ TaskProofs!Inv /\ [Next]_vars => OnTypes'
<1> SUFFICES ASSUME OnTypes, QueuedInv, TaskProofs!Inv, [Next]_vars PROVE OnTypes'
  OBVIOUS
<1>1. /\ m_handlers' \in Seq(Handlers)
      /\ index' \in 1..(Len(m_handlers') + 1)
      /\ overtaken' \in BOOLEAN
  <2>1. CASE UNCHANGED <<m_handlers, index, overtaken>>
    BY <2>1 DEF OnTypes
  <2>2. CASE ChangeState
    <3>1. overtaken' \in BOOLEAN
      BY <2>2 DEF ChangeState
    <3> QED BY <2>2, <3>1 DEF ChangeState, OnTypes
  <2>3. CASE reSubscribe
    <3>1. PICK ok \in BOOLEAN : m_handlers' = [m_handlers EXCEPT ![index].isSubscribed = ok]
      BY <2>3 DEF reSubscribe
    <3>2. index \in 1..Len(m_handlers)
      BY <2>3 DEF reSubscribe, OnTypes
    <3>3. m_handlers' \in Seq(Handlers) /\ Len(m_handlers') = Len(m_handlers)
      BY <3>1, <3>2, HandlersFlag DEF OnTypes
    <3>4. index' = index + 1 /\ UNCHANGED overtaken
      BY <2>3 DEF reSubscribe
    <3> QED BY <3>2, <3>3, <3>4 DEF OnTypes
  <2>4. ASSUME NEW u \in Users, OnCheck(u)
        PROVE  /\ m_handlers' \in Seq(Handlers)
               /\ index' \in 1..(Len(m_handlers') + 1)
               /\ overtaken' \in BOOLEAN
    <3>1. overtaken' \in BOOLEAN
      BY <2>4 DEF OnCheck
    <3> QED BY <2>4, <3>1 DEF OnCheck, OnTypes
  <2>6. ASSUME NEW u \in Users, OnSubscribe(u)
        PROVE  /\ m_handlers' \in Seq(Handlers)
               /\ index' \in 1..(Len(m_handlers') + 1)
               /\ overtaken' \in BOOLEAN
    <3>1. overtaken' \in BOOLEAN
      BY <2>6 DEF OnSubscribe
    <3> QED BY <2>6, <3>1 DEF OnSubscribe, OnTypes
  <2>5. ASSUME NEW u \in Users, OnPush(u)
        PROVE  /\ m_handlers' \in Seq(Handlers)
               /\ index' \in 1..(Len(m_handlers') + 1)
               /\ overtaken' \in BOOLEAN
    <3>1. call[u] \in CallLocals /\ call[u].at = "push"
      BY <2>5 DEF OnPush, OnTypes
    <3>2. call[u].saved \in Topics
      BY <3>1 DEF OnTypes, InOn, CopiedOn
    <3>3. call[u].isSubscribed \in BOOLEAN
      BY <3>1, Zenon DEF CallLocals
    <3> DEFINE late == overtaken \/ call[u].saved # call[u].topic
               h == [topic |-> call[u].saved, isSubscribed |-> call[u].isSubscribed,
                     late |-> late]
    <3>4. late \in BOOLEAN
      OBVIOUS
    <3>5. m_handlers' = Append(m_handlers, h)
      BY <2>5 DEF OnPush
    <3> HIDE DEF late
    <3>6. h \in Handlers
      BY <3>2, <3>3, <3>4, HandlerRecord, Zenon DEF Handlers
    <3> HIDE DEF h
    <3>7. m_handlers' \in Seq(Handlers) /\ Len(m_handlers') = Len(m_handlers) + 1
      BY <3>5, <3>6 DEF OnTypes
    <3>8. UNCHANGED <<index, overtaken>>
      BY <2>5 DEF OnPush
    <3> QED BY <3>7, <3>8 DEF OnTypes
  <2> QED BY <2>1, <2>2, <2>3, <2>4, <2>5, <2>6, Writers DEF HandlersWritten
<1>2. buffer' \in Topics \cup {Empty} /\ (buffer \in Topics => buffer' \in Topics)
  <2>1. CASE PublishTopic
    <3>1. m_events \in Events /\ m_events.name = "EVENT_PUBLISH"
      BY <2>1, MachineFacts DEF PublishTopic, QueuedInv, Visiting
    <3> QED BY <2>1, <3>1, EventShape DEF PublishTopic
  <2>2. ASSUME NEW u \in Registrars, NEW t \in Topics, OnCall(u, t)
        PROVE  buffer' \in {buffer, t}
    BY <2>2 DEF OnCall
  <2>3. ASSUME NEW u \in Users, OnConstruct(u) PROVE buffer' \in Topics
    BY <2>3 DEF OnConstruct, OnTypes, InOn, CopiedOn
  <2> QED BY <2>1, <2>2, <2>3, Writers DEF BufferWritten, OnTypes
<1> DEFINE Fine(c) == c.at \in InOn =>
              /\ buffer' \in Topics /\ c.topic \in Topics
              /\ c.at \in CopiedOn => c.saved \in Topics
<1>3. \A v \in Users : Fine(call[v]) /\ (call[v].at \in InOn => v \in Registrars)
  BY <1>2 DEF OnTypes
<1>4. /\ call' \in [Users -> CallLocals]
      /\ \A v \in Users : Fine(call'[v]) /\ (call'[v].at \in InOn => v \in Registrars)
  <2>1. CASE UNCHANGED call
    BY <1>3, <2>1 DEF OnTypes
  <2>2. ASSUME NEW u \in Registrars, NEW t \in Topics, OnCall(u, t)
        PROVE  /\ call' \in [Users -> CallLocals]
               /\ \A v \in Users : Fine(call'[v]) /\ (call'[v].at \in InOn => v \in Registrars)
    <3>1. u \in Users
      BY MqttConstants
    <3>2. /\ call' \in [Users -> CallLocals]
          /\ Fine(call'[u])
          /\ \A v \in Users : v # u => call'[v] = call[v]
      BY <2>2, <3>1, OnSteps DEF InOn, CopiedOn
    <3> QED BY <1>3, <3>2
  <2>3. ASSUME NEW u \in Users, OnCopy(u) \/ OnSubscribe(u) \/ OnPush(u)
        PROVE  /\ call' \in [Users -> CallLocals]
               /\ \A v \in Users : Fine(call'[v]) /\ (call'[v].at \in InOn => v \in Registrars)
    <3>1. call[u].at \in InOn \/ OnPush(u)
      BY <2>3 DEF OnCopy, OnSubscribe, InOn, CopiedOn
    <3>2. /\ call' \in [Users -> CallLocals]
          /\ Fine(call'[u])
          /\ \A v \in Users : v # u => call'[v] = call[v]
      <4>1. CASE OnCopy(u)
        <5>1. buffer \in Topics /\ call[u].topic \in Topics /\ UNCHANGED buffer
          BY <4>1 DEF OnCopy, OnTypes, InOn
        <5> QED BY <4>1, <5>1, OnSteps
      <4>2. CASE OnSubscribe(u)
        <5>1. call[u].at = "call"
          BY <4>2 DEF OnSubscribe
        <5> QED BY <1>3, <4>2, <5>1, OnSteps DEF InOn, CopiedOn
      <4>3. CASE OnPush(u)
        BY <4>3, OnSteps DEF InOn, CopiedOn
      <4> QED BY <2>3, <4>1, <4>2, <4>3
    <3>3. call'[u].at \in InOn => u \in Registrars
      BY <1>3, <2>3, <3>1, OnSteps DEF InOn, CopiedOn
    <3> QED BY <1>3, <3>2, <3>3
  <2>4. ASSUME NEW u \in Users, NEW at \in Places, Goto(u, at),
               at \in InOn => call[u].at \in CopiedOn /\ at \in CopiedOn
        PROVE  /\ call' \in [Users -> CallLocals]
               /\ \A v \in Users : Fine(call'[v]) /\ (call'[v].at \in InOn => v \in Registrars)
    <3>1. /\ call' \in [Users -> CallLocals]
          /\ call'[u].at = at /\ call'[u].topic = call[u].topic
          /\ call'[u].saved = call[u].saved
          /\ \A v \in Users : v # u => call'[v] = call[v]
      BY <2>4, GotoCall DEF OnTypes
    <3>2. Fine(call'[u]) /\ (call'[u].at \in InOn => u \in Registrars)
      BY <1>3, <2>4, <3>1 DEF InOn
    <3> QED BY <1>3, <3>1, <3>2
  <2>5. ASSUME NEW u \in Users, TryConnectCall(u) \/ CallStep(u)
        PROVE  /\ call' \in [Users -> CallLocals]
               /\ \A v \in Users : Fine(call'[v]) /\ (call'[v].at \in InOn => v \in Registrars)
    BY <2>3, <2>4, <2>5, GotoSteps DEF CallStep
  <2> QED BY <2>1, <2>2, <2>5, Writers DEF CallsWritten
<1> QED BY <1>1, <1>2, <1>4 DEF OnTypes

LEMMA NextCapacity ==
    /\ OneRegistrar
    /\ CapacityInv /\ OnTypes /\ OnTypes' /\ [Next]_vars
    => CapacityInv'
<1> SUFFICES ASSUME OneRegistrar, CapacityInv, OnTypes, OnTypes', [Next]_vars
             PROVE  CapacityInv'
  OBVIOUS
<1>1. ASSUME Len(m_handlers') = Len(m_handlers),
             \A u \in Registrars : call'[u].at \in Pushing =>
                call[u].at \in Pushing \/ Len(m_handlers) < Capacity
      PROVE  CapacityInv'
  BY <1>1 DEF CapacityInv
<1>2. ASSUME NEW u \in Users, OnPush(u) PROVE CapacityInv'
  <2>1. u \in Registrars /\ call[u].at = "push"
    BY <1>2 DEF OnPush, OnTypes, InOn, CopiedOn
  <2>2. call'[u].at = "idle"
    BY <1>2, OnSteps
  <2>3. Len(m_handlers) < Capacity
    BY <2>1 DEF CapacityInv, Pushing
  <2>4. Len(m_handlers') = Len(m_handlers) + 1
    BY <1>2 DEF OnPush, OnTypes
  <2>5. \A v \in Registrars : v = u
    BY <2>1 DEF OneRegistrar
  <2>6. Len(m_handlers) \in Nat
    BY DEF OnTypes
  <2> QED BY <2>2, <2>3, <2>4, <2>5, <2>6, MqttConstants DEF CapacityInv, Pushing
<1>3. ASSUME \A u \in Users : ~OnPush(u) PROVE Len(m_handlers') = Len(m_handlers)
  <2>1. CASE reSubscribe
    <3>1. PICK ok \in BOOLEAN : m_handlers' = [m_handlers EXCEPT ![index].isSubscribed = ok]
      BY <2>1 DEF reSubscribe
    <3> QED BY <3>1 DEF OnTypes
  <2>2. CASE ChangeState \/ \E u \in Users : OnCheck(u) \/ OnSubscribe(u)
    BY <2>2 DEF ChangeState, OnCheck, OnSubscribe
  <2> QED BY <1>3, <2>1, <2>2, Writers DEF HandlersWritten
<1>4. ASSUME \A u \in Users : ~OnPush(u),
             NEW u \in Registrars, call'[u].at \in Pushing
      PROVE  call[u].at \in Pushing \/ Len(m_handlers) < Capacity
  <2>1. CASE UNCHANGED call
    BY <1>4, <2>1
  <2>2. ASSUME NEW v \in Registrars, NEW t \in Topics, OnCall(v, t)
        PROVE  call[u].at \in Pushing \/ Len(m_handlers) < Capacity
    <3>1. v \in Users /\ u = v /\ Len(m_handlers) \in Nat
      BY MqttConstants DEF OneRegistrar, OnTypes
    <3>2. Len(m_handlers) # Capacity
      BY <1>4, <2>2, <3>1, OnSteps DEF Pushing
    <3> QED BY <3>1, <3>2, MqttConstants DEF CapacityInv
  <2>3. ASSUME NEW v \in Users, OnCopy(v) \/ OnSubscribe(v)
        PROVE  call[u].at \in Pushing
    <3>1. call[v].at \in Pushing
      BY <2>3 DEF OnCopy, OnSubscribe, Pushing
    <3>2. u # v => call'[u] = call[u]
      BY <2>3, OnSteps, MqttConstants
    <3> QED BY <1>4, <3>1, <3>2
  <2>4. ASSUME NEW v \in Users, NEW at \in Places, Goto(v, at),
               at \in Pushing => call[v].at \in Pushing
        PROVE  call[u].at \in Pushing
    <3>1. call'[v].at = at /\ (u # v => call'[u] = call[u])
      BY <2>4, GotoCall, MqttConstants DEF OnTypes
    <3> QED BY <1>4, <2>4, <3>1
  <2>5. ASSUME NEW v \in Users, TryConnectCall(v) \/ CallStep(v)
        PROVE  call[u].at \in Pushing
    BY <1>4, <2>3, <2>4, <2>5, GotoSteps DEF CallStep
  <2> QED BY <2>1, <2>2, <2>5, Writers DEF CallsWritten
<1> QED BY <1>1, <1>2, <1>3, <1>4

LEMMA MessageRecord ==
    ASSUME NEW T, NEW P, NEW B
    PROVE  /\ \A t \in T, p \in P, b \in B :
                 [topic |-> t, payload |-> p, expected |-> b]
                    \in [topic : T, payload : P, expected : B]
           /\ \A s \in [topic : T, payload : P, expected : B] :
                 s.topic \in T /\ s.payload \in P /\ s.expected \in B
OBVIOUS

LEMMA LastType ==
    ASSUME sent \in Seq(SentMessages), sent # <<>>
    PROVE  /\ Last \in SentMessages /\ Last.topic \in Topics /\ Last.payload \in Messages
           /\ Len(sent) \in 1..Len(sent)
<1>1. Len(sent) \in 1..Len(sent)
  OBVIOUS
<1>2. Last \in SentMessages
  BY <1>1, ElementType DEF Last
<1>3. Last.topic \in Topics /\ Last.payload \in Messages
  BY <1>2, MessageRecord, Zenon DEF SentMessages
<1> QED BY <1>1, <1>2, <1>3

(* The broker's next message.                                              *)
LEMMA DataTopicEffect ==
    ASSUME sent \in Seq(SentMessages), NEW t \in Topics, NEW m \in Messages, DataTopic(t, m)
    PROVE  /\ sent' \in Seq(SentMessages) /\ sent' # <<>>
           /\ Last'.topic = t /\ Last'.payload = m
           /\ Last'.expected = Handled(t)
           /\ Len(sent') = Len(sent) + 1 /\ Len(sent) \in Nat
           /\ \A j \in 1..Len(sent) : j \in 1..Len(sent') /\ sent'[j] = sent[j]
<1> DEFINE r == [topic |-> t, payload |-> m, expected |-> Handled(t)]
<1>1. Handled(t) \in BOOLEAN
  BY DEF Handled
<1>2. r \in SentMessages
  BY <1>1, MessageRecord, Zenon DEF SentMessages
<1>3. r.topic = t /\ r.payload = m /\ r.expected = Handled(t)
  OBVIOUS
<1>4. sent' = Append(sent, r)
  BY DEF DataTopic
<1> HIDE DEF r
<1>5. /\ sent' \in Seq(SentMessages) /\ sent' # <<>> /\ Last' = r
      /\ Len(sent') = Len(sent) + 1 /\ Len(sent) \in Nat
      /\ \A j \in 1..Len(sent) : j \in 1..Len(sent') /\ sent'[j] = sent[j]
  BY <1>2, <1>4, AppendIndices DEF Last
<1> QED BY <1>3, <1>5

(* While mqttEventHandler works the link does not change.                  *)
LEMMA LinkWhileHandling ==
    ASSUME [Next]_vars, StartedInv
    PROVE  UNCHANGED link \/ link = "idle" \/ handling' = "none"
<1> USE DEF linkVars
<1>1. ASSUME NEW c \in {"null", "created", "registered", "started"}, connect(c)
      PROVE  UNCHANGED link \/ link = "idle"
  BY <1>1 DEF connect, StartedInv
<1>2. CASE EspBeforeConnect \/ EspConnected \/ EspError \/ EspDisconnected
           \/ EspSubscribed \/ DataNotify
  BY <1>2 DEF EspBeforeConnect, EspConnected, EspError, EspDisconnected, EspSubscribed,
              DataNotify, Report
<1>3. CASE reSubscribe \/ \E u \in Users : OnSubscribe(u)
  BY <1>3 DEF reSubscribe, OnSubscribe
<1> QED BY <1>1, <1>2, <1>3, Writers DEF SessionWritten

LEMMA NextMessage ==
    MessageTypes /\ StartedInv /\ QueuedInv /\ TaskProofs!Inv /\ [Next]_vars
        => MessageTypes'
<1> SUFFICES ASSUME MessageTypes, StartedInv, QueuedInv, TaskProofs!Inv, [Next]_vars
             PROVE  MessageTypes'
  OBVIOUS
<1> USE DEF MessageTypes
<1>1. m_payload' \in Payloads \cup Messages \cup {Empty, Mixed}
  <2>1. CASE PublishPrint
    <3>1. m_events \in Events /\ Pub(m_events)
      BY <2>1, MachineFacts DEF PublishPrint, QueuedInv, Visiting, Pub
    <3> QED BY <2>1, <3>1, EventShape DEF PublishPrint, Pub
  <2>2. CASE \/ PublishClear \/ PublishTooLong
             \/ \E t \in Topics, m \in Messages : DataTopic(t, m)
    BY <2>2 DEF PublishClear, PublishTooLong, DataTopic
  <2>3. CASE DataPayload
    BY <2>3, LastType DEF DataPayload, Last
  <2> QED BY <2>1, <2>2, <2>3, Writers DEF PayloadWritten
<1>2. /\ handling' \in {"none", "payload", "notify"}
      /\ m_dataMutex' = IF handling' = "payload" THEN Esp ELSE "free"
      /\ sent' \in Seq(SentMessages)
      /\ m_topic' = IF sent' = <<>> THEN Empty ELSE Last'.topic
      /\ handling' # "none" => sent' # <<>>
  <2>1. CASE UNCHANGED <<m_topic, sent, m_dataMutex, handling>>
    BY <2>1 DEF Last
  <2>2. ASSUME NEW t \in Topics, NEW m \in Messages, DataTopic(t, m)
        PROVE  /\ handling' \in {"none", "payload", "notify"}
               /\ m_dataMutex' = IF handling' = "payload" THEN Esp ELSE "free"
               /\ sent' \in Seq(SentMessages)
               /\ m_topic' = IF sent' = <<>> THEN Empty ELSE Last'.topic
               /\ handling' # "none" => sent' # <<>>
    <3>1. sent' \in Seq(SentMessages) /\ sent' # <<>> /\ Last'.topic = t
      BY <2>2, DataTopicEffect
    <3> QED BY <2>2, <3>1 DEF DataTopic
  <2>3. CASE DataPayload
    BY <2>3 DEF DataPayload, Last
  <2>4. CASE DataNotify
    BY <2>4 DEF DataNotify, Report, dataVars, Last
  <2> QED BY <2>1, <2>2, <2>3, <2>4, Writers DEF MessageWritten
<1>3. handling' # "none" => link' = "up"
  <2> SUFFICES ASSUME handling' # "none" PROVE link' = "up"
    OBVIOUS
  <2>1. UNCHANGED link \/ link = "idle"
    BY LinkWhileHandling
  <2>2. link = "up"
    <3>1. CASE DataNotify
      BY <3>1 DEF DataNotify, Report
    <3>2. CASE DataPayload \/ \E t \in Topics, m \in Messages : DataTopic(t, m)
      BY <3>2 DEF DataPayload, DataTopic
    <3> QED BY <3>1, <3>2, Writers DEF MessageWritten
  <2> QED BY <2>1, <2>2
<1> QED BY <1>1, <1>2, <1>3

LEMMA NextSession ==
    SessionTypes /\ OnTypes /\ TaskProofs!Inv /\ [Next]_vars => SessionTypes'
<1> SUFFICES ASSUME SessionTypes, OnTypes, TaskProofs!Inv, [Next]_vars PROVE SessionTypes'
  OBVIOUS
<1> DEFINE Rest == /\ m_client \in {"null", "created", "registered", "started"}
                   /\ link \in {"idle", "waiting", "trying", "failing", "up"}
                   /\ subscribed \subseteq Topics
                   /\ acks \in Nat
                   /\ flaps \in 0..MaxFlaps
<1> USE DEF SessionTypes, linkVars
<1>1. connects' \in 0..MaxConnects
  <2>1. ASSUME NEW u \in Users, TryConnectCall(u) PROVE connects' \in 0..MaxConnects
    BY <2>1, MqttConstants DEF TryConnectCall
  <2>2. ASSUME NEW u \in Registrars, NEW t \in Topics, OnCall(u, t) PROVE UNCHANGED connects
    BY <2>2 DEF OnCall
  <2>3. ASSUME NEW u \in Users, CallStep(u) PROVE UNCHANGED connects
    BY <2>3 DEF CallStep, OnCopy, OnCheck, OnConstruct, OnSubscribe, OnSubscribeAsserts,
          OnPush, TryConnectReadConnected, TryConnectSend
  <2> QED BY <2>1, <2>2, <2>3, Writers DEF CallsWritten
<1>2. dropped' \in BOOLEAN
  <2>1. dropped \in BOOLEAN
    OBVIOUS
  <2>2. ASSUME NEW n, Report(n) PROVE dropped' \in BOOLEAN
    BY <2>2 DEF Report
  <2>3. CASE EspBeforeConnect \/ EspConnected \/ EspError \/ EspDisconnected
             \/ EspSubscribed \/ DataNotify
    BY <2>2, <2>3 DEF EspBeforeConnect, EspConnected, EspError, EspDisconnected,
                      EspSubscribed, DataNotify
  <2>4. CASE reSubscribe \/ \E u \in Users : OnSubscribe(u)
    BY <2>1, <2>4 DEF reSubscribe, OnSubscribe, espVars
  <2>5. ASSUME NEW c \in {"null", "created", "registered", "started"}, connect(c)
        PROVE  dropped' \in BOOLEAN
    BY <2>1, <2>5 DEF connect, espVars
  <2> QED BY <2>1, <2>3, <2>4, <2>5, Writers DEF SessionWritten
<1>3. Rest'
  <2>1. CASE UNCHANGED <<m_client, link, subscribed, acks, flaps, dropped>>
    BY <2>1
  <2>2. ASSUME NEW c \in {"null", "created", "registered", "started"}, connect(c)
        PROVE  Rest'
    BY <2>2 DEF connect
  <2>3. CASE reSubscribe
    <3>1. index \in 1..Len(m_handlers)
      BY <2>3 DEF reSubscribe, OnTypes
    <3>2. m_handlers[index].topic \in Topics
      BY <3>1, HandlerTopic DEF OnTypes
    <3>3. PICK ok \in BOOLEAN : EspSubscribe(m_handlers[index].topic, ok)
      BY <2>3 DEF reSubscribe
    <3>4. subscribed' \subseteq Topics /\ acks' \in Nat
      BY <3>2, <3>3 DEF EspSubscribe
    <3> QED BY <2>3, <3>4 DEF reSubscribe
  <2>4. ASSUME NEW u \in Users, OnSubscribe(u) PROVE Rest'
    <3>1. buffer \in Topics
      BY <2>4 DEF OnSubscribe, OnTypes, InOn, CopiedOn
    <3>2. PICK ok \in BOOLEAN : EspSubscribe(buffer, ok)
      BY <2>4 DEF OnSubscribe
    <3>3. subscribed' \subseteq Topics /\ acks' \in Nat
      BY <3>1, <3>2 DEF EspSubscribe
    <3> QED BY <2>4, <3>3 DEF OnSubscribe
  <2>5. CASE EspBeforeConnect \/ EspConnected \/ EspError \/ EspDisconnected
             \/ EspSubscribed \/ DataNotify
    BY <2>5, MqttConstants DEF EspBeforeConnect, EspConnected, EspError, EspDisconnected,
          EspSubscribed, DataNotify, Report
  <2> QED BY <2>1, <2>2, <2>3, <2>4, <2>5, Writers DEF SessionWritten
<1> QED BY <1>1, <1>2, <1>3

LEMMA OnTypesInvar == Spec => []OnTypes
BY InitTypes, NextOnTypes, QueuedInvariance, FsmInvariance, PTL DEF Spec

LEMMA MessageTypesInvar == Spec => []MessageTypes
BY InitTypes, NextMessage, StartedInvar, QueuedInvariance, FsmInvariance, PTL DEF Spec

LEMMA SessionTypesInvar == Spec => []SessionTypes
BY InitTypes, NextSession, OnTypesInvar, FsmInvariance, PTL DEF Spec

(* The types together are the model's.                                     *)
LEMMA TypesTogether ==
    ASSUME TaskProofs!Inv, QueuedInv, OnTypes, CapacityInv, MessageTypes, SessionTypes
    PROVE  TypeOK
<1>1. Fsm!TypeOK
  BY DEF TaskProofs!Inv, TaskProofs!TypeOK, Fsm!TypeOK, TaskProofs!Callers, Fsm!Callers,
         TaskProofs!TaskLocations, Fsm!TaskLocations, TaskProofs!StartLocations,
         Fsm!StartLocations
<1>2. /\ m_handlers \in Seq([topic : Topics, isSubscribed : BOOLEAN, late : BOOLEAN])
      /\ call \in [Users ->
            [at : {"idle", "read_connected", "send_connect", "copy", "check", "construct",
                   "subscribe", "call", "push", "capacity_assert", "subscribe_assert"},
             topic : Topics \cup {Empty}, saved : Topics \cup {Empty},
             isSubscribed : BOOLEAN]]
      /\ sent \in Seq([topic : Topics, payload : Messages, expected : BOOLEAN])
  BY Zenon DEF OnTypes, MessageTypes, Handlers, CallLocals, Places, SentMessages
<1>3. Len(m_handlers) <= Capacity /\ index \in 1..(Capacity + 1)
  BY MqttConstants DEF OnTypes, CapacityInv
<1>4. m_topic \in Topics \cup {Empty}
  BY LastType DEF MessageTypes
<1>5. m_dataMutex \in {"free", Esp}
  BY DEF MessageTypes
<1>6. visit \in {"none", "print", "topic", "publish"}
      /\ owner \in [Payloads -> {"user", "queue", "freed", "nobody"}]
  BY DEF QueuedInv
<1>7. dropped \in BOOLEAN /\ overtaken \in BOOLEAN
  BY Zenon DEF SessionTypes, OnTypes
<1> QED BY <1>1, <1>2, <1>3, <1>4, <1>5, <1>6, <1>7, Zenon
        DEF TypeOK, OnTypes, MessageTypes, SessionTypes

(* With one task that calls On, which is what a vector without a lock      *)
(* allows, every member has its type and the handlers fit their vector,    *)
(* for every number of users, topics, payloads and messages: the assertion *)
(* on the capacity protects push_back although it is far from it.          *)
THEOREM TypeCorrect == OneRegistrar => (Spec => []TypeOK)
<1>1. ASSUME OneRegistrar PROVE Spec => []CapacityInv
  <2>1. CapacityInv /\ OnTypes /\ OnTypes' /\ [Next]_vars => CapacityInv'
    BY <1>1, NextCapacity
  <2> QED BY <2>1, InitTypes, OnTypesInvar, PTL DEF Spec
<1>2. ASSUME OneRegistrar PROVE Spec => []TypeOK
  BY <1>1, <1>2, TypesTogether, OnTypesInvar, MessageTypesInvar, SessionTypesInvar,
     QueuedInvariance, FsmInvariance, PTL
<1> QED BY <1>2

-----------------------------------------------------------------------------
(* Incoming messages.                                                      *)

(* Outside the two copies the members hold the last message, or what       *)
(* publishing has made of it, and what was handed to a callback is one.    *)
CopiedInv ==
    /\ m_payload \in {IF sent = <<>> \/ handling = "payload" THEN Empty ELSE Last.payload}
                         \cup Overprints
    /\ DeliveredWasSent

(* The line q has the event of a message that a machine, now in state s,   *)
(* will handle when it is connected.                                       *)
Reaches(q, s) ==
    \E i \in 1..Len(q) :
        /\ Data(q[i])
        /\ \/ s = "STATE_CONNECTED" /\ \A k \in 1..Len(q) : k < i => ~Turns(q[k])
           \/ \E j \in 1..Len(q) :
                 /\ j < i /\ Up(q[j])
                 /\ \A k \in 1..Len(q) : j < k /\ k < i => ~Turns(q[k])

(* The last message is delivered, or is still to be announced, or its      *)
(* event is in the line and will find the machine connected.               *)
LastInv ==
    sent # <<>> /\ Last.expected =>
        /\ Handled(Last.topic)
        /\ \/ dropped
           \/ Carries(Last)
           \/ handling # "none"
           \/ Reaches(InLine, Decided)

(* A handler that is found stays: nothing unregisters one.                 *)
LEMMA HandledStays ==
    ASSUME OnTypes, [Next]_vars, NEW t, Handled(t)
    PROVE  \E i \in 1..Len(m_handlers') : m_handlers'[i].topic = t
<1>1. PICK i \in 1..Len(m_handlers) : m_handlers[i].topic = t
  BY DEF Handled
<1>2. CASE UNCHANGED m_handlers
  BY <1>1, <1>2
<1>3. CASE reSubscribe
  <2>1. PICK ok \in BOOLEAN : m_handlers' = [m_handlers EXCEPT ![index].isSubscribed = ok]
    BY <1>3 DEF reSubscribe
  <2>2. index \in 1..Len(m_handlers)
    BY <1>3 DEF reSubscribe, OnTypes
  <2>3. Len(m_handlers') = Len(m_handlers) /\ m_handlers'[i].topic = m_handlers[i].topic
    BY <1>1, <2>1, <2>2, HandlersFlag DEF OnTypes
  <2> QED BY <1>1, <2>3
<1>4. ASSUME NEW u \in Users, OnPush(u)
      PROVE  \E k \in 1..Len(m_handlers') : m_handlers'[k].topic = t
  <2>1. PICK h : m_handlers' = Append(m_handlers, h)
    BY <1>4 DEF OnPush
  <2>2. i \in 1..Len(m_handlers') /\ m_handlers'[i] = m_handlers[i]
    BY <1>1, <2>1 DEF OnTypes
  <2> QED BY <1>1, <2>2
<1>5. CASE ChangeState \/ \E u \in Users : OnCheck(u) \/ OnSubscribe(u)
  BY <1>2, <1>5 DEF ChangeState, OnCheck, OnSubscribe
<1> QED BY <1>2, <1>3, <1>4, <1>5, Writers DEF HandlersWritten

(* A publishing that is at work was asked for.                             *)
LEMMA AtWork ==
    ASSUME TaskProofs!Inv, QueuedInv,
           visit # "none" \/ Visiting("STATE_CONNECTED", "EVENT_PUBLISH")
    PROVE  /\ InLine # <<>> /\ Head(InLine) = m_events /\ Pub(m_events)
           /\ m_events \in Events
           /\ \E k \in 1..Len(requested) :
                 requested[k] = <<m_events.topic, m_events.payload>>
           /\ {Empty, Mixed, m_events.payload} \subseteq Overprints
<1>1. task = "dispatch" /\ Pub(m_events)
  BY DEF QueuedInv, Visiting, Pub
<1>2. m_events \in Events /\ m_eventQueue \in Seq(Events)
  BY <1>1, MachineFacts
<1>3. InLine = <<m_events>> \o m_eventQueue
  BY <1>1 DEF InLine
<1>4. InLine # <<>> /\ Head(InLine) = m_events /\ InLine[1] = m_events /\ 1 \in 1..Len(InLine)
  BY <1>2, <1>3
<1>5. PICK k \in 1..Len(requested) : requested[k] = message(m_events)
  BY <1>1, <1>4 DEF QueuedInv, Lined, Logged
<1>6. requested # <<>>
  BY <1>5 DEF QueuedInv
<1>7. {Empty, Mixed, m_events.payload} \subseteq Overprints
  BY <1>5, <1>6 DEF Overprints, message
<1> QED BY <1>1, <1>2, <1>4, <1>5, <1>7 DEF message

(* The histories grow, and what may replace a payload with them.           *)
LEMMA OverprintsGrow ==
    ASSUME QueuedInv, [Next]_vars
    PROVE  Overprints \subseteq Overprints'
<1>1. CASE UNCHANGED requested
  BY <1>1 DEF Overprints
<1>2. ASSUME NEW u \in Users, NEW t \in Topics, NEW p \in Payloads, Publish(u, t, p)
      PROVE  Overprints \subseteq Overprints'
  <2>1. CASE requested' = Append(requested, <<t, p>>)
    <3>1. requested' # <<>>
          /\ \A k \in 1..Len(requested) :
                k \in 1..Len(requested') /\ requested'[k] = requested[k]
      BY <2>1, AppendIndices DEF QueuedInv
    <3> QED BY <3>1 DEF Overprints
  <2> QED BY <1>1, <1>2, <2>1 DEF Publish
<1> QED BY <1>1, <1>2, Writers DEF PublishingWritten

LEMMA SentGrows ==
    ASSUME MessageTypes, [Next]_vars
    PROVE  /\ Len(sent) \in Nat
           /\ \A j \in 1..Len(sent) : j \in 1..Len(sent') /\ sent'[j] = sent[j]
           /\ sent # <<>> => sent' # <<>>
<1>1. CASE UNCHANGED sent
  BY <1>1 DEF MessageTypes
<1>2. CASE \E t \in Topics, m \in Messages : DataTopic(t, m)
  BY <1>2, DataTopicEffect DEF MessageTypes
<1>3. CASE DataPayload \/ DataNotify
  BY <1>1, <1>3 DEF DataPayload, DataNotify, dataVars
<1> QED BY <1>1, <1>2, <1>3, Writers DEF MessageWritten

LEMMA InitCopied == Init => CopiedInv /\ LastInv
BY DEF Init, CopiedInv, LastInv, DeliveredWasSent

(* What handleData finds in the two members is the last message.           *)
LEMMA DataHandled ==
    ASSUME CopiedInv, MessageTypes, OnTypes, handleData
    PROVE  \/ UNCHANGED delivered /\ (sent # <<>> => ~Handled(Last.topic))
           \/ /\ sent # <<>>
              /\ delivered'[1] = Last.topic
              /\ delivered'[2] \in {Last.payload} \cup Overprints
<1>1. handling # "payload"
  BY MqttConstants DEF handleData, MessageTypes, Esp
<1>2. CASE sent = <<>>
  <2>1. m_topic = Empty
    BY <1>2 DEF MessageTypes
  <2>2. ~Handled(m_topic)
    BY <2>1, HandlerTopic, MqttConstants DEF Handled, OnTypes
  <2> QED BY <1>2, <2>2 DEF handleData
<1>3. CASE sent # <<>>
  <2>1. m_topic = Last.topic /\ m_payload \in {Last.payload} \cup Overprints
    BY <1>1, <1>3 DEF MessageTypes, CopiedInv
  <2>2. CASE Handled(m_topic)
    <3>1. delivered' = <<m_topic, m_payload>>
      BY <2>2 DEF handleData
    <3> QED BY <1>3, <2>1, <3>1
  <2>3. CASE ~Handled(m_topic)
    BY <2>1, <2>3 DEF handleData
  <2> QED BY <2>2, <2>3
<1> QED BY <1>2, <1>3

LEMMA NextCopied ==
    CopiedInv /\ MessageTypes /\ OnTypes /\ QueuedInv /\ TaskProofs!Inv /\ [Next]_vars
        => CopiedInv'
<1> SUFFICES ASSUME CopiedInv, MessageTypes, OnTypes, QueuedInv, TaskProofs!Inv,
                    [Next]_vars
             PROVE  CopiedInv'
  OBVIOUS
<1> DEFINE Held == IF sent = <<>> \/ handling = "payload" THEN Empty ELSE Last.payload
<1>1. m_payload' \in {Held'} \cup Overprints'
  <2>1. CASE UNCHANGED <<m_payload, sent, handling>>
    <3>1. Held' = Held
      BY <2>1 DEF Last
    <3> QED BY <2>1, <3>1, OverprintsGrow DEF CopiedInv
  <2>2. CASE DataPayload
    <3>1. sent # <<>> /\ UNCHANGED sent /\ handling = "payload" /\ handling' = "notify"
      BY <2>2 DEF DataPayload, MessageTypes
    <3>2. Held' = Last.payload
      BY <3>1 DEF Last
    <3>3. CASE m_payload' = Last.payload
      BY <3>2, <3>3
    <3>4. CASE m_payload' = Mixed /\ (visit = "print" \/ m_payload # Empty)
      <4>1. CASE visit = "print"
        BY <3>4, <4>1, AtWork, OverprintsGrow
      <4>2. CASE m_payload # Empty
        <5>1. Overprints # {}
          BY <3>1, <4>2 DEF CopiedInv
        <5>2. Mixed \in Overprints
          BY <5>1 DEF Overprints
        <5> QED BY <3>4, <5>2, OverprintsGrow
      <4> QED BY <3>4, <4>1, <4>2
    <3> QED BY <2>2, <3>3, <3>4 DEF DataPayload, Last
  <2>3. CASE \E t \in Topics, m \in Messages : DataTopic(t, m)
    BY <2>3 DEF DataTopic
  <2>4. CASE DataNotify
    <3>1. UNCHANGED <<m_payload, sent>> /\ handling = "notify" /\ handling' = "none"
      BY <2>4 DEF DataNotify, Report, dataVars
    <3>2. Held' = Held
      BY <3>1 DEF Last
    <3> QED BY <3>1, <3>2, OverprintsGrow DEF CopiedInv
  <2>5. CASE PublishClear \/ PublishPrint \/ PublishTooLong
    <3>1. visit # "none" \/ Visiting("STATE_CONNECTED", "EVENT_PUBLISH")
      BY <2>5 DEF PublishClear, PublishPrint, PublishTooLong
    <3>2. m_payload' \in {Empty, Mixed, m_events.payload}
      BY <2>5 DEF PublishClear, PublishPrint, PublishTooLong
    <3> QED BY <3>1, <3>2, AtWork, OverprintsGrow
  <2> QED BY <2>1, <2>2, <2>3, <2>4, <2>5, Writers DEF MessageWritten, PayloadWritten
<1>2. DeliveredWasSent'
  <2>1. CASE UNCHANGED delivered
    <3>1. CASE delivered = <<Empty, Empty>>
      BY <2>1, <3>1 DEF DeliveredWasSent
    <3>2. ASSUME NEW j \in 1..Len(sent), Carries(sent[j])
          PROVE  DeliveredWasSent'
      <4>1. j \in 1..Len(sent') /\ sent'[j] = sent[j]
        BY SentGrows
      <4>2. /\ delivered'[1] = sent'[j].topic
            /\ delivered'[2] \in {sent'[j].payload} \cup Overprints'
        BY <2>1, <3>2, <4>1, OverprintsGrow DEF Carries
      <4> QED BY <4>1, <4>2 DEF DeliveredWasSent, Carries
    <3> QED BY <3>1, <3>2 DEF CopiedInv, DeliveredWasSent
  <2>2. CASE handleData
    <3>1. CASE /\ sent # <<>>
               /\ delivered'[1] = Last.topic
               /\ delivered'[2] \in {Last.payload} \cup Overprints
      <4>1. Len(sent) \in 1..Len(sent)
        BY <3>1, LastType DEF MessageTypes
      <4>2. /\ Len(sent) \in 1..Len(sent')
            /\ delivered'[1] = sent'[Len(sent)].topic
            /\ delivered'[2] \in {sent'[Len(sent)].payload} \cup Overprints'
        BY <3>1, <4>1, SentGrows, OverprintsGrow DEF Last
      <4> QED BY <4>2 DEF DeliveredWasSent, Carries
    <3> QED BY <2>1, <2>2, <3>1, DataHandled
  <2> QED BY <2>1, <2>2, Writers DEF DeliveredWritten
<1> QED BY <1>1, <1>2 DEF CopiedInv

LEMMA CopiedInvar == Spec => []CopiedInv
BY InitCopied, NextCopied, MessageTypesInvar, OnTypesInvar, QueuedInvariance, FsmInvariance,
   PTL DEF Spec

(* Whatever arrives while the machine is busy with an earlier message, a   *)
(* callback never sees the topic of one message with the payload of        *)
(* another: only what Publish has queued can take a payload's place.       *)
THEOREM NotTorn == Spec => []DeliveredWasSent
<1>1. CopiedInv => DeliveredWasSent
  BY DEF CopiedInv
<1> QED BY <1>1, CopiedInvar, PTL

(* An event joins the line.                                                *)
LEMMA ReachesAppend ==
    ASSUME NEW q \in Seq(Events), NEW e \in Events, NEW s, Reaches(q, s)
    PROVE  Reaches(Append(q, e), s)
<1> DEFINE q2 == Append(q, e)
<1>1. /\ Len(q) \in Nat
      /\ \A i \in 1..Len(q) : i \in 1..Len(q2) /\ i < Len(q) + 1 /\ q2[i] = q[i]
      /\ \A i \in 1..Len(q2) : i \in 1..Len(q) \/ i = Len(q) + 1
  BY AppendIndices
<1> HIDE DEF q2
<1>2. PICK i \in 1..Len(q) :
         /\ Data(q[i])
         /\ \/ s = "STATE_CONNECTED" /\ \A k \in 1..Len(q) : k < i => ~Turns(q[k])
            \/ \E j \in 1..Len(q) :
                  /\ j < i /\ Up(q[j])
                  /\ \A k \in 1..Len(q) : j < k /\ k < i => ~Turns(q[k])
  BY DEF Reaches
<1>3. i \in 1..Len(q2) /\ Data(q2[i])
      /\ \A k \in 1..Len(q2) : k < i => k \in 1..Len(q) /\ q2[k] = q[k]
  BY <1>1, <1>2
<1>4. CASE s = "STATE_CONNECTED" /\ \A k \in 1..Len(q) : k < i => ~Turns(q[k])
  BY <1>3, <1>4 DEF Reaches, q2
<1>5. ASSUME NEW j \in 1..Len(q), j < i, Up(q[j]),
             \A k \in 1..Len(q) : j < k /\ k < i => ~Turns(q[k])
      PROVE  Reaches(q2, s)
  <2>1. j \in 1..Len(q2) /\ Up(q2[j])
    BY <1>1, <1>5
  <2>2. \A k \in 1..Len(q2) : j < k /\ k < i => ~Turns(q2[k])
    BY <1>3, <1>5
  <2> QED BY <1>3, <1>5, <2>1, <2>2 DEF Reaches
<1> QED BY <1>2, <1>4, <1>5 DEF q2

(* The event of a message joins a line that leads to a link that is up.    *)
LEMMA ReachesJoined ==
    ASSUME NEW q \in Seq(Events), NEW e \in Events, NEW s, Data(e), Agrees(q, s, "up")
    PROVE  Reaches(Append(q, e), s)
<1> DEFINE q2 == Append(q, e)
           n == Len(q) + 1
<1>1. /\ Len(q) \in Nat /\ n \in 1..Len(q2) /\ q2[n] = e
      /\ \A i \in 1..Len(q) : i \in 1..Len(q2) /\ i < n /\ q2[i] = q[i]
      /\ \A i \in 1..Len(q2) : i \in 1..Len(q) \/ i = n
  BY AppendIndices
<1>2. \A k \in 1..Len(q2) : k < n => k \in 1..Len(q) /\ q2[k] = q[k]
  BY <1>1
<1> HIDE DEF q2, n
<1>3. CASE Still(q) /\ s = "STATE_CONNECTED"
  BY <1>1, <1>2, <1>3 DEF Reaches, Still, q2
<1>4. ASSUME NEW j \in 1..Len(q), Turns(q[j]), Up(q[j]),
             \A k \in 1..Len(q) : j < k => ~Turns(q[k])
      PROVE  Reaches(q2, s)
  <2>1. j \in 1..Len(q2) /\ j < n /\ Up(q2[j])
    BY <1>1, <1>4
  <2>2. \A k \in 1..Len(q2) : j < k /\ k < n => ~Turns(q2[k])
    BY <1>2, <1>4
  <2> QED BY <1>1, <2>1, <2>2 DEF Reaches
<1> QED BY <1>3, <1>4 DEF Agrees, q2

(* The first event of the line is handled, and is not the one.             *)
LEMMA ReachesTail ==
    ASSUME NEW q \in Seq(Events), q # <<>>, NEW s \in States, NEW l,
           NEW r \in OnEvent[<<s, Head(q)>>], NEW s2, s2 = IF r = NoChange THEN s ELSE r,
           LinkLine(q, s, l), Reaches(q, s), ~(Data(Head(q)) /\ s = "STATE_CONNECTED")
    PROVE  Reaches(Tail(q), s2)
<1> DEFINE t == Tail(q)
<1>1. /\ Len(q) \in Nat /\ Len(t) = Len(q) - 1
      /\ 1 \in 1..Len(q) /\ Head(q) = q[1] /\ q[1] \in Events
      /\ \A i \in 1..Len(t) : i + 1 \in 1..Len(q) /\ 1 < i + 1 /\ t[i] = q[i + 1]
      /\ \A i \in 1..Len(q) : i # 1 => i - 1 \in 1..Len(t) /\ t[i - 1] = q[i] /\ 1 < i
  BY TailIndices
<1>2. /\ Up(q[1]) /\ s # "STATE_DISABLED" => s2 = "STATE_CONNECTED"
      /\ ~Turns(q[1]) => (s2 = "STATE_CONNECTED" <=> s = "STATE_CONNECTED")
  BY <1>1, TurnEffect
<1>3. Up(q[1]) => s # "STATE_DISABLED"
  <2> SUFFICES ASSUME Up(q[1]), s = "STATE_DISABLED" PROVE FALSE
    OBVIOUS
  <2>1. PICK j \in 1..Len(q) : j < 1
    BY <1>1 DEF LinkLine, Prepared
  <2> QED BY <1>1, <2>1
<1> HIDE DEF t
<1>4. PICK i \in 1..Len(q) :
         /\ Data(q[i])
         /\ \/ s = "STATE_CONNECTED" /\ \A k \in 1..Len(q) : k < i => ~Turns(q[k])
            \/ \E j \in 1..Len(q) :
                  /\ j < i /\ Up(q[j])
                  /\ \A k \in 1..Len(q) : j < k /\ k < i => ~Turns(q[k])
  BY DEF Reaches
<1>5. CASE s = "STATE_CONNECTED" /\ \A k \in 1..Len(q) : k < i => ~Turns(q[k])
  <2>1. i # 1
    BY <1>1, <1>4, <1>5
  <2>2. i - 1 \in 1..Len(t) /\ Data(t[i - 1]) /\ 1 < i
    BY <1>1, <1>4, <2>1
  <2>3. ASSUME NEW k \in 1..Len(t), k < i - 1 PROVE ~Turns(t[k])
    <3>1. k + 1 \in 1..Len(q) /\ k + 1 < i /\ t[k] = q[k + 1]
      BY <1>1, <2>3
    <3> QED BY <1>5, <3>1
  <2>4. s2 = "STATE_CONNECTED"
    BY <1>1, <1>2, <1>5, <2>2
  <2> QED BY <2>2, <2>3, <2>4 DEF Reaches, t
<1>6. ASSUME NEW j \in 1..Len(q), j < i, Up(q[j]),
             \A k \in 1..Len(q) : j < k /\ k < i => ~Turns(q[k])
      PROVE  Reaches(t, s2)
  <2>1. i # 1
    BY <1>1, <1>6
  <2>2. i - 1 \in 1..Len(t) /\ Data(t[i - 1])
    BY <1>1, <1>4, <2>1
  <2>3. ASSUME NEW k \in 1..Len(t)
        PROVE  k + 1 \in 1..Len(q) /\ t[k] = q[k + 1] /\ 1 < k + 1
               /\ (k < i - 1 => k + 1 < i) /\ (j - 1 < k => j < k + 1)
    BY <1>1, <2>3
  <2>4. CASE j = 1
    <3>1. s2 = "STATE_CONNECTED"
      BY <1>2, <1>3, <1>6, <2>4
    <3>2. \A k \in 1..Len(t) : k < i - 1 => ~Turns(t[k])
      BY <1>6, <2>3, <2>4
    <3> QED BY <2>2, <3>1, <3>2 DEF Reaches
  <2>5. CASE j # 1
    <3>1. j - 1 \in 1..Len(t) /\ j - 1 < i - 1 /\ Up(t[j - 1])
      BY <1>1, <1>6, <2>5
    <3>2. \A k \in 1..Len(t) : j - 1 < k /\ k < i - 1 => ~Turns(t[k])
      BY <1>6, <2>3
    <3> QED BY <2>2, <3>1, <3>2 DEF Reaches
  <2> QED BY <2>4, <2>5
<1> QED BY <1>4, <1>5, <1>6 DEF t

(* What the line of a message's event becomes in a step, while there is no *)
(* new message.                                                            *)
LEMMA ReachesStep ==
    ASSUME TaskProofs!Inv, StartedInv, QueuedInv, LinkInv, [Next]_vars, ~dropped',
           Reaches(InLine, Decided)
    PROVE  Reaches(InLine', Decided') \/ handleData
<1>1. InLine \in Seq(Events) /\ Decided \in States
  BY InLineType, DecidedType
<1>2. CASE LineKept
  BY <1>2 DEF LineKept
<1>3. CASE LineHandled
  <2>1. LinkLine(InLine, Decided, link)
    BY <1>3 DEF LineHandled, LinkInv
  <2> QED BY <1>1, <1>3, <2>1, ReachesTail DEF LineHandled
<1>4. CASE LineJoined
  BY <1>1, <1>4, ReachesAppend DEF LineJoined
<1>5. ASSUME NEW n \in Reportable, LineReported(n)
      PROVE  Reaches(InLine', Decided')
  <2>1. Event(n) \in Events
    BY EventsSent DEF Reportable
  <2> QED BY <1>1, <1>5, <2>1, ReachesAppend DEF LineReported
<1> QED BY <1>2, <1>3, <1>4, <1>5, LineSteps

(* The message is announced.                                               *)
LEMMA ReachesAnnounced ==
    ASSUME TaskProofs!Inv, LinkInv, MessageTypes, DataNotify, ~dropped'
    PROVE  Reaches(InLine', Decided')
<1> DEFINE e == Event("EVENT_INCOMING_DATA")
<1>1. InLine \in Seq(Events) /\ e \in Events /\ Data(e)
  BY InLineType, EventsSent DEF Event, Data
<1>2. /\ handling = "notify" /\ Fsm!Dispatch(Esp, e)
      /\ dropped' = (dropped \/ answer'[Esp] = "refused")
  BY DEF DataNotify, Report
<1>3. UNCHANGED <<task, m_states, m_events, newState>>
      /\ m_eventQueue' = Append(m_eventQueue, e)
  BY <1>1, <1>2, DispatchEffect DEF Untouched
<1>4. InLine' = Append(InLine, e) /\ Decided' = Decided
  BY <1>1, <1>3, InLineSend DEF Decided
<1>5. Agrees(InLine, Decided, "up")
  BY <1>2 DEF LinkInv, LinkLine, MessageTypes
<1> HIDE DEF e
<1> QED BY <1>1, <1>4, <1>5, ReachesJoined

LEMMA NextLast ==
    LastInv /\ CopiedInv /\ LinkInv /\ StartedInv /\ OnTypes
        /\ MessageTypes /\ QueuedInv /\ TaskProofs!Inv /\ [Next]_vars => LastInv'
<1> DEFINE Found == \E i \in 1..Len(m_handlers') : m_handlers'[i].topic = Last'.topic
<1> SUFFICES ASSUME LastInv, CopiedInv, LinkInv, StartedInv, OnTypes,
                    MessageTypes, QueuedInv, TaskProofs!Inv, [Next]_vars,
                    sent' # <<>>, Last'.expected
             PROVE  /\ Found
                    /\ \/ dropped'
                       \/ Carries(Last)'
                       \/ handling' # "none"
                       \/ Reaches(InLine', Decided')
  BY DEF LastInv, Handled
<1>1. ASSUME NEW t \in Topics, NEW m \in Messages, DataTopic(t, m)
      PROVE  Found /\ handling' # "none"
  <2>1. Last'.topic = t /\ Last'.expected = Handled(t)
    BY <1>1, DataTopicEffect DEF MessageTypes
  <2>2. Handled(t) /\ UNCHANGED m_handlers
    BY <2>1, <1>1 DEF DataTopic, onVars
  <2> QED BY <1>1, <2>1, <2>2 DEF DataTopic, Handled
<1>2. ASSUME UNCHANGED sent
      PROVE  /\ Last' = Last /\ sent # <<>> /\ Last.expected
             /\ Handled(Last.topic) /\ Found
  <2>1. Last' = Last /\ sent # <<>> /\ Last.expected
    BY <1>2 DEF Last
  <2>2. Handled(Last.topic)
    BY <2>1 DEF LastInv
  <2>3. \E i \in 1..Len(m_handlers') : m_handlers'[i].topic = Last.topic
    BY <2>2, HandledStays
  <2> QED BY <2>1, <2>2, <2>3 DEF Handled
<1>3. CASE DataPayload
  BY <1>2, <1>3 DEF DataPayload
<1>4. CASE DataNotify
  <2>1. UNCHANGED sent
    BY <1>4 DEF DataNotify, dataVars
  <2> QED BY <1>2, <1>4, <2>1, ReachesAnnounced
<1>5. CASE UNCHANGED <<m_topic, sent, m_dataMutex, handling>>
  <2>1. /\ Last' = Last /\ sent # <<>> /\ Last.expected
        /\ Handled(Last.topic) /\ Found
    BY <1>2, <1>5
  <2>2. CASE handleData
    <3>1. delivered'[1] = Last.topic /\ delivered'[2] \in {Last.payload} \cup Overprints
      BY <2>1, <2>2, DataHandled
    <3>2. Carries(Last)'
      BY <2>1, <3>1, OverprintsGrow DEF Carries
    <3> QED BY <2>1, <3>2
  <2>3. CASE ~handleData
    <3>1. delivered' = delivered
      BY <2>3, Writers DEF DeliveredWritten
    <3>5. Carries(Last) => Carries(Last)'
      BY <2>1, <3>1, OverprintsGrow DEF Carries
    <3>2. dropped => dropped'
      BY DroppedStays
    <3>3. \/ dropped
          \/ Carries(Last)
          \/ handling # "none"
          \/ Reaches(InLine, Decided)
      BY <2>1 DEF LastInv
    <3>4. CASE Reaches(InLine, Decided)
      BY <2>1, <2>3, <3>4, ReachesStep
    <3> QED BY <1>5, <2>1, <3>2, <3>3, <3>4, <3>5
  <2> QED BY <2>2, <2>3
<1> QED BY <1>1, <1>3, <1>4, <1>5, Writers DEF MessageWritten

LEMMA LastInvar == Spec => []LastInv
BY InitCopied, NextLast, CopiedInvar, LinkInvariance, StartedInvar, OnTypesInvar,
   MessageTypesInvar, QueuedInvariance, FsmInvariance, PTL DEF Spec

(* Messages may overwrite each other before the machine looks at them, and *)
(* the link may be lost and made anew between them: the last one reaches   *)
(* its handler, for any number of topics, handlers and messages and every  *)
(* queue, unless a report was refused by a full queue.                     *)
THEOREM LastReachesHandler == Spec => []LastMessageDelivered
<1>1. LastInv => LastMessageDelivered
  <2> SUFFICES ASSUME LastInv, Quiescent, ~dropped, sent # <<>>, Last.expected
               PROVE  Carries(Last)
    BY DEF LastMessageDelivered, Last
  <2>1. InLine = <<>> /\ handling = "none"
    BY QuietLine DEF Quiescent
  <2>2. ~Reaches(InLine, Decided)
    BY <2>1 DEF Reaches
  <2> QED BY <2>1, <2>2 DEF LastInv
<1> QED BY <1>1, LastInvar, PTL

-----------------------------------------------------------------------------
(* Messages that leave, whatever else uses the static buffers.             *)

Leavings == [topic : Topics \cup {Empty}, payload : Payloads \cup Messages \cup {Empty, Mixed},
             request : Topics \X Payloads]
Requests == [i \in 1..Len(published) |-> published[i].request]

(* What has left came before all that waits.                               *)
OrderInv ==
    /\ published \in Seq(Leavings)
    /\ Left(Requests, InLine, requested)

(* The static buffers hold the operands of the handler that is at work, or *)
(* what the other users of the buffers have made of them, and so does what *)
(* has left.                                                               *)
OperandsInv ==
    /\ visit = "print" => m_payload \in {Empty} \cup Overcopies
    /\ visit \in {"topic", "publish"} => m_payload \in {m_events.payload} \cup Overcopies
    /\ visit = "publish" => buffer = m_events.topic \/ Registered
    /\ \A i \in 1..Len(published) :
          /\ published[i].topic = published[i].request[1] \/ Registered
          /\ published[i].payload \in {published[i].request[2]} \cup Overcopies

LEMMA LeavingRecord ==
    ASSUME NEW T, NEW P, NEW R
    PROVE  /\ \A t \in T, p \in P, q \in R :
                 [topic |-> t, payload |-> p, request |-> q]
                    \in [topic : T, payload : P, request : R]
           /\ \A x \in [topic : T, payload : P, request : R] : x.request \in R
OBVIOUS

LEMMA RequestsType ==
    ASSUME published \in Seq(Leavings)
    PROVE  /\ Requests \in Seq(Topics \X Payloads) /\ Len(Requests) = Len(published)
           /\ \A i \in 1..Len(published) : Requests[i] = published[i].request
<1>1. ASSUME NEW i \in 1..Len(published) PROVE published[i].request \in Topics \X Payloads
  <2>1. published[i] \in Leavings
    BY <1>1, ElementType
  <2> QED BY <2>1, LeavingRecord, Zenon DEF Leavings
<1>2. Len(published) \in Nat
  OBVIOUS
<1> QED BY <1>1, <1>2 DEF Requests

(* A message leaves with the operands that the buffers hold.               *)
LEMMA LeavingEffect ==
    ASSUME TaskProofs!Inv, QueuedInv, OnTypes, MessageTypes, published \in Seq(Leavings),
           PublishSend
    PROVE  \E x \in Leavings :
              /\ published' = Append(published, x)
              /\ x.topic = buffer /\ x.request = message(m_events)
              /\ \/ x.payload = m_payload
                 \/ /\ x.payload = Mixed
                    /\ m_payload # m_events.payload \/ handling = "payload"
              /\ Requests' = Append(Requests, message(m_events))
<1>1. m_events.topic \in Topics /\ m_events.payload \in Payloads
  BY AtWork, EventShape DEF PublishSend, Pub
<1>2. PICK payload \in {m_payload, Mixed} :
         /\ payload = Mixed => m_payload # m_events.payload \/ handling = "payload"
         /\ published' = Append(published,
               [topic |-> buffer, payload |-> payload,
                request |-> <<m_events.topic, m_events.payload>>])
  BY DEF PublishSend
<1> DEFINE x == [topic |-> buffer, payload |-> payload,
                 request |-> <<m_events.topic, m_events.payload>>]
<1>3. x \in Leavings
  <2>1. buffer \in Topics \cup {Empty}
    BY DEF OnTypes
  <2>2. payload \in Payloads \cup Messages \cup {Empty, Mixed}
    BY DEF MessageTypes
  <2>3. <<m_events.topic, m_events.payload>> \in Topics \X Payloads
    BY <1>1
  <2> QED BY <2>1, <2>2, <2>3, LeavingRecord, Zenon DEF Leavings
<1>4. x.topic = buffer /\ x.payload = payload /\ x.request = message(m_events)
  BY DEF message
<1>5. published' = Append(published, x)
  BY <1>2
<1> HIDE DEF x
<1>6. /\ published' \in Seq(Leavings) /\ Len(published') = Len(published) + 1
      /\ published'[Len(published) + 1] = x /\ Len(published) \in Nat
      /\ \A i \in 1..Len(published) : published'[i] = published[i]
  BY <1>3, <1>5
<1>7. Requests' = Append(Requests, x.request)
  BY <1>6 DEF Requests
<1> QED BY <1>2, <1>3, <1>4, <1>5, <1>7

LEMMA InitOrder == Init => OrderInv /\ OperandsInv
BY DEF Init, OrderInv, OperandsInv, InLine, Left, Fsm!Init, Requests

LEMMA NextOrder ==
    OrderInv /\ OnTypes /\ MessageTypes /\ StartedInv /\ QueuedInv /\ TaskProofs!Inv
        /\ [Next]_vars => OrderInv'
<1> SUFFICES ASSUME OrderInv, OnTypes, MessageTypes, StartedInv, QueuedInv, TaskProofs!Inv,
                    [Next]_vars
             PROVE  OrderInv'
  OBVIOUS
<1>1. InLine \in Seq(Events) /\ requested \in Seq(Topics \X Payloads)
  BY InLineType DEF QueuedInv
<1>2. CASE PublishSend
  <2>1. /\ Pub(Head(InLine)) /\ Head(InLine) = m_events
        /\ InLine # <<>> /\ InLine' = Tail(InLine)
    BY <1>2, AtWork, InLineHandled DEF PublishSend
  <2>2. UNCHANGED requested
    BY <1>2 DEF PublishSend
  <2>3. PICK x \in Leavings : published' = Append(published, x)
                             /\ Requests' = Append(Requests, message(m_events))
    BY <1>2, LeavingEffect DEF OrderInv
  <2>4. Left(Requests', InLine', requested)
    BY <1>1, <2>1, <2>3, LinedHandled, RequestsType DEF OrderInv, QueuedInv
  <2> QED BY <2>2, <2>3, <2>4 DEF OrderInv
<1>3. ASSUME NEW u \in Users, NEW t \in Topics, NEW p \in Payloads, Publish(u, t, p)
      PROVE  OrderInv'
  <2>1. /\ Fsm!Dispatch(u, Publishing(t, p)) /\ Publishing(t, p) \in Events
        /\ owner[p] = "user" /\ UNCHANGED published
    BY <1>3, EventsSent DEF Publish
  <2>2. UNCHANGED <<task, m_events>> /\ Requests' = Requests
    BY <2>1, DispatchEffect DEF Untouched, Requests
  <2>3. CASE m_eventQueue' = m_eventQueue /\ answer'[u] = "refused"
    <3>1. InLine' = InLine /\ requested' = requested
      BY <1>3, <2>2, <2>3, InLineSame DEF Publish
    <3> QED BY <2>1, <2>2, <3>1 DEF OrderInv
  <2>4. CASE m_eventQueue' = Append(m_eventQueue, Publishing(t, p)) /\ answer'[u] = "taken"
    <3>1. InLine' = Append(InLine, Publishing(t, p))
          /\ requested' = Append(requested, <<t, p>>)
      BY <1>3, <2>1, <2>2, <2>4, InLineSend DEF Publish
    <3> QED BY <1>1, <2>1, <2>2, <3>1, LinedPublish DEF OrderInv, QueuedInv
  <2> QED BY <2>1, <2>3, <2>4, DispatchEffect
<1>4. ASSUME UNCHANGED <<published, requested>>,
             ~\E u \in Users, t \in Topics, p \in Payloads : Publish(u, t, p)
      PROVE  OrderInv'
  <2>1. Requests' = Requests
    BY <1>4 DEF Requests
  <2>2. CASE InLine' = InLine
    BY <1>4, <2>1, <2>2 DEF OrderInv
  <2>3. CASE InLine # <<>> /\ InLine' = Tail(InLine)
    BY <1>1, <1>4, <2>1, <2>3, LinedTail DEF OrderInv, QueuedInv
  <2>4. ASSUME NEW e \in Events, InLine' = Append(InLine, e), ~Pub(e) PROVE OrderInv'
    BY <1>1, <1>4, <2>1, <2>4, LinedAppend DEF OrderInv
  <2>5. ASSUME NEW n \in Reportable, LineReported(n) PROVE OrderInv'
    <3>1. Event(n) \in Events /\ ~Pub(Event(n))
      BY EventsSent DEF Reportable, Event, Pub
    <3> QED BY <2>2, <2>4, <2>5, <3>1 DEF LineReported
  <2> QED BY <1>4, <2>2, <2>3, <2>4, <2>5, LineSteps DEF LineKept, LineHandled, LineJoined
<1> QED BY <1>2, <1>3, <1>4, Writers DEF PublishingWritten

(* A handler that is at work keeps its event.                              *)
LEMMA SameWork ==
    ASSUME QueuedInv, [Next]_vars, visit # "none"
    PROVE  UNCHANGED m_events
<1>1. task = "dispatch"
  BY DEF QueuedInv, Visiting
<1>2. CASE UNCHANGED TaskProofs!fsmVars
  BY <1>2 DEF TaskProofs!fsmVars, TaskProofs!workerVars
<1>3. CASE TaskProofs!StartStep \/ TaskProofs!CallStep
  BY <1>3 DEF TaskProofs!StartStep, TaskProofs!StartFlag, TaskProofs!StartState,
        TaskProofs!StartNotify, TaskProofs!CallStep, TaskProofs!Dispatch,
        TaskProofs!DispatchBlock, TaskProofs!BlockedSend, TaskProofs!BlockedTimeout,
        TaskProofs!DispatchFromISR, TaskProofs!DispatchNotRunning, TaskProofs!DispatchFull,
        TaskProofs!Enqueue, TaskProofs!Refuse, TaskProofs!Return, TaskProofs!workerVars
<1>4. CASE TaskProofs!TaskStep
  BY <1>1, <1>4 DEF TaskProofs!TaskStep, TaskProofs!NotifyTake, TaskProofs!OnEntry,
        TaskProofs!Receive, TaskProofs!dispatch, TaskProofs!handleNewState
<1> QED BY <1>2, <1>3, <1>4, NextIsFsmStep DEF TaskProofs!Next

(* A call of On that gets past its assertion can be told from then on.     *)
LEMMA OnCallRegisters ==
    ASSUME OnTypes, NEW u \in Registrars, NEW t \in Topics, OnCall(u, t)
    PROVE  \/ Registered'
           \/ UNCHANGED buffer /\ \A v \in Users : call'[v].topic = call[v].topic
<1>1. u \in Users
  BY MqttConstants
<1>2. CASE Len(m_handlers) # Capacity
  <2>1. call' = [call EXCEPT ![u] = [Idle EXCEPT !.at = "copy", !.topic = t]]
    BY <1>2 DEF OnCall
  <2>2. call'[u].topic = t
    BY <1>1, <2>1 DEF OnTypes, Idle
  <2> QED BY <1>1, <2>2, MqttConstants DEF Registered
<1>3. CASE Len(m_handlers) = Capacity
  <2>1. Goto(u, "capacity_assert") /\ UNCHANGED buffer
    BY <1>3 DEF OnCall
  <2>2. "capacity_assert" \in Places
    BY DEF Places
  <2> QED BY <1>1, <2>1, <2>2, GotoCall DEF OnTypes
<1> QED BY <1>2, <1>3

(* Nobody forgets that On was called, or that a message has come in.       *)
LEMMA RegisteredStays ==
    ASSUME OnTypes, [Next]_vars, Registered
    PROVE  Registered'
<1>1. CASE m_handlers # <<>>
  <2>1. PICK t : Handled(t)
    <3>1. 1 \in 1..Len(m_handlers)
      BY <1>1 DEF OnTypes
    <3> QED BY <3>1 DEF Handled
  <2>2. m_handlers' # <<>>
    BY <2>1, HandledStays
  <2> QED BY <2>2 DEF Registered
<1>2. ASSUME NEW v \in Users, call[v].topic # Empty PROVE Registered'
  <2>1. CASE UNCHANGED call
    BY <1>2, <2>1 DEF Registered
  <2>2. ASSUME NEW u \in Users, NEW at \in Places, Goto(u, at) PROVE Registered'
    <3>1. call'[v].topic = call[v].topic
      BY <2>2, GotoCall DEF OnTypes
    <3> QED BY <1>2, <3>1 DEF Registered
  <2>3. ASSUME NEW u \in Registrars, NEW t \in Topics, OnCall(u, t) PROVE Registered'
    BY <1>2, <2>3, OnCallRegisters DEF Registered
  <2>4. ASSUME NEW u \in Users, OnCopy(u) \/ OnSubscribe(u) PROVE Registered'
    <3>1. call'[v].topic = call[v].topic
      BY <2>4, OnSteps
    <3> QED BY <1>2, <3>1 DEF Registered
  <2>5. ASSUME NEW u \in Users, OnPush(u) PROVE Registered'
    <3>1. m_handlers' # <<>>
      BY <2>5 DEF OnPush, OnTypes
    <3> QED BY <3>1 DEF Registered
  <2>6. ASSUME NEW u \in Users, TryConnectCall(u) \/ CallStep(u) PROVE Registered'
    BY <2>2, <2>4, <2>5, <2>6, GotoSteps DEF CallStep
  <2> QED BY <2>1, <2>3, <2>6, Writers DEF CallsWritten
<1> QED BY <1>1, <1>2 DEF Registered

LEMMA OvercopiesGrow ==
    ASSUME MessageTypes, [Next]_vars
    PROVE  Overcopies \subseteq Overcopies'
BY SentGrows DEF Overcopies

(* Only registrations write the buffer while a message is on its way.      *)
LEMMA BufferWriters ==
    ASSUME OnTypes, [Next]_vars
    PROVE  UNCHANGED buffer \/ PublishTopic \/ Registered'
<1>1. ASSUME NEW u \in Users, OnConstruct(u) PROVE Registered'
  <2>1. call[u].at \in InOn
    BY <1>1 DEF OnConstruct, InOn, CopiedOn
  <2>2. call[u].topic # Empty
    BY <2>1, MqttConstants DEF OnTypes
  <2> QED BY <2>2, RegisteredStays DEF Registered
<1>2. ASSUME NEW u \in Registrars, NEW t \in Topics, OnCall(u, t)
      PROVE  UNCHANGED buffer \/ Registered'
  BY <1>2, OnCallRegisters
<1> QED BY <1>1, <1>2, Writers DEF BufferWritten

(* Incoming messages write the payload while one is on its way, and from   *)
(* then on their payloads may be what leaves.                              *)
LEMMA PayloadWriters ==
    ASSUME MessageTypes, [Next]_vars
    PROVE  \/ UNCHANGED m_payload
           \/ PublishClear \/ PublishPrint \/ PublishTooLong
           \/ m_payload' \in Overcopies' /\ UNCHANGED visit
<1>1. ASSUME NEW t \in Topics, NEW m \in Messages, DataTopic(t, m)
      PROVE  m_payload' \in Overcopies' /\ UNCHANGED visit
  <2>1. sent' # <<>>
    BY <1>1, DataTopicEffect DEF MessageTypes
  <2> QED BY <1>1, <2>1 DEF DataTopic, Overcopies, pubVars
<1>2. CASE DataPayload
  <2>1. sent # <<>> /\ UNCHANGED <<sent, visit>>
    BY <1>2 DEF DataPayload, MessageTypes, pubVars
  <2>2. Len(sent) \in 1..Len(sent)
    BY <2>1, LastType DEF MessageTypes
  <2>3. m_payload' \in {Mixed, sent[Len(sent)].payload}
    BY <1>2 DEF DataPayload
  <2> QED BY <2>1, <2>2, <2>3 DEF Overcopies
<1> QED BY <1>1, <1>2, Writers DEF PayloadWritten

LEMMA NextOperands ==
    OperandsInv /\ OrderInv /\ OnTypes /\ MessageTypes /\ QueuedInv /\ TaskProofs!Inv
        /\ [Next]_vars => OperandsInv'
<1> SUFFICES ASSUME OperandsInv, OrderInv, OnTypes, MessageTypes, QueuedInv, TaskProofs!Inv,
                    [Next]_vars
             PROVE  OperandsInv'
  OBVIOUS
<1>1. Overcopies \subseteq Overcopies' /\ (Registered => Registered')
  BY OvercopiesGrow, RegisteredStays
<1>2. /\ visit' = "print" => m_payload' \in {Empty} \cup Overcopies'
      /\ visit' \in {"topic", "publish"} =>
            m_payload' \in {m_events'.payload} \cup Overcopies'
  <2>1. CASE PublishClear
    BY <2>1 DEF PublishClear
  <2>2. CASE PublishPrint
    <3>1. handling = "payload" \/ m_payload # Empty => Mixed \in Overcopies
      BY <2>2 DEF PublishPrint, OperandsInv, MessageTypes, Overcopies
    <3> QED BY <1>1, <2>2, <3>1, SameWork DEF PublishPrint
  <2>3. CASE PublishTooLong \/ PublishSend
    BY <2>3 DEF PublishTooLong, PublishSend
  <2>4. CASE PublishTopic
    <3>1. visit = "topic" /\ visit' = "publish" /\ UNCHANGED m_payload
      BY <2>4 DEF PublishTopic, dataVars
    <3> QED BY <1>1, <3>1, SameWork DEF OperandsInv
  <2>5. CASE UNCHANGED visit /\ (UNCHANGED m_payload \/ m_payload' \in Overcopies')
    BY <1>1, <2>5, SameWork DEF OperandsInv
  <2> QED BY <2>1, <2>2, <2>3, <2>4, <2>5, PayloadWriters, Writers DEF PublishingWritten
<1>3. visit' = "publish" => buffer' = m_events'.topic \/ Registered'
  <2>1. CASE PublishTopic
    <3>1. buffer' = m_events.topic /\ visit = "topic"
      BY <2>1 DEF PublishTopic
    <3> QED BY <3>1, SameWork
  <2>2. CASE UNCHANGED visit /\ ~PublishTopic
    BY <1>1, <2>2, BufferWriters, SameWork DEF OperandsInv
  <2>3. CASE PublishClear \/ PublishPrint \/ PublishSend \/ PublishTooLong
    BY <2>3 DEF PublishClear, PublishPrint, PublishSend, PublishTooLong
  <2> QED BY <2>1, <2>2, <2>3, Writers DEF PublishingWritten
<1>4. ASSUME NEW i \in 1..Len(published')
      PROVE  /\ published'[i].topic = published'[i].request[1] \/ Registered'
             /\ published'[i].payload \in {published'[i].request[2]} \cup Overcopies'
  <2>1. CASE UNCHANGED published
    BY <1>1, <1>4, <2>1 DEF OperandsInv
  <2>2. CASE PublishSend
    <3>1. PICK x \in Leavings :
             /\ published' = Append(published, x)
             /\ x.topic = buffer /\ x.request = message(m_events)
             /\ \/ x.payload = m_payload
                \/ x.payload = Mixed /\ (m_payload # m_events.payload \/ handling = "payload")
      BY <2>2, LeavingEffect DEF OrderInv
    <3>2. \/ i \in 1..Len(published) /\ published'[i] = published[i]
          \/ published'[i] = x
      BY <1>4, <3>1, AppendIndices DEF OrderInv
    <3>3. visit = "publish"
      BY <2>2 DEF PublishSend
    <3>4. x.topic = x.request[1] \/ Registered
      BY <3>1, <3>3 DEF OperandsInv, message
    <3>5. x.payload \in {x.request[2]} \cup Overcopies
      <4>1. m_payload \in {m_events.payload} \cup Overcopies
        BY <3>3 DEF OperandsInv
      <4>2. m_payload # m_events.payload \/ handling = "payload" => Mixed \in Overcopies
        BY <4>1 DEF Overcopies, MessageTypes
      <4> QED BY <3>1, <4>1, <4>2 DEF message
    <3> QED BY <1>1, <3>2, <3>4, <3>5 DEF OperandsInv
  <2> QED BY <2>1, <2>2, Writers DEF PublishingWritten
<1> QED BY <1>2, <1>3, <1>4 DEF OperandsInv

(* Messages leave in the order of the calls of Publish, each at most once, *)
(* and with its own topic and payload, although all of them pass through   *)
(* the same static buffers: unless On was called, which uses the topic's   *)
(* buffer, or a message came in, which uses the payload's.                 *)
THEOREM PublishOrder == Spec => []PublishedInOrder
<1>1. OrderInv /\ OperandsInv /\ QueuedInv => PublishedInOrder
  <2> SUFFICES ASSUME OrderInv, OperandsInv, QueuedInv, NEW i \in 1..Len(published)
               PROVE  /\ published[i].topic = published[i].request[1] \/ Registered
                      /\ published[i].payload \in {published[i].request[2]} \cup Overcopies
                      /\ \E k \in 1..Len(requested) :
                            /\ requested[k] = published[i].request
                            /\ \A j \in 1..(i - 1) : \E l \in 1..(k - 1) :
                                  requested[l] = published[j].request
    BY DEF PublishedInOrder
  <2>1. /\ Len(Requests) = Len(published) /\ Len(published) \in Nat
        /\ Len(requested) \in Nat
        /\ \A k \in 1..Len(published) : Requests[k] = published[k].request
    <3>1. published \in Seq(Leavings) /\ requested \in Seq(Topics \X Payloads)
      BY DEF OrderInv, QueuedInv
    <3>2. Len(published) \in Nat /\ Len(requested) \in Nat
      BY <3>1
    <3> QED BY <3>1, <3>2, RequestsType
  <2>2. PICK k \in 1..Len(requested) : requested[k] = Requests[i]
    BY <2>1 DEF OrderInv, Left, Logged
  <2>3. ASSUME NEW j \in 1..(i - 1)
        PROVE  \E l \in 1..(k - 1) : requested[l] = Requests[j]
    <3>1. j \in 1..Len(published) /\ j < i
      BY <2>1
    <3>2. PICK l \in 1..Len(requested) : requested[l] = Requests[j]
      BY <2>1, <3>1 DEF OrderInv, Left, Logged
    <3>3. l < k
      BY <2>1, <2>2, <3>1, <3>2 DEF OrderInv, Left, Before
    <3> QED BY <2>1, <3>2, <3>3
  <2>4. \A j \in 1..(i - 1) : Requests[j] = published[j].request
    BY <2>1
  <2> QED BY <2>1, <2>2, <2>3, <2>4 DEF OperandsInv
<1>2. Spec => []OrderInv
  BY InitOrder, NextOrder, OnTypesInvar, MessageTypesInvar, StartedInvar, QueuedInvariance,
     FsmInvariance, PTL DEF Spec
<1>3. Spec => []OperandsInv
  BY <1>2, InitOrder, NextOperands, OnTypesInvar, MessageTypesInvar, QueuedInvariance,
     FsmInvariance, PTL DEF Spec
<1> QED BY <1>1, <1>2, <1>3, QueuedInvariance, PTL

-----------------------------------------------------------------------------
(* The flag isSubscribed, where one task calls On.                         *)

(* The link is up, and so it is in every report that was made.             *)
Settled == link = "up" /\ ~dropped /\ Still(InLine)

(* What the flag says of a topic is true in the broker's present session.  *)
Known(t, flag) ==
    /\ flag => t \in subscribed
    /\ flag \/ SubscribeMayFail

(* reSubscribe has made the flags true up to its index, and nothing but a  *)
(* change of state, which starts it again, makes them false.               *)
SubscribedInv ==
    /\ Settled /\ task # "commit" =>
          \A i \in 1..Len(m_handlers) :
             ~m_handlers[i].late /\ (task = "entry" => i < index) =>
                Known(m_handlers[i].topic, m_handlers[i].isSubscribed)
    /\ \A u \in Registrars :
          /\ call[u].at = "push" /\ ~overtaken /\ call[u].saved = call[u].topic
          /\ Settled /\ m_states = "STATE_CONNECTED"
          => Known(call[u].saved, call[u].isSubscribed)

LEMMA InitSubscribed == Init => SubscribedInv
<1> SUFFICES ASSUME Init PROVE SubscribedInv
  OBVIOUS
<1>1. \A u \in Registrars : call[u].at = "idle"
  BY MqttConstants DEF Init, Idle
<1>2. m_handlers = <<>>
  BY DEF Init
<1> QED BY <1>1, <1>2 DEF SubscribedInv

(* While the link stays up the broker forgets no topic.                    *)
LEMMA SessionKept ==
    ASSUME [Next]_vars, link' = "up"
    PROVE  subscribed \subseteq subscribed' \/ link = "trying"
<1>1. CASE EspBeforeConnect \/ EspConnected \/ EspError \/ EspDisconnected
           \/ EspSubscribed \/ DataNotify
  BY <1>1 DEF EspBeforeConnect, EspConnected, EspError, EspDisconnected, EspSubscribed,
              DataNotify, linkVars
<1>2. CASE reSubscribe \/ \E u \in Users : OnSubscribe(u)
  BY <1>2 DEF reSubscribe, OnSubscribe, EspSubscribe
<1>3. ASSUME NEW c \in {"null", "created", "registered", "started"}, connect(c)
      PROVE  UNCHANGED subscribed
  BY <1>3 DEF connect
<1> QED BY <1>1, <1>2, <1>3, Writers DEF SessionWritten

(* The line settles when the machine has decided to say connected.         *)
LEMMA SettledStep ==
    ASSUME TaskProofs!Inv, StartedInv, QueuedInv, LinkInv, [Next]_vars, Settled'
    PROVE  \/ Settled
           \/ task' = "commit" /\ m_states' # "STATE_CONNECTED"
<1> USE DEF Settled
<1>1. InLine \in Seq(Events) /\ Decided \in States
  BY InLineType, DecidedType
<1>2. CASE LineKept
  BY <1>2 DEF LineKept
<1>3. CASE LineHandled
  <2>1. link = "up" /\ ~dropped
    BY <1>3 DEF LineHandled
  <2>2. LinkLine(InLine, Decided, link)
    BY <2>1 DEF LinkInv
  <2>3. /\ InLine # <<>> /\ InLine' = Tail(InLine) /\ UNCHANGED m_states
        /\ Decided = m_states /\ (Decided' # Decided => task' = "commit")
    BY <1>3 DEF LineHandled
  <2>4. PICK r \in OnEvent[<<Decided, Head(InLine)>>] :
           Decided' = IF r = NoChange THEN Decided ELSE r
    BY <1>3 DEF LineHandled
  <2>5. LinkLine(Tail(InLine), Decided', link)
    BY <1>1, <2>2, <2>3, <2>4, LinkLineHandled
  <2>6. Decided' = "STATE_CONNECTED"
    BY <2>1, <2>3, <2>5 DEF LinkLine, Agrees, Still
  <2>7. /\ 1 \in 1..Len(InLine) /\ Len(InLine) \in Nat
        /\ \A i \in 1..Len(InLine) : i # 1 =>
              i - 1 \in 1..Len(Tail(InLine)) /\ Tail(InLine)[i - 1] = InLine[i]
    BY <1>1, <2>3, TailIndices
  <2>8. \A i \in 1..Len(InLine) : i # 1 => ~Turns(InLine[i])
    BY <2>3, <2>7 DEF Still
  <2>9. CASE Turns(InLine[1])
    <3>1. Up(InLine[1])
      BY <2>1, <2>2, <2>7, <2>8, <2>9 DEF LinkLine, Agrees, Still
    <3>2. \A j \in 1..Len(InLine) : ~(j < 1)
      BY <2>7
    <3>3. Decided # "STATE_CONNECTED"
      BY <2>2, <2>7, <3>1, <3>2 DEF LinkLine, Alternates
    <3> QED BY <2>3, <2>6, <3>3
  <2>10. CASE ~Turns(InLine[1])
    BY <2>1, <2>8, <2>10 DEF Still
  <2> QED BY <2>9, <2>10
<1>4. CASE LineJoined
  <2>1. PICK e \in Events : InLine' = Append(InLine, e)
    BY <1>4 DEF LineJoined
  <2>2. \A i \in 1..Len(InLine) : i \in 1..Len(InLine') /\ InLine'[i] = InLine[i]
    BY <1>1, <2>1, AppendIndices
  <2> QED BY <1>4, <2>2 DEF LineJoined, Still
<1>5. ASSUME NEW n \in Reportable, LineReported(n) PROVE Settled
  <2>1. Event(n) \in Events
    BY EventsSent DEF Reportable
  <2>2. ~dropped /\ InLine' = Append(InLine, Event(n))
    BY <1>5 DEF LineReported
  <2>3. /\ Len(InLine) + 1 \in 1..Len(InLine') /\ InLine'[Len(InLine) + 1] = Event(n)
        /\ \A i \in 1..Len(InLine) : i \in 1..Len(InLine') /\ InLine'[i] = InLine[i]
    BY <1>1, <2>1, <2>2, AppendIndices
  <2>4. ~Turns(Event(n)) /\ Still(InLine)
    BY <2>3 DEF Still
  <2>5. link = "up"
    BY <1>5, <2>4 DEF LineReported, Tells, Turns
  <2> QED BY <2>2, <2>4, <2>5
<1> QED BY <1>2, <1>3, <1>4, <1>5, LineSteps

(* How the machine's task moves.                                           *)
TaskMoved ==
    \/ UNCHANGED <<task, m_states>>
    \/ ChangeState
    \/ task = "notify" /\ task' = "entry" /\ UNCHANGED m_states
    \/ task = "receive" /\ task' = "dispatch" /\ UNCHANGED m_states
    \/ task = "dispatch" /\ task' \in {"receive", "commit"} /\ UNCHANGED m_states
    \/ /\ task = "entry" /\ task' = "receive" /\ UNCHANGED m_states
       /\ m_states = "STATE_CONNECTED" => index > Len(m_handlers)

LEMMA TaskMoves ==
    ASSUME TaskProofs!Inv, StartedInv, [Next]_vars
    PROVE  TaskMoved
<1> USE DEF TaskMoved, fsmVars
<1>1. CASE InitStep
  <2>1. UNCHANGED task
    BY <1>1 DEF InitStep, Fsm!StartStep, Fsm!StartFlag, Fsm!StartState, Fsm!StartNotify,
          Fsm!workerVars
  <2>2. UNCHANGED m_states
    <3>1. CASE Fsm!StartState
      <4>1. startArg = "STATE_DISABLED"
        BY <3>1 DEF Fsm!StartState, StartedInv
      <4>2. m_states = "STATE_DISABLED"
        BY <3>1 DEF Fsm!StartState, TaskProofs!Inv, TaskProofs!WakesInStartState
      <4> QED BY <3>1, <4>1, <4>2 DEF Fsm!StartState
    <3> QED BY <1>1, <3>1 DEF InitStep, Fsm!StartStep, Fsm!StartFlag, Fsm!StartNotify
  <2> QED BY <2>1, <2>2
<1>2. CASE TaskStep
  <2>1. ASSUME NEW r, Fsm!dispatch(r) PROVE TaskMoved
    BY <2>1, dispatchEffect
  <2>2. CASE BaseStep
    <3>1. CASE Fsm!NotifyTake
      BY <3>1 DEF Fsm!NotifyTake
    <3>2. CASE Fsm!Receive
      BY <3>2, ReceiveEffect
    <3>3. CASE m_states # "STATE_CONNECTED" /\ Fsm!OnEntry
      BY <3>3 DEF Fsm!OnEntry
    <3> QED BY <2>1, <2>2, <3>1, <3>2, <3>3 DEF BaseStep
  <2>3. CASE reSubscribe \/ PublishClear \/ PublishPrint \/ PublishTopic
    BY <2>3 DEF reSubscribe, PublishClear, PublishPrint, PublishTopic
  <2>4. CASE reSubscribeEnd
    BY <2>4 DEF reSubscribeEnd, Fsm!OnEntry
  <2>5. CASE PublishSend \/ PublishTooLong \/ handleData
    BY <2>1, <2>5 DEF PublishSend, PublishTooLong, handleData
  <2>6. ASSUME NEW c \in {"null", "created", "registered", "started"}, connect(c)
        PROVE  TaskMoved
    BY <2>1, <2>6 DEF connect
  <2> QED BY <1>2, <2>2, <2>3, <2>4, <2>5, <2>6 DEF TaskStep
<1>3. CASE EspStep
  <2>1. ASSUME NEW n \in Reportable, Report(n) PROVE UNCHANGED <<task, m_states>>
    <3>1. Event(n) \in Events
      BY EventsSent DEF Reportable
    <3> QED BY <2>1, <3>1, DispatchEffect DEF Report, Untouched
  <2>2. CASE EspBeforeConnect \/ EspConnected \/ EspError \/ EspDisconnected
             \/ EspSubscribed \/ DataNotify
    BY <2>1, <2>2 DEF EspBeforeConnect, EspConnected, EspError, EspDisconnected,
                      EspSubscribed, DataNotify, Reportable
  <2>3. CASE DataPayload \/ \E t \in Topics, m \in Messages : DataTopic(t, m)
    BY <2>3 DEF DataPayload, DataTopic
  <2> QED BY <1>3, <2>2, <2>3 DEF EspStep
<1>4. CASE UserStep
  <2>1. ASSUME NEW u \in Users, NEW e \in Events, Fsm!Dispatch(u, e)
        PROVE  UNCHANGED <<task, m_states>>
    BY <2>1, DispatchEffect DEF Untouched
  <2>2. ASSUME NEW u \in Registrars, NEW t \in Topics, OnCall(u, t) PROVE TaskMoved
    BY <2>2 DEF OnCall
  <2>3. ASSUME NEW u \in Users, TryConnectCall(u) \/ (CallStep(u) /\ ~TryConnectSend(u))
        PROVE  TaskMoved
    BY <2>3 DEF TryConnectCall, CallStep, OnCopy, OnCheck, OnConstruct, OnSubscribe,
          OnSubscribeAsserts, OnPush, TryConnectReadConnected
  <2>4. ASSUME NEW u \in Users, TryConnectSend(u) PROVE TaskMoved
    BY <2>1, <2>4, EventsSent DEF TryConnectSend
  <2>5. ASSUME NEW u \in Users, NEW t \in Topics, NEW p \in Payloads, Publish(u, t, p)
        PROVE  TaskMoved
    BY <2>1, <2>5, EventsSent DEF Publish
  <2> QED BY <1>4, <2>2, <2>3, <2>4, <2>5 DEF UserStep
<1>5. CASE UNCHANGED vars
  BY <1>5 DEF vars
<1> QED BY <1>1, <1>2, <1>3, <1>4, <1>5 DEF Next

(* What is known stays known while the session lasts.                      *)
LEMMA KnownKept ==
    ASSUME subscribed \subseteq subscribed', NEW t, NEW flag, Known(t, flag)
    PROVE  (flag => t \in subscribed') /\ (flag \/ SubscribeMayFail)
BY DEF Known

(* A subscription that was asked for while the link is up.                 *)
LEMMA SubscribedKnown ==
    ASSUME NEW t, NEW ok, EspSubscribe(t, ok), link = "up"
    PROVE  (ok => t \in subscribed') /\ (ok \/ SubscribeMayFail)
BY DEF EspSubscribe

LEMMA NextSubscribedHandlers ==
    ASSUME LinkInv, StartedInv, OnTypes, QueuedInv, TaskProofs!Inv, [Next]_vars,
           SubscribedInv, Settled', task' # "commit", NEW i \in 1..Len(m_handlers'),
           ~m_handlers'[i].late, task' = "entry" => i < index'
    PROVE  /\ m_handlers'[i].isSubscribed => m_handlers'[i].topic \in subscribed'
           /\ m_handlers'[i].isSubscribed \/ SubscribeMayFail
<1> DEFINE Goal == /\ m_handlers'[i].isSubscribed => m_handlers'[i].topic \in subscribed'
                   /\ m_handlers'[i].isSubscribed \/ SubscribeMayFail
<1>1. Settled /\ link' = "up"
  BY SettledStep DEF Settled
<1>2. subscribed \subseteq subscribed'
  BY <1>1, SessionKept DEF Settled
<1>3. ~ChangeState
  <2> SUFFICES ASSUME ChangeState PROVE FALSE
    OBVIOUS
  <2>1. task' = "entry" /\ index' = 1
    BY DEF ChangeState, Fsm!handleNewState
  <2> QED BY <2>1
<1>4. task # "commit"
  BY <1>3, TaskMoves DEF TaskMoved
<1>5. m_states = "STATE_CONNECTED"
  BY <1>1, <1>4 DEF LinkInv, Settled, LinkLine, Agrees, Still, Decided
<1>6. Len(m_handlers) \in Nat /\ index \in 1..(Len(m_handlers) + 1)
  BY DEF OnTypes
<1>7. ASSUME i \in 1..Len(m_handlers), m_handlers'[i] = m_handlers[i],
             i < index' => i < index
      PROVE  Goal
  <2>1. task = "entry" => i < index
    BY <1>3, <1>5, <1>6, <1>7, TaskMoves DEF TaskMoved
  <2>2. Known(m_handlers[i].topic, m_handlers[i].isSubscribed)
    BY <1>1, <1>4, <1>7, <2>1 DEF SubscribedInv
  <2>3. /\ m_handlers[i].isSubscribed => m_handlers[i].topic \in subscribed'
        /\ m_handlers[i].isSubscribed \/ SubscribeMayFail
    BY <1>2, <2>2, KnownKept
  <2> QED BY <1>7, <2>3
<1>8. CASE UNCHANGED <<m_handlers, index>>
  BY <1>7, <1>8
<1>9. CASE reSubscribe
  <2>1. PICK ok \in BOOLEAN : /\ EspSubscribe(m_handlers[index].topic, ok)
                              /\ m_handlers' = [m_handlers EXCEPT ![index].isSubscribed = ok]
    BY <1>9 DEF reSubscribe
  <2>2. index \in 1..Len(m_handlers) /\ index' = index + 1
    BY <1>9 DEF reSubscribe, OnTypes
  <2>3. /\ Len(m_handlers') = Len(m_handlers)
        /\ m_handlers'[index].isSubscribed = ok
        /\ m_handlers'[index].topic = m_handlers[index].topic
        /\ \A k \in 1..Len(m_handlers) : k # index => m_handlers'[k] = m_handlers[k]
    BY <2>1, <2>2, HandlersFlag DEF OnTypes
  <2>4. CASE i = index
    <3>1. (ok => m_handlers[index].topic \in subscribed') /\ (ok \/ SubscribeMayFail)
      BY <1>1, <2>1, SubscribedKnown DEF Settled
    <3> QED BY <2>3, <2>4, <3>1
  <2>5. CASE i # index
    <3>1. i < index' => i < index
      BY <2>2, <2>3, <2>5
    <3> QED BY <1>7, <2>3, <2>5, <3>1
  <2> QED BY <2>4, <2>5
<1>10. ASSUME NEW u \in Users, OnPush(u) PROVE Goal
  <2>1. u \in Registrars /\ call[u].at = "push"
    BY <1>10 DEF OnPush, OnTypes, InOn, CopiedOn
  <2> DEFINE h == [topic |-> call[u].saved, isSubscribed |-> call[u].isSubscribed,
                   late |-> overtaken \/ call[u].saved # call[u].topic]
  <2>2. m_handlers' = Append(m_handlers, h) /\ UNCHANGED index
    BY <1>10 DEF OnPush
  <2>3. h.topic = call[u].saved /\ h.isSubscribed = call[u].isSubscribed
        /\ h.late = (overtaken \/ call[u].saved # call[u].topic)
    OBVIOUS
  <2> HIDE DEF h
  <2>4. \/ i \in 1..Len(m_handlers) /\ m_handlers'[i] = m_handlers[i]
        \/ m_handlers'[i] = h
    BY <2>2 DEF OnTypes
  <2>5. CASE m_handlers'[i] = h
    <3>1. ~overtaken /\ call[u].saved = call[u].topic
      BY <2>3, <2>5
    <3>2. Known(call[u].saved, call[u].isSubscribed)
      BY <1>1, <1>5, <2>1, <3>1 DEF SubscribedInv
    <3>3. /\ call[u].isSubscribed => call[u].saved \in subscribed'
          /\ call[u].isSubscribed \/ SubscribeMayFail
      BY <1>2, <3>2, KnownKept
    <3> QED BY <2>3, <2>5, <3>3
  <2> QED BY <1>7, <2>2, <2>4, <2>5
<1>11. CASE \E u \in Users : OnCheck(u) \/ OnSubscribe(u)
  BY <1>8, <1>11 DEF OnCheck, OnSubscribe
<1> QED BY <1>3, <1>8, <1>9, <1>10, <1>11, Writers DEF HandlersWritten

LEMMA NextSubscribedCall ==
    ASSUME OneRegistrar, LinkInv, StartedInv, OnTypes, QueuedInv,
           TaskProofs!Inv, [Next]_vars, SubscribedInv,
           NEW u \in Registrars, call'[u].at = "push", ~overtaken',
           call'[u].saved = call'[u].topic, Settled', m_states' = "STATE_CONNECTED"
    PROVE  /\ call'[u].isSubscribed => call'[u].saved \in subscribed'
           /\ call'[u].isSubscribed \/ SubscribeMayFail
<1> DEFINE Goal == /\ call'[u].isSubscribed => call'[u].saved \in subscribed'
                   /\ call'[u].isSubscribed \/ SubscribeMayFail
<1>1. Settled /\ link' = "up"
  BY SettledStep DEF Settled
<1>2. subscribed \subseteq subscribed'
  BY <1>1, SessionKept DEF Settled
<1>3. u \in Users /\ \A v \in Registrars : v = u
  BY MqttConstants DEF OneRegistrar
<1>4. ~ChangeState
  BY DEF ChangeState
<1>5. m_states = "STATE_CONNECTED"
  BY <1>4, TaskMoves DEF TaskMoved
<1>6. ASSUME call'[u] = call[u] PROVE Goal
  <2>1. ~overtaken
    <3>1. ASSUME NEW v \in Users, OnCheck(v) PROVE FALSE
      <4>1. v = u /\ call[v].at = "check"
        BY <1>3, <3>1 DEF OnCheck, OnTypes, InOn, CopiedOn
      <4> QED BY <1>6, <4>1
    <3>2. \A v \in Users : OnSubscribe(v) => ~overtaken
      BY DEF OnSubscribe
    <3>3. UNCHANGED overtaken \/ \E v \in Users : OnSubscribe(v)
      BY <1>4, <3>1, Writers DEF HandlersWritten, reSubscribe, OnPush
    <3> QED BY <3>2, <3>3
  <2>2. Known(call[u].saved, call[u].isSubscribed)
    BY <1>1, <1>5, <1>6, <2>1 DEF SubscribedInv
  <2>3. /\ call[u].isSubscribed => call[u].saved \in subscribed'
        /\ call[u].isSubscribed \/ SubscribeMayFail
    BY <1>2, <2>2, KnownKept
  <2> QED BY <1>6, <2>3
<1>7. CASE OnSubscribe(u)
  <2>1. buffer = call[u].topic
    BY <1>7 DEF OnSubscribe
  <2>2. call'[u].topic = call[u].topic
    BY <1>3, <1>7, OnSteps
  <2>3. EspSubscribe(buffer, call'[u].isSubscribed) /\ call'[u].saved = buffer
    BY <1>3, <1>7, <2>1, <2>2, OnSteps
  <2>4. /\ call'[u].isSubscribed => buffer \in subscribed'
        /\ call'[u].isSubscribed \/ SubscribeMayFail
    BY <1>1, <2>3, SubscribedKnown DEF Settled
  <2> QED BY <2>3, <2>4
<1>8. ~((\E t \in Topics : OnCall(u, t)) \/ OnCopy(u) \/ OnPush(u))
  BY <1>3, OnSteps
<1>9. ~(TryConnectCall(u) \/ TryConnectReadConnected(u) \/ TryConnectSend(u)
        \/ OnCheck(u) \/ OnConstruct(u) \/ OnSubscribeAsserts(u))
  <2> SUFFICES ASSUME \/ TryConnectCall(u) \/ TryConnectReadConnected(u)
                      \/ TryConnectSend(u) \/ OnCheck(u) \/ OnConstruct(u)
                      \/ OnSubscribeAsserts(u)
               PROVE  FALSE
    OBVIOUS
  <2>1. PICK at \in Places :
           Goto(u, at) /\ (at = "push" => OnCheck(u) /\ m_states # "STATE_CONNECTED")
    BY <1>3, GotoSteps
  <2>2. call'[u].at = at
    BY <1>3, <2>1, GotoCall DEF OnTypes
  <2> QED BY <1>5, <2>1, <2>2
<1>10. ASSUME NEW v \in Users, v # u, TryConnectCall(v) \/ CallStep(v)
       PROVE  call'[u] = call[u]
  <2>1. CASE OnCopy(v) \/ OnSubscribe(v) \/ OnPush(v)
    BY <1>3, <1>10, <2>1, OnSteps
  <2>2. CASE TryConnectCall(v) \/ TryConnectReadConnected(v) \/ TryConnectSend(v)
             \/ OnCheck(v) \/ OnConstruct(v) \/ OnSubscribeAsserts(v)
    BY <1>3, <1>10, <2>2, GotoSteps, GotoCall DEF OnTypes
  <2> QED BY <1>10, <2>1, <2>2 DEF CallStep
<1> QED BY <1>3, <1>6, <1>7, <1>8, <1>9, <1>10, Writers DEF CallsWritten, CallStep

LEMMA NextSubscribed ==
    OneRegistrar /\ LinkInv /\ StartedInv /\ OnTypes /\ QueuedInv
        /\ TaskProofs!Inv /\ SubscribedInv /\ [Next]_vars => SubscribedInv'
BY NextSubscribedHandlers, NextSubscribedCall DEF SubscribedInv, Known

LEMMA SubscribedInvar == OneRegistrar => (Spec => []SubscribedInv)
<1>1. ASSUME OneRegistrar PROVE Spec => []SubscribedInv
  <2>1. LinkInv /\ StartedInv /\ OnTypes /\ QueuedInv /\ TaskProofs!Inv
            /\ SubscribedInv /\ [Next]_vars => SubscribedInv'
    BY <1>1, NextSubscribed
  <2> QED BY <2>1, InitSubscribed, LinkInvariance, StartedInvar, OnTypesInvar,
             QueuedInvariance, FsmInvariance, PTL DEF Spec
<1> QED BY <1>1

(* The flag of a handler is kept by two tasks and lives through any number *)
(* of sessions.  Whenever the link is up and everything was handled it is  *)
(* true of the broker's present session, for every number of handlers and  *)
(* topics and whatever is published meanwhile, where one task calls On:    *)
(* m_handlers has no lock of its own.                                      *)
THEOREM FlagsAreTrue == OneRegistrar => (Spec => []HandlersSubscribed)
<1>1. SubscribedInv => HandlersSubscribed
  <2> SUFFICES ASSUME SubscribedInv, Quiescent, ~dropped, link = "up",
                      NEW i \in 1..Len(m_handlers), ~m_handlers[i].late
               PROVE  /\ m_handlers[i].isSubscribed => m_handlers[i].topic \in subscribed
                      /\ m_handlers[i].isSubscribed \/ SubscribeMayFail
    BY DEF HandlersSubscribed
  <2>1. Settled /\ task = "receive"
    BY QuietLine DEF Settled, Still, Quiescent
  <2>2. Known(m_handlers[i].topic, m_handlers[i].isSubscribed)
    BY <2>1 DEF SubscribedInv
  <2> QED BY <2>2 DEF Known
<1>2. ASSUME OneRegistrar PROVE Spec => []HandlersSubscribed
  <2>1. Spec => []SubscribedInv
    BY <1>2, SubscribedInvar
  <2> QED BY <1>1, <2>1, PTL
<1> QED BY <1>2
=============================================================================
