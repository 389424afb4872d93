----------------------------- MODULE MqttClient -----------------------------
(***************************************************************************)
(* network/esparrag_mqtt.{h,cpp}: the MQTT client, a FsmTask whose events  *)
(* come from user tasks (TryConnect, Publish) and from the esp-mqtt task   *)
(* (mqttEventHandler).  On runs in a user task and shares m_handlers,      *)
(* m_states and constructFullTopic's static buffer with the FSM's task;    *)
(* mqttEventHandler shares m_topic and m_payload with it, under            *)
(* m_dataMutex.  The esp-mqtt library and the broker are external.         *)
(***************************************************************************)
EXTENDS Naturals, Sequences, FiniteSets

CONSTANTS
    Users,          \* tasks that call TryConnect and Publish
    Registrars,     \* those of them that call On (etl::vector has no lock)
    Topics,
    Payloads,       \* cJSON objects passed to Publish, each once
    Messages,       \* incoming payloads, each sent once by the broker
    QueueSize,      \* MQTT_TASK_QUEUE_LENGTH
    Capacity,       \* capacity of m_handlers
    Empty,          \* a buffer's initial contents
    Mixed,          \* what two tasks that write a buffer at once may leave in it
    NoState, NoChange, NoEvent,
    MaxConnects,    \* bound on the calls of TryConnect
    MaxFlaps,       \* bound on lost links and failed attempts to connect
    SubscribeMayFail

Esp == "esp"        \* the esp-mqtt task, as a caller of Dispatch

States == {"STATE_DISABLED", "STATE_CONNECTING", "STATE_CONNECTED"}

Event(name) == [name |-> name]
Publishing(t, p) == [name |-> "EVENT_PUBLISH", topic |-> t, payload |-> p]

Events ==
    {Event(n) : n \in {"EVENT_BEFORE_CONNECT", "EVENT_CONNECTED", "EVENT_CONNECT",
                       "EVENT_DISCONNECTED", "EVENT_SUBSCRIBED", "EVENT_ERROR",
                       "EVENT_INCOMING_DATA"}}
    \cup {Publishing(t, p) : t \in Topics, p \in Payloads}

(* The on_event overloads.  What is not listed reaches the template that   *)
(* ignores the event.                                                      *)
Transition(s, name) ==
    CASE s = "STATE_DISABLED" /\ name = "EVENT_CONNECT" ->
            {"STATE_CONNECTING", NoChange}
      [] s = "STATE_DISABLED" /\ name = "EVENT_BEFORE_CONNECT" ->
            {"STATE_CONNECTING"}
      [] s = "STATE_CONNECTING" /\ name = "EVENT_CONNECTED" ->
            {"STATE_CONNECTED"}
      [] s = "STATE_CONNECTED" /\ name \in {"EVENT_ERROR", "EVENT_DISCONNECTED"} ->
            {"STATE_CONNECTING"}
      [] OTHER -> {NoChange}

\* Mutant: a lost link is only noticed through EVENT_ERROR.
OnEventNoDisconnect ==
    [x \in States \X Events |->
        IF x[2].name = "EVENT_DISCONNECTED" THEN {NoChange}
        ELSE Transition(x[1], x[2].name)]

\* Mutant: a failed attempt disables the client, which ignores the next attempt.
OnEventGivesUp ==
    [x \in States \X Events |->
        CASE <<x[1], x[2].name>> = <<"STATE_CONNECTING", "EVENT_DISCONNECTED">> ->
                {"STATE_DISABLED"}
          [] <<x[1], x[2].name>> = <<"STATE_DISABLED", "EVENT_BEFORE_CONNECT">> ->
                {NoChange}
          [] OTHER -> Transition(x[1], x[2].name)]

OnEvent == [x \in States \X Events |-> Transition(x[1], x[2].name)]

ASSUME MqttConstants ==
    /\ Registrars \subseteq Users
    /\ Esp \notin Users
    /\ Empty \notin Topics \cup Payloads \cup Messages
    /\ Mixed \notin Payloads \cup Messages \cup {Empty}
    /\ Payloads \cap Messages = {}
    /\ NoState \notin States
    /\ NoChange \notin States
    /\ NoEvent \notin Events
    /\ QueueSize \in Nat \ {0}
    /\ Capacity \in Nat
    /\ MaxConnects \in Nat
    /\ MaxFlaps \in Nat
    /\ SubscribeMayFail \in BOOLEAN

VARIABLES
    \* the FsmTask base class
    m_isRunning, m_states, m_events, m_eventQueue, notified, task, newState,
    start, startArg, blocked, answer,
    \* members and statics of MqttClient
    m_client,       \* the esp-mqtt handle and how far connect() got with it
    m_handlers,
    m_topic, m_payload,
    m_dataMutex,    \* "free" or its holder
    buffer,         \* constructFullTopic's static buffer
    \* locals of the tasks
    call,           \* call[u]: where user u is in a call, with its locals
    visit,          \* where the FSM's task is inside the handler of a publish
    index,          \* reSubscribe's i
    handling,       \* where the esp-mqtt task is inside mqttEventHandler
    \* the environment
    link,           \* the esp-mqtt client's connection
    subscribed,     \* topics subscribed in the broker's present session
    acks,           \* SUBACKs the broker has still to send
    owner,          \* owner[p]: who is to free payload p
    \* what has happened
    connects, flaps,
    sent,           \* messages the broker sent, in order, and whether a handler
                    \* for the topic was registered at that time
    delivered,      \* the message last handed to a callback
    requested,      \* <<topic, payload>> whose EVENT_PUBLISH was queued, in order
    published,      \* what esp_mqtt_client_publish was given, in order, and the
                    \* <<topic, payload>> it was to be given
    dropped,        \* an event of the esp-mqtt task met a full queue
    overtaken       \* the FSM changed state, or wrote the buffer, between two
                    \* steps of the present call of On

Fsm == INSTANCE FsmTask WITH
    Tasks <- Users \cup {Esp}, Isrs <- {},
    EntryState <- "STATE_DISABLED", StartArgs <- {"STATE_DISABLED"}

fsmVars  == <<m_isRunning, m_states, m_events, m_eventQueue, notified, task,
              newState, start, startArg, blocked, answer>>
dataVars == <<m_topic, m_payload, m_dataMutex, sent, delivered>>
linkVars == <<link, subscribed, acks, flaps>>
espVars  == <<handling, dropped>>
onVars   == <<m_handlers, index, overtaken>>
pubVars  == <<visit, owner, requested, published>>
userVars == <<call, connects>>
vars == <<fsmVars, dataVars, linkVars, espVars, onVars, pubVars, userVars,
          m_client, buffer>>

Idle == [at |-> "idle", topic |-> Empty, saved |-> Empty, isSubscribed |-> FALSE]

TypeOK ==
    /\ Fsm!TypeOK
    /\ m_client \in {"null", "created", "registered", "started"}
    /\ m_handlers \in Seq([topic : Topics, isSubscribed : BOOLEAN, late : BOOLEAN])
    /\ Len(m_handlers) <= Capacity
    /\ m_topic \in Topics \cup {Empty}
    /\ m_payload \in Payloads \cup Messages \cup {Empty, Mixed}
    /\ m_dataMutex \in {"free", Esp}
    /\ buffer \in Topics \cup {Empty}
    /\ call \in [Users ->
          [at : {"idle", "read_connected", "send_connect", "copy", "check", "construct",
                 "subscribe", "call", "push", "capacity_assert", "subscribe_assert"},
           topic : Topics \cup {Empty}, saved : Topics \cup {Empty},
           isSubscribed : BOOLEAN]]
    /\ visit \in {"none", "print", "topic", "publish"}
    /\ index \in 1..(Capacity + 1)
    /\ handling \in {"none", "payload", "notify"}
    /\ link \in {"idle", "waiting", "trying", "failing", "up"}
    /\ subscribed \subseteq Topics
    /\ acks \in Nat
    /\ owner \in [Payloads -> {"user", "queue", "freed", "nobody"}]
    /\ connects \in 0..MaxConnects
    /\ flaps \in 0..MaxFlaps
    /\ sent \in Seq([topic : Topics, payload : Messages, expected : BOOLEAN])
    /\ dropped \in BOOLEAN
    /\ overtaken \in BOOLEAN

Init ==
    /\ Fsm!Init
    /\ m_client = "null"
    /\ m_handlers = <<>>
    /\ m_topic = Empty /\ m_payload = Empty
    /\ m_dataMutex = "free"
    /\ buffer = Empty
    /\ call = [u \in Users |-> Idle]
    /\ visit = "none"
    /\ index = 1
    /\ handling = "none"
    /\ link = "idle"
    /\ subscribed = {}
    /\ acks = 0
    /\ owner = [p \in Payloads |-> "user"]
    /\ connects = 0 /\ flaps = 0
    /\ sent = <<>> /\ delivered = <<Empty, Empty>>
    /\ requested = <<>> /\ published = <<>>
    /\ dropped = FALSE /\ overtaken = FALSE

-----------------------------------------------------------------------------
(* Init() in a user task, interleaved with everything else.                *)

InitStep ==
    /\ Fsm!StartStep
    /\ UNCHANGED <<dataVars, linkVars, espVars, onVars, pubVars, userVars,
                   m_client, buffer>>

-----------------------------------------------------------------------------
(* External: esp_mqtt_client_subscribe.  It fails when the client is not   *)
(* connected, and may fail when it is.                                     *)
EspSubscribe(t, ok) ==
    /\ ok => link = "up"
    /\ ~ok => link # "up" \/ SubscribeMayFail
    /\ subscribed' = IF ok THEN subscribed \cup {t} ELSE subscribed
    /\ acks' = IF ok THEN acks + 1 ELSE acks

-----------------------------------------------------------------------------
(* On(topic, callback)                                                     *)

Goto(u, at) == call' = [call EXCEPT ![u].at = at]

\* Mutant: the assertion on the capacity is dropped.
OnCallUnchecked(u, t) ==
    /\ call[u].at = "idle"
    /\ call' = [call EXCEPT ![u] = [Idle EXCEPT !.at = "copy", !.topic = t]]
    /\ buffer' = t
    /\ UNCHANGED <<fsmVars, dataVars, linkVars, espVars, onVars, pubVars, connects,
                   m_client>>

OnCall(u, t) ==
    /\ call[u].at = "idle"
    /\ IF Len(m_handlers) # Capacity
       THEN /\ call' = [call EXCEPT ![u] = [Idle EXCEPT !.at = "copy", !.topic = t]]
            /\ buffer' = t
       ELSE Goto(u, "capacity_assert") /\ UNCHANGED buffer
    /\ UNCHANGED <<fsmVars, dataVars, linkVars, espVars, onVars, pubVars, connects,
                   m_client>>

OnCopy(u) ==
    /\ call[u].at = "copy"
    /\ call' = [call EXCEPT ![u].at = "check", ![u].saved = buffer]
    /\ UNCHANGED <<fsmVars, dataVars, linkVars, espVars, onVars, pubVars, connects,
                   m_client, buffer>>

OnCheck(u) ==
    /\ call[u].at = "check"
    /\ Goto(u, IF m_states = "STATE_CONNECTED" THEN "construct" ELSE "push")
    /\ overtaken' = FALSE
    /\ UNCHANGED <<fsmVars, dataVars, linkVars, espVars, m_handlers, index, pubVars,
                   connects, m_client, buffer>>

OnConstruct(u) ==
    /\ call[u].at = "construct"
    /\ Goto(u, "subscribe")
    /\ buffer' = call[u].topic
    /\ UNCHANGED <<fsmVars, dataVars, linkVars, espVars, onVars, pubVars, connects,
                   m_client>>

\* subscribe() in the user's task: its assertion, which spins when it fails, so
\* that the task never gets further.
OnSubscribeAsserts(u) ==
    /\ call[u].at = "subscribe"
    /\ Goto(u, IF m_states = "STATE_CONNECTED" THEN "call" ELSE "subscribe_assert")
    /\ UNCHANGED <<fsmVars, dataVars, linkVars, espVars, onVars, pubVars, connects,
                   m_client, buffer>>

\* The library call of subscribe(), in whatever state the FSM is by now.
OnSubscribe(u) ==
    /\ call[u].at = "call"
    /\ \E ok \in BOOLEAN :
          /\ EspSubscribe(buffer, ok)
          /\ call' = [call EXCEPT ![u].at = "push", ![u].isSubscribed = ok]
    /\ overtaken' = (overtaken \/ buffer # call[u].topic)
    /\ UNCHANGED <<fsmVars, dataVars, link, flaps, espVars, m_handlers, index, pubVars,
                   connects, m_client, buffer>>

\* The handler's "late" is not in the code: the FSM changed state after On
\* looked at it, so that reSubscribe may have missed the handler, or a topic that
\* the FSM published on was in the buffer when On needed its own.
OnPush(u) ==
    /\ call[u].at = "push"
    /\ m_handlers' = Append(m_handlers,
          [topic |-> call[u].saved, isSubscribed |-> call[u].isSubscribed,
           late |-> overtaken \/ call[u].saved # call[u].topic])
    /\ call' = [call EXCEPT ![u] = Idle]
    /\ UNCHANGED <<fsmVars, dataVars, linkVars, espVars, index, overtaken, pubVars,
                   connects, m_client, buffer>>

-----------------------------------------------------------------------------
(* TryConnect(brokerIp), with an address: two looks at the state, then the *)
(* event.  The result of Dispatch is not looked at.                        *)

TryConnectCall(u) ==
    /\ call[u].at = "idle"
    /\ connects < MaxConnects
    /\ connects' = connects + 1
    /\ m_states # "STATE_CONNECTING"
    /\ Goto(u, "read_connected")
    /\ UNCHANGED <<fsmVars, dataVars, linkVars, espVars, onVars, pubVars, m_client, buffer>>

TryConnectReadConnected(u) ==
    /\ call[u].at = "read_connected"
    /\ Goto(u, IF m_states = "STATE_CONNECTED" THEN "idle" ELSE "send_connect")
    /\ UNCHANGED <<fsmVars, dataVars, linkVars, espVars, onVars, pubVars, connects,
                   m_client, buffer>>

TryConnectSend(u) ==
    /\ call[u].at = "send_connect"
    /\ Fsm!Dispatch(u, Event("EVENT_CONNECT"))
    /\ Goto(u, "idle")
    /\ UNCHANGED <<dataVars, linkVars, espVars, onVars, pubVars, connects, m_client, buffer>>

\* Mutant: the caller deletes the payload when Dispatch has returned.
PublishFreesPayload(u, t, p) ==
    /\ call[u].at = "idle"
    /\ owner[p] = "user"
    /\ Fsm!Dispatch(u, Publishing(t, p))
    /\ owner' = [owner EXCEPT ![p] = "freed"]
    /\ requested' = IF answer'[u] = "taken" THEN Append(requested, <<t, p>>) ELSE requested
    /\ UNCHANGED <<dataVars, linkVars, espVars, onVars, visit, published, userVars,
                   m_client, buffer>>

(* Publish(topic, msg): SUCCESS whatever Dispatch returned; a payload that *)
(* was refused belongs to nobody.                                          *)
Publish(u, t, p) ==
    /\ call[u].at = "idle"
    /\ owner[p] = "user"
    /\ Fsm!Dispatch(u, Publishing(t, p))
    /\ LET taken == answer'[u] = "taken" IN
       /\ owner' = [owner EXCEPT ![p] = IF taken THEN "queue" ELSE "nobody"]
       /\ requested' = IF taken THEN Append(requested, <<t, p>>) ELSE requested
    /\ UNCHANGED <<dataVars, linkVars, espVars, onVars, visit, published, userVars,
                   m_client, buffer>>

-----------------------------------------------------------------------------
(* The FSM's task.  Receiving an event, ignoring one and entering a state  *)
(* without work of its own are FsmTask's steps alone.                      *)

Visiting(s, name) == task = "dispatch" /\ m_states = s /\ m_events.name = name

BaseStep ==
    /\ \/ Fsm!NotifyTake
       \/ Fsm!Receive
       \/ m_states # "STATE_CONNECTED" /\ Fsm!OnEntry
       \/ /\ ~Visiting("STATE_DISABLED", "EVENT_CONNECT")
          /\ ~Visiting("STATE_CONNECTED", "EVENT_PUBLISH")
          /\ ~Visiting("STATE_CONNECTED", "EVENT_INCOMING_DATA")
          /\ \E r \in States \cup {NoChange} : Fsm!dispatch(r)
    /\ UNCHANGED <<dataVars, linkVars, espVars, onVars, visit, requested, published,
                   userVars, m_client, buffer>>
    /\ owner' = IF task = "dispatch" /\ m_events.name = "EVENT_PUBLISH"
                THEN [owner EXCEPT ![m_events.payload] = "nobody"] ELSE owner

ChangeState ==
    /\ Fsm!handleNewState
    /\ overtaken' = TRUE
    /\ index' = 1
    /\ UNCHANGED <<dataVars, linkVars, espVars, m_handlers, pubVars, userVars,
                   m_client, buffer>>

\* Mutant: what esp_mqtt_client_start returns is not looked at.
connectUnchecked(progress) ==
    /\ Visiting("STATE_DISABLED", "EVENT_CONNECT")
    /\ IF m_client # "null"
       THEN UNCHANGED <<m_client, link>> /\ Fsm!dispatch(NoChange)
       ELSE /\ m_client' = progress
            /\ link' = IF progress = "started" THEN "waiting" ELSE link
            /\ Fsm!dispatch(IF progress \in {"registered", "started"}
                            THEN "STATE_CONNECTING" ELSE NoChange)
    /\ UNCHANGED <<dataVars, subscribed, acks, flaps, espVars, onVars, pubVars, userVars,
                   buffer>>

\* connect(): an existing handle is refused; otherwise the handle is created,
\* the handler registered and the client started, and each of these may fail.
connect(progress) ==
    /\ Visiting("STATE_DISABLED", "EVENT_CONNECT")
    /\ IF m_client # "null"
       THEN UNCHANGED <<m_client, link>> /\ Fsm!dispatch(NoChange)
       ELSE /\ m_client' = progress
            /\ link' = IF progress = "started" THEN "waiting" ELSE link
            /\ Fsm!dispatch(IF progress = "started" THEN "STATE_CONNECTING" ELSE NoChange)
    /\ UNCHANGED <<dataVars, subscribed, acks, flaps, espVars, onVars, pubVars, userVars,
                   buffer>>

\* Mutant: a handler that was subscribed in an earlier session is skipped.
reSubscribeMissing ==
    /\ task = "entry"
    /\ m_states = "STATE_CONNECTED"
    /\ index <= Len(m_handlers)
    /\ IF m_handlers[index].isSubscribed
       THEN UNCHANGED <<subscribed, acks, m_handlers>>
       ELSE \E ok \in BOOLEAN :
               /\ EspSubscribe(m_handlers[index].topic, ok)
               /\ m_handlers' = [m_handlers EXCEPT ![index].isSubscribed = ok]
    /\ index' = index + 1
    /\ UNCHANGED <<fsmVars, dataVars, link, flaps, espVars, overtaken, pubVars, userVars,
                   m_client, buffer>>

\* on_entry(STATE_CONNECTED): one iteration of reSubscribe's loop.
reSubscribe ==
    /\ task = "entry"
    /\ m_states = "STATE_CONNECTED"
    /\ index <= Len(m_handlers)
    /\ \E ok \in BOOLEAN :
          /\ EspSubscribe(m_handlers[index].topic, ok)
          /\ m_handlers' = [m_handlers EXCEPT ![index].isSubscribed = ok]
    /\ index' = index + 1
    /\ UNCHANGED <<fsmVars, dataVars, link, flaps, espVars, overtaken, pubVars, userVars,
                   m_client, buffer>>

reSubscribeEnd ==
    /\ m_states = "STATE_CONNECTED"
    /\ index > Len(m_handlers)
    /\ Fsm!OnEntry
    /\ UNCHANGED <<dataVars, linkVars, espVars, onVars, pubVars, userVars, m_client, buffer>>

\* on_event(STATE_CONNECTED, EVENT_PUBLISH) clears m_payload and prints into
\* it, without the mutex, then writes the topic, calls publish() and frees.
PublishClear ==
    /\ Visiting("STATE_CONNECTED", "EVENT_PUBLISH")
    /\ visit = "none"
    /\ m_payload' = Empty
    /\ visit' = "print"
    /\ UNCHANGED <<fsmVars, m_topic, m_dataMutex, sent, delivered, linkVars, espVars,
                   onVars, owner, requested, published, userVars, m_client, buffer>>

\* A copy by the esp-mqtt task that is under way, or was meanwhile, mixes in.
PublishPrint ==
    /\ visit = "print"
    /\ \/ m_payload' = m_events.payload
       \/ (handling = "payload" \/ m_payload # Empty) /\ m_payload' = Mixed
    /\ visit' = "topic"
    /\ UNCHANGED <<fsmVars, m_topic, m_dataMutex, sent, delivered, linkVars, espVars,
                   onVars, owner, requested, published, userVars, m_client, buffer>>

\* Mutant: the topic that is in the static buffer is not built again.
PublishTopicCached ==
    /\ visit = "topic"
    /\ buffer' = IF buffer = Empty THEN m_events.topic ELSE buffer
    /\ visit' = "publish"
    /\ UNCHANGED <<fsmVars, dataVars, linkVars, espVars, onVars, owner, requested,
                   published, userVars, m_client>>

PublishTopic ==
    /\ visit = "topic"
    /\ buffer' = m_events.topic
    /\ visit' = "publish"
    /\ UNCHANGED <<fsmVars, dataVars, linkVars, espVars, onVars, owner, requested,
                   published, userVars, m_client>>

\* The library copies m_payload while the esp-mqtt task may be writing it.
PublishSend ==
    /\ visit = "publish"
    /\ \E payload \in {m_payload, Mixed} :
          /\ payload = Mixed => \/ m_payload # m_events.payload \/ handling = "payload"
          /\ published' = Append(published,
                [topic |-> buffer, payload |-> payload,
                 request |-> <<m_events.topic, m_events.payload>>])
    /\ owner' = [owner EXCEPT ![m_events.payload] = "freed"]
    /\ visit' = "none"
    /\ Fsm!dispatch(NoChange)
    /\ UNCHANGED <<dataVars, linkVars, espVars, onVars, requested, userVars, m_client, buffer>>

\* The payload does not fit the buffer: its beginning stays there, or a mixture,
\* and nothing is published.
PublishTooLong ==
    /\ visit = "print"
    /\ m_payload' = Mixed
    /\ owner' = [owner EXCEPT ![m_events.payload] = "freed"]
    /\ visit' = "none"
    /\ Fsm!dispatch(NoChange)
    /\ UNCHANGED <<m_topic, m_dataMutex, sent, delivered, linkVars, espVars, onVars,
                   requested, published, userVars, m_client, buffer>>

\* findHandler(topic) finds a handler.
Handled(t) == \E i \in 1..Len(m_handlers) : m_handlers[i].topic = t

\* Mutant: handleData does not take the mutex.
handleDataUnlocked ==
    /\ Visiting("STATE_CONNECTED", "EVENT_INCOMING_DATA")
    /\ delivered' = IF Handled(m_topic) THEN <<m_topic, m_payload>> ELSE delivered
    /\ Fsm!dispatch(NoChange)
    /\ UNCHANGED <<m_topic, m_payload, m_dataMutex, sent, linkVars, espVars, onVars, pubVars,
                   userVars, m_client, buffer>>

\* handleData(): the mutex is held from findHandler to the callback's end.
handleData ==
    /\ Visiting("STATE_CONNECTED", "EVENT_INCOMING_DATA")
    /\ m_dataMutex = "free"
    /\ delivered' = IF Handled(m_topic) THEN <<m_topic, m_payload>> ELSE delivered
    /\ Fsm!dispatch(NoChange)
    /\ UNCHANGED <<m_topic, m_payload, m_dataMutex, sent, linkVars, espVars, onVars, pubVars,
                   userVars, m_client, buffer>>

TaskStep ==
    \/ BaseStep
    \/ ChangeState
    \/ \E c \in {"null", "created", "registered", "started"} : connect(c)
    \/ reSubscribe \/ reSubscribeEnd
    \/ PublishClear \/ PublishPrint \/ PublishTopic \/ PublishSend \/ PublishTooLong
    \/ handleData

-----------------------------------------------------------------------------
(* The esp-mqtt task: mqttEventHandler for what the library reports.       *)

Report(name) ==
    /\ Fsm!Dispatch(Esp, Event(name))
    /\ dropped' = (dropped \/ answer'[Esp] = "refused")
    /\ handling' = "none"
    /\ UNCHANGED <<onVars, pubVars, userVars, m_client, buffer>>

\* External: when the library reports what.
EspBeforeConnect ==
    /\ handling = "none"
    /\ link = "waiting" /\ link' = "trying"
    /\ Report("EVENT_BEFORE_CONNECT")
    /\ UNCHANGED <<dataVars, subscribed, acks, flaps>>

EspConnected ==
    /\ handling = "none"
    /\ link = "trying" /\ link' = "up"
    /\ subscribed' = {} /\ acks' = 0
    /\ Report("EVENT_CONNECTED")
    /\ UNCHANGED <<dataVars, flaps>>

\* The transport reports an error, and the connection is then given up.
EspError ==
    /\ handling = "none"
    /\ link \in {"trying", "up"} /\ link' = "failing"
    /\ flaps < MaxFlaps /\ flaps' = flaps + 1
    /\ subscribed' = {} /\ acks' = 0
    /\ Report("EVENT_ERROR")
    /\ UNCHANGED dataVars

\* A connection is given up, after an error or because the broker closed it.
EspDisconnected ==
    /\ handling = "none"
    /\ \/ link = "failing" /\ UNCHANGED flaps
       \/ link = "up" /\ flaps < MaxFlaps /\ flaps' = flaps + 1
    /\ link' = "waiting"
    /\ subscribed' = {} /\ acks' = 0
    /\ Report("EVENT_DISCONNECTED")
    /\ UNCHANGED dataVars

EspSubscribed ==
    /\ handling = "none"
    /\ acks > 0 /\ acks' = acks - 1
    /\ Report("EVENT_SUBSCRIBED")
    /\ UNCHANGED <<dataVars, link, subscribed, flaps>>

\* MQTT_EVENT_DATA: the two copies under the mutex, then the event.
DataTopic(t, m) ==
    /\ link = "up"
    /\ handling = "none"
    /\ t \in subscribed
    /\ \A i \in 1..Len(sent) : sent[i].payload # m
    /\ m_dataMutex = "free"
    /\ m_dataMutex' = Esp
    /\ m_topic' = t
    /\ m_payload' = Empty
    /\ sent' = Append(sent, [topic |-> t, payload |-> m, expected |-> Handled(t)])
    /\ handling' = "payload"
    /\ UNCHANGED <<fsmVars, delivered, linkVars, dropped, onVars, pubVars, userVars,
                   m_client, buffer>>

\* A printing that is under way, or was meanwhile, mixes in.
DataPayload ==
    /\ handling = "payload"
    /\ \/ m_payload' = sent[Len(sent)].payload
       \/ (visit = "print" \/ m_payload # Empty) /\ m_payload' = Mixed
    /\ m_dataMutex' = "free"
    /\ handling' = "notify"
    /\ UNCHANGED <<fsmVars, m_topic, sent, delivered, linkVars, dropped, onVars, pubVars,
                   userVars, m_client, buffer>>

\* Mutant: data is only announced to an FSM that is seen connected.
DataNotifyIfConnected ==
    /\ handling = "notify"
    /\ IF m_states = "STATE_CONNECTED"
       THEN Report("EVENT_INCOMING_DATA")
       ELSE /\ handling' = "none"
            /\ UNCHANGED <<fsmVars, dropped, onVars, pubVars, userVars, m_client, buffer>>
    /\ UNCHANGED <<dataVars, linkVars>>

DataNotify ==
    /\ handling = "notify"
    /\ Report("EVENT_INCOMING_DATA")
    /\ UNCHANGED <<dataVars, linkVars>>

EspStep ==
    \/ EspBeforeConnect \/ EspConnected \/ EspError \/ EspDisconnected \/ EspSubscribed
    \/ \E t \in Topics, m \in Messages : DataTopic(t, m)
    \/ DataPayload \/ DataNotify

-----------------------------------------------------------------------------
\* A user finishes the call it is in.
CallStep(u) ==
    \/ OnCopy(u) \/ OnCheck(u) \/ OnConstruct(u) \/ OnSubscribeAsserts(u)
    \/ OnSubscribe(u) \/ OnPush(u)
    \/ TryConnectReadConnected(u) \/ TryConnectSend(u)

UserStep ==
    \/ \E u \in Registrars, t \in Topics : OnCall(u, t)
    \/ \E u \in Users : \/ TryConnectCall(u)
                        \/ CallStep(u)
                        \/ \E t \in Topics, p \in Payloads : Publish(u, t, p)

Next == InitStep \/ TaskStep \/ EspStep \/ UserStep

Spec == Init /\ [][Next]_vars

(* The scheduler runs every task that is ready: the FSM's task, the caller *)
(* of Init, a user in a call, and the esp-mqtt task in mqttEventHandler    *)
(* and in its own reconnect loop.  Nobody has to make a call.              *)
Fairness ==
    /\ WF_vars(InitStep)
    /\ WF_vars(TaskStep)
    /\ \A u \in Users : WF_vars(CallStep(u))
    /\ WF_vars(DataPayload \/ DataNotify)
    /\ WF_vars(EspBeforeConnect \/ EspConnected \/ EspDisconnected \/ EspSubscribed)

FairSpec == Spec /\ Fairness

-----------------------------------------------------------------------------
(* Properties.                                                             *)

\* Nothing is queued and neither the FSM's task nor the esp-mqtt task is busy.
Quiescent ==
    /\ task = "receive"
    /\ m_eventQueue = <<>>
    /\ handling = "none"

(* The FSM leaves DISABLED only with a client that connect() has created,  *)
(* registered and started: no event of a half-made client, and no stale    *)
(* BEFORE_CONNECT or CONNECTED, moves it.                                  *)
StartedBeforeConnecting == m_states # "STATE_DISABLED" => m_client = "started"

(* Once all reports of the library have been handled, and none met a full  *)
(* queue, the FSM says connected exactly when the link is up, whatever the *)
(* order of errors, disconnects and reconnects.                            *)
FsmFollowsLink ==
    Quiescent /\ ~dropped => (m_states = "STATE_CONNECTED" <=> link = "up")

(* The flag isSubscribed is kept by two tasks, On's caller and reSubscribe.*)
(* With the link up and everything handled it is true of every handler,    *)
(* unless the library refused, and the broker's present session then knows *)
(* the topic; the exception are handlers whose On did not see a change of  *)
(* state, or took from the buffer what the FSM had written.                *)
HandlersSubscribed ==
    Quiescent /\ ~dropped /\ link = "up" =>
        \A i \in 1..Len(m_handlers) :
            LET h == m_handlers[i] IN
            ~h.late => /\ h.isSubscribed => h.topic \in subscribed
                       /\ h.isSubscribed \/ SubscribeMayFail

(* Publishing prints into m_payload without m_dataMutex: a message's       *)
(* payload may be replaced by one that Publish has queued, mixed with it,  *)
(* or lost.                                                                *)
Overprints ==
    IF requested = <<>> THEN {}
    ELSE {Empty, Mixed} \cup {requested[k][2] : k \in 1..Len(requested)}

\* What was delivered is the message m, but for such a replacement.
Carries(m) == delivered[1] = m.topic /\ delivered[2] \in {m.payload} \cup Overprints

(* A callback never sees the topic of one message with the payload of      *)
(* another (m_dataMutex): only a payload that this client was asked to     *)
(* publish can take the place of the message's own.                        *)
DeliveredWasSent ==
    \/ delivered = <<Empty, Empty>>
    \/ \E j \in 1..Len(sent) : Carries(sent[j])

(* An incoming message may be overwritten by a later one before the FSM    *)
(* looks at it, but the last one reaches its handler.                      *)
LastMessageDelivered ==
    Quiescent /\ ~dropped /\ sent # <<>> /\ sent[Len(sent)].expected =>
        Carries(sent[Len(sent)])

(* A payload that waits in the queue, or that the FSM is working on, has   *)
(* not been freed, and no other queued event holds it.                     *)
QueuedPayloadsLive ==
    LET inHand == IF task = "dispatch" THEN <<m_events>> \o m_eventQueue ELSE m_eventQueue
        holds(i) == inHand[i].name = "EVENT_PUBLISH"
    IN  \A i \in 1..Len(inHand) : holds(i) =>
            /\ owner[inHand[i].payload] = "queue"
            /\ \A j \in 1..Len(inHand) :
                  holds(j) /\ inHand[i].payload = inHand[j].payload => i = j

(* The same the other way round: mqttEventHandler writes m_payload while   *)
(* the FSM's task publishes from it.                                       *)
Overcopies ==
    IF sent = <<>> THEN {}
    ELSE {Empty, Mixed} \cup {sent[n].payload : n \in 1..Len(sent)}

\* Some call of On has got past its first assertion, and uses the buffer too.
Registered == m_handlers # <<>> \/ \E u \in Users : call[u].topic # Empty

(* Messages leave in the order in which Publish queued them, each at most  *)
(* once.  All of them share the static buffers, and still each leaves with *)
(* its own topic and payload: only a registration can give it another      *)
(* topic, and only an incoming message another payload.                    *)
PublishedInOrder ==
    \A i \in 1..Len(published) :
        LET m == published[i] IN
        /\ m.topic = m.request[1] \/ Registered
        /\ m.payload \in {m.request[2]} \cup Overcopies
        /\ \E k \in 1..Len(requested) :
              /\ requested[k] = m.request
              /\ \A j \in 1..(i - 1) : \E l \in 1..(k - 1) :
                    requested[l] = published[j].request

(* If the link stays up, the FSM ends up connected with every handler      *)
(* subscribed, whatever happened before.                                   *)
LinkUpIsUsed ==
    [](~dropped) /\ <>[](link = "up") =>
        <>[](/\ m_states = "STATE_CONNECTED"
             /\ \A i \in 1..Len(m_handlers) :
                   m_handlers[i].late \/ m_handlers[i].isSubscribed)
=============================================================================
