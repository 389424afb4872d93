# Verification of esparrag32

esparrag32 is a C++ framework for the ESP32 on ESP-IDF and FreeRTOS: two
base classes for finite state machines, and on top of them WiFi, MQTT, an
over-the-air update, buttons and thin drivers. This directory holds TLA+ models
of its concurrent core, the TLC configurations that check them on small
instances, and TLAPS proofs of the most important results.

    tlc -workers 2 -config MCFsmTask.cfg MCFsmTask.tla     # a run
    tlapm FsmTaskProofs.tla                                # the proofs of a module

`PROJECT.json` lists components, runs, mutants, the source lines of every
definition, findings, hazards and theorems.

## 1. The system

| component | source | state it keeps | operations | what makes it correct |
|---|---|---|---|---|
| FsmTask | `common/fsm_task.h` | `m_isRunning`, `m_states`, `m_events`, a FreeRTOS queue, a task | Start, Dispatch (with or without timeout), DispatchFromISR, the task's loop | events for which Dispatch returned true are handled once each, in order, to completion; nothing is handled before Start; what is queued is handled |
| FsmTaskless | `common/fsm_taskless.h` | `m_isRunning`, `m_states`, `m_events` | Start, Dispatch, both in the caller's context | "equivalent to FSMTask" |
| MQTT client | `network/esparrag_mqtt` | an FsmTask (DISABLED, CONNECTING, CONNECTED), `m_client`, `m_handlers`, static buffers for topic and payload, a mutex | Init, TryConnect, On, Publish, `mqttEventHandler` | the FSM follows the link; registered handlers are subscribed; messages are not mixed up, payloads are freed once |
| Wifi | `network/esparrag_wifi` | an FsmTaskless (Offline, AP, Connecting, Connected), a retry counter | Connect, SwitchToAP, Disconnect, `eventHandler` | the FSM agrees with the driver; connecting is attempted and retried |
| Direct OTA | `network/esparrag_fota` | the DIRECT_OTA task's session, `m_directOtaHandle`, sizes, a watchdog timer | the task's loop; `otaWdtHandler` in the timer daemon | the running and the boot partition are never written; only a complete image is booted; each session ends and cleans up |
| Button, RealAnyEdge, Debouncer | `drivers/esparrag_button`, `drivers/real_any_edge`, `common/debouncer.h` | an FsmTaskless (IDLE, PRESSED), two sorted lists of callbacks, a timer; pin state and interrupt type | RegisterPress, RegisterRelease, the pin's interrupt, `timerCB` | no edge is lost or taken twice, callbacks come in order and on time |
| Blinker | `modules/blinker` | a timer, counters, the level of a pin | Start, Stop, `timerCB` | a pin at rest has the level that was asked for; a limited number of blinks ends |
| I2C, Lock | `drivers/esparrag_i2c`, `common/lock.h` | an initialisation flag and a mutex for all objects | Read and Write, with and without a register | the two transactions of a read are atomic; the mutex comes back on every way out; who does not get it in time does no harm |
| NVS | `drivers/esparrag_nvs` | a handle and a mutex for each object | get, set, erase, commit | operations are atomic; committed values survive a restart |
| HTTP server | `network/esparrag_http` and request, response | `m_handlers`, `m_isRunning`, the httpd handle | On; `RunServer`, `stopServer` and `registerHandlers` are private and unused | - |
| PWM, time units | `drivers/esparrag_pwm`, `common/esparrag_time_units` | frequency, duty, resolution | setters; conversions | frequency and resolution fit; no overflow |
| GPIO, analog input, mDNS, DNS, ESP-NOW, Manager, results, logging | the rest | hardly any | wrappers | - |

How they interact:

- Every state machine derives from FsmTask or FsmTaskless and supplies
  `on_event`, `on_entry`. MQTT is an FsmTask: user tasks and the esp-mqtt task
  only queue events. Wifi and Button are FsmTaskless: the event loop's task, the
  user's tasks, the timer daemon and interrupts run the handlers themselves.
- MQTT shares memory between the FSM's task, the esp-mqtt task (topic and
  payload, under `m_dataMutex`) and users (`m_handlers` and a static buffer,
  without a lock).
- Direct OTA and Button talk to the FreeRTOS timer daemon through its command
  queue: a stop of a timer is a request, not a fact.
- Blinker's user and its callback in the timer daemon set the same pin and send
  commands for the same timer.
- Tasks share the I2C bus through objects with one static mutex, and the flash
  through NVS objects that have a mutex each, so that two objects of a namespace
  are not kept apart.
- Wifi's user talks to the driver, which answers with events that are handled
  later, perhaps in another state.

What is hard: two contexts in one handler; events handled in a state they were
not reported in; state read and used later (`On`); timer callbacks that come
after their stop; failing library calls and loss of power in the middle of an
update; full queues. `PROJECT.json` lists these hazards at their lines, with
the properties that cover them or the reason why none does.

## 2. Plan

Built so far, in this order:

1. `EventMachine` (the abstract promise), `FsmTask`, `FsmTaskProofs`.
2. `MqttClient`, composed of the client and an instance of `FsmTask`.
3. `ABUpdate` (abstract), `DirectOta`, `DirectOtaProofs`.
4. `FsmTaskless`, `FsmTasklessProofs`, `Wifi` (an instance of `FsmTaskless`).
5. `Button` (an instance of `FsmTaskless`, with interrupts and timer daemon).
6. `RegisterFile` (abstract), `Lock`, `I2C`, `I2CProofs`.
7. `KeyStore` (abstract), `NVS`, `NVSProofs`.
8. `Blinker`.
9. `MqttClientProofs`, with an instance of `FsmTaskProofs`.
10. `WifiProofs`.
11. `TimerProofs`, about `Button` and `Blinker`.
12. `MqttClient` with publishing, registering and receiving at the same time: what the
    unprotected buffers still guarantee, and the proofs without hypotheses on what is used.
13. `Wifi` with its two tasks in any interleaving, and the timeout of `Lock` in `I2C` and `NVS`.

## 3. The modules

Names of variables, states, events and operations are the source's. A variable
called `at`, `task`, `pc`, `start`, `handling`, `visit` or `handler` is a
program counter: it says where a task stands in the operation being modelled.
Steps are cut wherever another context can see or change what lies between.
Definitions under a comment "Mutant:" are deliberate errors; no specification
uses them. They show, substituted for the correct definition, that a property
can fail.

### EventMachine, FsmTask, FsmTaskProofs, MCFsmTask

`EventMachine` says what a state machine promises: an inbox of events that
were taken, each processed once, in order, never before the launch or before
`on_entry` of the state has run. `FsmTask` has one action for each access to
shared state: Start raises `m_isRunning` (`StartFlag`), assigns the state
(`StartState`) and wakes the task (`StartNotify`) in three steps, as the code
does; Dispatch is refused before Start, on a full queue at once or after a
wait (`DispatchBlock`, `BlockedSend`, `BlockedTimeout`); interrupts do not look
at `m_isRunning`; the task sleeps, enters, receives, dispatches and commits.
`RunToCompletion` is the refinement: an event is in the abstract inbox until
the result of its handler has been taken over, although the task has copied it
out of the queue before. `on_event` is a constant that gives a set of results
for each state and event; `MCFsmTask` allows all of them, so that one run covers
every machine over two states and two events.

### MqttClient, MqttClientProofs, MCMqttClient

`Transition` is the table of `on_event`; `connect`, `reSubscribe` (one step for
each handler), `PublishClear` and the steps after it, and `handleData` are the
work the FSM's task does in handlers. `handling` takes the esp-mqtt task
through `mqttEventHandler`, which locks, copies, unlocks and dispatches. A
user's `On` is cut between its look at the state, the assertion in `subscribe`,
the call of the library and `push_back`; Publish between the copy of the event
and the send. External: the library (start may fail; a link comes up and is
lost; DISCONNECTED is posted alone or after an ERROR) and the broker (clean
sessions, one SUBACK for a SUBSCRIBE). Messages are published with QoS 0, so
that MQTT_EVENT_PUBLISHED does not occur. `late` marks a handler that was pushed
after a change of state its `On` did not see - the code does not subscribe it
before the next reconnect - or whose `On` took from the static topic buffer what the FSM had
written there to publish; `HandlersSubscribed` excepts both by name.

Two buffers are shared without a lock. `m_payload` is written by `mqttEventHandler`, under
`m_dataMutex`, and by the handler of EVENT_PUBLISH, without it. Clearing and writing it are
steps of their own on both sides; where the two writers overlap, or one starts on what the
other has left, the result is one payload or the other or the constant `Mixed`, which stands for
any mixture, and the library may take a mixture too while the buffer is being written. The
static buffer of `constructFullTopic` is written by a user's `On` and by the handler of
EVENT_PUBLISH, as a whole: a mixture of two topics is not modelled.

Limits: an incoming message is one MQTT_EVENT_DATA; the library splits a long one, and the
later parts, which come without a topic (`esparrag_mqtt.cpp:43-46`), are not modelled. The event of
Publish holds the caller's pointer to the topic (`esparrag_mqtt.h:57`, line 91), which must stay
valid until the FSM's task has used it; the model has the topic's value. The waits for
`m_dataMutex` are taken to end within the 5 s of `Lock`.

### ABUpdate, DirectOta, DirectOtaProofs

`ABUpdate` says what an update may do to two partitions and the boot selector.
`DirectOta` follows the task from `recvfrom` through parsing, the reply,
`connect`, `esp_ota_begin`, the loop of recv, acknowledgement, write and
feeding the watchdog, to `esp_ota_end`, `esp_ota_set_boot_partition` and
`esp_restart`; every library call may fail. The watchdog's timer is started,
fed and stopped through the daemon's command queue, which may be full; its
callback sets `m_otaFailed` and closes the socket in two steps, between any
two steps of the task. Power may go at any moment. The text of an
announcement is abstracted to its port and size. The test that is meant for the size
(`esparrag_fota.cpp:94`) looks at the port again, and the model does the same:
`Accepted` lets any size pass, zero included. A failed `esp_ota_begin` may have erased the
partition.

Limits: `initUdpServer` is taken to succeed. Sizes are natural numbers: a negative one, which `atoi`
may return and which lines 158 to 160 mix with unsigned ones, is not modelled. A command to the
daemon waits for room as long as it takes; the code waits 10 s and then fails an assertion (lines
156, 187 and 195), which needs a daemon that stands still for that long. The number of a
closed socket is not used again, so that a late `otaWdtHandler` closes nobody else's.

### FsmTaskless, FsmTasklessProofs, MCFsmTaskless

Each caller of Dispatch stores the event into the member `m_events`, visits
`on_event` with what `m_states` and `m_events` hold by then, assigns the result
and enters the state: four steps that other callers interleave with. With one
caller it implements `EventMachine`, and this is proved; with two whose calls
overlap it does not (section 7). Handlers that dispatch into
their own machine do not occur in the repository and are not modelled.

### Wifi, WifiProofs

An instance of `FsmTaskless` with the callers "user" and "loop". The user's
calls dispatch one event or none; `posted` is the event loop's queue. The driver
(`mode`, `started`, `sta`, `stations`) posts what esp_wifi posts; calls of it
may fail (`DriverFails`). Assumed of the driver: `esp_wifi_start` posts STA_START when the mode
is STA.

Nothing keeps the two tasks apart, in the code or in the model: each may be inside Dispatch
while the other is. The history variable `overlapped` becomes TRUE when a call of
the user is dispatched while posted events wait or the loop handles one, or when the loop
dispatches an event before the call's new state is assigned; a restart of the device
resets it. No action looks at it. `FsmFollowsDriver` and `ConnectingMeansAttempt` claim
nothing once it is TRUE, since they are false of the code then (section 7). As long as
it is FALSE they are about what remains hard: events left by a driver that has
been stopped, losses of the link between any two steps, stations that leave, failing driver functions.
`LoneConnect` says for which calls nobody has to see to it that they do not overlap: a first Connect,
which starts the driver in `on_entry`, but not a first SwitchToAP, which starts it in `on_event`.

### Button, TimerProofs

An instance of `FsmTaskless` with the callers "user" (the constructor), "isr"
and "daemon". `IsrEdge` to `IsrEnd` is `RealAnyEdge::isr_func`, driven by
a level-triggered interrupt: an edge within the debounce time is not taken, and
the interrupt is served again until the time is up. The handlers queue commands
and callbacks for the daemon without waiting, and what finds no room is lost.
`on_event(STATE_PRESSED, EVENT_TIMER)` is cut into its calls, since the interrupt
may preempt the daemon there. Time is counted in ticks up to `MaxTime`, one more
than the longest time that matters. The interrupt is served on the core of the
timer daemon, so that the handler runs to its end: it is installed by the task
that makes the button, the main task, and that and the daemon run on core 0.
The pin may move at any moment, also between the three looks
that the constructors take at it; `differed` records that these saw different levels.
Nothing in the code sets a wrong kind of interrupt right: it is toggled with each
edge and stays inverted.

Limits: a registration is one step, although the interrupt or the daemon may see a list
between the assignment and the sort (`esparrag_button.cpp:79-80`): callbacks are to be
registered while the button is at rest. Times are whole ticks; a difference below a tick would give
`toTicks()` the period 0. The change of the period and the start that `startTimer` sends are
queued together, the interrupt's stop before or after both. The interrupt that may come between
`RegisterISR` and `DisableInterrupt` in RealAnyEdge's constructor, without a callback
(`real_any_edge.cpp:36`), is not modelled. The assertion of `esparrag_button.cpp:133`, that time has
passed since the press, holds and is left out.

### RegisterFile, Lock, I2C, I2CProofs

`RegisterFile` says what tasks that share a bus may expect: each read or write of
a register is one step. `I2C` has a step for each bus transaction:
`switchRegister` leaves the device pointing at a register, `read` reads where
it points, `write` does both. Building the list of bus commands has no effect on the bus and
is part of the transaction; any of its steps may fail, and a transaction that is reported as
failed may have reached the device. `Lock` is the mutex of `common/lock.h`, with its
assertions. Its constructor waits 5 s: FreeRTOS hands the mutex to nobody, the task that is
scheduled first takes it, so a task that waits may do so until it fails the assertion
(`BeginAsserts`) and stops. Hence no liveness is claimed of I2C. `IsRegisterFile` is a refinement without a mapping: I2C extends
RegisterFile and has its variables. Objects are taken to be constructed while no
call is in progress, because an `init` after one that failed makes the mutex
anew.

### KeyStore, NVS, NVSProofs, MCNVS

`KeyStore` is a store whose operations are single steps and whose restarts find,
for each key, the committed value or one set or erased since. `NVS` takes the
object's mutex, reads the length, compares it with the caller's buffer, reads the
value. A value is abstracted to its length, which is all the code looks at;
`requiredLen` is the local of that name. Objects of one namespace have a mutex
each: `LengthStaysTrue` says what one object guarantees, `IsKeyStore` what still
holds with more, because the library refuses a value that has outgrown the
length it is given. External: the library's calls, which are atomic, may fail,
and may have stored what they report as failed. A wait for a mutex may time out, as in I2C.

### Blinker, TimerProofs

The user's Start and Stop and the callback are cut at each access to the timer
or the pin. The daemon takes an expired timer first and then all commands, as
FreeRTOS does, and an armed timer may expire at any moment: periods play no
part in the properties. The user's commands wait for room as long as it takes; the code waits 5 s and
then fails an assertion (`blinker.cpp:16-17`, 22-23). `steady` is `m_on == m_off`. `asked` remembers the level that
Stop or the end of blinking has set last.

Button and Blinker, the two components driven by the timer daemon, share the
proof module `TimerProofs`. It extends `Button` and has `Blinker` as the instance
`Led`, with constants and variables of its own; the assumption on Blinker's
constants is there the hypothesis `LedConstants`.

## 4. The runs

| run | instance | what it shows |
|---|---|---|
| `fsm_task` | 2 tasks, 1 interrupt, queue of 2, 2 states, 2 events, any handlers | types, wake-up in Start's state, refinement of `EventMachine`; a queued event is handled (liveness) |
| `mqtt_subscribe` | 1 user, 1 topic, 2 calls of On, queue of 3, 2 lost links | the FSM follows the link, handlers are subscribed in the present session, a link that stays up is used (liveness) |
| `mqtt_receive` | 2 topics, 2 handlers, 2 messages, 1 lost link, refusals, queue of 2, nothing published | topic and payload belong together, the last message is delivered |
| `mqtt_publish` | 2 users, 2 payloads, 2 topics, 1 handler, 1 message, 1 lost link, queue of 1 | payloads are alive when used, in one event only; messages leave in order, and what the shared buffers can put into them |
| `direct_ota` | 2 announcements, 2 ports, sizes 0 and 3, buffer of 2, 1 power loss, timer queue of 3 | refinement of `ABUpdate`, no failing assertion, nothing left behind, every session ends (liveness) |
| `fsm_taskless_single` | 1 caller, 4 states, 4 events, any handlers | refinement of `EventMachine` |
| `wifi` | 3 calls at any moment, 2 losses, 1 failing driver function, 1 station, 1 retry | types, which first call cannot overlap with the event loop; while no call has overlapped: FSM and driver agree at rest, Connecting leads to an attempt (liveness) |
| `wifi_retry` (violation) | 1 Connect, 1 loss | the machine stays in Connecting and never tries again |
| `button` | times 0, 1 and 3, debounce of 1, 3 registrations, timer queue of 4, daemon behind once | the FSM follows the edges, callbacks alternate, timed ones are on time, lists stay sorted, a pin at rest is followed (liveness) |
| `i2c` | 2 tasks, 1 device, 2 registers, 2 values, 2 objects | the inductive invariant with the mutex given back on every path, refinement of `RegisterFile`, with timeouts of the mutex |
| `nvs` | 2 tasks, 2 keys, 2 lengths, 2 objects | with timeouts of the mutexes: a length read stays true, refinement of `KeyStore` |
| `blinker` | 2 or 3 blinks or for ever, timer queue of 3, 4 calls | a pin at rest is as asked, a limited blinker ends (liveness) |

Why the bounds are enough. Races need two parties, and each run has every kind
of party the code has. A queue of two can be empty, half full and full; the
queue of three in `mqtt_subscribe` lets an error, a disconnect and a reconnect
wait together. Two lost links give a stale event of the first a second session
to do harm in. In `mqtt_publish` one handler and one message are enough to have each writer of
the two shared buffers meet each other one, at every step, and a queue of one makes refusals
and lost reports common; the sharp form of the message properties, without any publishing, is
checked by `mqtt_receive`. Two OTA sessions let a late watchdog of the first meet the
second; size 3 with a buffer of 2 needs a full and a partial read. In `wifi` three
calls and two losses reach each state from each other one that leads there, with calls and losses in
every order; the safety properties are proved for any number. In `i2c` a second register is what
another task may select in between, and a second object is what is made after an `init`
that failed. In `nvs` two lengths let a value outgrow what was read, and the limits of
callers fit both, one or none. In `blinker` the callback's two commands and one of the
user fill the queue. In `button` the times 1 and 3
have unequal differences, a debounce time of one tick is shorter than a
press, and being behind once lets a release overtake the daemon; the safety properties
are proved for a daemon that is behind any number of times.

Counters (`MaxFlaps`, `MaxConnects`, `MaxSessions`, `MaxPowerLosses`, `MaxCalls`,
`MaxLosses`, `MaxFailures`, `MaxRegistrations`, `MaxLate`, `MaxObjects`) are guards of the environment's actions only,
never of the code's. `MaxLate` is the exception in kind: once it is used up, the daemon
is taken to work off what is due before the next edge or tick.

`CHECK_DEADLOCK FALSE` appears where the system may rest: the budgets of the
environment are used up, the OTA task waits for a datagram, a task has failed an assertion,
which stops it for ever. `MCFsmTask.cfg`,
`Button.cfg`, `I2C.cfg` and `NVS.cfg` check for deadlock.

`MCNVS` uses symmetry of tasks, keys and objects; `KeyStore` is a safety property and
symmetric in them. `MCMqttClient` uses symmetry of topics, messages and payloads and a view that
hides four variables while they are dead. Only the runs without liveness use them; no property
looks at the hidden values, and every action reads them only where the view
shows them.

## 5. Fairness

- `FsmTask`: weak fairness of the machine's task and of the task in Start: FreeRTOS
  runs ready tasks. No fairness of callers: nobody has to call anything.
- `MqttClient`: weak fairness of the FSM's task, of each call that a user has
  begun, and of the esp-mqtt task's handlers and reports. Nobody has to call, and
  the link need not come up: `LinkUpIsUsed` assumes a link that stays up, and that no
  report met a full queue, because the code ignores the result of Dispatch.
- `DirectOta`: weak fairness of the task's own steps and of the daemon, not of
  data that arrive: only the watchdog ends a silent transfer.
- `Wifi`: weak fairness of the two tasks and of the driver, which answers an
  attempt with success or failure.
- `Button`: weak fairness of the constructor, the interrupt as long as the pin
  asks for it, the daemon and time.
- `I2C` and `NVS`: none. A task may wait for a mutex until it fails an assertion.
- `Blinker`: weak fairness of the daemon and of what the user has begun.

## 6. What is proved

`FsmTaskProofs` - for any callers, states, events, queue size and `on_event`:

- `Invariance`, `TypeCorrect`, `LaunchInStartState`: the inductive invariant
  `Inv == TypeOK /\ WakesInStartState /\ HandlerOperands`. Types alone are not
  inductive: that a commit stores a state depends on its being a result of
  `on_event`, and the state at the wake-up on how far Start has got.
- `Implements`: `Spec => RunToCompletion`. Every step maps to Take, Refuse,
  Launch, Enter, Process or a stutter. The steps of Start are invisible until the
  task wakes; Receive is invisible because the event stays at the head of the abstract inbox.

`MqttClientProofs` - for any users, topics, payloads and messages, any queue size
and capacity:

- `IsFsmTask`, `FsmInvariance`, `EventsRunToCompletion`: every step of the client
  is a step of `FsmTask` or leaves the base class alone, so the theorems of
  `FsmTaskProofs`, instantiated, hold of the client: an event of a user or of the
  esp-mqtt task that was accepted is handled once, in order and to completion.
- `StartedInvariance` (`StartedBeforeConnecting`). `StartedInv` adds that a link, a
  commit and a BEFORE_CONNECT in the queue or under dispatch all mean a client that
  is started: an old event could otherwise move a machine whose client is not.
- `PayloadsLive` (`QueuedPayloadsLive`). `QueuedInv` speaks of the line, the event
  under dispatch followed by the queue: its publishings are alive and in the order
  of `requested`, where each payload occurs once. Two places in that order differ, so
  freeing the first payload cannot free another.
- `PublishOrder` (`PublishedInOrder`): every message leaves at most once and in order, and
  apart from what a registration or an incoming message puts into the shared buffers each
  leaves with its own topic and payload. `OrderInv` says that what has left precedes the whole
  line in the order of `requested`; `OperandsInv` what the buffers hold at each step of the
  handler (`visit`): the event's own operands, or a topic once somebody has registered
  (`Registered`), or a payload that came in (`Overcopies`). Both exceptions only grow, so that what
  has left stays explained.
- `FollowsLink` (`FsmFollowsLink`). Nothing is known of the FSM's state until the
  line is empty, so `LinkInv` speaks of the line and of the state that has been decided
  upon, assigned or not: the last event about the connection tells how the link is
  (`Agrees`), two connections have a disconnection between them (`Alternates`),
  without which the second would be ignored, and a disabled machine has
  BEFORE_CONNECT in line before any success (`Prepared`).
- `TypeCorrect`, if there is at most one registrar. `On` checks the capacity some
  steps before `push_back`; two registrars could both pass the check.
  The vector has no lock, so the code leaves it to its user that there is one.
- `NotTorn` (`DeliveredWasSent`) and `LastReachesHandler` (`LastMessageDelivered`).
  `CopiedInv` says that outside the two copies the members hold the last
  message, or in the payload's place one that was to be published (`Overprints`);
  `LastInv` that the last message is delivered, still to be announced, or
  has an event in the line that will find the machine connected. With nothing to
  publish `Overprints` is empty and the properties say that payload and topic are the message's.
- `FlagsAreTrue` (`HandlersSubscribed`), if there is at most one registrar. `SubscribedInv` says
  that `reSubscribe` has made the flags true up to its index, and
  that a flag that `On` still holds is true if no change of state and no other topic in
  the buffer came between.

`FsmTasklessProofs` - for a single caller and any machine: `HandlerOperands` is
invariant and FsmTaskless implements `EventMachine`. That there is one caller is
an assumption of the theorems, and the run with two shows that it is needed.

`DirectOtaProofs` - for any partitions (each has another), ports, sizes, number
of sessions and power losses: `TypeCorrect`, `UpdateInvariant`,
`AssertionsHold`, `Implements` (`Spec => IsABUpdate`) and `AlwaysBootable`.
`NothingLeft` (`SessionLeavesNothing`) says of every way out of a session that it closes what
it opened; its invariant follows the watchdog through the daemon's queue.
`UpdateInv` says that the device runs what it would boot except just before the
restart, that the handle names another partition, and that while nothing has
failed the bytes counted are those written. It is needed since
`ABUpdate` forbids writing to the running or the boot partition at a moment when
the task only knows its handle, and since `fotaFinish` concludes from counters
what the flash holds.

`I2CProofs` - for any tasks, devices, registers, values and number of objects:
`Invariance` and `Implements`. `Inv` adds to the types that a
task between lock and unlock holds the mutex and nobody else does, that the mutex exists and
is given back by its holder, that a task's position fits its call
and its answer, and that a task about to read finds its device at the register
it has selected. Of the assertions in `Lock` only the one on the wait can fail. The last is what makes the read one step of `RegisterFile`; it
is kept because only the holder moves a pointer.

`NVSProofs` - for any tasks, keys, values and objects: `LengthKept` and
`Implements`. `Inv` says who holds which mutex, what a position tells of the call,
and that a length found is no longer than the caller's buffer; with one object
two tasks inside calls would hold the same mutex, so that nobody stores between the
two reads.

`TimerProofs` - about `Button`, for any set of times with a longest one, any debounce
time, length of the queue, number of registrations and lateness of the daemon:

- `TypeCorrect` (`TypeOK`) and `ListsSorted` (`CallbacksSorted`). The two need each
  other: that the daemon is only told positive periods rests on the timed
  callbacks being sorted. `registerEvent` sorts at most three entries,
  for which a sorting permutation is found by cases (`SortedBy`); entries without a
  callback have the time 0 and stay in front.
- `HandlerInv`, below everything else, says where the three callers can be and what they
  find in `m_events`. The daemon may be interrupted between its store into
  `m_events` and its look at it. The interrupt handler runs to its end and
  leaves an event that the new state ignores, so that the daemon neither
  repeats a press nor undoes it (`DaemonOperands`).
- `FollowsEdges` (`ButtonFollowsEdges`), whenever the pin moves. The property is silent
  inside the interrupt handler, so `EdgeInv`
  says which of the four places - RealAnyEdge, the event, the FSM, the
  kind of interrupt - have taken the edge at each of its steps. The first edge brings the
  FSM and RealAnyEdge together even if the constructors saw different levels: the event
  says which level RealAnyEdge has, and a state that ignores it is the right one already.
  About the kind of interrupt nothing holds then, and the property claims nothing.
- `EdgesAlternate` (`CallbacksAlternate`). `AlternateInv` speaks of the line, the last
  call followed by the queue: it alternates, and it ends with the call that the
  machine's last change of state has queued (`LastEdge`), so that the next one
  differs. `QuietInv` says that before the first edge the line is empty.
- `TimedPressesInTime` (`TimedOnTime`). `DueInv` holds as long as the daemon keeps
  up: wherever the remaining time is kept - in the running timer (`TimerDue`),
  in the period and the start that are queued (`QueueDue`), or in the handler that
  arms the next (`HandlerDue`) - it and the time the button has been held add up to
  the time of the callback that is due. A timer that is not for this press has
  its stop at the head of the queue.

and about `Blinker`, for any number of blinks and calls and any length of the
queue: `LedInvariance` and `PinRestsAsAsked` (`RestsAsAsked`). The invariant
`SomebodyGoesOn` says that a pin that is not as asked will be set or blinked on: the
user is about to set it, the callback is running, or the last command in the
queue, or the timer if there is none, keeps it running.

`WifiProofs` - for any bounds on calls, retries, stations, losses and failures:

- `TypeCorrect`: types, and that whoever is in Dispatch finds an event in `m_events`,
  although both tasks write it.
- `FollowsDriver` (`FsmFollowsDriver`), for behaviours in which no call has overlapped.
  `HandlerInv` says what that means step by step: as long as the
  user's handler runs the loop is idle, and while the user enters the new state the loop has at most
  looked at an event, which that state ignores. `PhaseInv` is
  the heart: for each state that has been decided upon and each state of the station
  it says which events may be in line (`Fits`). A lost connection is
  the last event in line; what a stopped driver has left behind consists of events that Connecting
  ignores; and Connecting is entered with a station at rest. The property itself says
  nothing while an event is in line, and so is far from inductive.
- `FirstCallAlone` (`LoneConnect`): `FirstCallInv` says that until the first call has
  assigned its state the driver is not started, unless the call is SwitchToAP, and that a
  driver that is not started has posted nothing. TLC finds the property violated without
  that exception.

The other assumptions are the modules' `ASSUME`s on constants, which the runs evaluate.

Only model-checked: liveness everywhere (`LinkUpIsUsed`, `SessionEnds`, `PinIsFollowed`,
`ConnectingMeansAttempt`, `LimitedEnds` and the others), which is out of the prover's reach.
Every safety property of a run is also a theorem, under the hypotheses named above.
No result needs an induction over data: what a queue holds is described by quantifiers
over its places, and the lists of `Button` have three entries.

## 7. Findings

1. `esparrag_wifi.cpp:205` counts a retry but does not retry: after a refused
   attempt the machine stays in Connecting for ever (`wifi_retry`).

Also met while modelling, without a run of their own:

- `esparrag_mqtt.cpp:346` asserts STATE_CONNECTED in `subscribe`. `On` looks at
  the state in a user's task before, and the FSM's task may leave it in
  between; the user's task then stops (`OnSubscribeAsserts`).
- `fsm_taskless.h:11` says "Equivalent to FSMTask but without a task". With two
  callers whose calls overlap, one can overwrite `m_events` before the other's `on_event` has read
  it (lines 103 to 108): an event is lost and another handled twice.
- Wifi has such callers. A Disconnect that is in `on_event` while the loop handles the loss of the link
  assigns Offline after the loop has assigned Connecting and started the station, which
  then associates while the machine rests in Offline. A Connect in state AP stops the
  access point inside `on_event` (`esparrag_wifi.cpp:195`); if the loop handles the AP_STOP of that before
  Connecting is assigned, the machine may end in Offline and no attempt is made. TLC finds
  `FsmFollowsDriver` and `ConnectingMeansAttempt` violated when they are stated without `overlapped`.
- `lock.h:18` asserts that a mutex comes within 5 s, which FreeRTOS does not promise to a task that
  others overtake: the task stops in the middle of its call (`BeginAsserts`).
- `esparrag_fota.cpp:94` tests the port where the message at line 95 says size.
- The usage example of `fsm_task.h:89` asserts a new state right after Dispatch,
  which only queues the event.
- A release lost to a full timer queue costs a user's callback; a stale expiry
  of the button's timer may fire a long-press callback early.
- The constructors of the button look at the pin three times (`real_any_edge.cpp:8` and 10,
  `esparrag_button.cpp:50`). If the second look differs from the first, the kind of interrupt is
  the wrong one for ever: each level is then taken for the other, a press for a release.
  TLC shows it when `ButtonFollowsEdges` is stated without its condition.
- `blinker.cpp:52` waits `m_off` while the pin is on and `m_on` while it is off.
  `m_state` and the count of blinks survive a Stop.
- A Stop of Blinker that meets a running callback does not stop it: the callback
  re-arms its timer after the stop.
- `esparrag_mqtt.cpp:195` prints into `m_payload` without `m_dataMutex`, and
  `constructFullTopic` has one buffer for the user's task and the FSM's. A callback may get
  a payload that was to be published, a message may leave with a payload that came in
  or on a topic that is being registered, and a handler may be registered for the topic of a
  message that leaves. The properties name these outcomes; TLC finds `DeliveredWasSent`,
  `PublishedInOrder` and `HandlersSubscribed` violated without the exceptions.
- `I2C::m_mutex` and `m_mutexBuffer` are declared (`esparrag_i2c.h:29`) but defined
  nowhere; the model takes them to exist.
- A socket that could not connect (`esparrag_fota.cpp:125`) is never closed.

## 8. Not modelled

HTTP: nothing calls the private functions that start the server and register
handlers, so that no request can arrive; `On` appends to a vector. PWM: used by
nobody; setters that hand a value to the driver and keep a frequency that was capped. Time units: pure conversions; those to
microseconds are computed in 32 bits and wrap from 72 minutes on, which no module
depends on. GPIO (but for what Button and Blinker use), analog input, mDNS and
DNS: single library calls. ESP-NOW: declarations only. Lock on other
mutex types and SharedLock: unused.
The Manager and the example application create one task that sleeps. Parsing,
formatting and logging: no property is about them. Vendored and generated
files: not this project's code.
