------------------------------- MODULE Button -------------------------------
(***************************************************************************)
(* drivers/esparrag_button, drivers/real_any_edge and common/debouncer: a  *)
(* button is an FsmTaskless that is driven by an interrupt (the pin's      *)
(* edges) and by the timer daemon (timed presses).  The handlers talk to   *)
(* the daemon, and have the user's callbacks run by it, through its        *)
(* command queue, without waiting.  The pin, the interrupt controller and  *)
(* the timer service are external.                                         *)
(***************************************************************************)
EXTENDS Integers, Sequences, FiniteSetsExt, SequencesExt

CONSTANTS
    Times,              \* values of cb_time, in ticks
    DebounceTicks,
    TimerQueueLength,   \* configTIMER_QUEUE_LENGTH
    MaxRegistrations,   \* bound on RegisterPress and RegisterRelease
    MaxLate,            \* bound on the edges and ticks that find the daemon behind
    None,               \* an entry of a list without a callback
    NoState, NoChange, NoEvent

Callers == {"user", "isr", "daemon"}

States == {"STATE_IDLE", "STATE_PRESSED"}

Event(name) == [name |-> name]

Events == {Event(n) : n \in {"EVENT_PRESS", "EVENT_RELEASE", "EVENT_TIMER"}}

\* The on_event overloads; the template for the others returns nullopt.
OnEvent ==
    [x \in States \X Events |->
        CASE x = <<"STATE_IDLE", Event("EVENT_PRESS")>>      -> {"STATE_PRESSED"}
          [] x = <<"STATE_PRESSED", Event("EVENT_RELEASE")>> -> {"STATE_IDLE"}
          [] OTHER                                           -> {NoChange}]

ASSUME ButtonConstants ==
    /\ Times \subseteq Nat
    /\ \E longest \in Times : \A time \in Times : time <= longest
    /\ DebounceTicks \in Nat \ {0}
    /\ TimerQueueLength \in Nat \ {0}
    /\ {MaxRegistrations, MaxLate} \subseteq Nat
    /\ None \notin Times \cup {0}
    /\ NoState \notin States
    /\ NoChange \notin States
    /\ NoEvent \notin Events

VARIABLES
    \* the FsmTaskless base class
    m_isRunning, m_states, m_events, at, event, newState,
    \* Button
    m_timeouts,         \* the member of STATE_PRESSED
    held,               \* ticks since m_lastPressTime
    m_pressCallbacks, m_releaseCallbacks,   \* cb_times; [k + 1] is the code's [k]
    handler,            \* where the daemon is in the handler of EVENT_TIMER
    \* RealAnyEdge
    m_state, intr,      \* "low" or "high": the level that interrupts
    debounce,           \* ticks until IsValidNow() is true
    isr,                \* "in" or "out": where the interrupt handler is
    ctor,               \* where the constructor is
    \* the timer service
    timer,              \* ticks until the timer expires, or -1 when dormant
    period,
    commands,           \* queued for the daemon
    \* the environment, bounds and what has happened
    level, registrations,
    used,               \* there has been an edge
    changed,            \* a callback was registered after that
    differed,           \* the constructors did not see the same level each time
    late,               \* edges and ticks by which the daemon had not done what was due
    dropped,            \* a command or a callback met a full queue
    lastCall            \* the callback the daemon ran last

Fsm == INSTANCE FsmTaskless WITH
    Starter <- "user", EntryState <- "STATE_IDLE", StartArgs <- States

fsmVars   == <<m_isRunning, m_states, m_events, at, event, newState>>
lists     == <<m_pressCallbacks, m_releaseCallbacks, registrations>>
edgeVars  == <<m_state, intr, debounce, isr, ctor>>
timerVars == <<timer, period>>
history   == <<used, changed, differed, late, lastCall>>
vars == <<fsmVars, m_timeouts, held, lists, handler, edgeVars, timerVars, commands, level,
          dropped, history>>

Timeouts == 1..2                        \* PRESS_TIMEOUT_1, PRESS_TIMEOUT_2
MaxTime  == Max(Times \cup {DebounceTicks}) + 1

(* A queued command: "stop", "change" or "start" of the timer, a start     *)
(* with the ticks since it was queued; or the call of a user's callback,   *)
(* with its cb_time and the ticks the button had been pressed for then.    *)
Commands ==
    [what : {"stop"}]
    \cup [what : {"start"}, age : 0..MaxTime]
    \cup [what : {"change"}, period : 1..MaxTime]
    \cup [what : {"fast", "timed", "release"}, time : Times, held : 0..MaxTime]

NoCall == [what |-> "none"]

TypeOK ==
    /\ Fsm!TypeOK
    /\ m_timeouts \in Nat
    /\ held \in 0..MaxTime
    /\ m_pressCallbacks \in [1..3 -> Times \cup {None}]
    /\ m_releaseCallbacks \in [1..3 -> Times \cup {None}]
    /\ handler \in {"none", "pend", "bump", "arm"}
    /\ m_state \in BOOLEAN /\ intr \in {"low", "high"}
    /\ debounce \in 0..DebounceTicks
    /\ isr \in {"in", "out"}
    /\ ctor \in {"state", "intr", "start", "register", "done"}
    /\ timer \in -1..MaxTime /\ period \in 0..MaxTime
    /\ commands \in Seq(Commands)
    /\ Len(commands) <= TimerQueueLength
    /\ {level, used, changed, differed, dropped} \subseteq BOOLEAN
    /\ registrations \in 0..MaxRegistrations /\ late \in 0..MaxLate

Init ==
    /\ Fsm!Init
    /\ m_timeouts = 0 /\ held = 0
    /\ m_pressCallbacks = <<None, None, None>> /\ m_releaseCallbacks = <<None, None, None>>
    /\ handler = "none"
    /\ m_state = FALSE /\ intr = "high" /\ debounce = DebounceTicks
    /\ isr = "out" /\ ctor = "state"
    /\ timer = -1 /\ period = 0 /\ commands = <<>>
    /\ level \in BOOLEAN
    /\ registrations = 0 /\ used = FALSE /\ changed = FALSE
    /\ differed = FALSE /\ late = 0 /\ dropped = FALSE /\ lastCall = NoCall

-----------------------------------------------------------------------------
(* The ...FromISR functions of the timer service queue what finds room.    *)

Fits(n) == Len(commands) + n <= TimerQueueLength

\* Mutant: the queue has no end.
SendWithoutRoom(cs) == commands' = commands \o cs /\ UNCHANGED dropped

Send(cs) ==
    /\ commands' = commands \o SubSeq(cs, 1, Min({Len(cs), TimerQueueLength - Len(commands)}))
    /\ dropped' = (dropped \/ ~Fits(Len(cs)))

Stop == [what |-> "stop"]
Call(what, time) == [what |-> what, time |-> time, held |-> held]

\* cb_time: an entry without a callback has the default, 0.
Time(list, k) == IF list[k + 1] = None THEN 0 ELSE list[k + 1]

\* runPressCallback
PressCall(k) ==
    IF k <= 2 /\ m_pressCallbacks[k + 1] # None
    THEN <<Call(IF k = 0 THEN "fast" ELSE "timed", m_pressCallbacks[k + 1])>>
    ELSE <<>>

\* runReleaseCallback
Passed == {k \in 0..2 : /\ m_releaseCallbacks[k + 1] # None
                        /\ held >= m_releaseCallbacks[k + 1]}

\* Mutant: the loop does not return after the first call.
ReleaseCallEach ==
    [i \in 1..Cardinality(Passed) |-> Call("release", m_releaseCallbacks[Max(Passed) + 1])]

\* The longest time that has passed.
ReleaseCall ==
    IF Passed = {} THEN <<>> ELSE <<Call("release", m_releaseCallbacks[Max(Passed) + 1])>>

\* startTimer
Restart(time) == <<[what |-> "change", period |-> time], [what |-> "start", age |-> 0]>>

\* Mutant: the time since the press.
ArmAbsolute(k) ==
    IF k <= 2 /\ Time(m_pressCallbacks, k) # 0 THEN Restart(Time(m_pressCallbacks, k)) ELSE <<>>

\* The time between this timeout and the one before it.
Arm(k) ==
    IF k <= 2 /\ Time(m_pressCallbacks, k) # 0
    THEN Restart(Time(m_pressCallbacks, k) - Time(m_pressCallbacks, k - 1))
    ELSE <<>>

-----------------------------------------------------------------------------
(* registerEvent                                                           *)

\* Mutant: a new callback is not sorted in.
registerUnsorted(list, time) ==
    LET places == {k \in Timeouts : Time(list, k) \in {0, time}}
    IN  IF time = 0 THEN [list EXCEPT ![1] = 0]
        ELSE IF places = {} THEN list
        ELSE [list EXCEPT ![Min(places) + 1] = time]

\* etl::sort of the first n entries.
Sorted(list, n) ==
    LET order == CHOOSE p \in Bijection(1..3, 1..3) :
                     /\ \A i \in (n + 1)..3 : p[i] = i
                     /\ \A i, j \in 1..n : i < j => Time(list, p[i] - 1) <= Time(list, p[j] - 1)
    IN  [i \in 1..3 |-> list[order[i]]]

registerEvent(list, time) ==
    LET places == {k \in Timeouts : Time(list, k) \in {0, time}}
        i      == Min(places)
    IN  IF time = 0 THEN [list EXCEPT ![1] = 0]
        ELSE IF places = {} THEN list
        ELSE Sorted([list EXCEPT ![i + 1] = time], i + 1)

(* RegisterPress and RegisterRelease, in a user's task.                    *)
Register(time) ==
    /\ ctor = "done" /\ isr = "out"
    /\ registrations < MaxRegistrations /\ registrations' = registrations + 1
    /\ \/ /\ m_pressCallbacks' = registerEvent(m_pressCallbacks, time)
          /\ UNCHANGED m_releaseCallbacks
       \/ /\ m_releaseCallbacks' = registerEvent(m_releaseCallbacks, time)
          /\ UNCHANGED m_pressCallbacks
    /\ changed' = used
    /\ UNCHANGED <<fsmVars, m_timeouts, held, handler, edgeVars, timerVars, commands, level,
                   dropped, used, differed, late, lastCall>>

-----------------------------------------------------------------------------
(* The constructors look at the pin three times: for m_state, for the kind *)
(* of interrupt and for the state to start in.                             *)

CtorState ==
    /\ ctor = "state" /\ ctor' = "intr"
    /\ m_state' = level
    /\ UNCHANGED <<fsmVars, intr>>

CtorInterrupt ==
    /\ ctor = "intr" /\ ctor' = "start"
    /\ intr' = IF level THEN "low" ELSE "high"
    /\ UNCHANGED <<fsmVars, m_state>>

CtorStart ==
    /\ ctor = "start"
    /\ \/ /\ Fsm!StartState(IF level THEN "STATE_PRESSED" ELSE "STATE_IDLE")
          /\ UNCHANGED ctor
       \/ Fsm!StartFlag /\ ctor' = "register"
    /\ UNCHANGED <<m_state, intr>>

\* RegisterCallback enables the interrupt.
CtorRegister ==
    /\ ctor = "register" /\ at["user"] = "idle" /\ ctor' = "done"
    /\ UNCHANGED <<fsmVars, m_state, intr>>

\* The second and the third look.
LooksAgain == ctor = "intr" \/ (ctor = "start" /\ at["user"] = "before")

Construct ==
    /\ CtorState \/ CtorInterrupt \/ CtorStart \/ CtorRegister
    /\ differed' = (differed \/ (LooksAgain /\ level # m_state))
    /\ UNCHANGED <<m_timeouts, held, lists, handler, debounce, isr, timerVars, commands,
                   level, dropped, used, changed, late, lastCall>>

-----------------------------------------------------------------------------
(* RealAnyEdge::isr_func.  The interrupt is level-triggered: it is served  *)
(* again and again until the debouncer lets it through.                    *)

Triggered == (intr = "high") = level

DaemonIdle == /\ at["daemon"] = "idle" /\ commands = <<>> /\ timer # 0

Lateness ==
    /\ late' = IF DaemonIdle THEN late ELSE late + 1
    /\ late' <= MaxLate

IsrEdge ==
    /\ ctor = "done" /\ isr = "out" /\ isr' = "in"
    /\ Triggered /\ debounce = 0
    /\ debounce' = DebounceTicks
    /\ m_state' = ~m_state
    /\ Fsm!Dispatch("isr", Event(IF m_state' THEN "EVENT_PRESS" ELSE "EVENT_RELEASE"))
    /\ used' = TRUE /\ Lateness
    /\ UNCHANGED <<m_timeouts, held, lists, handler, intr, ctor, timerVars, commands, level,
                   dropped, changed, differed, lastCall>>

\* Mutant: toggleInterrupt is forgotten.
IsrEndWithoutToggle ==
    /\ isr = "in" /\ at["isr"] = "idle" /\ isr' = "out"
    /\ UNCHANGED <<fsmVars, m_timeouts, held, lists, handler, m_state, intr, debounce, ctor,
                   timerVars, commands, level, dropped, history>>

\* toggleInterrupt and EnableInterrupt
IsrEnd ==
    /\ isr = "in" /\ at["isr"] = "idle" /\ isr' = "out"
    /\ intr' = IF intr = "low" THEN "high" ELSE "low"
    /\ UNCHANGED <<fsmVars, m_timeouts, held, lists, handler, m_state, debounce, ctor,
                   timerVars, commands, level, dropped, history>>

-----------------------------------------------------------------------------
(* on_event and on_entry, for whoever dispatched.  The handler of          *)
(* EVENT_TIMER keeps a reference to the state it was called for.           *)

Visiting(c, s, name) == at[c] = "visit" /\ m_states = s /\ m_events.name = name

TimedPress(c) ==
    Visiting(c, "STATE_PRESSED", "EVENT_TIMER") \/ (c = "daemon" /\ handler # "none")

Visit(c) ==
    /\ ~TimedPress(c)
    /\ \E r \in States \cup {NoChange} : Fsm!Visit(c, r)
    /\ Send(IF Visiting(c, "STATE_PRESSED", "EVENT_RELEASE")
            THEN <<Stop>> \o ReleaseCall ELSE <<>>)
    /\ UNCHANGED <<m_timeouts, held, lists, handler, edgeVars, timerVars, level, history>>

TimerHandler(from, to) == handler = from /\ handler' = to

TimerVisit ==
    /\ Visiting("daemon", "STATE_PRESSED", "EVENT_TIMER")
    /\ TimerHandler("none", "pend")
    /\ UNCHANGED <<fsmVars, m_timeouts, held, lists, edgeVars, timerVars, commands, level,
                   dropped, history>>

TimerPend ==
    /\ TimerHandler("pend", "bump")
    /\ Send(PressCall(m_timeouts))
    /\ UNCHANGED <<fsmVars, m_timeouts, held, lists, edgeVars, timerVars, level, history>>

TimerBump ==
    /\ TimerHandler("bump", "arm")
    /\ m_timeouts' = m_timeouts + 1
    /\ UNCHANGED <<fsmVars, held, lists, edgeVars, timerVars, commands, level, dropped,
                   history>>

TimerArm ==
    /\ TimerHandler("arm", "none")
    /\ Send(Arm(m_timeouts))
    /\ Fsm!Move("daemon", "visit", "idle")
    /\ UNCHANGED <<m_isRunning, m_states, m_events, event, newState, m_timeouts, held, lists,
                   edgeVars, timerVars, level, history>>

\* A new STATE_PRESSED has m_timeouts{}.
Commit(c) ==
    /\ Fsm!Commit(c)
    /\ m_timeouts' = IF m_states' = "STATE_PRESSED" THEN 0 ELSE m_timeouts
    /\ UNCHANGED <<held, lists, handler, edgeVars, timerVars, commands, level, dropped, history>>

OnEntry(c) ==
    /\ Fsm!OnEntry(c)
    /\ IF m_states = "STATE_PRESSED"
       THEN /\ m_timeouts' = 1
            /\ held' = 0
            /\ Send(PressCall(0) \o Arm(1))
       ELSE UNCHANGED <<m_timeouts, held, commands, dropped>>
    /\ UNCHANGED <<lists, handler, edgeVars, timerVars, level, history>>

-----------------------------------------------------------------------------
(* External: the timer daemon.  A change of the period counts from now, a  *)
(* start from when it was queued; what is due by then expires at once.     *)

Remaining(command) == Max({0, period - command.age})

ProcessCommand ==
    /\ at["daemon"] = "idle" /\ commands # <<>>
    /\ commands' = Tail(commands)
    /\ LET command == Head(commands) IN
       /\ timer' = CASE command.what = "stop"   -> -1
                     [] command.what = "change" -> command.period
                     [] command.what = "start"  -> Remaining(command)
                     [] OTHER                   -> timer
       /\ period' = IF command.what = "change" THEN command.period ELSE period
       /\ lastCall' = IF command.what \in {"fast", "timed", "release"}
                      THEN [what |-> command.what, time |-> command.time] ELSE lastCall
    /\ UNCHANGED <<fsmVars, m_timeouts, held, lists, handler, edgeVars, level, dropped,
                   used, changed, differed, late>>

\* timerCB
Expire ==
    /\ timer = 0 /\ timer' = -1
    /\ Fsm!Dispatch("daemon", Event("EVENT_TIMER"))
    /\ UNCHANGED <<m_timeouts, held, lists, handler, edgeVars, period, commands, level,
                   dropped, history>>

(* External: time and the pin.                                             *)
Older(n) == Min({n + 1, MaxTime})

\* Mutant: IsValidNow restarts the time whenever it is asked.
DebounceLeftResampled == IF Triggered THEN debounce ELSE Max({0, debounce - 1})

DebounceLeft == Max({0, debounce - 1})

Tick ==
    /\ isr = "out"
    /\ held' = Older(held)
    /\ debounce' = DebounceLeft
    /\ timer' = IF timer > 0 THEN timer - 1 ELSE timer
    /\ commands' = [i \in DOMAIN commands |->
           IF commands[i].what = "start"
           THEN [what |-> "start", age |-> Older(commands[i].age)] ELSE commands[i]]
    /\ Lateness
    /\ UNCHANGED <<fsmVars, m_timeouts, lists, handler, m_state, intr, isr, ctor, period,
                   level, dropped, used, changed, differed, lastCall>>

Pin ==
    /\ level' = ~level
    /\ UNCHANGED <<fsmVars, m_timeouts, held, lists, handler, edgeVars, timerVars, commands,
                   dropped, history>>

-----------------------------------------------------------------------------
CallerStep(c) == Visit(c) \/ Commit(c) \/ OnEntry(c)

IsrStep == IsrEdge \/ CallerStep("isr") \/ IsrEnd

\* The interrupt is served on the core of the daemon: its handler preempts
\* the daemon, and the user's tasks there, and runs to its end.
DaemonStep ==
    /\ isr = "out"
    /\ \/ ProcessCommand \/ Expire
       \/ CallerStep("daemon")
       \/ TimerVisit \/ TimerPend \/ TimerBump \/ TimerArm

UserStep == Construct \/ OnEntry("user")

Next ==
    \/ UserStep \/ IsrStep \/ DaemonStep
    \/ \E time \in Times : Register(time)
    \/ Tick \/ Pin

Spec == Init /\ [][Next]_vars

(* The constructor returns, interrupts are served as long as the pin asks  *)
(* for them, the daemon runs and time passes.                              *)
Fairness == WF_vars(UserStep) /\ WF_vars(IsrStep) /\ WF_vars(DaemonStep) /\ WF_vars(Tick)

FairSpec == Spec /\ Fairness

-----------------------------------------------------------------------------
(* Properties.                                                             *)

(* Outside the interrupt handler the FSM, RealAnyEdge's idea of the pin    *)
(* and the kind of interrupt agree, although the daemon may be preempted   *)
(* anywhere in its Dispatch of EVENT_TIMER: no press and no release is     *)
(* lost or taken twice. If the constructors saw different levels, the FSM  *)
(* and RealAnyEdge agree from the first edge on, but the kind of interrupt *)
(* may be the wrong one for ever.                                          *)
ButtonFollowsEdges ==
    ctor = "done" /\ isr = "out" =>
        /\ used \/ ~differed => (m_state <=> m_states = "STATE_PRESSED")
        /\ ~differed => (m_state <=> intr = "low")

(* A pin that stays at one level is followed in the end, unless the        *)
(* constructors saw different levels.                                      *)
PinIsFollowed ==
    []~differed =>
        /\ <>[]level => <>[](m_states = "STATE_PRESSED")
        /\ <>[](~level) => <>[](m_states = "STATE_IDLE")

(* The callbacks, in the order in which the daemon runs them: presses and  *)
(* releases alternate.                                                     *)
Line == <<lastCall>> \o commands
Edge(i) == Line[i].what \in {"fast", "release"}

CallbacksAlternate ==
    ~dropped /\ ~changed /\ m_pressCallbacks[1] # None /\ m_releaseCallbacks[1] # None =>
        \A i, j \in 1..Len(Line) :
            i < j /\ Edge(i) /\ Edge(j) /\ Line[i].what = Line[j].what =>
                \E k \in (i + 1)..(j - 1) : Edge(k)

(* The callback of a timed press is queued when the button has been held   *)
(* for exactly its time, although the timer is only armed with differences *)
(* and releases only queue its stop; provided that the daemon keeps up and *)
(* the callbacks were registered before the button was used.               *)
TimedOnTime ==
    late = 0 /\ ~changed =>
        \A i \in 1..Len(commands) :
            commands[i].what = "timed" => commands[i].held = commands[i].time

(* Timed callbacks are sorted and leave no gaps, whatever the order of the *)
(* registrations; startTimer's differences depend on it.                   *)
CallbacksSorted ==
    \A list \in {m_pressCallbacks, m_releaseCallbacks} :
        /\ list[1] \in {None, 0}
        /\ list[3] # None => list[2] # None /\ list[2] < list[3]
        /\ 0 \notin {list[2], list[3]}
=============================================================================
