-------------------------------- MODULE Wifi --------------------------------
(***************************************************************************)
(* network/esparrag_wifi.{h,cpp}: the WiFi state machine, an FsmTaskless   *)
(* that runs partly in the task of its user (Connect, SwitchToAP,          *)
(* Disconnect) and partly in the task of the default event loop            *)
(* (eventHandler).  Nothing keeps the two out of each other's way: both    *)
(* may be inside Dispatch at the same time.  The history variable          *)
(* overlapped says whether a call of the user has overlapped with the      *)
(* event loop since the last restart: it was dispatched while posted       *)
(* events waited or the loop was handling one, or the loop dispatched one  *)
(* before the call's new state was assigned.                               *)
(* The esp_wifi driver and its event queue are external; credentials, the  *)
(* configuration handed to the driver and events that are only logged are  *)
(* left out.                                                               *)
(***************************************************************************)
EXTENDS Naturals, Sequences, FiniteSets

CONSTANTS
    Calls,          \* what the user calls: "Connect", "SwitchToAP", "Disconnect"
    MaxCalls,       \* bound on these calls
    MaxRetries,     \* MAX_RETRIES
    MaxStations,    \* max_connection of the access point
    MaxLosses,      \* bound on refused and lost connections and departing stations
    MaxFailures,    \* bound on failing driver calls
    NoState, NoChange, NoEvent

Callers == {"user", "loop"}

States == {"STATE_Offline", "STATE_AP", "STATE_Connecting", "STATE_Connected"}

Event(name) == [name |-> name]

\* EVENT_LoseConnection: the reason is WIFI_REASON_ASSOC_LEAVE or another one.
Lost(reason) == [name |-> "EVENT_LoseConnection", reason |-> reason]

Reasons == {"leave", "other"}

Events ==
    {Event(n) : n \in {"EVENT_APStart", "EVENT_APStop", "EVENT_Disconnect",
                       "EVENT_StaConnect", "EVENT_StaStart", "EVENT_StaConnected",
                       "EVENT_UserConnected", "EVENT_GotIP"}}
    \cup {Lost(r) : r \in Reasons}

(* The on_event overloads; the template for the others returns nullopt.    *)
Transition(s, e) ==
    CASE s = "STATE_Offline" /\ e.name = "EVENT_APStart"         -> {"STATE_AP"}
      [] s = "STATE_Offline" /\ e.name = "EVENT_StaConnect"      -> {"STATE_Connecting"}
      [] s = "STATE_AP" /\ e.name = "EVENT_APStart"              -> {"STATE_AP"}
      [] s = "STATE_AP" /\ e.name = "EVENT_APStop"               -> {"STATE_Offline"}
      [] s = "STATE_AP" /\ e.name = "EVENT_StaConnect"           -> {"STATE_Connecting"}
      [] s = "STATE_Connecting" /\ e.name = "EVENT_StaConnected" -> {"STATE_Connected"}
      [] s = "STATE_Connecting" /\ e.name = "EVENT_GotIP"        -> {"STATE_Connected"}
      [] s = "STATE_Connected" /\ e = Lost("leave")              -> {"STATE_Offline"}
      [] s = "STATE_Connected" /\ e = Lost("other")              -> {"STATE_Connecting"}
      [] s = "STATE_Connected" /\ e.name = "EVENT_Disconnect"    -> {"STATE_Offline"}
      [] OTHER                                                   -> {NoChange}

\* Mutant: a connection that is lost is not noticed.
OnEventIgnoresLoss == [x \in States \X Events |->
    IF x[2] = Lost("other") THEN {NoChange} ELSE Transition(x[1], x[2])]

OnEvent == [x \in States \X Events |-> Transition(x[1], x[2])]

ASSUME WifiConstants ==
    /\ Calls \subseteq {"Connect", "SwitchToAP", "Disconnect"}
    /\ {MaxCalls, MaxRetries, MaxStations, MaxLosses, MaxFailures} \subseteq Nat
    /\ NoState \notin States
    /\ NoChange \notin States
    /\ NoEvent \notin Events

VARIABLES
    \* the FsmTaskless base class
    m_isRunning, m_states, m_events, at, event, newState,
    m_retry_count,
    pending,        \* the event the user's call is about to dispatch, or NoEvent
    \* the driver
    mode,           \* "null", "sta" or "ap"
    started,
    sta,            \* the station: "idle", "connecting", "associated" or "online"
    stations,       \* how many stations have joined our access point
    posted,         \* events in the event loop's queue
    calls, losses, failures,        \* bounds
    overlapped      \* has a call of the user overlapped with the event loop? (history)

Fsm == INSTANCE FsmTaskless WITH
    Starter <- "user", EntryState <- "STATE_Offline", StartArgs <- {NoState}

fsmVars    == <<m_isRunning, m_states, m_events, at, event, newState>>
driverVars == <<mode, started, sta, stations, posted>>
vars       == <<fsmVars, m_retry_count, pending, driverVars, calls, losses, failures,
                overlapped>>

TypeOK ==
    /\ Fsm!TypeOK
    /\ m_retry_count \in 0..MaxRetries
    /\ pending \in Events \cup {NoEvent}
    /\ mode \in {"null", "sta", "ap"}
    /\ started \in BOOLEAN
    /\ sta \in {"idle", "connecting", "associated", "online"}
    /\ stations \in 0..MaxStations
    /\ posted \in Seq(Events)
    /\ calls \in 0..MaxCalls
    /\ losses \in 0..MaxLosses
    /\ failures \in 0..MaxFailures
    /\ overlapped \in BOOLEAN

Init ==
    /\ Fsm!Init
    /\ m_retry_count = 0
    /\ pending = NoEvent
    /\ mode = "null" /\ started = FALSE /\ sta = "idle" /\ stations = 0
    /\ posted = <<>>
    /\ calls = 0 /\ losses = 0 /\ failures = 0 /\ overlapped = FALSE

-----------------------------------------------------------------------------
(* The driver's functions.                                                 *)

DriverFails == failures < MaxFailures /\ failures' = failures + 1

\* sta_start and ap_start: set the mode, configure, start; each may fail.
StartDriver(m, progress) ==
    /\ IF progress = "started" THEN UNCHANGED failures ELSE DriverFails
    /\ mode' = IF progress = "none" THEN mode ELSE m
    /\ started' = (started \/ progress = "started")
    /\ sta' = IF mode' = "sta" THEN sta ELSE "idle"
    /\ posted' = IF progress = "started" /\ m = "sta"
                 THEN Append(posted, Event("EVENT_StaStart")) ELSE posted
    /\ UNCHANGED stations

\* disconnect(): esp_wifi_disconnect and esp_wifi_stop, with what they post.
StopDriver ==
    /\ started' = FALSE /\ sta' = "idle" /\ stations' = 0
    /\ \E reason \in Reasons :
          posted' = posted
              \o (IF sta # "idle" THEN <<Lost("leave")>> ELSE <<>>)
              \o [i \in 1..stations |-> Lost(reason)]
              \o (IF started /\ mode = "ap" THEN <<Event("EVENT_APStop")>> ELSE <<>>)
    /\ UNCHANGED <<mode, failures>>

\* sta_connect(): refused unless the station is idle and started.
ConnectStation ==
    /\ IF started /\ mode = "sta" /\ sta = "idle"
       THEN \/ sta' = "connecting" /\ UNCHANGED failures
            \/ DriverFails /\ UNCHANGED sta
       ELSE UNCHANGED <<sta, failures>>
    /\ UNCHANGED <<mode, started, stations, posted>>

-----------------------------------------------------------------------------
(* Init() ends with Start(); nothing is posted before the driver starts.   *)
Start ==
    /\ Fsm!StartStep
    /\ UNCHANGED <<m_retry_count, pending, driverVars, calls, losses, failures, overlapped>>

(* Connect, SwitchToAP and Disconnect: a look at the state, and if that    *)
(* does not end the call, Dispatch.                                        *)
Request(call) ==
    CASE call = "Connect"    -> [unless |-> "STATE_Connected", e |-> Event("EVENT_StaConnect")]
      [] call = "SwitchToAP" -> [unless |-> "STATE_AP",        e |-> Event("EVENT_APStart")]
      [] call = "Disconnect" -> [unless |-> "STATE_Offline",   e |-> Event("EVENT_Disconnect")]

Call(call) ==
    /\ at["user"] = "idle" /\ m_isRunning
    /\ pending = NoEvent
    /\ calls < MaxCalls /\ calls' = calls + 1
    /\ pending' = IF m_states = Request(call).unless THEN NoEvent ELSE Request(call).e
    /\ UNCHANGED <<fsmVars, m_retry_count, driverVars, losses, failures, overlapped>>

UserDispatch ==
    /\ pending # NoEvent
    /\ Fsm!Dispatch("user", pending)
    /\ pending' = NoEvent
    /\ overlapped' = (overlapped \/ posted # <<>> \/ at["loop"] # "idle")
    /\ UNCHANGED <<m_retry_count, driverVars, calls, losses, failures>>

\* eventHandler, in the event loop's task.
LoopDispatch ==
    /\ posted # <<>>
    /\ Fsm!Dispatch("loop", Head(posted))
    /\ posted' = Tail(posted)
    /\ overlapped' = (overlapped \/ at["user"] \in {"visit", "commit"})
    /\ UNCHANGED <<m_retry_count, pending, mode, started, sta, stations, calls, losses,
                   failures>>

-----------------------------------------------------------------------------
(* on_event, with what the handlers do besides returning a state.          *)

Visiting(c, s, name) == at[c] = "visit" /\ m_states = s /\ m_events.name = name

StartsAP(c)    == Visiting(c, "STATE_Offline", "EVENT_APStart")
Disconnects(c) == \/ Visiting(c, "STATE_AP", "EVENT_StaConnect")
                  \/ Visiting(c, "STATE_Connected", "EVENT_Disconnect")
Connects(c)    == Visiting(c, "STATE_Connecting", "EVENT_StaStart")
Retries(c)     == Visiting(c, "STATE_Connecting", "EVENT_LoseConnection")

\* Mutant: the driver is started in on_event, before the state is assigned.
VisitStartsStation(c) ==
    /\ at[c] = "visit"
    /\ ~Retries(c)
    /\ \E r \in States \cup {NoChange} : Fsm!Visit(c, r)
    /\ CASE StartsAP(c)    -> \E p \in {"none", "mode", "started"} : StartDriver("ap", p)
         [] Disconnects(c) -> StopDriver
         [] Connects(c)    -> ConnectStation
         [] Visiting(c, "STATE_Offline", "EVENT_StaConnect") -> StartDriver("sta", "started")
         [] OTHER          -> UNCHANGED <<driverVars, failures>>
    /\ UNCHANGED <<m_retry_count, pending, calls, losses, overlapped>>

Visit(c) ==
    /\ at[c] = "visit"
    /\ ~Retries(c)
    /\ \E r \in States \cup {NoChange} : Fsm!Visit(c, r)
    /\ CASE StartsAP(c)    -> \E p \in {"none", "mode", "started"} : StartDriver("ap", p)
         [] Disconnects(c) -> StopDriver
         [] Connects(c)    -> ConnectStation
         [] OTHER          -> UNCHANGED <<driverVars, failures>>
    /\ UNCHANGED <<m_retry_count, pending, calls, losses, overlapped>>

\* Mutant: the limit is not looked at.
RetryWithoutLimit(c) ==
    /\ Retries(c)
    /\ m_retry_count' = m_retry_count + 1
    /\ \E r \in States \cup {NoChange} : Fsm!Visit(c, r)
    /\ UNCHANGED <<pending, driverVars, calls, losses, failures, overlapped>>

Retry(c) ==
    /\ Retries(c)
    /\ m_retry_count < MaxRetries
    /\ m_retry_count' = m_retry_count + 1
    /\ \E r \in States \cup {NoChange} : Fsm!Visit(c, r)
    /\ UNCHANGED <<pending, driverVars, calls, losses, failures, overlapped>>

\* esp_restart(): everything in RAM and in the driver starts anew.
Restart(c) ==
    /\ Retries(c)
    /\ m_retry_count >= MaxRetries
    /\ m_isRunning' = FALSE
    /\ m_states' = "STATE_Offline"
    /\ m_events' = NoEvent
    /\ at' = [u \in Callers |-> IF u = "user" THEN "before" ELSE "idle"]
    /\ event' = [u \in Callers |-> NoEvent]
    /\ newState' = [u \in Callers |-> NoChange]
    /\ m_retry_count' = 0
    /\ pending' = NoEvent
    /\ mode' = "null" /\ started' = FALSE /\ sta' = "idle" /\ stations' = 0
    /\ posted' = <<>>
    /\ overlapped' = FALSE
    /\ UNCHANGED <<calls, losses, failures>>

Commit(c) ==
    /\ Fsm!Commit(c)
    /\ UNCHANGED <<m_retry_count, pending, driverVars, calls, losses, failures, overlapped>>

\* Mutant: entering Connecting does not start the station again.
OnEntryFirstStart(c) ==
    /\ Fsm!OnEntry(c)
    /\ m_retry_count' = IF m_states = "STATE_Connected" THEN 0 ELSE m_retry_count
    /\ IF m_states = "STATE_Connecting" /\ ~started
       THEN \E p \in {"none", "mode", "started"} : StartDriver("sta", p)
       ELSE UNCHANGED <<driverVars, failures>>
    /\ UNCHANGED <<pending, calls, losses, overlapped>>

OnEntry(c) ==
    /\ Fsm!OnEntry(c)
    /\ m_retry_count' = IF m_states = "STATE_Connected" THEN 0 ELSE m_retry_count
    /\ IF m_states = "STATE_Connecting"
       THEN \E p \in {"none", "mode", "started"} : StartDriver("sta", p)
       ELSE UNCHANGED <<driverVars, failures>>
    /\ UNCHANGED <<pending, calls, losses, overlapped>>

-----------------------------------------------------------------------------
(* External: what happens on the air, and what the driver posts of it.     *)

Report(e) ==
    /\ posted' = Append(posted, e)
    /\ UNCHANGED <<fsmVars, m_retry_count, pending, mode, started, calls, failures, overlapped>>

Lose == losses < MaxLosses /\ losses' = losses + 1

Associate ==
    /\ sta = "connecting" /\ sta' = "associated"
    /\ Report(Event("EVENT_StaConnected"))
    /\ UNCHANGED <<stations, losses>>

GetIP ==
    /\ sta = "associated" /\ sta' = "online"
    /\ Report(Event("EVENT_GotIP"))
    /\ UNCHANGED <<stations, losses>>

\* A refused attempt, or a connection that is lost.
LoseLink ==
    /\ sta # "idle" /\ sta' = "idle"
    /\ Lose
    /\ \E reason \in Reasons : Report(Lost(reason))
    /\ UNCHANGED stations

StationJoins ==
    /\ mode = "ap" /\ started
    /\ stations < MaxStations /\ stations' = stations + 1
    /\ Report(Event("EVENT_UserConnected"))
    /\ UNCHANGED <<sta, losses>>

\* The reason is read at an offset that this event's data does not have.
StationLeaves ==
    /\ stations > 0 /\ stations' = stations - 1
    /\ Lose
    /\ \E reason \in Reasons : Report(Lost(reason))
    /\ UNCHANGED sta

-----------------------------------------------------------------------------
CallerStep(c) == Visit(c) \/ Retry(c) \/ Restart(c) \/ Commit(c) \/ OnEntry(c)

Driver == Associate \/ GetIP \/ LoseLink \/ StationJoins \/ StationLeaves

Next ==
    \/ Start
    \/ \E call \in Calls : Call(call)
    \/ UserDispatch
    \/ LoopDispatch
    \/ \E c \in Callers : CallerStep(c)
    \/ Driver

Spec == Init /\ [][Next]_vars

(* Both tasks run; an attempt to connect ends.                             *)
Fairness ==
    /\ WF_vars(Start)
    /\ WF_vars(UserDispatch \/ CallerStep("user"))
    /\ WF_vars(LoopDispatch \/ CallerStep("loop"))
    /\ WF_vars(Associate \/ LoseLink)

FairSpec == Spec /\ Fairness

-----------------------------------------------------------------------------
(* Properties.                                                             *)

Quiescent ==
    /\ \A c \in Callers : at[c] = "idle"
    /\ pending = NoEvent
    /\ posted = <<>>

(* When every posted event has been handled and no call is in progress,    *)
(* the machine says Connected exactly when the station is associated, in   *)
(* spite of events that a stopped driver left in the queue and that a      *)
(* later state handles; provided that no call has overlapped with the      *)
(* event loop.  After one that has, such as a Disconnect that is in        *)
(* on_event while the loss of the link is handled, the machine may rest in *)
(* Offline with an associated station.                                     *)
FsmFollowsDriver ==
    Quiescent /\ ~overlapped
        => (m_states = "STATE_Connected" <=> sta \in {"associated", "online"})

(* There is no lock between the two tasks, and a first call does without:  *)
(* Connect starts the driver only when the new state is assigned, so that  *)
(* nothing is dispatched before.  SwitchToAP starts it inside on_event.    *)
LoneConnect ==
    calls <= 1 /\ event["user"] # Event("EVENT_APStart") => ~overlapped

(* A transition to Connecting, the user's or the one after a lost          *)
(* connection, leads to an attempt of the station to connect, unless the   *)
(* driver fails, the device restarts or a call overlaps with the event     *)
(* loop.  A Connect in state AP stops the access point itself: if its      *)
(* AP_STOP is handled before Connecting is assigned, the machine may end   *)
(* in Offline and no attempt is made.                                      *)
ConnectingMeansAttempt ==
    \A c \in Callers :
        (at[c] = "commit" /\ newState[c] = "STATE_Connecting")
            ~> (sta = "connecting" \/ failures > 0 \/ ~m_isRunning \/ overlapped)

(* "wifi is trying to connect", and after more than MAX_RETRIES failures   *)
(* it resets: a machine that stays in Connecting does not leave the        *)
(* station idle for ever.                                                  *)
KeepsTrying ==
    (m_states = "STATE_Connecting" /\ sta = "idle")
        ~> (m_states # "STATE_Connecting" \/ sta # "idle")
=============================================================================
