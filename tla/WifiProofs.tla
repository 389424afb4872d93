----------------------------- MODULE WifiProofs -----------------------------
(***************************************************************************)
(* Theorems of Wifi, for every bound.  Types: what both tasks write into   *)
(* the members of the machine has its type.  FollowsDriver: as long as no  *)
(* call has overlapped with the event loop, the machine is Connected       *)
(* exactly when the station is, once every posted event has been handled.  *)
(* The inductive invariant says who may be in Dispatch (HandlerInv) and    *)
(* which events can be in line in which state (PhaseInv).  FirstCallAlone: *)
(* a first call does not overlap, unless it is SwitchToAP.                 *)
(***************************************************************************)
EXTENDS Wifi, TLAPS

-----------------------------------------------------------------------------
(* Types.  What a task between two steps of Dispatch holds is an event or  *)
(* a state, although both tasks write m_events.                            *)

HeldInv ==
    \A c \in Callers :
        /\ at[c] = "visit" => m_events \in Events
        /\ at[c] = "commit" => newState[c] \in States

(* The machine's members, those that only Wifi has, and the driver's.       *)
MachineTypes == Fsm!TypeOK /\ HeldInv

WifiTypes ==
    /\ m_retry_count \in 0..MaxRetries
    /\ pending \in Events \cup {NoEvent}
    /\ calls \in 0..MaxCalls
    /\ losses \in 0..MaxLosses
    /\ overlapped \in BOOLEAN

DriverTypes ==
    /\ mode \in {"null", "sta", "ap"}
    /\ started \in BOOLEAN
    /\ sta \in {"idle", "connecting", "associated", "online"}
    /\ stations \in 0..MaxStations
    /\ posted \in Seq(Events)
    /\ failures \in 0..MaxFailures

Types == MachineTypes /\ WifiTypes /\ DriverTypes

LEMMA TypesImply == Types => TypeOK
BY DEF Types, MachineTypes, WifiTypes, DriverTypes, TypeOK

LEMMA EventTypes ==
    /\ \A r \in Reasons : Lost(r) \in Events
    /\ \A n \in {"EVENT_APStart", "EVENT_APStop", "EVENT_Disconnect",
                 "EVENT_StaConnect", "EVENT_StaStart", "EVENT_StaConnected",
                 "EVENT_UserConnected", "EVENT_GotIP"} : Event(n) \in Events
BY DEF Events

LEMMA ResultTypes ==
    ASSUME Types, NEW c \in Callers, at[c] = "visit"
    PROVE  OnEvent[<<m_states, m_events>>] \subseteq States \cup {NoChange}
<1>1. m_states \in States /\ m_events \in Events
  BY DEF Types, MachineTypes, Fsm!TypeOK, HeldInv
<1>2. OnEvent[<<m_states, m_events>>] = Transition(m_states, m_events)
  BY <1>1 DEF OnEvent
<1>3. Transition(m_states, m_events) \subseteq States \cup {NoChange}
  BY DEF Transition, States
<1> QED BY <1>2, <1>3

LEMMA AppendType ==
    ASSUME NEW T, NEW q \in Seq(T), NEW e \in T
    PROVE  Append(q, e) \in Seq(T)
OBVIOUS

LEMMA TailType ==
    ASSUME NEW T, NEW q \in Seq(T), q # <<>>
    PROVE  Head(q) \in T /\ Tail(q) \in Seq(T)
OBVIOUS

\* What an event's handler posts at most.
LEMMA StopType ==
    ASSUME NEW T, NEW q \in Seq(T), NEW a \in T, NEW b \in T, NEW d \in T, NEW n \in Nat,
           NEW A \in BOOLEAN, NEW B \in BOOLEAN
    PROVE  q \o (IF A THEN <<a>> ELSE <<>>) \o [i \in 1..n |-> b]
             \o (IF B THEN <<d>> ELSE <<>>) \in Seq(T)
<1>1. [i \in 1..n |-> b] \in Seq(T)
  OBVIOUS
<1>2. (IF A THEN <<a>> ELSE <<>>) \in Seq(T) /\ (IF B THEN <<d>> ELSE <<>>) \in Seq(T)
  OBVIOUS
<1> HIDE <1>1
<1> QED BY <1>1, <1>2

LEMMA StartDriverTypes ==
    ASSUME DriverTypes, NEW m \in {"sta", "ap"}, NEW p \in {"none", "mode", "started"},
           StartDriver(m, p)
    PROVE  DriverTypes'
<1>1. posted' \in Seq(Events)
  BY AppendType, EventTypes DEF DriverTypes, StartDriver
<1>2. failures' \in 0..MaxFailures
  BY WifiConstants DEF DriverTypes, StartDriver, DriverFails
<1>3. mode' \in {"null", "sta", "ap"}
  BY DEF DriverTypes, StartDriver
<1>4. started' \in BOOLEAN
  BY DEF DriverTypes, StartDriver
<1>5. sta' \in {"idle", "connecting", "associated", "online"}
  BY DEF DriverTypes, StartDriver
<1>6. stations' \in 0..MaxStations
  BY DEF DriverTypes, StartDriver
<1> QED BY <1>1, <1>2, <1>3, <1>4, <1>5, <1>6 DEF DriverTypes

LEMMA StopDriverTypes ==
    ASSUME DriverTypes, StopDriver
    PROVE  DriverTypes'
<1>1. posted' \in Seq(Events)
  <2>1. PICK reason \in Reasons :
          posted' = posted
              \o (IF sta # "idle" THEN <<Lost("leave")>> ELSE <<>>)
              \o [i \in 1..stations |-> Lost(reason)]
              \o (IF started /\ mode = "ap" THEN <<Event("EVENT_APStop")>> ELSE <<>>)
    BY DEF StopDriver
  <2>2. /\ Lost("leave") \in Events /\ Lost(reason) \in Events
        /\ Event("EVENT_APStop") \in Events
    BY EventTypes DEF Reasons
  <2>3. /\ (sta # "idle") \in BOOLEAN /\ (started /\ mode = "ap") \in BOOLEAN
        /\ stations \in Nat /\ posted \in Seq(Events)
    BY WifiConstants DEF DriverTypes
  <2> QED BY <2>1, <2>2, <2>3, StopType
<1>2. started' \in BOOLEAN
  BY DEF StopDriver
<1>3. /\ sta' \in {"idle", "connecting", "associated", "online"}
      /\ stations' \in 0..MaxStations
  BY WifiConstants DEF StopDriver
<1> QED BY <1>1, <1>2, <1>3 DEF DriverTypes, StopDriver

LEMMA ConnectStationTypes ==
    ASSUME DriverTypes, ConnectStation
    PROVE  DriverTypes'
<1>1. failures' \in 0..MaxFailures
  BY WifiConstants DEF DriverTypes, ConnectStation, DriverFails
<1>2. sta' \in {"idle", "connecting", "associated", "online"}
  BY DEF DriverTypes, ConnectStation
<1>3. started' \in BOOLEAN
  BY DEF DriverTypes, ConnectStation
<1> QED BY <1>1, <1>2, <1>3 DEF DriverTypes, ConnectStation

\* A CASE whose guards exclude each other is a disjunction.
LEMMA CaseAlternatives ==
    ASSUME NEW A, NEW B, NEW D, NEW P, NEW Q, NEW R, NEW S,
           ~(A /\ B), ~(A /\ D), ~(B /\ D),
           CASE A -> P [] B -> Q [] D -> R [] OTHER -> S
    PROVE  \/ A /\ P
           \/ B /\ Q
           \/ D /\ R
           \/ ~A /\ ~B /\ ~D /\ S
BY Zenon

(* What a visit of on_event does besides returning a state.                *)
LEMMA VisitAlternatives ==
    ASSUME NEW c \in Callers, Visit(c)
    PROVE  \/ StartsAP(c) /\ \E p \in {"none", "mode", "started"} : StartDriver("ap", p)
           \/ Disconnects(c) /\ StopDriver
           \/ Connects(c) /\ ConnectStation
           \/ /\ ~StartsAP(c) /\ ~Disconnects(c) /\ ~Connects(c)
              /\ UNCHANGED <<driverVars, failures>>
<1>1. /\ ~(StartsAP(c) /\ Disconnects(c)) /\ ~(StartsAP(c) /\ Connects(c))
      /\ ~(Disconnects(c) /\ Connects(c))
  BY DEF StartsAP, Disconnects, Connects, Visiting
<1>2. (CASE StartsAP(c)    -> \E p \in {"none", "mode", "started"} : StartDriver("ap", p)
         [] Disconnects(c) -> StopDriver
         [] Connects(c)    -> ConnectStation
         [] OTHER          -> UNCHANGED <<driverVars, failures>>)
  BY Zenon DEF Visit
<1> QED BY <1>1, <1>2, CaseAlternatives, Zenon

LEMMA VisitDriverTypes ==
    ASSUME Types, NEW c \in Callers, Visit(c)
    PROVE  DriverTypes'
<1>1. DriverTypes
  BY DEF Types
<1>2. CASE UNCHANGED <<driverVars, failures>>
  BY <1>1, <1>2 DEF driverVars, DriverTypes
<1> QED BY <1>1, <1>2, VisitAlternatives, StartDriverTypes, StopDriverTypes,
           ConnectStationTypes

-----------------------------------------------------------------------------
LEMMA TypesInit == Init => Types
<1> SUFFICES ASSUME Init PROVE Types
  OBVIOUS
<1>1. Fsm!TypeOK /\ HeldInv
  BY WifiConstants DEF Init, Fsm!Init, Fsm!TypeOK, HeldInv, States, Callers
<1>2. posted \in Seq(Events)
  BY DEF Init
<1>3. started \in BOOLEAN /\ overlapped \in BOOLEAN
  BY DEF Init
<1> QED BY <1>1, <1>2, <1>3, WifiConstants
        DEF Init, Types, MachineTypes, WifiTypes, DriverTypes

LEMMA StartMachineTypes ==
    ASSUME MachineTypes, Fsm!StartStep
    PROVE  MachineTypes'
BY WifiConstants DEF MachineTypes, Fsm!TypeOK, HeldInv, Fsm!StartStep, Fsm!StartFlag,
   Fsm!StartState, Fsm!Move, Callers

LEMMA DispatchMachineTypes ==
    ASSUME MachineTypes, NEW c \in Callers, NEW e \in Events, Fsm!Dispatch(c, e)
    PROVE  MachineTypes'
BY WifiConstants DEF MachineTypes, Fsm!TypeOK, HeldInv, Fsm!Dispatch, Fsm!Move, Callers

LEMMA VisitMachineTypes ==
    ASSUME MachineTypes, NEW c \in Callers, NEW r \in States \cup {NoChange},
           Fsm!Visit(c, r)
    PROVE  MachineTypes'
BY WifiConstants DEF MachineTypes, Fsm!TypeOK, HeldInv, Fsm!Visit, Fsm!Move, Callers

LEMMA CommitMachineTypes ==
    ASSUME MachineTypes, NEW c \in Callers, Fsm!Commit(c)
    PROVE  MachineTypes'
BY WifiConstants DEF MachineTypes, Fsm!TypeOK, HeldInv, Fsm!Commit, Fsm!Move, Callers

LEMMA OnEntryMachineTypes ==
    ASSUME MachineTypes, NEW c \in Callers, Fsm!OnEntry(c)
    PROVE  MachineTypes'
BY WifiConstants DEF MachineTypes, Fsm!TypeOK, HeldInv, Fsm!OnEntry, Fsm!Move, Callers

(* Every step keeps the types.                                             *)
LEMMA TypesNext == Types /\ [Next]_vars => Types'
<1> SUFFICES ASSUME Types, [Next]_vars PROVE Types'
  OBVIOUS
<1>0. MachineTypes /\ WifiTypes /\ DriverTypes
  BY DEF Types
<1>1. CASE Start
  BY <1>0, <1>1, StartMachineTypes
     DEF Types, Start, WifiTypes, DriverTypes, driverVars
<1>2. ASSUME NEW call \in Calls, Call(call) PROVE Types'
  <2>1. MachineTypes' /\ DriverTypes'
    BY <1>0, <1>2 DEF Call, MachineTypes, HeldInv, Fsm!TypeOK, DriverTypes, fsmVars, driverVars
  <2>2. Request(call).e \in Events
    BY EventTypes, WifiConstants DEF Request
  <2>3. WifiTypes'
    BY <1>0, <1>2, <2>2, WifiConstants DEF Call, WifiTypes
  <2> QED BY <2>1, <2>3 DEF Types
<1>3. CASE UserDispatch
  <2>1. MachineTypes'
    BY <1>0, <1>3, DispatchMachineTypes DEF UserDispatch, WifiTypes, Callers
  <2> QED BY <1>0, <1>3, <2>1
          DEF Types, UserDispatch, WifiTypes, DriverTypes, driverVars
<1>4. CASE LoopDispatch
  <2>1. Head(posted) \in Events /\ posted' \in Seq(Events)
    BY <1>0, <1>4, TailType DEF LoopDispatch, DriverTypes
  <2>2. MachineTypes'
    BY <1>0, <1>4, <2>1, DispatchMachineTypes DEF LoopDispatch, Callers
  <2>3. DriverTypes'
    BY <1>0, <1>4, <2>1 DEF LoopDispatch, DriverTypes
  <2>4. WifiTypes'
    BY <1>0, <1>4 DEF LoopDispatch, WifiTypes
  <2> QED BY <2>2, <2>3, <2>4 DEF Types
<1>5. ASSUME NEW c \in Callers, CallerStep(c) PROVE Types'
  <2>1. CASE Visit(c)
    BY <1>0, <2>1, VisitMachineTypes, VisitDriverTypes DEF Types, Visit, WifiTypes
  <2>2. CASE Retry(c)
    <3>1. WifiTypes'
      BY <1>0, <2>2, WifiConstants DEF Retry, WifiTypes
    <3>2. MachineTypes' /\ DriverTypes'
      BY <1>0, <2>2, VisitMachineTypes DEF Retry, DriverTypes, driverVars
    <3> QED BY <3>1, <3>2 DEF Types
  <2>3. CASE Restart(c)
    <3>1. MachineTypes'
      <4>1. Fsm!TypeOK'
        BY <2>3, WifiConstants DEF Restart, Fsm!TypeOK, States, Callers
      <4>2. HeldInv'
        BY <2>3 DEF Restart, HeldInv, Callers
      <4> QED BY <4>1, <4>2 DEF MachineTypes
    <3>2. DriverTypes'
      <4>1. posted' \in Seq(Events)
        BY <2>3 DEF Restart
      <4>2. started' \in BOOLEAN
        BY <2>3 DEF Restart
      <4>3. stations' \in 0..MaxStations /\ failures' \in 0..MaxFailures
        BY <1>0, <2>3, WifiConstants DEF Restart, DriverTypes
      <4> QED BY <2>3, <4>1, <4>2, <4>3 DEF Restart, DriverTypes
    <3>3. WifiTypes'
      <4>1. overlapped' \in BOOLEAN
        BY <2>3 DEF Restart
      <4> QED BY <1>0, <2>3, <4>1, WifiConstants DEF Restart, WifiTypes
    <3> QED BY <3>1, <3>2, <3>3 DEF Types
  <2>4. CASE Commit(c)
    BY <1>0, <2>4, CommitMachineTypes
       DEF Types, Commit, WifiTypes, DriverTypes, driverVars
  <2>5. CASE OnEntry(c)
    <3>1. DriverTypes'
      <4>1. CASE UNCHANGED <<driverVars, failures>>
        BY <1>0, <4>1 DEF driverVars, DriverTypes
      <4> QED BY <1>0, <2>5, <4>1, StartDriverTypes DEF OnEntry
    <3>2. WifiTypes'
      BY <1>0, <2>5, WifiConstants DEF OnEntry, WifiTypes
    <3> QED BY <1>0, <2>5, <3>1, <3>2, OnEntryMachineTypes DEF Types, OnEntry
  <2> QED BY <1>5, <2>1, <2>2, <2>3, <2>4, <2>5 DEF CallerStep
<1>6. CASE Driver
  <2>1. UNCHANGED <<fsmVars, m_retry_count, pending, mode, started, calls, failures,
                    overlapped>>
    BY <1>6, Zenon
       DEF Driver, Associate, GetIP, LoseLink, StationJoins, StationLeaves, Report
  <2>2. \E e \in Events : posted' = Append(posted, e)
    BY <1>6, EventTypes
       DEF Driver, Associate, GetIP, LoseLink, StationJoins, StationLeaves, Report
  <2>3. posted' \in Seq(Events)
    BY <1>0, <2>2, AppendType DEF DriverTypes
  <2>4. /\ sta' \in {"idle", "connecting", "associated", "online"}
        /\ stations' \in 0..MaxStations /\ losses' \in 0..MaxLosses
    BY <1>0, <1>6, WifiConstants
       DEF Driver, Associate, GetIP, LoseLink, StationJoins, StationLeaves, Lose,
           DriverTypes, WifiTypes
  <2>5. MachineTypes'
    BY <1>0, <2>1 DEF MachineTypes, HeldInv, Fsm!TypeOK, fsmVars
  <2>6. WifiTypes'
    BY <1>0, <2>1, <2>4 DEF WifiTypes
  <2>7. DriverTypes'
    BY <1>0, <2>1, <2>3, <2>4 DEF DriverTypes
  <2> QED BY <2>5, <2>6, <2>7 DEF Types
<1>7. CASE UNCHANGED vars
  BY <1>0, <1>7
     DEF Types, vars, fsmVars, driverVars, MachineTypes, HeldInv, Fsm!TypeOK, WifiTypes,
         DriverTypes
<1> QED BY <1>1, <1>2, <1>3, <1>4, <1>5, <1>6, <1>7 DEF Next

(* The types hold, also when both tasks write the machine's members.       *)
THEOREM TypeCorrect == Spec => []TypeOK
<1> QED BY TypesImply, TypesInit, TypesNext, PTL DEF Spec
-----------------------------------------------------------------------------
UserEvents == {Request(call).e : call \in {"Connect", "SwitchToAP", "Disconnect"}}

\* The driver has not been started since Init, or since the last restart.
Unstarted ==
    /\ posted = <<>> /\ sta = "idle" /\ stations = 0 /\ ~started
    /\ at["loop"] = "idle"

(* Where the user's task can be, overlapping or not.                       *)
UserInv ==
    /\ at["user"] \in {"before", "visit", "commit", "entry", "idle"}
    /\ at["user"] = "before" => m_states = "STATE_Offline" /\ Unstarted
    /\ pending # NoEvent => at["user"] = "idle" /\ pending \in UserEvents

(* Without overlapping, the event loop dispatches nothing between the      *)
(* beginning of the user's Dispatch and the assignment; while the user's   *)
(* task enters the new state it may, but that state ignores what is left.  *)
HandlerInv ==
    ~overlapped =>
        /\ at["user"] \in {"visit", "commit"} => at["loop"] = "idle"
        /\ at["user"] = "visit" => m_events \in UserEvents
        /\ at["user"] = "commit" => newState["user"] # "STATE_Connected"
        /\ at["user"] = "entry" => at["loop"] \in {"idle", "visit"}
                                      /\ m_states # "STATE_Connected"

(* Until the first call has been assigned, unless it is SwitchToAP, the    *)
(* driver has not been started, so that there is nothing to overlap with.  *)
FirstCallInv ==
    /\ calls = 0 =>
          /\ m_states = "STATE_Offline" /\ pending = NoEvent
          /\ Unstarted /\ ~overlapped
          /\ at["user"] \in {"before", "entry", "idle"}
    /\ calls = 1 /\ pending # NoEvent =>
          /\ m_states = "STATE_Offline"
          /\ pending.name \in {"EVENT_StaConnect", "EVENT_APStart"}
          /\ Unstarted /\ ~overlapped
    /\ calls = 1 /\ at["user"] \in {"visit", "commit"} /\ event["user"] # Event("EVENT_APStart") =>
          /\ m_states = "STATE_Offline"
          /\ at["user"] = "visit" => m_events.name = "EVENT_StaConnect"
          /\ Unstarted /\ ~overlapped
    /\ LoneConnect

LEMMA UserInit == Init => UserInv /\ HandlerInv /\ FirstCallInv
BY DEF Init, Fsm!Init, UserInv, HandlerInv, FirstCallInv, LoneConnect, Unstarted, Callers

LEMMA UserEventNames ==
    \A e \in UserEvents :
        e.name \in {"EVENT_StaConnect", "EVENT_APStart", "EVENT_Disconnect"}
BY DEF UserEvents, Request, Event

-----------------------------------------------------------------------------
\* The events that have been posted and not been decided upon, and the state
\* that has been decided upon, assigned or not.
InLine == IF at["loop"] = "visit" THEN <<m_events>> \o posted ELSE posted

Decided == IF at["user"] = "commit" THEN newState["user"]
           ELSE IF at["loop"] = "commit" THEN newState["loop"] ELSE m_states

All(q, names) == \A i \in 1..Len(q) : q[i].name \in names

\* The last one is called n.
Ended(q, names, n) ==
    /\ q # <<>> /\ q[Len(q)].name = n
    /\ \A i \in 1..(Len(q) - 1) : q[i].name \in names

Good  == {"EVENT_StaConnected", "EVENT_GotIP"}
Loss  == "EVENT_LoseConnection"
Stale == {"EVENT_UserConnected", Loss, "EVENT_APStop"}

(* Lemmas on the names in a sequence of events, as it grows and shrinks.   *)
LEMMA AllEmpty == \A names : All(<<>>, names)
BY DEF All

LEMMA AllAppend ==
    ASSUME NEW T, NEW q \in Seq(T), NEW e \in T, NEW names,
           All(q, names), e.name \in names
    PROVE  All(Append(q, e), names)
BY DEF All

LEMMA EndedAppend ==
    ASSUME NEW T, NEW q \in Seq(T), NEW e \in T, NEW names, All(q, names)
    PROVE  Ended(Append(q, e), names, e.name)
BY DEF All, Ended

LEMMA EndedAll ==
    ASSUME NEW T, NEW q \in Seq(T), NEW names, NEW n, Ended(q, names, n)
    PROVE  All(q, names \cup {n})
BY DEF All, Ended

LEMMA AllMore ==
    ASSUME NEW q, NEW names, NEW more, All(q, names), names \subseteq more
    PROVE  All(q, more)
BY DEF All

LEMMA AllTail ==
    ASSUME NEW T, NEW q \in Seq(T), q # <<>>, NEW names, All(q, names)
    PROVE  Head(q).name \in names /\ All(Tail(q), names)
BY DEF All

LEMMA EmptySeq ==
    ASSUME NEW T, NEW q \in Seq(T)
    PROVE  Len(q) \in Nat /\ (q = <<>> <=> Len(q) = 0)
OBVIOUS

LEMMA EndedTail ==
    ASSUME NEW T, NEW q \in Seq(T), NEW names, NEW n, Ended(q, names, n)
    PROVE  \/ Head(q).name = n /\ Tail(q) = <<>>
           \/ Head(q).name \in names /\ Ended(Tail(q), names, n)
<1> DEFINE t == Tail(q)
<1>1. q # <<>> /\ Len(q) \in Nat /\ Len(q) >= 1
  BY EmptySeq DEF Ended
<1>2. /\ Head(q) = q[1] /\ t \in Seq(T) /\ Len(t) = Len(q) - 1
      /\ \A i \in 1..(Len(q) - 1) : t[i] = q[i + 1]
  BY <1>1
<1>3. /\ q[Len(q)].name = n
      /\ \A i \in 1..(Len(q) - 1) : q[i].name \in names
  BY DEF Ended
<1> HIDE DEF t
<1>4. CASE Len(q) = 1
  <2>1. t = <<>>
    BY <1>2, <1>4, EmptySeq
  <2> QED BY <1>2, <1>3, <1>4, <2>1 DEF t
<1>5. CASE Len(q) # 1
  <2>1. t # <<>>
    BY <1>1, <1>2, <1>5
  <2>2. t[Len(t)].name = n
    BY <1>1, <1>2, <1>3, <1>5
  <2>3. \A i \in 1..(Len(t) - 1) : t[i].name \in names
    BY <1>1, <1>2, <1>3, <1>5
  <2>4. Head(q).name \in names
    BY <1>1, <1>2, <1>3, <1>5
  <2> QED BY <2>1, <2>2, <2>3, <2>4 DEF Ended, t
<1> QED BY <1>4, <1>5

LEMMA AllConcat ==
    ASSUME NEW T, NEW p \in Seq(T), NEW q \in Seq(T), NEW names,
           All(p, names), All(q, names)
    PROVE  All(p \o q, names)
BY DEF All

LEMMA AllRepeat ==
    ASSUME NEW T, NEW e \in T, NEW names, e.name \in names, NEW n \in Nat
    PROVE  [i \in 1..n |-> e] \in Seq(T) /\ All([i \in 1..n |-> e], names)
BY DEF All

LEMMA AllOptional ==
    ASSUME NEW T, NEW e \in T, NEW names, NEW A \in BOOLEAN, A => e.name \in names
    PROVE  /\ (IF A THEN <<e>> ELSE <<>>) \in Seq(T)
           /\ All(IF A THEN <<e>> ELSE <<>>, names)
<1>1. CASE A
  BY <1>1 DEF All
<1>2. CASE ~A
  BY <1>2 DEF All
<1> QED BY <1>1, <1>2

LEMMA HeadBefore ==
    ASSUME NEW T, NEW x \in T, NEW q \in Seq(T)
    PROVE  /\ <<x>> \o q \in Seq(T) /\ <<x>> \o q # <<>>
           /\ Head(<<x>> \o q) = x
           /\ Tail(<<x>> \o q) = q
<1>1. <<x>> \o q \in Seq(T) /\ <<x>> \o q # <<>> /\ Head(<<x>> \o q) = x
  OBVIOUS
<1> DEFINE t == Tail(<<x>> \o q)
<1>2. t \in Seq(T) /\ Len(t) = Len(q)
  OBVIOUS
<1>3. ASSUME NEW i \in 1..Len(q) PROVE t[i] = q[i]
  OBVIOUS
<1> HIDE DEF t
<1>4. t = q
  BY <1>2, <1>3
<1> QED BY <1>1, <1>4 DEF t

LEMMA HeadTail ==
    ASSUME NEW T, NEW q \in Seq(T), q # <<>>
    PROVE  <<Head(q)>> \o Tail(q) = q
<1> DEFINE h == <<Head(q)>> \o Tail(q)
<1>1. h \in Seq(T) /\ Len(h) = Len(q)
  OBVIOUS
<1>2. ASSUME NEW i \in 1..Len(q) PROVE h[i] = q[i]
  OBVIOUS
<1> HIDE DEF h
<1>3. h = q
  BY <1>1, <1>2
<1> QED BY <1>3 DEF h

LEMMA AppendBehind ==
    ASSUME NEW T, NEW x \in T, NEW q \in Seq(T), NEW e \in T
    PROVE  <<x>> \o Append(q, e) = Append(<<x>> \o q, e)
<1> DEFINE lhs == <<x>> \o Append(q, e)
           rhs == Append(<<x>> \o q, e)
<1>1. /\ lhs \in Seq(T) /\ rhs \in Seq(T)
      /\ Len(lhs) = Len(q) + 2 /\ Len(rhs) = Len(q) + 2
  OBVIOUS
<1>2. ASSUME NEW i \in 1..(Len(q) + 2) PROVE lhs[i] = rhs[i]
  OBVIOUS
<1> HIDE DEF lhs, rhs
<1>3. lhs = rhs
  BY <1>1, <1>2
<1> QED BY <1>3 DEF lhs, rhs
-----------------------------------------------------------------------------
(* What can be in line in state s while the station is l.                  *)
Fits(s, l, q) ==
    \/ /\ l = "connecting"
       /\ s = "STATE_Connecting" /\ q = <<>>
    \/ /\ l \in {"associated", "online"} /\ All(q, Good)
       /\ s = "STATE_Connected" \/ (s = "STATE_Connecting" /\ q # <<>>)
    \/ /\ l = "idle"
       /\ \/ s = "STATE_Offline" /\ All(q, Good \cup {Loss})
          \/ s = "STATE_AP" /\ All(q, {"EVENT_UserConnected", Loss})
          \/ s = "STATE_Connected" /\ Ended(q, Good, Loss)
          \/ s = "STATE_Connecting" /\ All(q, Stale)
          \/ s = "STATE_Connecting" /\ Ended(q, Stale, "EVENT_StaStart")
          \/ s = "STATE_Connecting" /\ Ended(q, Good, Loss)

\* Connecting has been decided upon and its on_entry has still to run.
Preparing == \E c \in Callers :
    \/ at[c] = "commit" /\ newState[c] = "STATE_Connecting"
    \/ at[c] = "entry" /\ m_states = "STATE_Connecting"

PhaseInv ==
    /\ Fits(Decided, sta, InLine)
    /\ Preparing => sta = "idle" /\ All(InLine, Stale)
    /\ stations # 0 \/ (started /\ mode = "ap") => Decided = "STATE_AP"
    /\ Decided = "STATE_Offline" /\ at["user"] = "visit" => InLine = <<>>

LEMMA PhaseInit == Init => PhaseInv
BY AllEmpty DEF Init, Fsm!Init, PhaseInv, Fits, Preparing, Decided, InLine, Callers

LEMMA LineTypes ==
    ASSUME Types
    PROVE  /\ at \in [Callers -> {"before", "flag", "visit", "commit", "entry", "idle",
                                  "asserted"}]
           /\ newState \in [Callers -> States \cup {NoChange}]
           /\ m_states \in States
           /\ posted \in Seq(Events) /\ InLine \in Seq(Events)
           /\ Callers = {"user", "loop"}
           /\ stations \in Nat
<1>1. posted \in Seq(Events)
  BY DEF Types, DriverTypes
<1>2. at["loop"] = "visit" => m_events \in Events
  BY DEF Types, MachineTypes, HeldInv, Callers
<1>3. InLine \in Seq(Events)
  BY <1>1, <1>2, HeadBefore DEF InLine
<1> QED BY <1>1, <1>3, WifiConstants
        DEF Types, MachineTypes, DriverTypes, Fsm!TypeOK, Callers

\* Where a visit takes the machine; what happens to the driver is left open.
LEMMA VisitMoves ==
    ASSUME Types, HandlerInv, ~overlapped,
           NEW c \in Callers, NEW r \in States \cup {NoChange}, Fsm!Visit(c, r),
           c = "loop" => at["user"] = "idle"
    PROVE  /\ Decided = m_states
           /\ Decided' = IF r = NoChange THEN m_states ELSE r
           /\ r \in Transition(m_states, m_events)
           /\ m_events \in Events
           /\ Preparing' => r = "STATE_Connecting"
           /\ InLine' = posted'
           /\ c = "user" => InLine = posted /\ m_events \in UserEvents
           /\ c = "loop" => InLine # <<>> /\ Head(InLine) = m_events /\ Tail(InLine) = posted
           /\ at'["user"] # "visit"
<1>1. /\ at[c] = "visit" /\ m_events \in Events
      /\ at' = [at EXCEPT ![c] = IF r = NoChange THEN "idle" ELSE "commit"]
      /\ newState' = [newState EXCEPT ![c] = r]
      /\ UNCHANGED <<m_isRunning, m_states, m_events, event>>
      /\ r \in OnEvent[<<m_states, m_events>>]
  BY DEF Fsm!Visit, Fsm!Move, Types, MachineTypes, HeldInv
<1>2. r \in Transition(m_states, m_events)
  BY <1>1, LineTypes DEF OnEvent
<1>4. NoChange \notin States
  BY WifiConstants
<1>5. CASE c = "user"
  <2>1. at["loop"] = "idle" /\ m_events \in UserEvents
    BY <1>1, <1>5 DEF HandlerInv
  <2>2. /\ at'["loop"] = "idle" /\ newState'["user"] = r
        /\ at'["user"] = IF r = NoChange THEN "idle" ELSE "commit"
    BY <1>1, <1>5, <2>1, LineTypes
  <2>3. Decided = m_states /\ InLine = posted /\ InLine' = posted'
    BY <1>1, <1>5, <2>1, <2>2 DEF Decided, InLine
  <2>4. Decided' = IF r = NoChange THEN m_states ELSE r
    BY <1>1, <2>2 DEF Decided
  <2>5. Preparing' => r = "STATE_Connecting"
    BY <2>2 DEF Preparing, Callers
  <2> QED BY <1>1, <1>2, <1>5, <2>1, <2>2, <2>3, <2>4, <2>5
<1>6. CASE c = "loop"
  <2>1. at["user"] = "idle"
    BY <1>6
  <2>2. /\ at'["user"] = "idle" /\ newState'["loop"] = r
        /\ at'["loop"] = IF r = NoChange THEN "idle" ELSE "commit"
    BY <1>1, <1>6, <2>1, LineTypes
  <2>3. Decided = m_states /\ InLine = <<m_events>> \o posted /\ InLine' = posted'
    BY <1>1, <1>6, <2>1, <2>2 DEF Decided, InLine
  <2>4. Decided' = IF r = NoChange THEN m_states ELSE r
    BY <1>1, <2>2 DEF Decided
  <2>5. Preparing' => r = "STATE_Connecting"
    BY <2>2 DEF Preparing, Callers
  <2>6. InLine # <<>> /\ Head(InLine) = m_events /\ Tail(InLine) = posted
    BY <1>1, <2>3, LineTypes, HeadBefore
  <2> QED BY <1>1, <1>2, <1>6, <2>2, <2>3, <2>4, <2>5, <2>6
<1> QED BY <1>5, <1>6, LineTypes DEF Callers

\* What disconnect() posts: losses, and APStop from a started access point.
LEMMA StopPosts ==
    ASSUME Types, StopDriver, NEW names, All(posted, names), Loss \in names,
           (started /\ mode = "ap") => "EVENT_APStop" \in names
    PROVE  All(posted', names)
<1>1. PICK reason \in Reasons :
        posted' = posted
            \o (IF sta # "idle" THEN <<Lost("leave")>> ELSE <<>>)
            \o [i \in 1..stations |-> Lost(reason)]
            \o (IF started /\ mode = "ap" THEN <<Event("EVENT_APStop")>> ELSE <<>>)
  BY DEF StopDriver
<1> DEFINE p == IF sta # "idle" THEN <<Lost("leave")>> ELSE <<>>
           q == [i \in 1..stations |-> Lost(reason)]
           u == IF started /\ mode = "ap" THEN <<Event("EVENT_APStop")>> ELSE <<>>
<1>2. /\ Lost("leave") \in Events /\ Lost(reason) \in Events
      /\ Event("EVENT_APStop") \in Events
  BY EventTypes DEF Reasons
<1>3. /\ Lost("leave").name \in names /\ Lost(reason).name \in names
      /\ (started /\ mode = "ap") => Event("EVENT_APStop").name \in names
  BY DEF Lost, Loss, Event
<1>4. (sta # "idle") \in BOOLEAN /\ (started /\ mode = "ap") \in BOOLEAN
  OBVIOUS
<1>5. p \in Seq(Events) /\ All(p, names)
  BY <1>2, <1>3, <1>4, AllOptional
<1>6. q \in Seq(Events) /\ All(q, names)
  BY <1>2, <1>3, LineTypes, AllRepeat
<1>7. u \in Seq(Events) /\ All(u, names)
  BY <1>2, <1>3, <1>4, AllOptional
<1>8. posted' = posted \o p \o q \o u /\ posted \in Seq(Events)
  BY <1>1, LineTypes
<1> HIDE DEF p, q, u
<1> DEFINE pp == posted \o p
           pq == pp \o q
<1>9. pp \in Seq(Events) /\ All(pp, names)
  BY <1>5, <1>8, AllConcat
<1> HIDE DEF pp
<1>10. pq \in Seq(Events) /\ All(pq, names)
  BY <1>6, <1>9, AllConcat
<1> HIDE DEF pq
<1>11. All(pq \o u, names)
  BY <1>7, <1>10, AllConcat
<1> QED BY <1>8, <1>11 DEF pp, pq

(* Start enters Offline, where nothing is in line.                         *)
LEMMA StartPhase ==
    ASSUME Types, UserInv, PhaseInv, Start
    PROVE  PhaseInv'
<1>1. /\ at["user"] = "before" /\ at' = [at EXCEPT !["user"] = "entry"]
      /\ m_states = "STATE_Offline" /\ at["loop"] = "idle"
      /\ UNCHANGED <<m_states, m_events, newState, driverVars>>
  BY LineTypes DEF Start, Fsm!StartStep, Fsm!StartFlag, Fsm!Move, UserInv, Unstarted
<1>2. at'["user"] = "entry" /\ at'["loop"] = "idle"
  BY <1>1, LineTypes
<1>3. InLine' = InLine /\ Decided' = Decided /\ ~Preparing'
  BY <1>1, <1>2, LineTypes DEF InLine, Decided, Preparing, driverVars
<1> QED BY <1>1, <1>2, <1>3 DEF PhaseInv, driverVars

(* A call only looks at the state.                                         *)
LEMMA CallPhase ==
    ASSUME PhaseInv, NEW call \in Calls, Call(call)
    PROVE  PhaseInv'
<1>1. UNCHANGED <<m_states, m_events, at, newState, driverVars>>
  BY DEF Call, fsmVars
<1>2. InLine' = InLine /\ Decided' = Decided /\ (Preparing' <=> Preparing)
  BY <1>1 DEF InLine, Decided, Preparing, driverVars
<1> QED BY <1>1, <1>2 DEF PhaseInv, driverVars

(* A call that does not overlap is dispatched when nothing is in line.     *)
LEMMA UserDispatchPhase ==
    ASSUME Types, PhaseInv, UserDispatch, ~overlapped'
    PROVE  PhaseInv'
<1>1. /\ at["user"] = "idle" /\ at["loop"] = "idle" /\ posted = <<>>
      /\ at' = [at EXCEPT !["user"] = "visit"]
      /\ UNCHANGED <<m_states, newState, driverVars>>
  BY DEF UserDispatch, Fsm!Dispatch, Fsm!Move
<1>2. at'["user"] = "visit" /\ at'["loop"] = "idle"
  BY <1>1, LineTypes
<1>3. /\ InLine' = InLine /\ Decided' = Decided /\ ~Preparing' /\ InLine = <<>>
  BY <1>1, <1>2, LineTypes DEF InLine, Decided, Preparing, driverVars
<1> QED BY <1>1, <1>3 DEF PhaseInv, driverVars

(* What the event loop takes stays in line until it has been decided upon. *)
LEMMA LoopDispatchPhase ==
    ASSUME Types, PhaseInv, LoopDispatch, ~overlapped'
    PROVE  PhaseInv'
<1>1. /\ at["loop"] = "idle" /\ at' = [at EXCEPT !["loop"] = "visit"]
      /\ m_events' = Head(posted) /\ posted' = Tail(posted) /\ posted # <<>>
      /\ at["user"] \notin {"visit", "commit"}
      /\ UNCHANGED <<m_states, newState, mode, started, sta, stations>>
  BY DEF LoopDispatch, Fsm!Dispatch, Fsm!Move
<1>2. at'["user"] = at["user"] /\ at'["loop"] = "visit"
  BY <1>1, LineTypes
<1>3. InLine' = InLine
  BY <1>1, <1>2, LineTypes, HeadTail DEF InLine
<1>4. Decided' = Decided /\ (Preparing' <=> Preparing)
  BY <1>1, <1>2, LineTypes DEF Decided, Preparing
<1> QED BY <1>1, <1>2, <1>3, <1>4 DEF PhaseInv

(* The user's calls: Connect, SwitchToAP and Disconnect.                   *)
LEMMA VisitUserPhase ==
    ASSUME Types, HandlerInv, ~overlapped, PhaseInv, Visit("user")
    PROVE  PhaseInv'
<1>0. "user" \in Callers
  BY DEF Callers
<1>1. PICK r \in States \cup {NoChange} : Fsm!Visit("user", r)
  BY DEF Visit
<1>2. at["user"] = "visit"
  BY DEF Visit
<1>3. /\ Decided = m_states
      /\ Decided' = IF r = NoChange THEN m_states ELSE r
      /\ r \in Transition(m_states, m_events)
      /\ Preparing' => r = "STATE_Connecting"
      /\ InLine' = posted' /\ InLine = posted
      /\ m_events.name \in {"EVENT_StaConnect", "EVENT_APStart", "EVENT_Disconnect"}
      /\ at'["user"] # "visit"
  BY <1>0, <1>1, <1>2, VisitMoves, UserEventNames
<1>4. Fits(m_states, sta, posted) /\ m_states \in States /\ posted \in Seq(Events)
  BY <1>3, LineTypes DEF PhaseInv
<1>5. NoChange \notin States
  BY WifiConstants
<1>6. SUFFICES /\ Fits(Decided', sta', posted')
               /\ Preparing' => sta' = "idle" /\ All(posted', Stale)
               /\ stations' # 0 \/ (started' /\ mode' = "ap") => Decided' = "STATE_AP"
  BY <1>3 DEF PhaseInv
<1>7. ~Connects("user")
  BY <1>3 DEF Connects, Visiting
<1>8. CASE StartsAP("user")
  <2>1. PICK p \in {"none", "mode", "started"} : StartDriver("ap", p)
    BY <1>0, <1>7, <1>8, VisitAlternatives DEF StartsAP, Disconnects, Visiting
  <2>2. m_states = "STATE_Offline" /\ m_events.name = "EVENT_APStart"
    BY <1>8 DEF StartsAP, Visiting
  <2>3. r = "STATE_AP"
    BY <1>3, <2>2 DEF Transition
  <2>4. posted = <<>> /\ sta = "idle"
    BY <1>2, <1>3, <1>4, <2>2 DEF PhaseInv, Fits
  <2>5. posted' = <<>> /\ sta' = "idle"
    BY <2>1, <2>4 DEF StartDriver
  <2>6. Decided' = "STATE_AP" /\ ~Preparing'
    BY <1>3, <1>5, <2>3 DEF States
  <2> QED BY <2>5, <2>6, AllEmpty DEF Fits
<1>9. CASE Disconnects("user")
  <2>1. StopDriver
    BY <1>0, <1>7, <1>9, VisitAlternatives DEF StartsAP, Disconnects, Visiting
  <2>2. sta' = "idle" /\ stations' = 0 /\ ~started'
    BY <2>1 DEF StopDriver
  <2>3. CASE m_states = "STATE_AP" /\ m_events.name = "EVENT_StaConnect"
    <3>1. r = "STATE_Connecting"
      BY <1>3, <2>3 DEF Transition
    <3>2. All(posted, {"EVENT_UserConnected", Loss})
      BY <1>4, <2>3 DEF Fits
    <3>3. All(posted, Stale)
      BY <3>2, AllMore DEF Stale
    <3>4. All(posted', Stale)
      BY <2>1, <3>3, StopPosts DEF Stale
    <3>5. Decided' = "STATE_Connecting"
      BY <1>3, <1>5, <3>1 DEF States
    <3> QED BY <2>2, <3>4, <3>5 DEF Fits
  <2>4. CASE m_states = "STATE_Connected" /\ m_events.name = "EVENT_Disconnect"
    <3>1. r = "STATE_Offline"
      BY <1>3, <2>4 DEF Transition, Lost
    <3>2. All(posted, Good \cup {Loss})
      <4>1. All(posted, Good) => All(posted, Good \cup {Loss})
        BY AllMore
      <4> QED BY <1>4, <2>4, <4>1, EndedAll DEF Fits
    <3>3. ~(started /\ mode = "ap")
      BY <1>3, <2>4 DEF PhaseInv
    <3>4. All(posted', Good \cup {Loss})
      BY <2>1, <3>2, <3>3, StopPosts
    <3>5. Decided' = "STATE_Offline" /\ ~Preparing'
      BY <1>3, <1>5, <3>1 DEF States
    <3> QED BY <2>2, <3>4, <3>5 DEF Fits
  <2> QED BY <1>9, <2>3, <2>4 DEF Disconnects, Visiting
<1>10. CASE ~StartsAP("user") /\ ~Disconnects("user")
  <2>1. UNCHANGED driverVars
    BY <1>7, <1>10, <1>0, VisitAlternatives
  <2>2. CASE m_states = "STATE_Offline" /\ m_events.name = "EVENT_StaConnect"
    <3>1. r = "STATE_Connecting"
      BY <1>3, <2>2 DEF Transition
    <3>2. posted = <<>> /\ sta = "idle"
      BY <1>2, <1>3, <1>4, <2>2 DEF PhaseInv, Fits
    <3>3. Decided' = "STATE_Connecting"
      BY <1>3, <1>5, <3>1 DEF States
    <3>4. ~(stations # 0 \/ (started /\ mode = "ap"))
      BY <1>3, <2>2 DEF PhaseInv
    <3> QED BY <2>1, <3>2, <3>3, <3>4, AllEmpty DEF Fits, driverVars
  <2>3. CASE ~(m_states = "STATE_Offline" /\ m_events.name = "EVENT_StaConnect")
    <3>1. r = NoChange \/ (r = "STATE_AP" /\ m_states = "STATE_AP")
      BY <1>2, <1>3, <1>10, <2>3 DEF Transition, StartsAP, Disconnects, Visiting, Lost
    <3>2. Decided' = m_states /\ ~Preparing'
      BY <1>3, <1>5, <3>1 DEF States
    <3> QED BY <1>3, <1>4, <2>1, <3>2 DEF PhaseInv, driverVars
  <2> QED BY <2>2, <2>3
<1> QED BY <1>8, <1>9, <1>10

(* While the user's task enters a state, that state ignores what the event *)
(* loop handles.                                                           *)
LEMMA EntryVisit ==
    ASSUME Types, HandlerInv, ~overlapped, PhaseInv,
           at["user"] = "entry", at["loop"] = "visit"
    PROVE  /\ Transition(m_states, m_events) = {NoChange}
           /\ ~StartsAP("loop") /\ ~Disconnects("loop") /\ ~Connects("loop")
           /\ Decided = m_states /\ InLine \in Seq(Events) /\ InLine # <<>>
           /\ Tail(InLine) = posted
           /\ Fits(m_states, sta, posted)
           /\ m_states = "STATE_Connecting" => All(posted, Stale)
<1>1. Decided = m_states /\ m_states \in States \ {"STATE_Connected"}
  BY LineTypes DEF Decided, HandlerInv
<1>2. m_events \in Events /\ posted \in Seq(Events) /\ InLine = <<m_events>> \o posted
  BY LineTypes DEF Types, MachineTypes, HeldInv, InLine
<1>3. /\ InLine \in Seq(Events) /\ InLine # <<>>
      /\ Head(InLine) = m_events /\ Tail(InLine) = posted
  BY <1>2, HeadBefore
<1>4. \A names : All(InLine, names) => m_events.name \in names /\ All(posted, names)
  BY <1>3, AllTail
<1>5. Fits(m_states, sta, InLine)
  BY <1>1 DEF PhaseInv
<1>6. CASE m_states = "STATE_Connecting"
  <2>1. sta = "idle" /\ All(InLine, Stale)
    BY <1>6, LineTypes DEF PhaseInv, Preparing
  <2>2. m_events.name \in Stale /\ All(posted, Stale)
    BY <1>4, <2>1
  <2>3. Transition(m_states, m_events) = {NoChange}
    BY <1>6, <2>2 DEF Transition, Stale, Loss, Lost
  <2>4. ~StartsAP("loop") /\ ~Disconnects("loop") /\ ~Connects("loop")
    BY <1>6, <2>2 DEF StartsAP, Disconnects, Connects, Visiting, Stale, Loss
  <2> QED BY <1>1, <1>3, <1>6, <2>1, <2>2, <2>3, <2>4 DEF Fits
<1>7. CASE m_states = "STATE_AP"
  <2> DEFINE names == {"EVENT_UserConnected", Loss}
  <2>1. sta = "idle" /\ All(InLine, names)
    BY <1>5, <1>7 DEF Fits
  <2>2. m_events.name \in names /\ All(posted, names)
    BY <1>4, <2>1
  <2>3. Transition(m_states, m_events) = {NoChange}
    BY <1>7, <2>2 DEF Transition, Loss, Lost
  <2>4. ~StartsAP("loop") /\ ~Disconnects("loop") /\ ~Connects("loop")
    BY <1>7, <2>2 DEF StartsAP, Disconnects, Connects, Visiting, Loss
  <2> QED BY <1>1, <1>3, <1>7, <2>1, <2>2, <2>3, <2>4 DEF Fits
<1>8. CASE m_states = "STATE_Offline"
  <2> DEFINE names == Good \cup {Loss}
  <2>1. sta = "idle" /\ All(InLine, names)
    BY <1>5, <1>8 DEF Fits
  <2>2. m_events.name \in names /\ All(posted, names)
    BY <1>4, <2>1
  <2>3. Transition(m_states, m_events) = {NoChange}
    BY <1>8, <2>2 DEF Transition, Good, Loss, Lost
  <2>4. ~StartsAP("loop") /\ ~Disconnects("loop") /\ ~Connects("loop")
    BY <1>8, <2>2 DEF StartsAP, Disconnects, Connects, Visiting, Good, Loss
  <2> QED BY <1>1, <1>3, <1>8, <2>1, <2>2, <2>3, <2>4 DEF Fits
<1> QED BY <1>1, <1>6, <1>7, <1>8 DEF States

(* So the event is out of the line and nothing else has changed.           *)
LEMMA EntryVisitPhase ==
    ASSUME Types, HandlerInv, ~overlapped, PhaseInv, at["user"] = "entry",
           NEW r \in States \cup {NoChange}, Fsm!Visit("loop", r), UNCHANGED driverVars
    PROVE  PhaseInv' /\ at'["loop"] = "idle"
<1>1. at["loop"] = "visit"
  BY DEF Fsm!Visit, Fsm!Move
<1>2. /\ Transition(m_states, m_events) = {NoChange}
      /\ Decided = m_states
      /\ Fits(m_states, sta, posted)
      /\ m_states = "STATE_Connecting" => All(posted, Stale)
  BY <1>1, EntryVisit
<1>3. m_events \in Events /\ m_states \in States
  BY <1>1, LineTypes DEF Types, MachineTypes, HeldInv
<1>4. r = NoChange
  BY <1>2, <1>3 DEF Fsm!Visit, OnEvent
<1>5. /\ at' = [at EXCEPT !["loop"] = "idle"]
      /\ newState' = [newState EXCEPT !["loop"] = r]
      /\ UNCHANGED <<m_states, m_events>>
  BY <1>4 DEF Fsm!Visit, Fsm!Move
<1>6. at'["loop"] = "idle" /\ at'["user"] = "entry"
  BY <1>5, LineTypes
<1>7. InLine' = posted /\ Decided' = m_states
  BY <1>5, <1>6 DEF InLine, Decided, driverVars
<1>8. Preparing' => Preparing /\ m_states = "STATE_Connecting"
  BY <1>5, <1>6 DEF Preparing, Callers
<1> QED BY <1>2, <1>5, <1>6, <1>7, <1>8 DEF PhaseInv, driverVars

(* The event loop's: the head of the line is taken out of it.              *)
LEMMA VisitLoopPhase ==
    ASSUME Types, HandlerInv, ~overlapped, PhaseInv, Visit("loop"), at["user"] = "idle"
    PROVE  PhaseInv'
<1>0. "loop" \in Callers
  BY DEF Callers
<1>1. PICK r \in States \cup {NoChange} : Fsm!Visit("loop", r)
  BY DEF Visit
<1>2. at["loop"] = "visit" /\ ~Retries("loop")
  BY DEF Visit
<1> DEFINE q == InLine
           t == Tail(InLine)
           name == m_events.name
<1>3. /\ Decided = m_states
      /\ Decided' = IF r = NoChange THEN m_states ELSE r
      /\ r \in Transition(m_states, m_events)
      /\ m_events \in Events
      /\ Preparing' => r = "STATE_Connecting"
      /\ InLine' = posted' /\ posted = t
      /\ q # <<>> /\ Head(q) = m_events
      /\ at'["user"] # "visit"
  BY <1>0, <1>1, <1>2, VisitMoves
<1>4. Fits(m_states, sta, q) /\ m_states \in States /\ q \in Seq(Events)
  BY <1>3, LineTypes DEF PhaseInv
<1>5. NoChange \notin States
  BY WifiConstants
<1>6. \A names : All(q, names) => name \in names /\ All(t, names)
  BY <1>3, <1>4, AllTail
<1>7. \A names, n : Ended(q, names, n) =>
          \/ name = n /\ t = <<>>
          \/ name \in names /\ Ended(t, names, n)
  BY <1>3, <1>4, EndedTail
<1>8. stations # 0 \/ (started /\ mode = "ap") => m_states = "STATE_AP"
  BY <1>3 DEF PhaseInv
<1> HIDE DEF q, t
<1>9. SUFFICES /\ Fits(Decided', sta', posted')
               /\ Preparing' => sta' = "idle" /\ All(posted', Stale)
               /\ stations' # 0 \/ (started' /\ mode' = "ap") => Decided' = "STATE_AP"
  BY <1>3 DEF PhaseInv
\* Nothing but an attempt to connect is started from the event loop's task.
<1>10. ~StartsAP("loop") /\ ~Disconnects("loop")
  <2>1. m_states = "STATE_Offline" => name \in Good \cup {Loss}
    BY <1>4, <1>6 DEF Fits
  <2>2. m_states = "STATE_AP" => name \in {"EVENT_UserConnected", Loss}
    BY <1>4, <1>6 DEF Fits
  <2>3. m_states = "STATE_Connected" => name \in Good \cup {Loss}
    BY <1>4, <1>6, <1>7 DEF Fits
  <2> QED BY <2>1, <2>2, <2>3 DEF StartsAP, Disconnects, Visiting, Good, Loss
<1>11. CASE Connects("loop")
  <2>1. m_states = "STATE_Connecting" /\ name = "EVENT_StaStart"
    BY <1>11 DEF Connects, Visiting
  <2>2. sta = "idle" /\ t = <<>>
    BY <1>3, <1>4, <1>6, <1>7, <2>1 DEF Fits, Good, Stale, Loss
  <2>3. ConnectStation
    BY <1>0, <1>10, <1>11, VisitAlternatives
  <2>4. /\ sta' \in {"idle", "connecting"}
        /\ UNCHANGED <<mode, started, stations, posted>>
    BY <2>2, <2>3 DEF ConnectStation
  <2>5. r = NoChange
    BY <1>3, <2>1 DEF Transition, Lost
  <2>6. Decided' = "STATE_Connecting" /\ ~Preparing'
    BY <1>3, <1>5, <2>1, <2>5 DEF States
  <2>7. posted' = <<>>
    BY <1>3, <2>2, <2>4
  <2>8. Fits("STATE_Connecting", sta', <<>>)
    BY <2>4, AllEmpty DEF Fits
  <2> QED BY <1>8, <2>1, <2>4, <2>6, <2>7, <2>8
<1>12. CASE ~Connects("loop")
  <2>1. UNCHANGED driverVars
    BY <1>0, <1>10, <1>12, VisitAlternatives
  <2>2. SUFFICES /\ Fits(Decided', sta, t)
                 /\ Preparing' => sta = "idle" /\ All(t, Stale)
                 /\ m_states = "STATE_AP" => Decided' = "STATE_AP"
    BY <1>3, <1>8, <2>1 DEF driverVars
  <2>3. CASE m_states = "STATE_Offline"
    <3>1. sta = "idle" /\ name \in Good \cup {Loss} /\ All(t, Good \cup {Loss})
      BY <1>4, <1>6, <2>3 DEF Fits
    <3>2. r = NoChange
      BY <1>3, <2>3, <3>1 DEF Transition, Good, Loss, Lost
    <3> QED BY <1>3, <1>5, <2>3, <3>1, <3>2 DEF Fits, States
  <2>4. CASE m_states = "STATE_AP"
    <3>1. /\ sta = "idle" /\ name \in {"EVENT_UserConnected", Loss}
          /\ All(t, {"EVENT_UserConnected", Loss})
      BY <1>4, <1>6, <2>4 DEF Fits
    <3>2. r = NoChange
      BY <1>3, <2>4, <3>1 DEF Transition, Loss, Lost
    <3> QED BY <1>3, <1>5, <2>4, <3>1, <3>2 DEF Fits, States
  <2>5. CASE m_states = "STATE_Connected" /\ sta # "idle"
    <3>1. sta \in {"associated", "online"} /\ name \in Good /\ All(t, Good)
      BY <1>4, <1>6, <2>5 DEF Fits
    <3>2. r = NoChange
      BY <1>3, <2>5, <3>1 DEF Transition, Good, Lost
    <3> QED BY <1>3, <1>5, <2>5, <3>1, <3>2 DEF Fits, States
  <2>6. CASE m_states = "STATE_Connected" /\ sta = "idle"
    <3>1. Ended(q, Good, Loss)
      BY <1>4, <2>6 DEF Fits
    <3>2. CASE name = Loss /\ t = <<>>
      <4>1. m_events \in {Lost("leave"), Lost("other")}
        BY <1>3, <3>2 DEF Events, Event, Lost, Reasons, Loss
      <4>2. r \in {"STATE_Offline", "STATE_Connecting"}
        BY <1>3, <2>6, <4>1 DEF Transition, Lost
      <4> QED BY <1>3, <1>5, <2>6, <3>2, <4>2, AllEmpty DEF Fits, States
    <3>3. CASE name \in Good /\ Ended(t, Good, Loss)
      <4>1. r = NoChange
        BY <1>3, <2>6, <3>3 DEF Transition, Good, Lost
      <4> QED BY <1>3, <1>5, <2>6, <3>3, <4>1 DEF Fits, States
    <3> QED BY <1>7, <3>1, <3>2, <3>3
  <2>7. CASE m_states = "STATE_Connecting" /\ sta # "idle"
    <3>1. sta \in {"associated", "online"} /\ name \in Good /\ All(t, Good)
      BY <1>3, <1>4, <1>6, <2>7 DEF Fits
    <3>2. r = "STATE_Connected"
      BY <1>3, <2>7, <3>1 DEF Transition, Good
    <3>3. Decided' = "STATE_Connected" /\ ~Preparing'
      BY <1>3, <1>5, <3>2 DEF States
    <3> QED BY <2>7, <3>1, <3>3 DEF Fits
  <2>8. CASE m_states = "STATE_Connecting" /\ sta = "idle"
    <3>1. name # "EVENT_StaStart" /\ name # Loss
      BY <1>2, <1>12, <2>8 DEF Connects, Retries, Visiting, Loss
    <3>2. \/ name \in Stale /\ (All(t, Stale) \/ Ended(t, Stale, "EVENT_StaStart"))
          \/ name \in Good /\ Ended(t, Good, Loss)
      BY <1>4, <1>6, <1>7, <2>8, <3>1 DEF Fits
    <3>3. CASE name \in Stale /\ (All(t, Stale) \/ Ended(t, Stale, "EVENT_StaStart"))
      <4>1. r = NoChange
        BY <1>3, <2>8, <3>1, <3>3 DEF Transition, Stale, Lost
      <4> QED BY <1>3, <1>5, <2>8, <3>3, <4>1 DEF Fits, States
    <3>4. CASE name \in Good /\ Ended(t, Good, Loss)
      <4>1. r = "STATE_Connected"
        BY <1>3, <2>8, <3>4 DEF Transition, Good
      <4>2. Decided' = "STATE_Connected" /\ ~Preparing'
        BY <1>3, <1>5, <4>1 DEF States
      <4> QED BY <2>8, <3>4, <4>2 DEF Fits
    <3> QED BY <3>2, <3>3, <3>4
  <2> QED BY <1>4, <2>3, <2>4, <2>5, <2>6, <2>7, <2>8 DEF States
<1> QED BY <1>11, <1>12

(* A retry is the event loop's, and changes neither state nor driver.      *)
LEMMA RetryPhase ==
    ASSUME Types, UserInv, HandlerInv, ~overlapped, PhaseInv, NEW c \in Callers, Retry(c)
    PROVE  PhaseInv' /\ at'[c] = "idle"
<1>1. PICK r \in States \cup {NoChange} : Fsm!Visit(c, r)
  BY DEF Retry
<1>2. /\ UNCHANGED driverVars /\ at[c] = "visit"
      /\ m_states = "STATE_Connecting" /\ m_events.name = Loss
  BY DEF Retry, Retries, Visiting, Loss
<1>3. c = "loop" /\ at["user"] \in {"idle", "entry"}
  BY <1>2, LineTypes, UserEventNames DEF Loss, HandlerInv, UserInv, Unstarted
<1>4. CASE at["user"] = "entry"
  BY <1>1, <1>2, <1>3, <1>4, EntryVisitPhase
<1>5. CASE at["user"] = "idle"
  <2>1. /\ Decided = m_states
        /\ Decided' = IF r = NoChange THEN m_states ELSE r
        /\ r \in Transition(m_states, m_events)
        /\ Preparing' => r = "STATE_Connecting"
        /\ InLine' = posted' /\ at'["user"] # "visit"
        /\ InLine # <<>> /\ Head(InLine) = m_events /\ Tail(InLine) = posted
    BY <1>1, <1>2, <1>3, <1>5, VisitMoves
  <2>2. r = NoChange
    BY <1>2, <2>1 DEF Transition, Loss, Lost
  <2>3. Decided' = m_states /\ ~Preparing' /\ InLine' = Tail(InLine)
    BY <1>2, <2>1, <2>2, WifiConstants DEF States, driverVars
  <2>4. Fits("STATE_Connecting", sta, InLine) /\ InLine \in Seq(Events)
    BY <1>2, <2>1, LineTypes DEF PhaseInv
  <2>5. \A names : All(InLine, names) => Loss \in names /\ All(Tail(InLine), names)
    BY <1>2, <2>1, <2>4, AllTail
  <2>6. \A names, n : Ended(InLine, names, n) =>
            \/ Loss = n /\ Tail(InLine) = <<>>
            \/ Loss \in names /\ Ended(Tail(InLine), names, n)
    BY <1>2, <2>1, <2>4, EndedTail
  <2>7. Loss \notin Good /\ Loss # "EVENT_StaStart"
    BY DEF Loss, Good
  <2>8. /\ sta = "idle"
        /\ All(Tail(InLine), Stale) \/ Ended(Tail(InLine), Stale, "EVENT_StaStart")
    <3>1. sta = "idle"
      BY <2>1, <2>4, <2>5, <2>7 DEF Fits
    <3> QED BY <2>4, <2>5, <2>6, <2>7, <3>1, AllEmpty DEF Fits
  <2>9. at'[c] = "idle"
    BY <1>1, <2>2, LineTypes DEF Fsm!Visit, Fsm!Move
  <2> QED BY <1>2, <2>1, <2>3, <2>8, <2>9 DEF PhaseInv, Fits, driverVars
<1> QED BY <1>3, <1>4, <1>5

LEMMA RestartPhase ==
    ASSUME Types, NEW c \in Callers, Restart(c)
    PROVE  PhaseInv'
<1>1. /\ m_states' = "STATE_Offline" /\ sta' = "idle" /\ posted' = <<>>
      /\ stations' = 0 /\ started' = FALSE
      /\ at'["user"] = "before" /\ at'["loop"] = "idle"
  BY DEF Restart, Callers
<1>2. Decided' = "STATE_Offline" /\ InLine' = <<>> /\ ~Preparing'
  BY <1>1 DEF Decided, InLine, Preparing, Callers
<1> QED BY <1>1, <1>2, AllEmpty DEF PhaseInv, Fits

LEMMA CommitPhase ==
    ASSUME Types, UserInv, HandlerInv, ~overlapped, PhaseInv, NEW c \in Callers, Commit(c)
    PROVE  PhaseInv'
<1>1. /\ at[c] = "commit" /\ at' = [at EXCEPT ![c] = "entry"]
      /\ m_states' = newState[c]
      /\ UNCHANGED <<m_events, driverVars>>
  BY DEF Commit, Fsm!Commit, Fsm!Move
<1>2. c = "user" => at["loop"] = "idle"
  BY <1>1 DEF HandlerInv
<1>3. c = "loop" => at["user"] = "idle"
  BY <1>1 DEF HandlerInv, UserInv, Unstarted
<1>4. /\ at'[c] = "entry"
      /\ c = "user" => at'["loop"] = "idle"
      /\ c = "loop" => at'["user"] = "idle"
  BY <1>1, <1>2, <1>3, LineTypes
<1>5. InLine' = InLine /\ Decided' = Decided
  BY <1>1, <1>2, <1>3, <1>4, LineTypes DEF InLine, Decided, driverVars
<1>6. Preparing' => Preparing
  BY <1>1, <1>2, <1>3, <1>4, LineTypes DEF Preparing
<1>7. at'["user"] # "visit"
  BY <1>4, LineTypes
<1> QED BY <1>1, <1>5, <1>6, <1>7 DEF PhaseInv, driverVars

LEMMA OnEntryPhase ==
    ASSUME Types, UserInv, HandlerInv, ~overlapped, PhaseInv, NEW c \in Callers, OnEntry(c)
    PROVE  PhaseInv'
<1>1. /\ at[c] = "entry" /\ at' = [at EXCEPT ![c] = "idle"]
      /\ UNCHANGED <<m_states, m_events, newState>>
  BY DEF OnEntry, Fsm!OnEntry, Fsm!Move
<1>2. c = "user" => at["loop"] \in {"idle", "visit"}
  BY <1>1 DEF HandlerInv
<1>3. c = "loop" => at["user"] = "idle"
  BY <1>1 DEF HandlerInv, UserInv, Unstarted
<1>4. /\ at'[c] = "idle"
      /\ c = "user" => at'["loop"] = at["loop"]
      /\ c = "loop" => at'["user"] = "idle"
  BY <1>1, <1>3, LineTypes
<1>5. Decided' = m_states /\ Decided = m_states /\ ~Preparing'
  BY <1>1, <1>2, <1>3, <1>4, LineTypes DEF Decided, Preparing
<1>6. at'["user"] # "visit"
  BY <1>4, LineTypes
<1>7. CASE m_states = "STATE_Connecting"
  <2>1. PICK p \in {"none", "mode", "started"} : StartDriver("sta", p)
    BY <1>7 DEF OnEntry
  <2>2. sta = "idle" /\ All(InLine, Stale) /\ InLine \in Seq(Events)
    BY <1>1, <1>7, LineTypes DEF PhaseInv, Preparing
  <2>3. stations = 0 /\ ~(started /\ mode = "ap")
    BY <1>5, <1>7 DEF PhaseInv
  <2>4. sta' = "idle" /\ stations' = 0 /\ ~(started' /\ mode' = "ap")
    BY <2>1, <2>2, <2>3 DEF StartDriver
  <2>5. Fits("STATE_Connecting", "idle", InLine')
    <3>1. CASE posted' = posted
      <4>1. InLine' = InLine
        BY <1>1, <1>2, <1>4, <3>1, LineTypes DEF InLine
      <4> QED BY <2>2, <4>1 DEF Fits
    <3>2. CASE posted' = Append(posted, Event("EVENT_StaStart"))
      <4>1. Event("EVENT_StaStart") \in Events
        BY EventTypes
      <4>2. InLine' = Append(InLine, Event("EVENT_StaStart"))
        <5>1. at["loop"] = "visit" => m_events \in Events
          BY DEF Types, MachineTypes, HeldInv, Callers
        <5>2. at'["loop"] = "visit" <=> at["loop"] = "visit"
          BY <1>1, <1>2, <1>4, LineTypes
        <5> QED BY <1>1, <3>2, <4>1, <5>1, <5>2, LineTypes, AppendBehind DEF InLine
      <4>3. Ended(Append(InLine, Event("EVENT_StaStart")), Stale, Event("EVENT_StaStart").name)
        BY <2>2, <4>1, EndedAppend
      <4>4. Ended(InLine', Stale, "EVENT_StaStart")
        BY <4>2, <4>3 DEF Event
      <4> QED BY <4>4 DEF Fits
    <3> QED BY <2>1, <3>1, <3>2 DEF StartDriver
  <2> QED BY <1>5, <1>6, <1>7, <2>4, <2>5 DEF PhaseInv
<1>8. CASE m_states # "STATE_Connecting"
  <2>1. UNCHANGED driverVars
    BY <1>8 DEF OnEntry
  <2>2. InLine' = InLine
    BY <1>1, <1>2, <1>3, <1>4, <2>1, LineTypes DEF InLine, driverVars
  <2> QED BY <1>5, <1>6, <2>1, <2>2 DEF PhaseInv, driverVars
<1> QED BY <1>7, <1>8

LEMMA ReportInLine ==
    ASSUME Types, NEW e \in Events, Report(e)
    PROVE  InLine' = Append(InLine, e) /\ Decided' = Decided /\ (Preparing' <=> Preparing)
<1>1. /\ posted' = Append(posted, e)
      /\ UNCHANGED <<m_states, m_events, at, newState>>
  BY DEF Report, fsmVars
<1>2. at["loop"] = "visit" => m_events \in Events
  BY DEF Types, MachineTypes, HeldInv, Callers
<1>3. InLine' = Append(InLine, e)
  BY <1>1, <1>2, LineTypes, AppendBehind DEF InLine
<1>4. Decided' = Decided /\ (Preparing' <=> Preparing)
  BY <1>1 DEF Decided, Preparing
<1> QED BY <1>3, <1>4

LEMMA DriverPhase ==
    ASSUME Types, PhaseInv, Driver
    PROVE  PhaseInv'
<1> DEFINE q == InLine
<1>1. q \in Seq(Events)
  BY LineTypes
<1>2. ASSUME NEW e \in Events, NEW names, All(q, names), e.name \in names
      PROVE  All(Append(q, e), names) /\ Append(q, e) # <<>>
  <2> HIDE DEF q
  <2>1. Append(q, e) # <<>>
    BY <1>1, <1>2, EndedAppend DEF Ended
  <2>2. All(Append(q, e), names)
    BY <1>1, <1>2, AllAppend
  <2> QED BY <2>1, <2>2
<1>3. ASSUME NEW e \in Events, NEW names, All(q, names)
      PROVE  Ended(Append(q, e), names, e.name)
  BY <1>1, <1>3, EndedAppend
<1>4. /\ Fits(Decided, sta, q)
      /\ Preparing => sta = "idle" /\ All(q, Stale)
      /\ stations # 0 \/ (started /\ mode = "ap") => Decided = "STATE_AP"
  BY DEF PhaseInv
<1> HIDE DEF q
<1>5. CASE Associate
  <2> DEFINE e == Event("EVENT_StaConnected")
  <2>1. /\ e \in Events /\ e.name \in Good
        /\ Report(e) /\ sta = "connecting" /\ sta' = "associated"
        /\ UNCHANGED <<stations, started, mode>>
    BY <1>5, EventTypes DEF Associate, Event, Good, Report
  <2>2. Decided = "STATE_Connecting" /\ All(q, Good)
    BY <1>4, <2>1, AllEmpty DEF Fits
  <2>3. /\ InLine' = Append(q, e) /\ Decided' = Decided /\ ~Preparing'
        /\ All(InLine', Good) /\ InLine' # <<>>
    BY <1>2, <1>4, <2>1, <2>2, ReportInLine DEF q
  <2> QED BY <1>4, <2>1, <2>2, <2>3 DEF PhaseInv, Fits
<1>6. CASE GetIP
  <2> DEFINE e == Event("EVENT_GotIP")
  <2>1. /\ e \in Events /\ e.name \in Good
        /\ Report(e) /\ sta = "associated" /\ sta' = "online"
        /\ UNCHANGED <<stations, started, mode>>
    BY <1>6, EventTypes DEF GetIP, Event, Good, Report
  <2>2. Decided \in {"STATE_Connecting", "STATE_Connected"} /\ All(q, Good)
    BY <1>4, <2>1 DEF Fits
  <2>3. /\ InLine' = Append(q, e) /\ Decided' = Decided /\ ~Preparing'
        /\ All(InLine', Good) /\ InLine' # <<>>
    BY <1>2, <1>4, <2>1, <2>2, ReportInLine DEF q
  <2> QED BY <1>4, <2>1, <2>2, <2>3 DEF PhaseInv, Fits
<1>7. CASE LoseLink
  <2>1. PICK reason \in Reasons : Report(Lost(reason))
    BY <1>7 DEF LoseLink
  <2> DEFINE e == Lost(reason)
  <2>2. /\ e \in Events /\ e.name = Loss
        /\ Report(e) /\ sta # "idle" /\ sta' = "idle"
        /\ UNCHANGED <<stations, started, mode>>
    BY <1>7, <2>1, EventTypes DEF LoseLink, Lost, Loss, Report
  <2>3. Decided \in {"STATE_Connecting", "STATE_Connected"} /\ All(q, Good)
    BY <1>4, <2>2, AllEmpty DEF Fits
  <2>4. /\ InLine' = Append(q, e) /\ Decided' = Decided /\ ~Preparing'
        /\ Ended(InLine', Good, Loss)
    BY <1>3, <1>4, <2>2, <2>3, ReportInLine DEF q
  <2> QED BY <1>4, <2>2, <2>3, <2>4 DEF PhaseInv, Fits
\* What a station of our access point does is queued in state AP.
<1>8. ASSUME NEW e \in Events, e.name \in {"EVENT_UserConnected", Loss}, Report(e),
             Decided = "STATE_AP", UNCHANGED sta
      PROVE  PhaseInv'
  <2>1. sta = "idle" /\ All(q, {"EVENT_UserConnected", Loss})
    BY <1>4, <1>8 DEF Fits
  <2>2. /\ InLine' = Append(q, e) /\ Decided' = Decided /\ (Preparing' <=> Preparing)
        /\ All(InLine', {"EVENT_UserConnected", Loss})
    BY <1>2, <1>8, <2>1, ReportInLine DEF q
  <2>3. Preparing => All(InLine', Stale)
    BY <2>2, AllMore DEF Stale
  <2> QED BY <1>4, <1>8, <2>1, <2>2, <2>3 DEF PhaseInv, Fits
<1>9. CASE StationJoins
  <2>1. Event("EVENT_UserConnected") \in Events
    BY EventTypes
  <2> QED BY <1>4, <1>8, <1>9, <2>1 DEF StationJoins, Event
<1>10. CASE StationLeaves
  <2>1. PICK reason \in Reasons : Report(Lost(reason))
    BY <1>10 DEF StationLeaves
  <2>2. Lost(reason) \in Events /\ Lost(reason).name = Loss
    BY EventTypes DEF Lost, Loss
  <2>3. stations # 0 /\ UNCHANGED sta
    BY <1>10, LineTypes DEF StationLeaves
  <2> QED BY <1>4, <1>8, <2>1, <2>2, <2>3
<1> QED BY <1>5, <1>6, <1>7, <1>9, <1>10 DEF Driver

(* What has overlapped stays so until a restart.                           *)
LEMMA OverlapStays ==
    ASSUME [Next]_vars, ~overlapped'
    PROVE  ~overlapped \/ \E c \in Callers : Restart(c)
<1>1. CASE Driver
  BY <1>1 DEF Driver, Associate, GetIP, LoseLink, StationJoins, StationLeaves, Report
<1>2. CASE UNCHANGED vars
  BY <1>2 DEF vars
<1> QED BY <1>1, <1>2
        DEF Next, Start, Call, UserDispatch, LoopDispatch, CallerStep, Visit, Retry, Commit,
            OnEntry

(* Every step keeps it, as long as no call overlaps.                       *)
LEMMA PhaseNext ==
    ASSUME Types, UserInv, HandlerInv, ~overlapped => PhaseInv, [Next]_vars, ~overlapped'
    PROVE  PhaseInv'
<1>1. SUFFICES ASSUME ~overlapped, PhaseInv PROVE PhaseInv'
  BY OverlapStays, RestartPhase
<1>2. ASSUME NEW c \in Callers, CallerStep(c) PROVE PhaseInv'
  <2>1. Visit(c) => PhaseInv'
    <3>1. CASE c = "user"
      BY <1>1, <3>1, VisitUserPhase
    <3>2. CASE c = "loop" /\ Visit(c)
      <4>1. at["loop"] = "visit" /\ "loop" \in Callers
        BY <3>2 DEF Visit, Callers
      <4>2. at["user"] \in {"idle", "entry"}
        BY <1>1, <4>1 DEF HandlerInv, UserInv, Unstarted
      <4>3. CASE at["user"] = "entry"
        <5>1. UNCHANGED driverVars
          BY <1>1, <3>2, <4>1, <4>3, EntryVisit, VisitAlternatives
        <5> QED BY <1>1, <3>2, <4>3, <5>1, EntryVisitPhase DEF Visit
      <4> QED BY <1>1, <3>2, <4>2, <4>3, VisitLoopPhase
    <3> QED BY <3>1, <3>2 DEF Callers
  <2> QED BY <1>1, <1>2, <2>1, RetryPhase, RestartPhase, CommitPhase, OnEntryPhase
          DEF CallerStep
<1>3. UNCHANGED vars => PhaseInv'
  BY <1>1 DEF vars, fsmVars, driverVars, PhaseInv, Decided, InLine, Preparing
<1> QED BY <1>1, <1>2, <1>3, StartPhase, CallPhase, UserDispatchPhase, LoopDispatchPhase,
           DriverPhase DEF Next

(* With nothing in line the machine is where the driver is.                *)
LEMMA QuietFollowsDriver ==
    ASSUME ~overlapped => PhaseInv
    PROVE  FsmFollowsDriver
<1> SUFFICES ASSUME Quiescent, ~overlapped
             PROVE  m_states = "STATE_Connected" <=> sta \in {"associated", "online"}
  BY DEF FsmFollowsDriver
<1>1. InLine = <<>> /\ Decided = m_states
  BY DEF Quiescent, InLine, Decided, Callers
<1>2. Fits(m_states, sta, <<>>)
  BY <1>1 DEF PhaseInv
<1> QED BY <1>2 DEF Fits, Ended

-----------------------------------------------------------------------------
(* Where the user's task is, step by step.                                 *)
LEMMA UserNext ==
    ASSUME Types, UserInv, [Next]_vars
    PROVE  UserInv'
<1>0. /\ at \in [Callers -> {"before", "flag", "visit", "commit", "entry", "idle", "asserted"}]
      /\ Callers = {"user", "loop"}
  BY LineTypes
<1>1. CASE Start
  BY <1>0, <1>1 DEF Start, Fsm!StartStep, Fsm!StartFlag, Fsm!StartState, Fsm!Move,
     UserInv, Unstarted, driverVars
<1>2. ASSUME NEW call \in Calls, Call(call) PROVE UserInv'
  <2>1. Request(call).e \in UserEvents
    BY WifiConstants DEF UserEvents
  <2> QED BY <1>2, <2>1 DEF Call, UserInv, Unstarted, fsmVars, driverVars
<1>3. CASE UserDispatch
  BY <1>0, <1>3 DEF UserDispatch, Fsm!Dispatch, Fsm!Move, UserInv
<1>4. CASE LoopDispatch
  BY <1>0, <1>4 DEF LoopDispatch, Fsm!Dispatch, Fsm!Move, UserInv, Unstarted
<1>5. ASSUME NEW c \in Callers, NEW r \in States \cup {NoChange}, Fsm!Visit(c, r),
             UNCHANGED pending
      PROVE  UserInv'
  BY <1>0, <1>5 DEF Fsm!Visit, Fsm!Move, UserInv, Unstarted
<1>6. ASSUME NEW c \in Callers, Restart(c) PROVE UserInv'
  BY <1>6 DEF Restart, UserInv, Unstarted, Callers
<1>7. ASSUME NEW c \in Callers, Commit(c) PROVE UserInv'
  BY <1>0, <1>7 DEF Commit, Fsm!Commit, Fsm!Move, UserInv, Unstarted
<1>8. ASSUME NEW c \in Callers, OnEntry(c) PROVE UserInv'
  BY <1>0, <1>8 DEF OnEntry, Fsm!OnEntry, Fsm!Move, UserInv, Unstarted
<1>9. CASE Driver
  BY <1>9 DEF Driver, Associate, GetIP, LoseLink, StationJoins, StationLeaves, Report,
     UserInv, Unstarted, fsmVars
<1>10. CASE UNCHANGED vars
  BY <1>10 DEF vars, fsmVars, driverVars, UserInv, Unstarted
<1>11. ASSUME NEW c \in Callers, CallerStep(c) PROVE UserInv'
  BY <1>5, <1>6, <1>7, <1>8, <1>11 DEF CallerStep, Visit, Retry
<1> QED BY <1>1, <1>2, <1>3, <1>4, <1>9, <1>10, <1>11 DEF Next

(* Who is in Dispatch meanwhile.                                           *)
LEMMA HandlerNext ==
    ASSUME Types, UserInv, HandlerInv, ~overlapped => PhaseInv, [Next]_vars
    PROVE  HandlerInv'
<1>0. /\ at \in [Callers -> {"before", "flag", "visit", "commit", "entry", "idle", "asserted"}]
      /\ newState \in [Callers -> States \cup {NoChange}]
      /\ Callers = {"user", "loop"}
  BY LineTypes
<1>a. ASSUME NEW c \in Callers, Restart(c) PROVE HandlerInv'
  BY <1>a DEF Restart, HandlerInv, Callers
<1>b. SUFFICES ASSUME ~overlapped, ~overlapped', PhaseInv PROVE HandlerInv'
  BY <1>a, OverlapStays DEF HandlerInv
<1>1. CASE Start
  BY <1>0, <1>b, <1>1 DEF Start, Fsm!StartStep, Fsm!StartFlag, Fsm!StartState, Fsm!Move,
     UserInv, HandlerInv, Unstarted
<1>2. ASSUME NEW call \in Calls, Call(call) PROVE HandlerInv'
  BY <1>b, <1>2 DEF Call, HandlerInv, fsmVars
<1>3. CASE UserDispatch
  BY <1>0, <1>b, <1>3 DEF UserDispatch, Fsm!Dispatch, Fsm!Move, UserInv, HandlerInv
<1>4. CASE LoopDispatch
  BY <1>0, <1>b, <1>4 DEF LoopDispatch, Fsm!Dispatch, Fsm!Move, HandlerInv
<1>5. ASSUME NEW c \in Callers, Visit(c) PROVE HandlerInv'
  <2>1. PICK r \in States \cup {NoChange} : Fsm!Visit(c, r)
    BY <1>5 DEF Visit
  <2>2. /\ at[c] = "visit" /\ r \in Transition(m_states, m_events)
        /\ at' = [at EXCEPT ![c] = IF r = NoChange THEN "idle" ELSE "commit"]
        /\ newState' = [newState EXCEPT ![c] = r]
        /\ UNCHANGED <<m_states, m_events>>
    BY <2>1, LineTypes
       DEF Fsm!Visit, Fsm!Move, OnEvent, Types, MachineTypes, HeldInv
  <2>3. CASE c = "user"
    <3>1. at["loop"] = "idle" /\ m_events \in UserEvents
      BY <1>b, <2>2, <2>3 DEF HandlerInv
    <3>2. r # "STATE_Connected"
      BY <2>2, <3>1, UserEventNames, WifiConstants DEF Transition, Lost, States
    <3>3. /\ at'["loop"] = "idle" /\ at'["user"] \in {"idle", "commit"}
          /\ newState'["user"] = r
      BY <1>0, <2>2, <2>3, <3>1
    <3> QED BY <3>2, <3>3 DEF HandlerInv
  <2>4. CASE c = "loop"
    <3>1. at["user"] \in {"idle", "entry"}
      BY <1>b, <2>2, <2>4 DEF UserInv, HandlerInv, Unstarted
    <3>2. at'["user"] = at["user"]
      BY <1>0, <2>2, <2>4
    <3>3. CASE at["user"] = "entry"
      <4>1. UNCHANGED driverVars
        BY <1>b, <1>5, <2>2, <2>4, <3>3, EntryVisit, VisitAlternatives
      <4>2. at'["loop"] = "idle"
        BY <1>b, <2>1, <2>4, <3>3, <4>1, EntryVisitPhase
      <4> QED BY <1>b, <2>2, <3>2, <3>3, <4>2 DEF HandlerInv
    <3> QED BY <3>1, <3>2, <3>3 DEF HandlerInv
  <2> QED BY <1>0, <2>3, <2>4
<1>6. ASSUME NEW c \in Callers, Retry(c) PROVE HandlerInv'
  <2>1. at'[c] = "idle"
    BY <1>b, <1>6, RetryPhase
  <2>2. /\ at[c] = "visit" /\ \A d \in Callers \ {c} : at'[d] = at[d]
        /\ \A d \in Callers \ {c} : newState'[d] = newState[d]
        /\ UNCHANGED <<m_states, m_events>>
    BY <1>0, <1>6 DEF Retry, Fsm!Visit, Fsm!Move
  <2> QED BY <1>0, <1>b, <2>1, <2>2 DEF HandlerInv
<1>7. ASSUME NEW c \in Callers, Commit(c) PROVE HandlerInv'
  BY <1>0, <1>b, <1>7 DEF Commit, Fsm!Commit, Fsm!Move, HandlerInv, UserInv, Unstarted
<1>8. ASSUME NEW c \in Callers, OnEntry(c) PROVE HandlerInv'
  BY <1>0, <1>b, <1>8 DEF OnEntry, Fsm!OnEntry, Fsm!Move, HandlerInv
<1>9. CASE Driver
  <2>1. UNCHANGED fsmVars
    BY <1>9 DEF Driver, Associate, GetIP, LoseLink, StationJoins, StationLeaves, Report
  <2> QED BY <1>b, <2>1 DEF HandlerInv, fsmVars
<1>10. CASE UNCHANGED vars
  BY <1>b, <1>10 DEF vars, fsmVars, HandlerInv
<1> QED BY <1>a, <1>1, <1>2, <1>3, <1>4, <1>5, <1>6, <1>7, <1>8, <1>9, <1>10
        DEF Next, CallerStep

(* A first call that is not SwitchToAP finds the driver not started.       *)
LEMMA FirstCallNext ==
    ASSUME Types, UserInv, FirstCallInv, [Next]_vars
    PROVE  FirstCallInv'
<1>0. /\ at \in [Callers -> {"before", "flag", "visit", "commit", "entry", "idle", "asserted"}]
      /\ event \in [Callers -> Events \cup {NoEvent}]
      /\ calls \in Nat
      /\ Callers = {"user", "loop"}
  BY LineTypes, WifiConstants DEF Types, MachineTypes, WifiTypes, Fsm!TypeOK
<1>1. CASE Start
  BY <1>0, <1>1 DEF Start, Fsm!StartStep, Fsm!StartFlag, Fsm!StartState, Fsm!Move,
     UserInv, FirstCallInv, LoneConnect, Unstarted, driverVars
<1>2. ASSUME NEW call \in Calls, Call(call) PROVE FirstCallInv'
  <2>1. /\ at["user"] = "idle" /\ pending = NoEvent /\ calls' = calls + 1
        /\ pending' = IF m_states = Request(call).unless THEN NoEvent ELSE Request(call).e
        /\ UNCHANGED <<m_states, m_events, at, event, driverVars, overlapped>>
    BY <1>2 DEF Call, fsmVars
  <2>2. calls = 0 /\ pending' # NoEvent
          => pending'.name \in {"EVENT_StaConnect", "EVENT_APStart"}
    BY <2>1, WifiConstants DEF Request, Event, FirstCallInv
  <2> QED BY <1>0, <2>1, <2>2 DEF FirstCallInv, LoneConnect, Unstarted, driverVars
<1>3. CASE UserDispatch
  <2>1. /\ pending # NoEvent /\ pending' = NoEvent /\ m_events' = pending
        /\ at' = [at EXCEPT !["user"] = "visit"]
        /\ event' = [event EXCEPT !["user"] = pending]
        /\ overlapped' = (overlapped \/ posted # <<>> \/ at["loop"] # "idle")
        /\ UNCHANGED <<m_states, driverVars, calls>>
    BY <1>3 DEF UserDispatch, Fsm!Dispatch, Fsm!Move
  <2>2. /\ at'["user"] = "visit" /\ at'["loop"] = at["loop"]
        /\ event'["user"] = pending
    BY <1>0, <2>1
  <2>3. calls # 0
    BY <2>1 DEF FirstCallInv
  <2>4. calls = 1 => Unstarted' /\ ~overlapped' /\ m_states' = "STATE_Offline"
    BY <2>1, <2>2 DEF FirstCallInv, Unstarted, driverVars
  <2>5. calls = 1 /\ pending # Event("EVENT_APStart") => pending.name = "EVENT_StaConnect"
    BY <2>1 DEF FirstCallInv, UserInv, UserEvents, Request, Event
  <2> QED BY <1>0, <2>1, <2>2, <2>3, <2>4, <2>5 DEF FirstCallInv, LoneConnect
<1>4. CASE LoopDispatch
  <2>1. /\ posted # <<>> /\ at["loop"] = "idle"
        /\ at' = [at EXCEPT !["loop"] = "visit"]
        /\ event' = [event EXCEPT !["loop"] = Head(posted)]
        /\ overlapped' = (overlapped \/ at["user"] \in {"visit", "commit"})
        /\ UNCHANGED <<m_states, pending, calls>>
    BY <1>4 DEF LoopDispatch, Fsm!Dispatch, Fsm!Move
  <2>2. at'["user"] = at["user"] /\ event'["user"] = event["user"]
    BY <1>0, <2>1
  <2>3. ~Unstarted
    BY <2>1 DEF Unstarted
  <2>4. /\ calls # 0 /\ (calls = 1 => pending = NoEvent)
        /\ calls = 1 /\ at["user"] \in {"visit", "commit"}
             => event["user"] = Event("EVENT_APStart")
    BY <2>3 DEF FirstCallInv
  <2>5. LoneConnect'
    <3>1. SUFFICES ASSUME calls <= 1, event["user"] # Event("EVENT_APStart")
                   PROVE  ~overlapped'
      BY <2>1, <2>2 DEF LoneConnect
    <3>2. calls = 1
      BY <1>0, <2>4, <3>1
    <3>3. ~overlapped
      BY <3>1 DEF FirstCallInv, LoneConnect
    <3> QED BY <2>1, <2>4, <3>1, <3>2, <3>3
  <2> QED BY <2>1, <2>2, <2>4, <2>5 DEF FirstCallInv
<1>5. ASSUME NEW c \in Callers, Visit(c) PROVE FirstCallInv'
  <2>1. PICK r \in States \cup {NoChange} : Fsm!Visit(c, r)
    BY <1>5 DEF Visit
  <2>2. /\ at[c] = "visit"
        /\ at' = [at EXCEPT ![c] = IF r = NoChange THEN "idle" ELSE "commit"]
        /\ UNCHANGED <<m_states, m_events, event, pending, calls, overlapped>>
    BY <1>5, <2>1 DEF Visit, Fsm!Visit, Fsm!Move
  <2>3. calls # 0
    BY <1>0, <2>2 DEF FirstCallInv, Unstarted
  <2>4. CASE c = "user"
    <3>1. pending = NoEvent
      BY <2>2, <2>4 DEF UserInv
    <3>2. CASE calls = 1 /\ event["user"] # Event("EVENT_APStart")
      <4>1. /\ m_states = "STATE_Offline" /\ m_events.name = "EVENT_StaConnect"
            /\ Unstarted /\ ~overlapped
        BY <2>2, <2>4, <3>2 DEF FirstCallInv
      <4>2. UNCHANGED driverVars
        <5>1. ~StartsAP(c) /\ ~Disconnects(c) /\ ~Connects(c)
          BY <4>1 DEF StartsAP, Disconnects, Connects, Visiting
        <5> QED BY <1>5, <5>1, VisitAlternatives
      <4>3. Unstarted' /\ at'["user"] # "visit"
        BY <1>0, <2>2, <2>4, <4>1, <4>2 DEF Unstarted, driverVars
      <4> QED BY <2>2, <2>3, <3>1, <4>1, <4>3 DEF FirstCallInv, LoneConnect
    <3>3. CASE ~(calls = 1 /\ event["user"] # Event("EVENT_APStart"))
      BY <1>0, <2>2, <2>3, <3>1, <3>3 DEF FirstCallInv, LoneConnect
    <3> QED BY <3>2, <3>3
  <2>5. CASE c = "loop"
    <3>1. ~Unstarted
      BY <2>2, <2>5 DEF Unstarted
    <3>2. at'["user"] = at["user"]
      BY <1>0, <2>2, <2>5
    <3> QED BY <1>0, <2>2, <2>3, <3>1, <3>2 DEF FirstCallInv, LoneConnect
  <2> QED BY <1>0, <2>4, <2>5
<1>6. ASSUME NEW c \in Callers, Retry(c) PROVE FirstCallInv'
  BY <1>0, <1>6 DEF Retry, Retries, Visiting, Fsm!Visit, Fsm!Move, FirstCallInv, LoneConnect,
     UserInv, Unstarted, driverVars
<1>7. ASSUME NEW c \in Callers, Restart(c) PROVE FirstCallInv'
  <2>1. calls # 0
    BY <1>0, <1>7 DEF Restart, Retries, Visiting, FirstCallInv, Unstarted
  <2> QED BY <1>7, <2>1 DEF Restart, FirstCallInv, LoneConnect, Callers
<1>8. ASSUME NEW c \in Callers, Commit(c) PROVE FirstCallInv'
  BY <1>0, <1>8 DEF Commit, Fsm!Commit, Fsm!Move, FirstCallInv, LoneConnect, UserInv,
     Unstarted, driverVars
<1>9. ASSUME NEW c \in Callers, OnEntry(c) PROVE FirstCallInv'
  BY <1>0, <1>9 DEF OnEntry, Fsm!OnEntry, Fsm!Move, FirstCallInv, LoneConnect, UserInv,
     Unstarted, driverVars
<1>10. CASE Driver
  <2>1. /\ ~Unstarted
        /\ UNCHANGED <<fsmVars, pending, calls, overlapped>>
    BY <1>0, <1>10, LineTypes DEF Driver, Associate, GetIP, LoseLink, StationJoins, StationLeaves,
       Report, Unstarted
  <2> QED BY <2>1 DEF FirstCallInv, LoneConnect, fsmVars
<1>11. CASE UNCHANGED vars
  BY <1>11 DEF vars, fsmVars, driverVars, FirstCallInv, LoneConnect, Unstarted
<1> QED BY <1>1, <1>2, <1>3, <1>4, <1>5, <1>6, <1>7, <1>8, <1>9, <1>10, <1>11
        DEF Next, CallerStep

-----------------------------------------------------------------------------
Inv ==
    /\ Types /\ UserInv /\ HandlerInv /\ FirstCallInv
    /\ ~overlapped => PhaseInv

LEMMA InvInit == Init => Inv
BY TypesInit, UserInit, PhaseInit DEF Inv

LEMMA InvNext == Inv /\ [Next]_vars => Inv'
BY TypesNext, UserNext, HandlerNext, FirstCallNext, PhaseNext DEF Inv

(* When every posted event has been handled and no call is in progress,    *)
(* the machine says Connected exactly when the station is associated, if   *)
(* no call has overlapped with the event loop since the last restart.      *)
THEOREM FollowsDriver == Spec => []FsmFollowsDriver
<1>1. Inv => FsmFollowsDriver
  BY QuietFollowsDriver DEF Inv
<1> QED BY <1>1, InvInit, InvNext, PTL DEF Spec

(* A first call does not overlap with the event loop, although no lock     *)
(* keeps them apart, unless it is SwitchToAP, whose driver starts inside   *)
(* on_event.                                                               *)
THEOREM FirstCallAlone == Spec => []LoneConnect
<1>1. Inv => LoneConnect
  BY DEF Inv, FirstCallInv
<1> QED BY <1>1, InvInit, InvNext, PTL DEF Spec
=============================================================================
