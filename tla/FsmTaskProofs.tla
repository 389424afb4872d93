--------------------------- MODULE FsmTaskProofs ---------------------------
(***************************************************************************)
(* Theorems of FsmTask, for every set of callers, every state machine and  *)
(* every queue size: the inductive invariant Inv and, from it, that the    *)
(* task and its queue implement EventMachine.                              *)
(***************************************************************************)
EXTENDS FsmTask, TLAPS

(* The initial values of the members satisfy the invariant.                *)
LEMMA InitInv == Init => Inv
<1> USE FsmConstants DEF Init, Inv
<1>1. ASSUME Init PROVE TypeOK
  <2>1. m_eventQueue \in Seq(Events) /\ Len(m_eventQueue) <= QueueSize
    BY <1>1
  <2>2. /\ blocked \in [Callers -> Events \cup {NoEvent}]
        /\ answer \in [Callers -> {"none", "taken", "refused"}]
    BY <1>1
  <2> QED BY <1>1, <2>1, <2>2 DEF TypeOK, TaskLocations, StartLocations
<1>2. Init => WakesInStartState /\ HandlerOperands
  BY DEF WakesInStartState, HandlerOperands
<1> QED BY <1>1, <1>2

(* The bounded queue of FreeRTOS keeps its type under a send.              *)
LEMMA EnqueueType ==
    ASSUME TypeOK, NEW c \in Callers, NEW e \in Events, Enqueue(c, e)
    PROVE  /\ m_eventQueue' \in Seq(Events)
           /\ Len(m_eventQueue') <= QueueSize
           /\ answer' \in [Callers -> {"none", "taken", "refused"}]
BY FsmConstants DEF TypeOK, Enqueue, QueueFull, Return

(* Every step of Start keeps the invariant.                                *)
LEMMA StartStepInv == Inv /\ StartStep => Inv'
<1> SUFFICES ASSUME Inv, StartStep PROVE Inv'
  OBVIOUS
<1> USE FsmConstants DEF Inv, startVars, callVars, workerVars
<1>1. ASSUME NEW s \in StartArgs, StartFlag(s) PROVE Inv'
  <2>1. TypeOK'
    BY <1>1 DEF TypeOK, StartFlag, StartLocations
  <2>2. WakesInStartState' /\ HandlerOperands'
    BY <1>1 DEF TypeOK, StartFlag, WakesInStartState, HandlerOperands
  <2> QED BY <2>1, <2>2
<1>2. CASE StartState
  <2>1. TypeOK'
    BY <1>2 DEF TypeOK, StartState, StartLocations, HandlerOperands
  <2>2. WakesInStartState' /\ HandlerOperands'
    BY <1>2 DEF TypeOK, StartState, WakesInStartState, HandlerOperands
  <2> QED BY <2>1, <2>2
<1>3. CASE StartNotify
  <2>1. TypeOK'
    BY <1>3 DEF TypeOK, StartNotify, StartLocations
  <2>2. WakesInStartState' /\ HandlerOperands'
    BY <1>3 DEF TypeOK, StartNotify, WakesInStartState, HandlerOperands
  <2> QED BY <2>1, <2>2
<1> QED BY <1>1, <1>2, <1>3 DEF StartStep

(* Every step of the machine's own task keeps the invariant.               *)
LEMMA TaskStepInv == Inv /\ TaskStep => Inv'
<1> SUFFICES ASSUME Inv, TaskStep PROVE Inv'
  OBVIOUS
<1> USE FsmConstants DEF Inv, startVars, callVars, workerVars
<1>1. CASE NotifyTake
  BY <1>1 DEF TypeOK, NotifyTake, TaskLocations, WakesInStartState, HandlerOperands
<1>2. CASE OnEntry
  BY <1>2 DEF TypeOK, OnEntry, TaskLocations, WakesInStartState, HandlerOperands
<1>3. CASE Receive
  <2>1. /\ Head(m_eventQueue) \in Events
        /\ Tail(m_eventQueue) \in Seq(Events)
        /\ Len(Tail(m_eventQueue)) <= QueueSize
    BY <1>3 DEF TypeOK, Receive
  <2>2. TypeOK'
    BY <1>3, <2>1 DEF TypeOK, Receive, TaskLocations
  <2>3. WakesInStartState' /\ HandlerOperands'
    BY <1>3, <2>1 DEF TypeOK, Receive, WakesInStartState, HandlerOperands
  <2> QED BY <2>2, <2>3
<1>4. ASSUME NEW r \in States \cup {NoChange}, dispatch(r) PROVE Inv'
  <2>1. TypeOK'
    BY <1>4 DEF TypeOK, dispatch, TaskLocations
  <2>2. WakesInStartState' /\ HandlerOperands'
    BY <1>4 DEF TypeOK, dispatch, WakesInStartState, HandlerOperands
  <2> QED BY <2>1, <2>2
<1>5. CASE handleNewState
  <2>1. newState \in States
    BY <1>5 DEF TypeOK, handleNewState, HandlerOperands
  <2>2. TypeOK'
    BY <1>5, <2>1 DEF TypeOK, handleNewState, TaskLocations
  <2>3. WakesInStartState' /\ HandlerOperands'
    BY <1>5 DEF TypeOK, handleNewState, WakesInStartState, HandlerOperands
  <2> QED BY <2>2, <2>3
<1> QED BY <1>1, <1>2, <1>3, <1>4, <1>5 DEF TaskStep

(* Every call of Dispatch and DispatchFromISR keeps the invariant.         *)
LEMMA CallStepInv == Inv /\ CallStep => Inv'
<1> SUFFICES ASSUME Inv, CallStep PROVE Inv'
  OBVIOUS
<1> USE FsmConstants DEF Inv, startVars, callVars, workerVars
<1>2. ASSUME NEW c \in Callers, Refuse(c), blocked' \in [Callers -> Events \cup {NoEvent}]
      PROVE  Inv'
  <2>1. TypeOK'
    BY <1>2 DEF TypeOK, Refuse, Return
  <2> QED BY <1>2, <2>1 DEF Refuse, Return, WakesInStartState, HandlerOperands
<1>3. ASSUME NEW c \in Callers, NEW e \in Events, Enqueue(c, e),
             blocked' \in [Callers -> Events \cup {NoEvent}]
      PROVE  Inv'
  <2>1. TypeOK'
    BY <1>3, EnqueueType DEF TypeOK, Enqueue, Return
  <2> QED BY <1>3, <2>1 DEF Enqueue, Return, WakesInStartState, HandlerOperands
<1>4. ASSUME NEW c \in Tasks, NEW e \in Events, Dispatch(c, e) PROVE Inv'
  BY <1>2, <1>3, <1>4
     DEF Dispatch, DispatchNotRunning, DispatchFull, Callers, TypeOK
<1>5. ASSUME NEW c \in Tasks, NEW e \in Events, DispatchBlock(c, e) PROVE Inv'
  <2>1. blocked' \in [Callers -> Events \cup {NoEvent}]
    BY <1>5 DEF DispatchBlock, Callers, TypeOK
  <2>2. TypeOK'
    BY <1>5, <2>1 DEF TypeOK, DispatchBlock
  <2> QED BY <1>5, <2>2 DEF DispatchBlock, WakesInStartState, HandlerOperands
<1>6. ASSUME NEW c \in Tasks, BlockedSend(c) \/ BlockedTimeout(c) PROVE Inv'
  <2>1. blocked' \in [Callers -> Events \cup {NoEvent}]
    BY <1>6 DEF BlockedSend, BlockedTimeout, Callers, TypeOK
  <2>2. blocked[c] \in Events /\ c \in Callers
    BY <1>6 DEF BlockedSend, BlockedTimeout, Callers, TypeOK
  <2> QED BY <1>2, <1>3, <1>6, <2>1, <2>2 DEF BlockedSend, BlockedTimeout
<1>7. ASSUME NEW c \in Isrs, NEW e \in Events, DispatchFromISR(c, e) PROVE Inv'
  BY <1>2, <1>3, <1>7 DEF DispatchFromISR, DispatchFull, Callers, TypeOK
<1> QED BY <1>4, <1>5, <1>6, <1>7 DEF CallStep

(* The inductive invariant, and with it type correctness, the launch in    *)
(* the state Start asked for and the stability of a handler's operands.    *)
THEOREM Invariance == Spec => []Inv
<1>1. Init => Inv
  BY InitInv
<1>2. Inv /\ [Next]_fsmVars => Inv'
  <2> SUFFICES ASSUME Inv, [Next]_fsmVars PROVE Inv'
    OBVIOUS
  <2>1. CASE Next
    BY <2>1, StartStepInv, TaskStepInv, CallStepInv DEF Next
  <2>2. CASE UNCHANGED fsmVars
    BY <2>2 DEF fsmVars, startVars, callVars, workerVars, Inv, TypeOK,
                WakesInStartState, HandlerOperands
  <2> QED BY <2>1, <2>2
<1> QED BY <1>1, <1>2, PTL DEF Spec

(* Type correctness for every value of the constants.                      *)
THEOREM TypeCorrect == Spec => []TypeOK
BY Invariance, PTL DEF Inv

(* The machine always wakes in the state Start asked for.                  *)
THEOREM LaunchInStartState == Spec => []WakesInStartState
BY Invariance, PTL DEF Inv

-----------------------------------------------------------------------------
(* The refinement: every step of FsmTask is a step of EventMachine or      *)
(* leaves its variables alone.                                             *)

LEMMA InitMachine == Init => Machine!Init
BY DEF Init, Machine!Init, Callers

(* Start is invisible: the machine is launched when its task wakes.        *)
LEMMA StartStepMachine == Inv /\ StartStep => UNCHANGED Machine!vars
BY DEF Inv, WakesInStartState, StartStep, StartFlag, StartState, StartNotify,
       startVars, callVars, workerVars, Machine!vars

(* The queue's prefix is the event being handled: a send behind it is a    *)
(* send behind the abstract inbox.                                         *)
LEMMA AppendBehindHead ==
    ASSUME NEW S, NEW x \in S, NEW q \in Seq(S), NEW y \in S
    PROVE  <<x>> \o Append(q, y) = Append(<<x>> \o q, y)
<1> DEFINE lhs == <<x>> \o Append(q, y)
           rhs == Append(<<x>> \o q, y)
<1>1. /\ lhs \in Seq(S) /\ rhs \in Seq(S)
      /\ Len(lhs) = Len(q) + 2 /\ Len(rhs) = Len(q) + 2
  OBVIOUS
<1>2. ASSUME NEW i \in 1..(Len(q) + 2) PROVE lhs[i] = rhs[i]
  OBVIOUS
<1> HIDE DEF lhs, rhs
<1>3. lhs = rhs
  BY <1>1, <1>2
<1> QED BY <1>3 DEF lhs, rhs

(* Removing the event being handled leaves the queue.                      *)
LEMMA RemoveHead ==
    ASSUME NEW S, NEW x \in S, NEW q \in Seq(S)
    PROVE  /\ <<x>> \o q # <<>>
           /\ Head(<<x>> \o q) = x
           /\ Tail(<<x>> \o q) = q
<1>1. <<x>> \o q # <<>> /\ Head(<<x>> \o q) = x
  OBVIOUS
<1> DEFINE t == Tail(<<x>> \o q)
<1>2. t \in Seq(S) /\ Len(t) = Len(q)
  OBVIOUS
<1>3. ASSUME NEW i \in 1..Len(q) PROVE t[i] = q[i]
  OBVIOUS
<1> HIDE DEF t
<1>4. t = q
  BY <1>2, <1>3
<1> QED BY <1>1, <1>4 DEF t

LEMMA EnqueueMachine ==
    ASSUME Inv, NEW c \in Callers, NEW e \in Events, Enqueue(c, e)
    PROVE  Machine!Take(c, e)
<1>1. UNCHANGED <<m_states, m_events, task>>
  BY DEF Enqueue, Return, workerVars
<1>2. m_eventQueue \in Seq(Events) /\ m_eventQueue' = Append(m_eventQueue, e)
  BY DEF Inv, TypeOK, Enqueue
<1>3. task \in {"dispatch", "commit"} =>
        <<m_events>> \o m_eventQueue' = Append(<<m_events>> \o m_eventQueue, e)
  BY <1>2, AppendBehindHead DEF Inv, HandlerOperands
<1> QED BY <1>1, <1>2, <1>3 DEF Enqueue, Return, Machine!Take

LEMMA RefuseMachine ==
    ASSUME NEW c \in Callers, Refuse(c)
    PROVE  Machine!Refuse(c)
BY DEF Refuse, Return, workerVars, Machine!Refuse

LEMMA CallStepMachine ==
    Inv /\ CallStep => Machine!Next \/ UNCHANGED Machine!vars
<1> SUFFICES ASSUME Inv, CallStep PROVE Machine!Next \/ UNCHANGED Machine!vars
  OBVIOUS
<1>1. ASSUME NEW c \in Callers, Refuse(c) PROVE Machine!Next
  BY <1>1, RefuseMachine DEF Machine!Next
<1>2. ASSUME NEW c \in Callers, NEW e \in Events, Enqueue(c, e) PROVE Machine!Next
  BY <1>2, EnqueueMachine DEF Machine!Next
<1>3. ASSUME NEW c \in Tasks, NEW e \in Events, Dispatch(c, e) PROVE Machine!Next
  BY <1>1, <1>2, <1>3 DEF Dispatch, DispatchNotRunning, DispatchFull, Callers
<1>4. ASSUME NEW c \in Tasks, NEW e \in Events, DispatchBlock(c, e)
      PROVE  UNCHANGED Machine!vars
  BY <1>4 DEF DispatchBlock, workerVars, Machine!vars
<1>5. ASSUME NEW c \in Tasks, BlockedSend(c) \/ BlockedTimeout(c) PROVE Machine!Next
  <2>1. blocked[c] \in Events /\ c \in Callers
    BY <1>5 DEF BlockedSend, BlockedTimeout, Callers, Inv, TypeOK
  <2> QED BY <1>1, <1>2, <1>5, <2>1 DEF BlockedSend, BlockedTimeout
<1>6. ASSUME NEW c \in Isrs, NEW e \in Events, DispatchFromISR(c, e) PROVE Machine!Next
  BY <1>1, <1>2, <1>6 DEF DispatchFromISR, DispatchFull, Callers
<1> QED BY <1>3, <1>4, <1>5, <1>6 DEF CallStep

LEMMA TaskStepMachine ==
    Inv /\ TaskStep => Machine!Next \/ UNCHANGED Machine!vars
<1> SUFFICES ASSUME Inv, TaskStep PROVE Machine!Next \/ UNCHANGED Machine!vars
  OBVIOUS
<1> USE FsmConstants DEF Inv, startVars, callVars, workerVars
<1>1. CASE NotifyTake
  <2>1. Machine!Launch(m_states)
    BY <1>1 DEF NotifyTake, Machine!Launch
  <2> QED BY <2>1 DEF Machine!Next, TypeOK
<1>2. CASE OnEntry
  <2>1. Machine!Enter
    BY <1>2 DEF OnEntry, Machine!Enter
  <2> QED BY <2>1 DEF Machine!Next
<1>3. CASE Receive
  <2>1. <<Head(m_eventQueue)>> \o Tail(m_eventQueue) = m_eventQueue
    BY <1>3 DEF Receive, TypeOK
  <2> QED BY <1>3, <2>1 DEF Receive, Machine!vars
<1>4. ASSUME NEW r \in States \cup {NoChange}, dispatch(r)
      PROVE  Machine!Next \/ UNCHANGED Machine!vars
  <2>1. CASE r = NoChange
    <3>1. /\ <<m_events>> \o m_eventQueue # <<>>
          /\ Head(<<m_events>> \o m_eventQueue) = m_events
          /\ Tail(<<m_events>> \o m_eventQueue) = m_eventQueue
      BY <1>4, RemoveHead DEF dispatch, HandlerOperands, TypeOK
    <3>2. Machine!Process(r)
      BY <1>4, <2>1, <3>1 DEF dispatch, Machine!Process, TypeOK
    <3> QED BY <3>2 DEF Machine!Next
  <2>2. CASE r # NoChange
    BY <1>4, <2>2 DEF dispatch, Machine!vars
  <2> QED BY <2>1, <2>2
<1>5. CASE handleNewState
  <2>1. /\ <<m_events>> \o m_eventQueue # <<>>
        /\ Head(<<m_events>> \o m_eventQueue) = m_events
        /\ Tail(<<m_events>> \o m_eventQueue) = m_eventQueue
    BY <1>5, RemoveHead DEF handleNewState, HandlerOperands, TypeOK
  <2>2. Machine!Process(newState)
    BY <1>5, <2>1 DEF handleNewState, HandlerOperands, Machine!Process, TypeOK
  <2> QED BY <2>2 DEF Machine!Next, TypeOK
<1> QED BY <1>1, <1>2, <1>3, <1>4, <1>5 DEF TaskStep

(* The task, its queue and its callers implement the abstract machine:     *)
(* accepted events are handled once, in order and to completion.           *)
THEOREM Implements == Spec => RunToCompletion
<1>1. Init => Machine!Init
  BY InitMachine
<1>2. Inv /\ [Next]_fsmVars => [Machine!Next]_Machine!vars
  <2> SUFFICES ASSUME Inv, [Next]_fsmVars
               PROVE  Machine!Next \/ UNCHANGED Machine!vars
    OBVIOUS
  <2>1. CASE Next
    BY <2>1, StartStepMachine, TaskStepMachine, CallStepMachine DEF Next
  <2>2. CASE UNCHANGED fsmVars
    BY <2>2 DEF fsmVars, startVars, callVars, workerVars, Machine!vars
  <2> QED BY <2>1, <2>2
<1> QED BY <1>1, <1>2, Invariance, PTL DEF Spec, RunToCompletion, Machine!Spec
=============================================================================
