-------------------------- MODULE FsmTasklessProofs --------------------------
(***************************************************************************)
(* Theorems of FsmTaskless for a single caller, whatever its states,       *)
(* events and handlers: type correctness, the invariant HandlerOperands,   *)
(* and that the machine keeps the promise of EventMachine.                 *)
(***************************************************************************)
EXTENDS FsmTaskless, TLAPS

(* The machine's members change only in steps of the one caller.           *)
LEMMA TypeInit == Init => TypeOK
BY TasklessConstants DEF Init, TypeOK

LEMMA OperandsInit ==
    ASSUME Callers = {Starter}
    PROVE  Init => HandlerOperands
BY DEF Init, HandlerOperands

\* The steps, one caller's as good as another's.
Step(c) ==
    \/ \E s \in StartArgs \ {NoState} : StartState(s)
    \/ StartFlag
    \/ DispatchAsserts(c)
    \/ \E e \in Events : Dispatch(c, e)
    \/ \E r \in States \cup {NoChange} : Visit(c, r)
    \/ Commit(c)
    \/ OnEntry(c)

LEMMA SingleStep ==
    ASSUME Callers = {Starter}, Next
    PROVE  Step(Starter)
BY DEF Next, StartStep, DispatchStep, Step

(* Every step keeps the types and the invariant.                           *)
LEMMA StepInv ==
    ASSUME Callers = {Starter}, TypeOK, HandlerOperands, Step(Starter)
    PROVE  (TypeOK /\ HandlerOperands)'
<1> USE TasklessConstants DEF Move
<1>1. ASSUME NEW s \in StartArgs \ {NoState}, StartState(s)
      PROVE  (TypeOK /\ HandlerOperands)'
  BY <1>1 DEF TypeOK, HandlerOperands, StartState
<1>2. CASE StartFlag
  BY <1>2 DEF TypeOK, HandlerOperands, StartFlag
<1>3. CASE DispatchAsserts(Starter)
  BY <1>3 DEF TypeOK, HandlerOperands, DispatchAsserts
<1>4. ASSUME NEW e \in Events, Dispatch(Starter, e)
      PROVE  (TypeOK /\ HandlerOperands)'
  BY <1>4 DEF TypeOK, HandlerOperands, Dispatch
<1>5. ASSUME NEW r \in States \cup {NoChange}, Visit(Starter, r)
      PROVE  (TypeOK /\ HandlerOperands)'
  BY <1>5 DEF TypeOK, HandlerOperands, Visit
<1>6. CASE Commit(Starter)
  BY <1>6 DEF TypeOK, HandlerOperands, Commit
<1>7. CASE OnEntry(Starter)
  BY <1>7 DEF TypeOK, HandlerOperands, OnEntry
<1> QED BY <1>1, <1>2, <1>3, <1>4, <1>5, <1>6, <1>7 DEF Step

(* With a single caller a result that is about to be taken over belongs to *)
(* the present state and event, and the machine runs only after Start.     *)
THEOREM SingleCallerInvariant ==
    ASSUME Callers = {Starter}
    PROVE  Spec => [](TypeOK /\ HandlerOperands)
<1>1. Init => TypeOK /\ HandlerOperands
  BY TypeInit, OperandsInit
<1>2. TypeOK /\ HandlerOperands /\ [Next]_fsmVars => (TypeOK /\ HandlerOperands)'
  <2>1. TypeOK /\ HandlerOperands /\ UNCHANGED fsmVars => (TypeOK /\ HandlerOperands)'
    BY DEF fsmVars, TypeOK, HandlerOperands
  <2> QED BY <2>1, SingleStep, StepInv
<1> QED BY <1>1, <1>2, PTL DEF Spec

-----------------------------------------------------------------------------
\* The inbox of a single caller holds one event or none.
LEMMA OneElement ==
    ASSUME NEW x \in Events
    PROVE  /\ Append(<<>>, x) = <<x>> /\ <<x>> # <<>>
           /\ Head(<<x>>) = x /\ Tail(<<x>>) = <<>>
OBVIOUS

(* The refinement: Start launches, Dispatch takes, the visit that changes  *)
(* nothing or the assignment processes, and on_entry enters.               *)
LEMMA StepMachine ==
    ASSUME Callers = {Starter}, TypeOK, HandlerOperands, Step(Starter)
    PROVE  Machine!Next \/ UNCHANGED Machine!vars
<1> USE TasklessConstants DEF Move
<1>1. ASSUME NEW s \in StartArgs \ {NoState}, StartState(s)
      PROVE  UNCHANGED Machine!vars
  BY <1>1 DEF TypeOK, HandlerOperands, StartState, Machine!vars
<1>2. CASE StartFlag
  <2>1. Machine!Launch(m_states)
    BY <1>2 DEF TypeOK, HandlerOperands, StartFlag, Machine!Launch
  <2>2. m_states \in States
    BY DEF TypeOK
  <2>3. \E s \in States : Machine!Launch(s)
    BY <2>1, <2>2 DEF Machine!Launch
  <2> QED BY <2>3 DEF Machine!Next
<1>3. CASE DispatchAsserts(Starter)
  BY <1>3 DEF TypeOK, HandlerOperands, DispatchAsserts, Machine!vars
<1>4. ASSUME NEW e \in Events, Dispatch(Starter, e)
      PROVE  Machine!Next
  <2>1. /\ at[Starter] = "idle" /\ at'[Starter] = "visit"
        /\ m_events' = e /\ event' = [event EXCEPT ![Starter] = e]
        /\ UNCHANGED <<m_isRunning, m_states>>
    BY <1>4 DEF TypeOK, Dispatch
  <2>2. Machine!Take(Starter, e)
    BY <2>1, OneElement DEF TypeOK, Machine!Take
  <2> QED BY <2>2 DEF Machine!Next
<1>5. ASSUME NEW r \in States \cup {NoChange}, Visit(Starter, r)
      PROVE  Machine!Next \/ UNCHANGED Machine!vars
  <2>1. CASE r = NoChange
    <3>1. /\ at[Starter] = "visit" /\ at'[Starter] = "idle"
          /\ m_isRunning /\ m_events \in Events /\ m_states \in States
          /\ NoChange \in OnEvent[<<m_states, m_events>>]
          /\ UNCHANGED <<m_isRunning, m_states, m_events, event>>
      BY <1>5, <2>1 DEF TypeOK, HandlerOperands, Visit
    <3>2. Machine!Process(NoChange)
      BY <3>1, OneElement DEF Machine!Process
    <3> QED BY <3>2 DEF Machine!Next
  <2>2. CASE r # NoChange
    BY <1>5, <2>2 DEF TypeOK, HandlerOperands, Visit, Machine!vars
  <2> QED BY <2>1, <2>2
<1>6. CASE Commit(Starter)
  <2>1. /\ at[Starter] = "commit" /\ at'[Starter] = "entry"
        /\ m_isRunning /\ m_events \in Events /\ m_states \in States
        /\ m_states' = newState[Starter]
        /\ newState[Starter] \in OnEvent[<<m_states, m_events>>] \ {NoChange}
        /\ newState[Starter] \in States
        /\ UNCHANGED <<m_isRunning, m_events, event>>
    BY <1>6 DEF TypeOK, HandlerOperands, Commit
  <2>2. Machine!Process(newState[Starter])
    BY <2>1, OneElement DEF Machine!Process
  <2>3. \E r \in States \cup {NoChange} : Machine!Process(r)
    BY <2>1, <2>2 DEF Machine!Process
  <2> QED BY <2>3 DEF Machine!Next
<1>7. CASE OnEntry(Starter)
  <2>1. Machine!Enter
    BY <1>7 DEF TypeOK, HandlerOperands, OnEntry, Machine!Enter
  <2> QED BY <2>1 DEF Machine!Next
<1> QED BY <1>1, <1>2, <1>3, <1>4, <1>5, <1>6, <1>7 DEF Step

(* A machine with a single caller keeps the promise of FsmTask.            *)
THEOREM SingleCallerImplements ==
    ASSUME Callers = {Starter}
    PROVE  Spec => RunToCompletion
<1>1. Init => Machine!Init
  BY DEF Init, Machine!Init
<1>2. TypeOK /\ HandlerOperands /\ [Next]_fsmVars => [Machine!Next]_Machine!vars
  <2>1. UNCHANGED fsmVars => UNCHANGED Machine!vars
    BY DEF fsmVars, Machine!vars
  <2> QED BY <2>1, SingleStep, StepMachine
<1> QED BY <1>1, <1>2, SingleCallerInvariant, PTL DEF Spec, RunToCompletion, Machine!Spec
=============================================================================
