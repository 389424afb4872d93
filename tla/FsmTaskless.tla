----------------------------- MODULE FsmTaskless -----------------------------
(***************************************************************************)
(* common/fsm_taskless.h: a finite state machine that runs in the context  *)
(* of its callers.  Dispatch puts its argument into the member m_events,   *)
(* visits on_event with m_states and m_events and takes the result over;   *)
(* there is no queue and no lock, so that callers on different tasks       *)
(* interleave at every one of these steps.                                 *)
(***************************************************************************)
EXTENDS Sequences

CONSTANTS
    Callers,        \* tasks that call Dispatch
    Starter,        \* the one that calls Start
    States, Events,
    OnEvent,        \* OnEvent[s, e]: the results on_event(s, e) may return
    EntryState,     \* the first alternative of the state variant
    StartArgs,      \* arguments of Start: states, or NoState for Start()
    NoState, NoChange, NoEvent

ASSUME TasklessConstants ==
    /\ Starter \in Callers
    /\ EntryState \in States
    /\ StartArgs \subseteq States \cup {NoState}
    /\ NoState \notin States
    /\ NoChange \notin States
    /\ NoEvent \notin Events
    /\ OnEvent \in [States \X Events -> SUBSET (States \cup {NoChange})]

VARIABLES
    m_isRunning,
    m_states,       \* the state variant
    m_events,       \* the event variant, one for all callers
    at,             \* at[c]: where caller c is in Start or Dispatch
    event,          \* event[c]: the argument of c's last call of Dispatch
    newState        \* newState[c]: Dispatch's local, between on_event and handleNewState

fsmVars == <<m_isRunning, m_states, m_events, at, event, newState>>

(* A caller has still to call Start ("before"), is in Start(state) between *)
(* the state and the flag ("flag"), about to visit on_event ("visit"),     *)
(* about to assign m_states ("commit"), about to visit on_entry ("entry"), *)
(* in no call ("idle"), or has failed an assertion ("asserted").           *)
TypeOK ==
    /\ m_isRunning \in BOOLEAN
    /\ m_states \in States
    /\ m_events \in Events \cup {NoEvent}
    /\ at \in [Callers -> {"before", "flag", "visit", "commit", "entry", "idle", "asserted"}]
    /\ event \in [Callers -> Events \cup {NoEvent}]
    /\ newState \in [Callers -> States \cup {NoChange}]

Init ==
    /\ m_isRunning = FALSE
    /\ m_states = EntryState
    /\ m_events = NoEvent
    /\ at = [c \in Callers |-> IF c = Starter THEN "before" ELSE "idle"]
    /\ event = [c \in Callers |-> NoEvent]
    /\ newState = [c \in Callers |-> NoChange]

Move(c, from, to) == at[c] = from /\ at' = [at EXCEPT ![c] = to]

-----------------------------------------------------------------------------
(* Start() and Start(state): the state, then the flag, then on_entry.      *)

StartState(s) ==
    /\ Move(Starter, "before", "flag")
    /\ m_states' = s
    /\ UNCHANGED <<m_isRunning, m_events, event, newState>>

StartFlag ==
    /\ \/ NoState \in StartArgs /\ Move(Starter, "before", "entry")
       \/ Move(Starter, "flag", "entry")
    /\ m_isRunning' = TRUE
    /\ UNCHANGED <<m_states, m_events, event, newState>>

-----------------------------------------------------------------------------
(* Dispatch(event)                                                         *)

\* configASSERT(m_isRunning) stops the caller.
DispatchAsserts(c) ==
    /\ at[c] \in {"before", "idle"}
    /\ ~m_isRunning
    /\ at' = [at EXCEPT ![c] = "asserted"]
    /\ UNCHANGED <<m_isRunning, m_states, m_events, event, newState>>

Dispatch(c, e) ==
    /\ Move(c, "idle", "visit")
    /\ m_isRunning
    /\ m_events' = e
    /\ event' = [event EXCEPT ![c] = e]
    /\ UNCHANGED <<m_isRunning, m_states, newState>>

\* Mutant: handleNewState does not return early on nullopt.
VisitAnyResult(c, r) ==
    /\ Move(c, "visit", "commit")
    /\ r \in OnEvent[<<m_states, m_events>>]
    /\ newState' = [newState EXCEPT ![c] = r]
    /\ UNCHANGED <<m_isRunning, m_states, m_events, event>>

\* std::visit on_event, and handleNewState's early return.
Visit(c, r) ==
    /\ Move(c, "visit", IF r = NoChange THEN "idle" ELSE "commit")
    /\ r \in OnEvent[<<m_states, m_events>>]
    /\ newState' = [newState EXCEPT ![c] = r]
    /\ UNCHANGED <<m_isRunning, m_states, m_events, event>>

\* Mutant: on_entry is only visited by Start.
CommitWithoutEntry(c) ==
    /\ Move(c, "commit", "idle")
    /\ m_states' = newState[c]
    /\ newState' = [newState EXCEPT ![c] = NoChange]
    /\ UNCHANGED <<m_isRunning, m_events, event>>

Commit(c) ==
    /\ Move(c, "commit", "entry")
    /\ m_states' = newState[c]
    /\ newState' = [newState EXCEPT ![c] = NoChange]
    /\ UNCHANGED <<m_isRunning, m_events, event>>

\* std::visit on_entry, with whatever state m_states holds by now.
OnEntry(c) ==
    /\ Move(c, "entry", "idle")
    /\ UNCHANGED <<m_isRunning, m_states, m_events, event, newState>>

-----------------------------------------------------------------------------
StartStep == (\E s \in StartArgs \ {NoState} : StartState(s)) \/ StartFlag

DispatchStep(c) ==
    \/ DispatchAsserts(c)
    \/ \E e \in Events : Dispatch(c, e)
    \/ \E r \in States \cup {NoChange} : Visit(c, r)
    \/ Commit(c)
    \/ OnEntry(c)

Next == StartStep \/ \E c \in Callers : DispatchStep(c)

Spec == Init /\ [][Next]_fsmVars

-----------------------------------------------------------------------------
(* The promise of FsmTask, as far as callers that never wait can see it.   *)
Machine == INSTANCE EventMachine WITH
    inbox    <- IF \E c \in Callers : at[c] \in {"visit", "commit"}
                THEN <<m_events>> ELSE <<>>,
    state    <- IF m_isRunning THEN m_states ELSE NoState,
    entering <- \E c \in Callers : at[c] = "entry",
    answer   <- [c \in Callers |-> IF event[c] = NoEvent THEN "none" ELSE "taken"]

(* With a single caller the machine keeps the promise of FsmTask: events   *)
(* are handled once each, to completion, the entry of a state included,    *)
(* and none before Start.                                                  *)
RunToCompletion == Machine!Spec

(* Why a single caller keeps it: the machine runs exactly between calls    *)
(* and in the steps of Dispatch, and until it is taken over a result is    *)
(* one of on_event's for the present state and the present event.          *)
HandlerOperands ==
    \A c \in Callers :
        /\ m_isRunning <=> at[c] \in {"visit", "commit", "entry", "idle"}
        /\ at[c] \in {"visit", "commit"} => m_events \in Events
        /\ at[c] = "commit" => newState[c] \in OnEvent[<<m_states, m_events>>] \ {NoChange}
=============================================================================
