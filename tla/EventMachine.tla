---------------------------- MODULE EventMachine ----------------------------
(***************************************************************************)
(* What the event-driven state machines of common/ promise to the code     *)
(* that uses them: events are submitted by any number of callers, each     *)
(* call is answered with whether the event was taken, and the events that  *)
(* were taken are handled one at a time, in the order in which they were   *)
(* taken, each exactly once and each to completion.  A machine handles     *)
(* nothing before it is launched, and a state it moves to is entered       *)
(* (on_entry) before the next event is looked at.                          *)
(***************************************************************************)
EXTENDS Sequences

CONSTANTS
    Callers,        \* tasks and interrupts that submit events
    States, Events,
    OnEvent,        \* OnEvent[s, e]: the possible results of on_event(s, e)
    NoChange,       \* the nullopt result: stay in the present state
    NoState         \* the state of a machine that has not been launched

VARIABLES
    inbox,          \* the events taken and not yet handled, oldest first
    state,
    entering,       \* the state has been set and its on_entry has not run
    answer          \* answer[c]: the result of the last call of c

vars == <<inbox, state, entering, answer>>

Answers == {"none", "taken", "refused"}

Init ==
    /\ inbox = <<>>
    /\ state = NoState
    /\ entering = FALSE
    /\ answer = [c \in Callers |-> "none"]

Take(c, e) ==
    /\ inbox' = Append(inbox, e)
    /\ answer' = [answer EXCEPT ![c] = "taken"]
    /\ UNCHANGED <<state, entering>>

Refuse(c) ==
    /\ answer' = [answer EXCEPT ![c] = "refused"]
    /\ UNCHANGED <<inbox, state, entering>>

Launch(s) ==
    /\ state = NoState
    /\ state' = s
    /\ entering' = TRUE
    /\ UNCHANGED <<inbox, answer>>

Enter ==
    /\ entering
    /\ entering' = FALSE
    /\ UNCHANGED <<inbox, state, answer>>

Process(r) ==
    /\ state # NoState
    /\ ~entering
    /\ inbox # <<>>
    /\ r \in OnEvent[<<state, Head(inbox)>>]
    /\ inbox' = Tail(inbox)
    /\ state' = IF r = NoChange THEN state ELSE r
    /\ entering' = (r # NoChange)
    /\ UNCHANGED answer

Next ==
    \/ \E c \in Callers : Refuse(c) \/ \E e \in Events : Take(c, e)
    \/ \E s \in States : Launch(s)
    \/ Enter
    \/ \E r \in States \cup {NoChange} : Process(r)

Spec == Init /\ [][Next]_vars
=============================================================================
