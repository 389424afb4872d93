------------------------------- MODULE Blinker -------------------------------
(***************************************************************************)
(* modules/blinker.{h,cpp}: a pin that a one-shot timer toggles, re-armed  *)
(* by its own callback.  A user's Start and Stop and the callback, which   *)
(* runs in the timer daemon, reach the timer through the daemon's command  *)
(* queue.  When a timer expires is left open.  Timer, daemon and queue are *)
(* external.                                                               *)
(***************************************************************************)
EXTENDS Integers, Sequences

CONSTANTS
    BlinkTimes,     \* what m_blinkTimes may be, besides FOREVER
    QueueLength,    \* of the daemon's queue
    MaxCalls        \* bound on calls of Start and Stop

FOREVER == -1

ASSUME BlinkerConstants ==
    /\ BlinkTimes \subseteq Nat
    /\ QueueLength \in Nat \ {0} /\ MaxCalls \in Nat

VARIABLES
    m_blinkTimes,
    steady,                 \* m_on = m_off: the period never changes
    m_state, m_alreadyBlinkedTimes, m_end_level,
    level,                  \* of the pin
    user,                   \* "idle", "start" or "stop" (about to send), "set"
    stopLevel,              \* the argument of the last Stop
    daemon,                 \* "idle", "commands" (takes them off the queue), or in
                            \*   blink(): "set", "finish", "period", "reset"
    armed, commands,        \* the timer, and the commands that wait
    calls,
    asked,                  \* the level that Stop, or the end of blinking, has set last
    lost                    \* a command of the callback has met a full queue

params == <<m_blinkTimes, steady>>
vars == <<params, m_state, m_alreadyBlinkedTimes, m_end_level, level, user, stopLevel,
          daemon, armed, commands, calls, asked, lost>>

TypeOK ==
    /\ m_blinkTimes \in BlinkTimes \cup {FOREVER}
    /\ {steady, m_state, m_end_level, level, stopLevel, armed, asked, lost} \subseteq BOOLEAN
    /\ m_alreadyBlinkedTimes \in Nat
    /\ user \in {"idle", "start", "stop", "set"}
    /\ daemon \in {"idle", "commands", "set", "finish", "period", "reset"}
    /\ commands \in Seq({"start", "stop", "change", "reset"})
    /\ Len(commands) <= QueueLength
    /\ calls \in 0..MaxCalls

\* GPO's constructor has set the pin to false.
Init ==
    /\ m_blinkTimes \in BlinkTimes \cup {FOREVER} /\ steady \in BOOLEAN
    /\ m_state = FALSE /\ m_alreadyBlinkedTimes = 0 /\ m_end_level = FALSE
    /\ level = FALSE /\ asked = FALSE
    /\ user = "idle" /\ stopLevel = FALSE
    /\ daemon = "idle" /\ armed = FALSE /\ commands = <<>>
    /\ calls = 0 /\ lost = FALSE

-----------------------------------------------------------------------------
(* The user's task.                                                        *)

Call == user = "idle" /\ calls < MaxCalls /\ calls' = calls + 1

Start(end_level) ==
    /\ Call
    /\ m_end_level' = end_level
    /\ user' = "start"
    /\ UNCHANGED <<params, m_state, m_alreadyBlinkedTimes, level, stopLevel, daemon, armed,
                   commands, asked, lost>>

Stop(end_level) ==
    /\ Call
    /\ stopLevel' = end_level
    /\ user' = "stop"
    /\ UNCHANGED <<params, m_state, m_alreadyBlinkedTimes, m_end_level, level, daemon, armed,
                   commands, asked, lost>>

\* xTimerStart and xTimerStop wait for room; the assertion on their results holds
\* as long as the daemon makes room within 5 seconds.
Send ==
    /\ user \in {"start", "stop"} /\ Len(commands) < QueueLength
    /\ commands' = Append(commands, user)
    /\ user' = IF user = "start" THEN "idle" ELSE "set"
    /\ UNCHANGED <<params, m_state, m_alreadyBlinkedTimes, m_end_level, level, stopLevel,
                   daemon, armed, calls, asked, lost>>

\* m_gpo.Set: the last level that is set stays.
SetAsked(l) == level' = l /\ asked' = l

StopSet ==
    /\ user = "set" /\ user' = "idle"
    /\ SetAsked(stopLevel)
    /\ UNCHANGED <<params, m_state, m_alreadyBlinkedTimes, m_end_level, stopLevel, daemon,
                   armed, commands, calls, lost>>

-----------------------------------------------------------------------------
(* The daemon: an expired timer first, then all commands that wait.        *)

\* timerCB, and the first line of blink().
Fire == armed' = FALSE /\ m_state' = ~m_state /\ daemon' = "set"

Expire ==
    /\ daemon = "idle" /\ armed
    /\ Fire
    /\ UNCHANGED <<params, m_alreadyBlinkedTimes, m_end_level, level, user, stopLevel,
                   commands, calls, asked, lost>>

\* A start that comes so late that the period is over runs the callback at once.
Command ==
    /\ daemon \in {"idle", "commands"} /\ commands # <<>>
    /\ commands' = Tail(commands)
    /\ \/ armed' = (Head(commands) # "stop") /\ daemon' = "commands" /\ UNCHANGED m_state
       \/ Head(commands) \in {"start", "reset"} /\ Fire
    /\ UNCHANGED <<params, m_alreadyBlinkedTimes, m_end_level, level, user, stopLevel,
                   calls, asked, lost>>

NoCommand ==
    /\ daemon = "commands" /\ commands = <<>> /\ daemon' = "idle"
    /\ UNCHANGED <<params, m_state, m_alreadyBlinkedTimes, m_end_level, level, user,
                   stopLevel, armed, commands, calls, asked, lost>>

\* Mutant: the timer is re-armed only by the change of its period.
BlinkUnevenOnly ==
    LET times == m_alreadyBlinkedTimes + IF m_state \/ m_blinkTimes = FOREVER THEN 0 ELSE 1
    IN
    /\ daemon = "set"
    /\ level' = m_state
    /\ m_alreadyBlinkedTimes' = times
    /\ daemon' = IF m_blinkTimes # FOREVER /\ times >= m_blinkTimes THEN "finish"
                 ELSE IF steady THEN "commands" ELSE "period"
    /\ UNCHANGED <<params, m_state, m_end_level, user, stopLevel, armed, commands, calls,
                   asked, lost>>

\* With FOREVER, m_alreadyBlinkedTimes is counted in the code but never looked at.
Blink ==
    LET times == m_alreadyBlinkedTimes + IF m_state \/ m_blinkTimes = FOREVER THEN 0 ELSE 1
    IN
    /\ daemon = "set"
    /\ level' = m_state
    /\ m_alreadyBlinkedTimes' = times
    /\ daemon' = IF m_blinkTimes # FOREVER /\ times >= m_blinkTimes THEN "finish"
                 ELSE IF steady THEN "reset" ELSE "period"
    /\ UNCHANGED <<params, m_state, m_end_level, user, stopLevel, armed, commands, calls,
                   asked, lost>>

\* Mutant: blink() goes on after the end.
FinishAndReset ==
    /\ daemon = "finish" /\ daemon' = "reset"
    /\ m_alreadyBlinkedTimes' = 0
    /\ SetAsked(m_end_level)
    /\ UNCHANGED <<params, m_state, m_end_level, user, stopLevel, armed, commands, calls,
                   lost>>

Finish ==
    /\ daemon = "finish" /\ daemon' = "commands"
    /\ m_alreadyBlinkedTimes' = 0
    /\ SetAsked(m_end_level)
    /\ UNCHANGED <<params, m_state, m_end_level, user, stopLevel, armed, commands, calls,
                   lost>>

\* xTimerChangePeriod, which arms the timer too, and xTimerReset, without waiting.
Rearm(step, command, next) ==
    /\ daemon = step /\ daemon' = next
    /\ IF Len(commands) < QueueLength
       THEN commands' = Append(commands, command) /\ UNCHANGED lost
       ELSE lost' = TRUE /\ UNCHANGED commands
    /\ UNCHANGED <<params, m_state, m_alreadyBlinkedTimes, m_end_level, level, user,
                   stopLevel, armed, calls, asked>>

ChangePeriod == Rearm("period", "change", "reset")
Reset        == Rearm("reset", "reset", "commands")

Daemon ==
    Expire \/ Command \/ NoCommand \/ Blink \/ Finish \/ ChangePeriod \/ Reset

Next ==
    \/ \E l \in BOOLEAN : Start(l) \/ Stop(l)
    \/ Send \/ StopSet \/ Daemon

Spec == Init /\ [][Next]_vars

(* The user's task ends what it has begun, the daemon runs, an armed timer *)
(* expires unless a command comes first.                                   *)
Fairness == WF_vars(Send \/ StopSet) /\ WF_vars(Daemon)

FairSpec == Spec /\ Fairness

-----------------------------------------------------------------------------
(* Properties.                                                             *)

AtRest == user = "idle" /\ daemon = "idle" /\ ~armed /\ commands = <<>>

(* A pin that nothing will change any more has the level that Stop or the  *)
(* end of blinking has set, not that of an interrupted blink, although the *)
(* callback may set the pin between the two steps of Stop and after them:  *)
(* then it also re-arms the timer.  A re-arming that is lost to a full     *)
(* queue is excepted: the code does not look at its result.                *)
RestsAsAsked == AtRest /\ ~lost => level = asked

(* Why: unless the pin is as asked, somebody is about to set it, or the    *)
(* last word the timer gets, or has got, is to run on.                     *)
TimerRunsOn ==
    IF commands = <<>> THEN armed ELSE commands[Len(commands)] # "stop"

SomebodyGoesOn ==
    \/ lost \/ level = asked \/ user = "set"
    \/ daemon \in {"set", "finish", "period", "reset"}
    \/ TimerRunsOn

Inv == TypeOK /\ SomebodyGoesOn

(* A blinker with a number of times comes to rest, however Start and Stop  *)
(* interleave with its callback.                                           *)
LimitedEnds == m_blinkTimes # FOREVER => []<>AtRest
=============================================================================
