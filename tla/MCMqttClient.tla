---------------------------- MODULE MCMqttClient ----------------------------
(***************************************************************************)
(* MqttClient on small instances.  Topics, messages and payloads are       *)
(* interchangeable, and so are users with the same calls; the run with a   *)
(* liveness property does not use this.                                    *)
(***************************************************************************)
EXTENDS MqttClient, TLC

Symmetry ==
    Permutations(Topics) \cup Permutations(Messages) \cup Permutations(Payloads)
        \cup (IF Registrars = {} THEN Permutations(Users) ELSE {})

(* What is dead for most of the time: m_events between the end of a        *)
(* handler and the next receive, the answer of a call of Dispatch after    *)
(* the step that returned it, reSubscribe's index outside its loop, which  *)
(* starts it anew, and overtaken but after On has looked at the state,     *)
(* which starts it anew.  States that differ in no more than these are one *)
(* state.                                                                  *)
LiveState ==
    <<IF task \in {"dispatch", "commit"} THEN m_events ELSE NoEvent,
      m_isRunning, m_states, m_eventQueue, notified, task, newState, start, startArg,
      blocked, dataVars, linkVars, espVars, m_handlers,
      IF task = "entry" THEN index ELSE 1,
      overtaken /\ \E u \in Registrars :
                      call[u].at \in {"construct", "subscribe", "call", "push"},
      pubVars, userVars, m_client, buffer>>
=============================================================================
