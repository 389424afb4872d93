------------------------------ MODULE MCFsmTask ------------------------------
(***************************************************************************)
(* FsmTask with two states and two events whose handlers may return        *)
(* anything: every state machine over these states and events is covered.  *)
(***************************************************************************)
EXTENDS FsmTask

AnyResult == [x \in States \X Events |-> States \cup {NoChange}]
AnyStart  == States \cup {NoState}
=============================================================================
