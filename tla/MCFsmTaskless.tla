---------------------------- MODULE MCFsmTaskless ----------------------------
(***************************************************************************)
(* FsmTaskless with handlers that may return anything.                     *)
(***************************************************************************)
EXTENDS FsmTaskless

AnyResult == [x \in States \X Events |-> States \cup {NoChange}]
AnyStart  == States \cup {NoState}
=============================================================================
