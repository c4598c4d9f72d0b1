---------------------------- MODULE MCEventQueue ----------------------------
(* EventQueue with one kind of file events and one kind of session events, *)
(* on two paths of which a batch holds one: the second one overflows it.   *)
EXTENDS EventQueue

============================================================================
