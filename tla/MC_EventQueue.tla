---------------------------- MODULE MC_EventQueue ----------------------------
(* Two queues and two events that threads may post over and over. *)
EXTENDS EventQueue
=============================================================================
