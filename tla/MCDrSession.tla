---------------------------- MODULE MCDrSession ----------------------------
(* Two devices, A and B. *)
EXTENDS DrSession
CONSTANTS A, B
=============================================================================
