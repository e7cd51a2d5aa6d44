------------------------------ MODULE MCDrPair ------------------------------
(* Two devices, A the initiator. *)
EXTENDS DrPair
CONSTANTS A, B
=============================================================================
