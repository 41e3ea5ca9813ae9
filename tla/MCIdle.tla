------------------------------- MODULE MCIdle -------------------------------
(* Small instances of Idle for TLC. *)
EXTENDS Idle
=============================================================================
