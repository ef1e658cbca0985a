-------------------------- MODULE MCWakeUpMacTries --------------------------
(***************************************************************************)
(* A small instance of WakeUpMacTries for TLC.                             *)
(***************************************************************************)
EXTENDS WakeUpMacTries

CONSTANTS u1, u2, n1, x1
=============================================================================
