---------------------------- MODULE MCWakeUpMac ----------------------------
(***************************************************************************)
(* A small instance of WakeUpMac for TLC.                                  *)
(***************************************************************************)
EXTENDS WakeUpMac, ORWMacRefinement

CONSTANTS u1, b1, n1, x1, x2
=============================================================================
