------------------------------ MODULE MCORWMac ------------------------------
(***************************************************************************)
(* Small instances of ORWMac for TLC.                                      *)
(***************************************************************************)
EXTENDS ORWMac

CONSTANTS u1, b1, n1, x1, x2
=============================================================================
