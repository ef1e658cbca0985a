------------------------- MODULE MCReceptionEnergy -------------------------
(***************************************************************************)
(* A small instance of ReceptionEnergy for TLC.                            *)
(***************************************************************************)
EXTENDS ReceptionEnergy

CONSTANTS u1, n1, n2, x1
=============================================================================
