---------------------------- MODULE MCORWRouting ----------------------------
(***************************************************************************)
(* Instances of ORWRouting: a root r and two relays.  All packets come     *)
(* from a, or p3 from b.                                                   *)
(***************************************************************************)
EXTENDS ORWRouting

CONSTANTS r, a, b, p1, p2, p3

MCOriginOne == [p \in Packets |-> a]
MCOriginTwo == [p \in Packets |-> IF p = p3 THEN b ELSE a]
=============================================================================
