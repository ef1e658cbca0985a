--------------------------- MODULE MCCostGradient ---------------------------
(***************************************************************************)
(* Instances of CostGradient: a root r and relays a, b and c, of which a   *)
(* sends the packets and c still learns what it costs to reach the root.   *)
(***************************************************************************)
EXTENDS CostGradient

CONSTANTS r, a, b, c, p1

MCOrigin == [p \in Packets |-> a]
=============================================================================
