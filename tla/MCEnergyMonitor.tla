--------------------------- MODULE MCEnergyMonitor ---------------------------
(***************************************************************************)
(* Small instances of EnergyMonitor, and of the ORWMac in it, for TLC.     *)
(***************************************************************************)
EXTENDS EnergyMonitor, ORWMacRefinement, TLC

CONSTANTS u1, u2, u3, b1, n1, n2, x1, x2

\* The queue holds one packet less than the unicast packets there are.
MCPackets == {u1, u2, u3, b1}
MCNeighbours == {n1, n2}

\* Unicast packets are interchangeable, and so are neighbours.
Symmetry == Permutations({u1, u2, u3}) \cup Permutations(MCNeighbours)
=============================================================================
