-------------------------- MODULE ORWMacRefinement --------------------------
(***************************************************************************)
(* The link layer as its network layer sees it: the packet being           *)
(* transmitted or retried and the transmit queue are one line of packets.  *)
(***************************************************************************)
EXTENDS ORWMac

\* currentTxFrame, in front of those in txQueue
Line == IF currentTxFrame = NoFrame THEN txQueue ELSE <<currentTxFrame>> \o txQueue

Link == INSTANCE LinkPromise WITH Capacity <- QueueCapacity, held <- Line

\* The detailed link layer implements LinkPromise: whatever order its handlers,
\* the radio, low energy, stops and restarts come in, every step of it serves
\* the oldest packet, accepts one, or changes nothing the network layer sees.
KeepsLinkPromise == Link!Spec
=============================================================================
