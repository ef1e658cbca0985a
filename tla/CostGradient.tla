---------------------------- MODULE CostGradient ----------------------------
(***************************************************************************)
(* ORWRouting over ORWRoutingTable: which relays accept a frame.  Every    *)
(* frame carries the highest cost its transmitter allows a forwarder, and  *)
(* the table's hook lets the link layer acknowledge it if the node's own   *)
(* cost to the root is not higher.  Costs are in ExpectedCost, tenths of   *)
(* an EqDC.                                                                *)
(*                                                                         *)
(* The hook answers while the frame is received; the network layer looks   *)
(* its cost up again when the frame is handed up, which may be much later. *)
(* The actions are those of ORWRouting, each with what the table adds.     *)
(***************************************************************************)
EXTENDS ORWRouting

CONSTANTS
    ForwardingCost,     \* forwardingCost
    Costs,              \* values of calculateUpwardsCost(rootAddress) off the root
    Unsettled,          \* nodes whose table has not converged and may still change
    Stopping            \* nodes that may stop and start, a bound on the instances

NoRoute == 255

ASSUME CostGradientAssumption ==
    /\ ForwardingCost \in Nat
    /\ Costs \subseteq ForwardingCost .. NoRoute /\ 0 \notin Costs
    /\ Unsettled \subseteq Nodes /\ Stopping \subseteq Nodes

VARIABLES
    upwardsCost,        \* calculateUpwardsCost(rootAddress)
    offers,             \* the frames in air, each with its threshold and way so far
    waitingOffer,       \* the same of the waiting packets
    accepted            \* frames that a node's hook has accepted

gvars == <<vars, upwardsCost, offers, waitingOffer, accepted>>

\* MinExpectedCost of a frame; "path" lists the nodes that sent the packet on.
Offer == [frame : Frame, minCost : 0 .. NoRoute, path : Seq(Nodes)]

ASSUME NoOfferAssumption == NoPacket \notin Offer

\* Fault: a forwarder may be as expensive as the transmitter.
NextHopCostsEqual(cost) == IF cost < NoRoute THEN {cost} ELSE {NoRoute}

(***************************************************************************)
(* nextHopEqDC of calculateUpwardsCost.  The conversion truncates the      *)
(* difference of two doubles, so the result may be one tenth too low; the  *)
(* link layer asserts that it is not negative (ORWMac.cc:308), and only    *)
(* those frames are sent here.                                             *)
(***************************************************************************)
NextHopCosts(cost) ==
    IF cost < NoRoute
    THEN {cost - ForwardingCost, cost - ForwardingCost - 1} \cap (0 .. NoRoute)
    ELSE {NoRoute}

CostFunctions == {f \in [Nodes -> Costs \cup {0}] : \A n \in Nodes : f[n] = 0 <=> n = Root}

GradientInit ==
    /\ Init
    /\ upwardsCost \in CostFunctions
    /\ offers = {}
    /\ waitingOffer = [n \in Nodes |-> NoPacket]
    /\ accepted = {}

\* setDownControlInfo: a hello asks for any forwarder.
Thresholds(n, p) == IF p \in Hellos THEN {NoRoute} ELSE NextHopCosts(upwardsCost[n])

\* handleUpperPacket
SendUpwards(n, p) ==
    /\ HandleUpperPacket(n, p)
    /\ \E c \in Thresholds(n, p) :
        offers' = offers \cup {[frame |-> Encapsulate(n, p), minCost |-> c, path |-> <<n>>]}
    /\ UNCHANGED <<upwardsCost, waitingOffer, accepted>>

\* Fault: the cost of a node without a route counts as unset.
HookAcceptsUnrouted(n, o) == n = Root \/ upwardsCost[n] <= o.minCost \/ upwardsCost[n] = NoRoute

\* The table's answer: the destination always accepts.
HookAccepts(n, o) == n = Root \/ upwardsCost[n] <= o.minCost

DatagramPreRoutingHook(n, o) ==
    /\ operating[n] /\ o.frame.from # n
    /\ HookAccepts(n, o)
    /\ accepted' = accepted \cup {[node |-> n, offer |-> o]}
    /\ UNCHANGED <<vars, upwardsCost, offers, waitingOffer>>

\* handleLowerPacket: a node whose cost is the highest has no next hop
RelayUpwards(n, o) ==
    /\ upwardsCost[n] < NoRoute
    /\ ForwardQueued(n, o.frame)
    /\ \E c \in NextHopCosts(upwardsCost[n]) :
        waitingOffer' = [waitingOffer EXCEPT ![n] =
            [frame |-> waitingPacket'[n], minCost |-> c, path |-> Append(o.path, n)]]
    /\ UNCHANGED <<upwardsCost, offers, accepted>>

RelayDropped(n, o) ==
    /\ upwardsCost[n] < NoRoute
    /\ ForwardDropped(n, o.frame)
    /\ UNCHANGED <<upwardsCost, offers, waitingOffer, accepted>>

RootReceives(o) ==
    /\ DeduplicateAndDeliver(o.frame)
    /\ UNCHANGED <<upwardsCost, offers, waitingOffer, accepted>>

RelayTimer(n) ==
    /\ HandleSelfMessage(n)
    /\ offers' = offers \cup ({waitingOffer[n]} \ {NoPacket})
    /\ waitingOffer' = [waitingOffer EXCEPT ![n] = NoPacket]
    /\ UNCHANGED <<upwardsCost, accepted>>

StartOrStop(n) ==
    /\ n \in Stopping
    /\ HandleStartOperation(n) \/ HandleStopOperation(n)
    /\ UNCHANGED <<upwardsCost, offers, waitingOffer, accepted>>

(***************************************************************************)
(* Encounters change the table, and with it the estimate, at any time.     *)
(***************************************************************************)
UpdateEncounters(n) ==
    /\ n \in Unsettled /\ n # Root
    /\ \E c \in Costs : upwardsCost' = [upwardsCost EXCEPT ![n] = c]
    /\ UNCHANGED <<vars, offers, waitingOffer, accepted>>

GradientNext ==
    \/ \E n \in Nodes :
        \/ \E p \in Packets : SendUpwards(n, p)
        \/ \E o \in offers : DatagramPreRoutingHook(n, o)
        \/ RelayTimer(n)
        \/ StartOrStop(n)
        \/ UpdateEncounters(n)
    \/ \E x \in accepted :
        \/ RelayUpwards(x.node, x.offer)
        \/ RelayDropped(x.node, x.offer)
        \/ x.node = Root /\ RootReceives(x.offer)

GradientSpec == GradientInit /\ [][GradientNext]_gvars
-----------------------------------------------------------------------------
OnTheirWay == offers \cup ({waitingOffer[n] : n \in Nodes} \ {NoPacket})

(***************************************************************************)
(* Type invariant of what the table adds: the threshold of every frame in  *)
(* air and of every frame that waits is known.                             *)
(***************************************************************************)
GradientTypeOK ==
    /\ upwardsCost \in CostFunctions
    /\ offers \subseteq Offer /\ {o.frame : o \in offers} = air
    /\ waitingOffer \in [Nodes -> Offer \cup {NoPacket}]
    /\ \A n \in Nodes :
        IF NoFrameWaits(n) THEN waitingOffer[n] = NoPacket
        ELSE waitingOffer[n] # NoPacket /\ waitingOffer[n].frame = waitingPacket[n]
    /\ accepted \subseteq [node : Nodes, offer : offers]

(***************************************************************************)
(* With a positive forwarding cost, a copy of a packet comes back to a     *)
(* node that sent it only past one whose table has not converged,          *)
(* whichever nodes accept it and however late they hand it up.             *)
(***************************************************************************)
AllSettled(path, i, j) == \A k \in i .. j : path[k] \notin Unsettled

NoNodeTwice ==
    ForwardingCost > 0 =>
        \A o \in OnTheirWay : \A i, j \in DOMAIN o.path :
            i < j /\ AllSettled(o.path, i, j) => o.path[i] # o.path[j]

(***************************************************************************)
(* A converged node without a route, which drops what it accepts though    *)
(* it was acknowledged as the forwarder, accepts only what it must:        *)
(* hellos, and frames whose transmitter has no route either, and asks for  *)
(* anyone, or has not converged.                                           *)
(***************************************************************************)
DeadEndsOnlyAsked ==
    \A x \in accepted :
        x.node \notin Unsettled /\ upwardsCost[x.node] = NoRoute =>
            \/ x.offer.frame.pkt \in Hellos
            \/ x.offer.frame.from \in Unsettled
            \/ upwardsCost[x.offer.frame.from] = NoRoute

(***************************************************************************)
(* Tables that change may send a packet in circles, and so may a           *)
(* forwarding cost of 0, the default; the hop limit still ends every copy  *)
(* after initialTTL transmitting nodes, over stops and restarts.           *)
(***************************************************************************)
HopLimitBoundsPath ==
    \A o \in OnTheirWay :
        Len(o.path) <= InitialTTL /\ o.frame.ttl = InitialTTL - Len(o.path) + 1
=============================================================================
