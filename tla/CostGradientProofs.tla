------------------------- MODULE CostGradientProofs -------------------------
(***************************************************************************)
(* Proofs about the accepted ways to the root, for every graph of costs:   *)
(* any number of nodes, any costs, forwarding cost and hop limit.          *)
(***************************************************************************)
EXTENDS CostGradient, ORWRoutingProofs

USE ORWRoutingAssumption, NoPacketAssumption, CostGradientAssumption, NoOfferAssumption

(***************************************************************************)
(* What the table adds to an action never changes what the action does.    *)
(***************************************************************************)
LEMMA GradientStepImplements == GradientTypeOK /\ [GradientNext]_gvars => [Next]_vars
<1>. SUFFICES ASSUME GradientTypeOK, [GradientNext]_gvars PROVE [Next]_vars OBVIOUS
<1>1. ASSUME NEW x \in accepted PROVE x.node \in Nodes /\ x.offer.frame \in air
  <2>1. x \in [node : Nodes, offer : offers] BY DEF GradientTypeOK
  <2>2. x.offer \in offers BY <2>1
  <2>. QED BY <2>1, <2>2 DEF GradientTypeOK
<1>2. ASSUME NEW x \in accepted,
             \/ RelayUpwards(x.node, x.offer)
             \/ RelayDropped(x.node, x.offer)
             \/ x.node = Root /\ RootReceives(x.offer)
      PROVE  Next
  BY <1>1, <1>2, Zenon DEF RelayUpwards, RelayDropped, RootReceives, Next
<1>3. ASSUME NEW n \in Nodes,
             (\E p \in Packets : SendUpwards(n, p)) \/ RelayTimer(n) \/ StartOrStop(n)
      PROVE  Next
  BY <1>3, Zenon DEF SendUpwards, RelayTimer, StartOrStop, Next
<1>4. ASSUME NEW n \in Nodes,
             (\E o \in offers : DatagramPreRoutingHook(n, o)) \/ UpdateEncounters(n)
      PROVE  UNCHANGED vars
  BY <1>4, Zenon DEF DatagramPreRoutingHook, UpdateEncounters
<1>5. CASE UNCHANGED gvars BY <1>5, Zenon DEF gvars
<1>. QED BY <1>2, <1>3, <1>4, <1>5, Zenon DEF GradientNext

LEMMA NextHopCostType == ASSUME NEW cost \in 0 .. NoRoute PROVE NextHopCosts(cost) \subseteq 0 .. NoRoute
BY DEF NextHopCosts, NoRoute

LEMMA CostType ==
    ASSUME upwardsCost \in CostFunctions, NEW n \in Nodes
    PROVE  upwardsCost[n] \in 0 .. NoRoute
<1>1. upwardsCost \in [Nodes -> Costs \cup {0}] BY DEF CostFunctions
<1>2. Costs \cup {0} \subseteq 0 .. NoRoute BY DEF NoRoute
<1>. QED BY <1>1, <1>2

LEMMA OfferType ==
    ASSUME NEW f \in Frame, NEW c \in 0 .. NoRoute, NEW w \in Seq(Nodes)
    PROVE  [frame |-> f, minCost |-> c, path |-> w] \in Offer
BY DEF Offer

LEMMA GradientTypeInit == GradientInit => GradientTypeOK
BY DEF GradientInit, Init, GradientTypeOK, NoFrameWaits

LEMMA GradientTypeStep ==
    SlotInv /\ GradientTypeOK /\ [GradientNext]_gvars => GradientTypeOK'
<1>. SUFFICES ASSUME SlotInv, GradientTypeOK, [GradientNext]_gvars PROVE GradientTypeOK' OBVIOUS
<1>0. TypeOK BY DEF SlotInv
<1>1. ASSUME UNCHANGED <<upwardsCost, offers, waitingOffer, accepted, air, waitingPacket>>
      PROVE  GradientTypeOK'
  BY <1>1, Zenon DEF GradientTypeOK, NoFrameWaits
<1>2. ASSUME NEW n \in Nodes, NEW p \in Packets, SendUpwards(n, p)
      PROVE  GradientTypeOK'
  <2>1. PICK c \in Thresholds(n, p) :
            offers' = offers \cup {[frame |-> Encapsulate(n, p), minCost |-> c, path |-> <<n>>]}
    BY <1>2, Zenon DEF SendUpwards
  <2>2. PICK o : o = [frame |-> Encapsulate(n, p), minCost |-> c, path |-> <<n>>] OBVIOUS
  <2>3. /\ air' = air \cup {o.frame} /\ offers' = offers \cup {o}
        /\ UNCHANGED <<upwardsCost, waitingOffer, accepted, waitingPacket>>
    BY <1>2, <2>1, <2>2, Zenon DEF SendUpwards, HandleUpperPacket
  <2>4. o \in Offer
    <3>1. sequenceNumber[n] \in 0 .. SequenceNumbers - 1 BY <1>0 DEF TypeOK
    <3>2. Encapsulate(n, p) \in Frame BY <3>1 DEF Encapsulate, Frame
    <3>3. c \in 0 .. NoRoute
      <4>1. CASE p \in Hellos BY <4>1 DEF Thresholds, NoRoute
      <4>2. CASE p \notin Hellos
        BY <4>2, CostType, NextHopCostType DEF GradientTypeOK, Thresholds
      <4>. QED BY <4>1, <4>2
    <3>4. <<n>> \in Seq(Nodes) OBVIOUS
    <3>. QED BY <2>2, <3>2, <3>3, <3>4, OfferType
  <2>5. {h.frame : h \in offers'} = air' BY <2>3, ZenonT(40) DEF GradientTypeOK
  <2>6. accepted' \subseteq [node : Nodes, offer : offers'] BY <2>3 DEF GradientTypeOK
  <2>. QED BY <2>3, <2>4, <2>5, <2>6, Zenon DEF GradientTypeOK, NoFrameWaits
<1>3. ASSUME NEW n \in Nodes, NEW o \in offers, DatagramPreRoutingHook(n, o)
      PROVE  GradientTypeOK'
  <2>1. /\ accepted' = accepted \cup {[node |-> n, offer |-> o]}
        /\ UNCHANGED <<upwardsCost, offers, waitingOffer, air, waitingPacket>>
    BY <1>3, Zenon DEF DatagramPreRoutingHook, vars
  <2>2. accepted' \subseteq [node : Nodes, offer : offers'] BY <2>1 DEF GradientTypeOK
  <2>. QED BY <2>1, <2>2, Zenon DEF GradientTypeOK, NoFrameWaits
<1>4. ASSUME NEW x \in accepted, RelayUpwards(x.node, x.offer)
      PROVE  GradientTypeOK'
  <2>. DEFINE n == x.node
              f == x.offer.frame
  <2>1. n \in Nodes /\ x.offer \in offers
    <3>1. x \in [node : Nodes, offer : offers] BY DEF GradientTypeOK
    <3>. QED BY <3>1
  <2>2. x.offer \in Offer /\ f \in Frame /\ x.offer.path \in Seq(Nodes)
    BY <2>1 DEF GradientTypeOK, Offer
  <2>. HIDE DEF n, f
  <2>3. PICK c \in NextHopCosts(upwardsCost[n]) :
            waitingOffer' = [waitingOffer EXCEPT ![n] =
                [frame |-> waitingPacket'[n], minCost |-> c, path |-> Append(x.offer.path, n)]]
    BY <1>4, Zenon DEF RelayUpwards, n
  <2>4. /\ waitingPacket' = [waitingPacket EXCEPT ![n] = AdvanceHeaderOneHop(n, f)]
        /\ UNCHANGED <<upwardsCost, offers, accepted, air>>
    BY <1>4, Zenon DEF RelayUpwards, ForwardQueued, n, f
  <2>5. waitingPacket'[n] = AdvanceHeaderOneHop(n, f) /\ waitingPacket'[n] \in Frame
    BY <1>0, <2>1, <2>2, <2>4, OneHop DEF TypeOK
  <2>6. PICK o : o = [frame |-> waitingPacket'[n], minCost |-> c,
                      path |-> Append(x.offer.path, n)] OBVIOUS
  <2>7. o \in Offer /\ o.frame = waitingPacket'[n]
    <3>1. c \in 0 .. NoRoute BY <2>1, CostType, NextHopCostType DEF GradientTypeOK
    <3>2. Append(x.offer.path, n) \in Seq(Nodes) BY <2>1, <2>2
    <3>. QED BY <2>5, <2>6, <3>1, <3>2, OfferType
  <2>8. waitingOffer' = [waitingOffer EXCEPT ![n] = o] BY <2>3, <2>6, Zenon
  <2>9. waitingOffer' \in [Nodes -> Offer \cup {NoPacket}]
    BY <2>7, <2>8 DEF GradientTypeOK
  <2>10. /\ waitingOffer'[n] = o
         /\ \A m \in Nodes \ {n} : /\ waitingOffer'[m] = waitingOffer[m]
                                   /\ waitingPacket'[m] = waitingPacket[m]
    BY <1>0, <2>1, <2>4, <2>8 DEF GradientTypeOK, TypeOK
  <2>11. o # NoPacket /\ waitingPacket'[n] # NoPacket BY <2>5, <2>7
  <2>. QED BY <2>4, <2>7, <2>9, <2>10, <2>11, ZenonT(40) DEF GradientTypeOK, NoFrameWaits
<1>5. ASSUME NEW x \in accepted,
             RelayDropped(x.node, x.offer) \/ RootReceives(x.offer)
      PROVE  UNCHANGED <<upwardsCost, offers, waitingOffer, accepted, air, waitingPacket>>
  BY <1>5, Zenon DEF RelayDropped, ForwardDropped, RootReceives, DeduplicateAndDeliver
<1>6. ASSUME NEW n \in Nodes, RelayTimer(n)
      PROVE  GradientTypeOK'
  <2>1. /\ offers' = offers \cup ({waitingOffer[n]} \ {NoPacket})
        /\ waitingOffer' = [waitingOffer EXCEPT ![n] = NoPacket]
        /\ UNCHANGED <<upwardsCost, accepted>>
    BY <1>6, Zenon DEF RelayTimer
  <2>2. /\ waitingOffer'[n] = NoPacket
        /\ \A m \in Nodes \ {n} : waitingOffer'[m] = waitingOffer[m]
        /\ waitingOffer' \in [Nodes -> Offer \cup {NoPacket}]
    BY <2>1 DEF GradientTypeOK
  <2>3. offers' \subseteq Offer BY <2>1 DEF GradientTypeOK
  <2>4. accepted' \subseteq [node : Nodes, offer : offers'] BY <2>1 DEF GradientTypeOK
  <2>5. /\ waitingPacket'[n] = NoPacket
        /\ \A m \in Nodes \ {n} : waitingPacket'[m] = waitingPacket[m]
    BY <1>0, <1>6 DEF RelayTimer, HandleSelfMessage, NoFrameWaits, TypeOK
  <2>6. {o.frame : o \in offers'} = air'
    <3>1. CASE NoFrameWaits(n)
      <4>1. air' = air BY <1>6, <3>1, Zenon DEF RelayTimer, HandleSelfMessage
      <4>2. offers' = offers BY <2>1, <3>1, Zenon DEF GradientTypeOK
      <4>. QED BY <4>1, <4>2, Zenon DEF GradientTypeOK
    <3>2. CASE ~NoFrameWaits(n)
      <4>1. air' = air \cup {waitingPacket[n]}
        BY <1>6, <3>2, Zenon DEF RelayTimer, HandleSelfMessage
      <4>2. waitingOffer[n] # NoPacket /\ waitingOffer[n].frame = waitingPacket[n]
        BY <3>2, Zenon DEF GradientTypeOK
      <4>3. offers' = offers \cup {waitingOffer[n]} BY <2>1, <4>2, Zenon
      <4>. QED BY <4>1, <4>2, <4>3, ZenonT(40) DEF GradientTypeOK
    <3>. QED BY <3>1, <3>2
  <2>7. \A m \in Nodes :
            IF NoFrameWaits(m)' THEN waitingOffer'[m] = NoPacket
            ELSE waitingOffer'[m] # NoPacket /\ waitingOffer'[m].frame = waitingPacket'[m]
    BY <2>2, <2>5, ZenonT(40) DEF GradientTypeOK, NoFrameWaits
  <2>. QED BY <2>1, <2>2, <2>3, <2>4, <2>6, <2>7, Zenon DEF GradientTypeOK
<1>7. ASSUME NEW n \in Nodes, StartOrStop(n)
      PROVE  UNCHANGED <<upwardsCost, offers, waitingOffer, accepted, air, waitingPacket>>
  BY <1>7, Zenon DEF StartOrStop, HandleStartOperation, HandleStopOperation
<1>8. ASSUME NEW n \in Nodes, UpdateEncounters(n)
      PROVE  GradientTypeOK'
  <2>1. UNCHANGED <<offers, waitingOffer, accepted, air, waitingPacket>>
    BY <1>8, Zenon DEF UpdateEncounters, vars
  <2>2. upwardsCost' \in CostFunctions
    BY <1>8 DEF UpdateEncounters, CostFunctions, GradientTypeOK
  <2>. QED BY <2>1, <2>2, Zenon DEF GradientTypeOK, NoFrameWaits
<1>9. CASE UNCHANGED gvars BY <1>1, <1>9 DEF gvars, vars
<1>. QED BY <1>1, <1>2, <1>3, <1>4, <1>5, <1>6, <1>7, <1>8, <1>9, Zenon DEF GradientNext

-----------------------------------------------------------------------------
(***************************************************************************)
(* What an action does to the frames on their way: most do nothing, a      *)
(* packet from above and a relayed one add one.                            *)
(***************************************************************************)
SentBy(n, p, o) == \E c \in Thresholds(n, p) :
    o = [frame |-> Encapsulate(n, p), minCost |-> c, path |-> <<n>>]

RelayedBy(x, o) == \E c \in NextHopCosts(upwardsCost[x.node]) :
    o = [frame |-> AdvanceHeaderOneHop(x.node, x.offer.frame), minCost |-> c,
         path |-> Append(x.offer.path, x.node)]

LEMMA OnTheirWayStep ==
    ASSUME SlotInv, GradientTypeOK, [GradientNext]_gvars,
           NEW o \in OnTheirWay', o \notin OnTheirWay
    PROVE  /\ UNCHANGED <<upwardsCost, accepted>>
           /\ \/ \E n \in Nodes, p \in Packets : Origin[p] = n /\ SentBy(n, p, o)
              \/ \E x \in accepted :
                    /\ x.offer.frame.pkt \notin Hellos
                    /\ x.node # Root /\ x.node # x.offer.frame.from
                    /\ upwardsCost[x.node] < NoRoute
                    /\ RelayedBy(x, o)
<1>0. TypeOK BY DEF SlotInv
<1>1. ASSUME UNCHANGED <<offers, waitingOffer>> PROVE FALSE
  BY <1>1, Zenon DEF OnTheirWay
<1>2. ASSUME NEW n \in Nodes, NEW p \in Packets, SendUpwards(n, p)
      PROVE  Origin[p] = n /\ SentBy(n, p, o) /\ UNCHANGED <<upwardsCost, accepted>>
  BY <1>2, Zenon DEF SendUpwards, HandleUpperPacket, OnTheirWay, SentBy
<1>3. ASSUME NEW x \in accepted, RelayUpwards(x.node, x.offer)
      PROVE  /\ UNCHANGED <<upwardsCost, accepted>>
             /\ x.offer.frame.pkt \notin Hellos
             /\ x.node # Root /\ x.node # x.offer.frame.from
             /\ upwardsCost[x.node] < NoRoute
             /\ RelayedBy(x, o)
  <2>1. x.node \in Nodes
    <3>1. x \in [node : Nodes, offer : offers] BY DEF GradientTypeOK
    <3>. QED BY <3>1
  <2>2. waitingPacket'[x.node] = AdvanceHeaderOneHop(x.node, x.offer.frame)
    BY <1>0, <1>3, <2>1 DEF RelayUpwards, ForwardQueued, TypeOK
  <2>3. PICK c \in NextHopCosts(upwardsCost[x.node]) :
            waitingOffer' = [waitingOffer EXCEPT ![x.node] =
                [frame |-> waitingPacket'[x.node], minCost |-> c,
                 path |-> Append(x.offer.path, x.node)]]
    BY <1>3, Zenon DEF RelayUpwards
  <2>4. PICK h : h = [frame |-> waitingPacket'[x.node], minCost |-> c,
                      path |-> Append(x.offer.path, x.node)] OBVIOUS
  <2>5. waitingOffer' = [waitingOffer EXCEPT ![x.node] = h] BY <2>3, <2>4, Zenon
  <2>6. \A m \in Nodes : waitingOffer'[m] = h \/ waitingOffer'[m] = waitingOffer[m]
    BY <2>1, <2>5 DEF GradientTypeOK
  <2>7. offers' = offers BY <1>3, Zenon DEF RelayUpwards
  <2>8. o = h BY <2>6, <2>7, Zenon DEF OnTheirWay
  <2>9. RelayedBy(x, o) BY <2>2, <2>4, <2>8, Zenon DEF RelayedBy
  <2>. QED BY <1>3, <2>9, Zenon DEF RelayUpwards, ForwardQueued, HandedUp
<1>4. ASSUME NEW n \in Nodes, RelayTimer(n) PROVE FALSE
  <2>1. /\ offers' = offers \cup ({waitingOffer[n]} \ {NoPacket})
        /\ waitingOffer' = [waitingOffer EXCEPT ![n] = NoPacket]
    BY <1>4, Zenon DEF RelayTimer
  <2>2. \A m \in Nodes : waitingOffer'[m] = NoPacket \/ waitingOffer'[m] = waitingOffer[m]
    BY <2>1 DEF GradientTypeOK
  <2>. QED BY <2>1, <2>2, ZenonT(40) DEF OnTheirWay
<1>5. ASSUME NEW n \in Nodes,
             \/ \E h \in offers : DatagramPreRoutingHook(n, h)
             \/ StartOrStop(n)
             \/ UpdateEncounters(n)
      PROVE  UNCHANGED <<offers, waitingOffer>>
  BY <1>5, Zenon DEF DatagramPreRoutingHook, StartOrStop, UpdateEncounters
<1>6. ASSUME NEW x \in accepted,
             RelayDropped(x.node, x.offer) \/ RootReceives(x.offer)
      PROVE  UNCHANGED <<offers, waitingOffer>>
  BY <1>6, Zenon DEF RelayDropped, RootReceives
<1>7. CASE UNCHANGED gvars BY <1>1, <1>7 DEF gvars
<1>. QED BY <1>1, <1>2, <1>3, <1>4, <1>5, <1>6, <1>7, Zenon DEF GradientNext

LEMMA AcceptedType ==
    ASSUME GradientTypeOK, NEW x \in accepted
    PROVE  /\ x.node \in Nodes /\ x.offer \in OnTheirWay /\ x.offer \in Offer
           /\ x.offer.frame \in Frame /\ x.offer.path \in Seq(Nodes)
<1>1. x \in [node : Nodes, offer : offers] BY DEF GradientTypeOK
<1>2. x.node \in Nodes /\ x.offer \in offers BY <1>1
<1>. QED BY <1>2 DEF GradientTypeOK, OnTheirWay, Offer

-----------------------------------------------------------------------------
(***************************************************************************)
(* A way ends with the node that sent the frame, and is as long as the     *)
(* frame's hop limit is short.                                             *)
(***************************************************************************)
Measured(o) ==
    /\ Len(o.path) \in Nat \ {0}
    /\ o.path[Len(o.path)] = o.frame.from
    /\ o.frame.ttl = InitialTTL - Len(o.path) + 1

PathInv == SlotInv /\ HopChain /\ GradientTypeOK /\ \A o \in OnTheirWay : Measured(o)

LEMMA PathInit == GradientInit => PathInv
<1>. SUFFICES ASSUME GradientInit PROVE PathInv OBVIOUS
<1>1. SlotInv /\ HopChain BY SlotInit, HopInit DEF GradientInit
<1>2. OnTheirWay = {} BY DEF GradientInit, OnTheirWay
<1>. QED BY <1>1, <1>2, GradientTypeInit DEF PathInv

LEMMA PathStep == PathInv /\ [GradientNext]_gvars => PathInv'
<1>. SUFFICES ASSUME PathInv, [GradientNext]_gvars PROVE PathInv' OBVIOUS
<1>1. SlotInv /\ HopChain /\ GradientTypeOK /\ \A o \in OnTheirWay : Measured(o)
  BY DEF PathInv
<1>2. [Next]_vars BY <1>1, GradientStepImplements
<1>3. SlotInv' /\ HopChain' /\ GradientTypeOK'
  BY <1>1, <1>2, SlotStep, HopStep, GradientTypeStep
<1>4. ASSUME NEW n \in Nodes, NEW p \in Packets, NEW o, SentBy(n, p, o) PROVE Measured(o)
  BY <1>4 DEF SentBy, Encapsulate, Measured
<1>5. ASSUME NEW x \in accepted, NEW o, RelayedBy(x, o) PROVE Measured(o)
  <2>. DEFINE w == x.offer.path
  <2>1. /\ x.node \in Nodes /\ w \in Seq(Nodes) /\ x.offer.frame \in Frame
        /\ x.offer \in OnTheirWay /\ x.offer.frame \in air
    <3>1. x \in [node : Nodes, offer : offers] BY <1>1 DEF GradientTypeOK
    <3>2. x.offer \in offers BY <3>1
    <3>. QED BY <1>1, <3>2, AcceptedType, Zenon DEF GradientTypeOK
  <2>2. Measured(x.offer) BY <1>1, <2>1
  <2>3. x.offer.frame.ttl \in 1 .. InitialTTL BY <1>1, <2>1, Zenon DEF HopChain
  <2>4. /\ o.path = Append(w, x.node)
        /\ o.frame = AdvanceHeaderOneHop(x.node, x.offer.frame)
    BY <1>5 DEF RelayedBy
  <2>5. o.frame.from = x.node /\ o.frame.ttl = x.offer.frame.ttl - 1
    BY <2>1, <2>3, <2>4, OneHop
  <2>6. Len(o.path) = Len(w) + 1 /\ o.path[Len(w) + 1] = x.node BY <2>1, <2>4
  <2>. QED BY <2>2, <2>3, <2>5, <2>6 DEF Measured
<1>6. ASSUME NEW o \in OnTheirWay' PROVE Measured(o)
  BY <1>1, <1>4, <1>5, OnTheirWayStep, Zenon
<1>. QED BY <1>3, <1>6, Zenon DEF PathInv, Measured

LEMMA PathInvariant == GradientSpec => []PathInv
BY PathInit, PathStep, PTL DEF GradientSpec

(***************************************************************************)
(* ORWRouting over a routing table is ORWRouting: whatever was proved of   *)
(* the network layer among arbitrary forwarders holds with the table.      *)
(***************************************************************************)
THEOREM TableImplementsRouting == GradientSpec => Spec
<1>1. GradientInit => Init BY DEF GradientInit
<1>2. PathInv /\ [GradientNext]_gvars => [Next]_vars
  BY GradientStepImplements DEF PathInv
<1>. QED BY <1>1, <1>2, PathInvariant, PTL DEF GradientSpec, Spec

(***************************************************************************)
(* However costs change, a copy of a packet is sent by no more than        *)
(* initialTTL nodes, each of which takes one from its hop limit.           *)
(***************************************************************************)
THEOREM HopLimitEndsLoops == GradientSpec => []HopLimitBoundsPath
<1>1. ASSUME PathInv PROVE HopLimitBoundsPath
  <2>. SUFFICES ASSUME NEW o \in OnTheirWay
                PROVE  Len(o.path) <= InitialTTL /\ o.frame.ttl = InitialTTL - Len(o.path) + 1
    BY DEF HopLimitBoundsPath
  <2>1. HopChain /\ GradientTypeOK /\ Measured(o) BY <1>1 DEF PathInv
  <2>2. o.frame \in air \cup Waiting
    <3>1. CASE o \in offers BY <2>1, <3>1, Zenon DEF GradientTypeOK
    <3>2. CASE o \notin offers
      <4>1. PICK n \in Nodes : o = waitingOffer[n] /\ o # NoPacket
        BY <3>2, Zenon DEF OnTheirWay
      <4>2. ~NoFrameWaits(n) /\ o.frame = waitingPacket[n]
        BY <2>1, <4>1, Zenon DEF GradientTypeOK
      <4>. QED BY <4>2, Zenon DEF Waiting, NoFrameWaits
    <3>. QED BY <3>1, <3>2
  <2>3. o.frame.ttl \in 1 .. InitialTTL BY <2>1, <2>2, Zenon DEF HopChain
  <2>4. Len(o.path) \in Nat \ {0} /\ o.frame.ttl = InitialTTL - Len(o.path) + 1
    BY <2>1, Zenon DEF Measured
  <2>5. \A k \in Nat, t, ttl \in Int : ttl \in 1 .. t /\ ttl = t - k + 1 => k <= t
    OBVIOUS
  <2>6. InitialTTL \in Int /\ o.frame.ttl \in Int BY <2>3, ORWRoutingAssumption
  <2>. QED BY <2>3, <2>4, <2>5, <2>6
<1>. QED BY <1>1, PathInvariant, PTL

-----------------------------------------------------------------------------
(***************************************************************************)
(* Along nodes that have converged the costs fall: a frame's threshold is  *)
(* below its transmitter's cost, and only a node without a route, which    *)
(* nobody relays for, has none.                                            *)
(***************************************************************************)
Priced(o) ==
    o.frame.pkt \notin Hellos /\ o.frame.from \notin Unsettled
        => o.minCost \in NextHopCosts(upwardsCost[o.frame.from])

Falls(o) ==
    \A i, j \in DOMAIN o.path :
        i < j /\ AllSettled(o.path, i, j) => upwardsCost[o.path[j]] < upwardsCost[o.path[i]]

Descends(o) == Priced(o) /\ Falls(o)

DescentInv ==
    /\ \A o \in OnTheirWay : Descends(o)
    /\ \A x \in accepted : x.node \notin Unsettled => HookAccepts(x.node, x.offer)

LEMMA CheaperThanSender ==
    ASSUME ForwardingCost > 0, NEW cost \in 0 .. NoRoute, NEW c \in 0 .. NoRoute,
           cost < NoRoute, NEW t \in NextHopCosts(c), cost <= t
    PROVE  cost < c
<1>1. CASE c < NoRoute BY <1>1 DEF NextHopCosts, NoRoute
<1>2. CASE c = NoRoute BY <1>2
<1>. QED BY <1>1, <1>2 DEF NoRoute

\* A node whose cost changes has not converged, and then nothing else changes.
LEMMA OnlyUnsettledChange ==
    ASSUME [GradientNext]_gvars
    PROVE  \/ upwardsCost' = upwardsCost
           \/ /\ UNCHANGED <<offers, waitingOffer, accepted>>
              /\ \E m \in Unsettled \ {Root}, c \in Costs :
                    upwardsCost' = [upwardsCost EXCEPT ![m] = c]
BY Zenon DEF GradientNext, gvars, SendUpwards, DatagramPreRoutingHook, RelayTimer, StartOrStop,
             UpdateEncounters, RelayUpwards, RelayDropped, RootReceives

\* Every frame on its way is an offer.
LEMMA OnTheirWayType == ASSUME GradientTypeOK, NEW o \in OnTheirWay PROVE o \in Offer
<1>1. CASE o \in offers BY <1>1 DEF GradientTypeOK
<1>2. CASE o \notin offers
  <2>1. PICK n \in Nodes : o = waitingOffer[n] /\ o # NoPacket BY <1>2, Zenon DEF OnTheirWay
  <2>2. waitingOffer[n] \in Offer \cup {NoPacket} BY GradientTypeOK DEF GradientTypeOK
  <2>. QED BY <2>1, <2>2
<1>. QED BY <1>1, <1>2

\* What is on its way depends on nothing else.
LEMMA OnTheirWayKept ==
    ASSUME UNCHANGED <<offers, waitingOffer>>
    PROVE  OnTheirWay' = OnTheirWay
<1>1. offers' = offers /\ waitingOffer' = waitingOffer OBVIOUS
<1>. QED BY <1>1, SMT DEF OnTheirWay

\* What holds of settled nodes survives the change of an unsettled one.
LEMMA DescentChange ==
    ASSUME PathInv, DescentInv, UNCHANGED <<offers, waitingOffer, accepted>>,
           NEW m \in Unsettled \ {Root}, NEW c \in Costs,
           upwardsCost' = [upwardsCost EXCEPT ![m] = c]
    PROVE  DescentInv'
<1>1. GradientTypeOK /\ upwardsCost \in CostFunctions BY DEF PathInv, GradientTypeOK
<1>2. \A n \in Nodes \ Unsettled : upwardsCost'[n] = upwardsCost[n] BY <1>1 DEF CostFunctions
<1>3. OnTheirWay' = OnTheirWay BY OnTheirWayKept
<1>4. ASSUME NEW o \in OnTheirWay PROVE Descends(o)'
  <2>1. Descends(o) BY DEF DescentInv
  <2>2. o \in Offer BY <1>1, OnTheirWayType
  <2>3. o.frame.from \in Nodes /\ o.path \in Seq(Nodes) BY <2>2 DEF Offer, Frame
  <2>4. Priced(o)' BY <1>2, <2>1, <2>3 DEF Descends, Priced, NextHopCosts
  <2>5. Falls(o)'
    <3>. SUFFICES ASSUME NEW i \in DOMAIN o.path, NEW j \in DOMAIN o.path,
                         i < j, AllSettled(o.path, i, j)
                  PROVE  upwardsCost'[o.path[j]] < upwardsCost'[o.path[i]]
      BY DEF Falls, AllSettled
    <3>1. i \in i .. j /\ j \in i .. j BY <2>3
    <3>2. o.path[i] \in Nodes \ Unsettled /\ o.path[j] \in Nodes \ Unsettled
      BY <2>3, <3>1 DEF AllSettled
    <3>. QED BY <1>2, <2>1, <3>2 DEF Descends, Falls
  <2>. QED BY <2>4, <2>5 DEF Descends
<1>5. ASSUME NEW x \in accepted, x.node \notin Unsettled PROVE HookAccepts(x.node, x.offer)'
  <2>1. HookAccepts(x.node, x.offer) BY <1>5 DEF DescentInv
  <2>2. x.node \in Nodes BY <1>1, AcceptedType
  <2>. QED BY <1>2, <1>5, <2>1, <2>2 DEF HookAccepts
<1>. QED BY <1>3, <1>4, <1>5 DEF DescentInv

LEMMA DescentStep ==
    ASSUME ForwardingCost > 0
    PROVE  PathInv /\ DescentInv /\ [GradientNext]_gvars => DescentInv'
<1>. SUFFICES ASSUME PathInv, DescentInv, [GradientNext]_gvars, upwardsCost' = upwardsCost
              PROVE  DescentInv'
  BY OnlyUnsettledChange, DescentChange
<1>1. /\ SlotInv /\ HopChain /\ GradientTypeOK /\ \A o \in OnTheirWay : Measured(o)
      /\ upwardsCost \in CostFunctions
  BY DEF PathInv, GradientTypeOK
<1>2. upwardsCost' = upwardsCost OBVIOUS
<1>3. ASSUME NEW n \in Nodes, NEW p \in Packets, NEW o, SentBy(n, p, o) PROVE Descends(o)
  <2>1. /\ o.frame.from = n /\ o.path = <<n>>
        /\ o.frame.pkt = p /\ o.minCost \in Thresholds(n, p)
    BY <1>3 DEF SentBy, Encapsulate
  <2>2. DOMAIN o.path = {1} BY <2>1
  <2>. QED BY <2>1, <2>2 DEF Descends, Priced, Falls, Thresholds
<1>4. ASSUME NEW x \in accepted, NEW o, x.offer.frame.pkt \notin Hellos,
             x.node # Root, upwardsCost[x.node] < NoRoute,
             RelayedBy(x, o)
      PROVE  Descends(o)
  <2>. DEFINE w == x.offer.path
              m == Len(w)
              n == x.node
              cost == upwardsCost[n]
  <2>1. n \in Nodes /\ w \in Seq(Nodes) /\ x.offer \in OnTheirWay /\ x.offer \in Offer
        /\ x.offer.frame \in Frame
    BY <1>1, AcceptedType
  <2>2. Measured(x.offer) /\ Descends(x.offer) BY <1>1, <2>1 DEF DescentInv
  <2>3. n \notin Unsettled => cost <= x.offer.minCost BY <1>4 DEF DescentInv, HookAccepts
  <2>4. m \in Nat \ {0} /\ w[m] = x.offer.frame.from /\ w[m] \in Nodes
    BY <2>1, <2>2 DEF Measured
  <2>5. n \notin Unsettled /\ w[m] \notin Unsettled => cost < upwardsCost[w[m]]
    <3>. SUFFICES ASSUME n \notin Unsettled, w[m] \notin Unsettled PROVE cost < upwardsCost[w[m]]
      OBVIOUS
    <3>1. cost \in 0 .. NoRoute /\ upwardsCost[w[m]] \in 0 .. NoRoute
      BY <1>1, <2>1, <2>4, CostType
    <3>2. x.offer.minCost \in NextHopCosts(upwardsCost[w[m]]) BY <1>4, <2>2, <2>4 DEF Descends, Priced
    <3>. HIDE DEF cost
    <3>. QED BY <1>4, <2>3, <3>1, <3>2, CheaperThanSender DEF cost
  <2>6. /\ o.frame = AdvanceHeaderOneHop(n, x.offer.frame)
        /\ o.path = Append(w, n)
        /\ o.minCost \in NextHopCosts(cost)
    BY <1>4 DEF RelayedBy
  <2>7. o.frame.from = n BY <2>1, <2>6, OneHop
  <2>8. /\ DOMAIN o.path = 1 .. m + 1 /\ o.path[m + 1] = n
        /\ \A i \in 1 .. m : o.path[i] = w[i] /\ w[i] \in Nodes
        /\ DOMAIN w = 1 .. m
    BY <2>1, <2>6
  <2>9. \A i \in 1 .. m : n \notin Unsettled /\ AllSettled(w, i, m) => cost < upwardsCost[w[i]]
    <3>. SUFFICES ASSUME NEW i \in 1 .. m, n \notin Unsettled, AllSettled(w, i, m)
                  PROVE  cost < upwardsCost[w[i]]
      OBVIOUS
    <3>0. w[m] \notin Unsettled BY <2>4 DEF AllSettled
    <3>1. CASE i = m BY <2>5, <3>0, <3>1
    <3>2. CASE i < m
      <4>0. m \in DOMAIN w /\ i \in DOMAIN w BY <2>4, <2>8
      <4>1. upwardsCost[w[m]] < upwardsCost[w[i]] BY <2>2, <3>2, <4>0, Zenon DEF Descends, Falls
      <4>2. /\ cost \in 0 .. NoRoute /\ upwardsCost[w[m]] \in 0 .. NoRoute
            /\ upwardsCost[w[i]] \in 0 .. NoRoute
        BY <1>1, <2>1, <2>4, <2>8, CostType
      <4>3. \A a, b, c \in 0 .. NoRoute : a < b /\ b < c => a < c BY DEF NoRoute
      <4>. HIDE DEF cost
      <4>. QED BY <2>5, <3>0, <4>1, <4>2, <4>3, Zenon
    <3>. QED BY <2>4, <3>1, <3>2
  <2>10. Falls(o)
    <3>. SUFFICES ASSUME NEW i \in 1 .. m + 1, NEW j \in 1 .. m + 1, i < j,
                         AllSettled(o.path, i, j)
                  PROVE  upwardsCost[o.path[j]] < upwardsCost[o.path[i]]
      BY <2>8 DEF Falls
    <3>1. i \in 1 .. m BY <2>4
    <3>2. CASE j = m + 1
      <4>0. m + 1 \in i .. j BY <2>4, <3>1, <3>2
      <4>1. n \notin Unsettled BY <2>8, <3>2, <4>0, Zenon DEF AllSettled
      <4>2. ASSUME NEW k \in i .. m PROVE w[k] \notin Unsettled
        <5>1. k \in i .. j /\ k \in 1 .. m BY <2>4, <3>1, <3>2
        <5>. QED BY <2>8, <5>1, Zenon DEF AllSettled
      <4>3. AllSettled(w, i, m) BY <4>2, Zenon DEF AllSettled
      <4>. QED BY <2>8, <2>9, <3>1, <3>2, <4>1, <4>3
    <3>3. CASE j \in 1 .. m
      <4>0. ASSUME NEW k \in i .. j PROVE w[k] \notin Unsettled
        <5>1. k \in 1 .. m BY <2>4, <3>1, <3>3
        <5>. QED BY <2>8, <5>1, Zenon DEF AllSettled
      <4>1. AllSettled(w, i, j) BY <4>0, Zenon DEF AllSettled
      <4>. QED BY <2>2, <2>8, <3>1, <3>3, <4>1, Zenon DEF Descends, Falls
    <3>. QED BY <2>4, <3>2, <3>3
  <2>11. Priced(o) BY <2>6, <2>7, Zenon DEF Priced
  <2>. QED BY <2>10, <2>11, Zenon DEF Descends
<1>5. \A o \in OnTheirWay' : Descends(o)
  BY <1>1, <1>3, <1>4, OnTheirWayStep, Zenon DEF DescentInv
<1>6. \A x \in accepted' : x.node \notin Unsettled => HookAccepts(x.node, x.offer)
  <2>1. ASSUME NEW n \in Nodes, NEW o \in offers, DatagramPreRoutingHook(n, o),
               NEW x \in accepted', x.node \notin Unsettled
        PROVE  HookAccepts(x.node, x.offer)
    <3>1. CASE x \in accepted BY <2>1, <3>1 DEF DescentInv
    <3>2. CASE x \notin accepted
      <4>1. x = [node |-> n, offer |-> o] /\ HookAccepts(n, o)
        BY <2>1, <3>2, Zenon DEF DatagramPreRoutingHook
      <4>. QED BY <4>1
    <3>. QED BY <3>1, <3>2
  <2>2. CASE accepted' = accepted BY <2>2, Zenon DEF DescentInv
  <2>. QED
    BY <2>1, <2>2, Zenon
    DEF GradientNext, gvars, SendUpwards, RelayTimer, StartOrStop, UpdateEncounters,
        RelayUpwards, RelayDropped, RootReceives
<1>. QED
  BY <1>2, <1>5, <1>6, Zenon DEF DescentInv, Descends, Priced, Falls, NextHopCosts, HookAccepts

(***************************************************************************)
(* With a positive forwarding cost, no copy of a packet comes back to a    *)
(* node that has sent it on along nodes that have converged.               *)
(***************************************************************************)
THEOREM NoLoops == GradientSpec => []NoNodeTwice
<1>1. CASE ~(ForwardingCost > 0)
  <2>1. NoNodeTwice BY <1>1 DEF NoNodeTwice
  <2>. QED BY <2>1, PTL
<1>2. CASE ForwardingCost > 0
  <2>1. GradientInit => DescentInv
    BY DEF GradientInit, DescentInv, OnTheirWay
  <2>2. PathInv /\ DescentInv /\ [GradientNext]_gvars => DescentInv' BY <1>2, DescentStep
  <2>3. PathInv /\ DescentInv => NoNodeTwice
    <3>. SUFFICES ASSUME PathInv, DescentInv, NEW o \in OnTheirWay,
                         NEW i \in DOMAIN o.path, NEW j \in DOMAIN o.path,
                         i < j, AllSettled(o.path, i, j)
                  PROVE  o.path[i] # o.path[j]
      BY DEF NoNodeTwice
    <3>1. Falls(o) /\ GradientTypeOK BY DEF DescentInv, Descends, PathInv
    <3>2. o.path \in Seq(Nodes) BY <3>1, OnTheirWayType DEF Offer
    <3>3. o.path[i] \in Nodes BY <3>2
    <3>4. upwardsCost[o.path[i]] \in 0 .. NoRoute BY <3>1, <3>3, CostType DEF GradientTypeOK
    <3>5. ~(upwardsCost[o.path[i]] < upwardsCost[o.path[i]]) BY <3>4 DEF NoRoute
    <3>. QED BY <3>1, <3>5, Zenon DEF Falls
  <2>. QED BY <2>1, <2>2, <2>3, PathInvariant, PTL DEF GradientSpec
<1>. QED BY <1>1, <1>2

-----------------------------------------------------------------------------
(***************************************************************************)
(* Whatever the forwarding cost, a converged node's frames carry the       *)
(* threshold of its cost, and what it accepts was within the threshold.    *)
(***************************************************************************)
PriceInv ==
    /\ \A o \in OnTheirWay : Priced(o)
    /\ \A x \in accepted : x.node \notin Unsettled => HookAccepts(x.node, x.offer)

LEMMA PriceChange ==
    ASSUME PathInv, PriceInv, UNCHANGED <<offers, waitingOffer, accepted>>,
           NEW m \in Unsettled \ {Root}, NEW c \in Costs,
           upwardsCost' = [upwardsCost EXCEPT ![m] = c]
    PROVE  PriceInv'
<1>1. GradientTypeOK /\ upwardsCost \in CostFunctions BY DEF PathInv, GradientTypeOK
<1>2. \A n \in Nodes \ Unsettled : upwardsCost'[n] = upwardsCost[n] BY <1>1 DEF CostFunctions
<1>3. OnTheirWay' = OnTheirWay BY OnTheirWayKept
<1>4. ASSUME NEW o \in OnTheirWay PROVE Priced(o)'
  <2>1. Priced(o) BY DEF PriceInv
  <2>2. o \in Offer BY <1>1, OnTheirWayType
  <2>3. o.frame.from \in Nodes BY <2>2 DEF Offer, Frame
  <2>. QED BY <1>2, <2>1, <2>3 DEF Priced, NextHopCosts
<1>5. ASSUME NEW x \in accepted, x.node \notin Unsettled PROVE HookAccepts(x.node, x.offer)'
  <2>1. HookAccepts(x.node, x.offer) BY <1>5 DEF PriceInv
  <2>2. x.node \in Nodes BY <1>1, AcceptedType
  <2>. QED BY <1>2, <1>5, <2>1, <2>2 DEF HookAccepts
<1>. QED BY <1>3, <1>4, <1>5 DEF PriceInv

LEMMA PriceStep == PathInv /\ PriceInv /\ [GradientNext]_gvars => PriceInv'
<1>. SUFFICES ASSUME PathInv, PriceInv, [GradientNext]_gvars, upwardsCost' = upwardsCost
              PROVE  PriceInv'
  BY OnlyUnsettledChange, PriceChange
<1>1. SlotInv /\ GradientTypeOK BY DEF PathInv
<1>2. upwardsCost' = upwardsCost OBVIOUS
<1>3. ASSUME NEW n \in Nodes, NEW p \in Packets, NEW o, SentBy(n, p, o) PROVE Priced(o)
  BY <1>3 DEF SentBy, Encapsulate, Thresholds, Priced
<1>4. ASSUME NEW x \in accepted, NEW o, RelayedBy(x, o) PROVE Priced(o)
  <2>1. x.node \in Nodes /\ x.offer.frame \in Frame BY <1>1, AcceptedType
  <2>2. /\ o.frame = AdvanceHeaderOneHop(x.node, x.offer.frame)
        /\ o.minCost \in NextHopCosts(upwardsCost[x.node])
    BY <1>4 DEF RelayedBy
  <2>3. o.frame.from = x.node BY <2>1, <2>2, OneHop
  <2>. QED BY <2>2, <2>3, Zenon DEF Priced
<1>5. \A o \in OnTheirWay' : Priced(o)
  BY <1>1, <1>3, <1>4, OnTheirWayStep, Zenon DEF PriceInv
<1>6. \A x \in accepted' : x.node \notin Unsettled => HookAccepts(x.node, x.offer)
  <2>1. ASSUME NEW n \in Nodes, NEW o \in offers, DatagramPreRoutingHook(n, o),
               NEW x \in accepted', x.node \notin Unsettled
        PROVE  HookAccepts(x.node, x.offer)
    <3>1. CASE x \in accepted BY <2>1, <3>1 DEF PriceInv
    <3>2. CASE x \notin accepted
      <4>1. x = [node |-> n, offer |-> o] /\ HookAccepts(n, o)
        BY <2>1, <3>2, Zenon DEF DatagramPreRoutingHook
      <4>. QED BY <4>1
    <3>. QED BY <3>1, <3>2
  <2>2. CASE accepted' = accepted BY <2>2, Zenon DEF PriceInv
  <2>. QED
    BY <2>1, <2>2, Zenon
    DEF GradientNext, gvars, SendUpwards, RelayTimer, StartOrStop, UpdateEncounters,
        RelayUpwards, RelayDropped, RootReceives
<1>. QED BY <1>2, <1>5, <1>6, Zenon DEF PriceInv, Priced, NextHopCosts, HookAccepts

(***************************************************************************)
(* A converged node without a route accepts only hellos, and the frames of *)
(* nodes that have none either or have not converged.                      *)
(***************************************************************************)
THEOREM DeadEndsAreAskedFor == GradientSpec => []DeadEndsOnlyAsked
<1>1. GradientInit => PriceInv BY DEF GradientInit, PriceInv, OnTheirWay
<1>2. PathInv /\ PriceInv => DeadEndsOnlyAsked
  <2>. SUFFICES ASSUME PathInv, PriceInv, NEW x \in accepted, x.node \notin Unsettled,
                       upwardsCost[x.node] = NoRoute,
                       x.offer.frame.pkt \notin Hellos, x.offer.frame.from \notin Unsettled
                PROVE  upwardsCost[x.offer.frame.from] = NoRoute
    BY DEF DeadEndsOnlyAsked
  <2>. DEFINE c == upwardsCost[x.offer.frame.from]
  <2>1. GradientTypeOK /\ upwardsCost \in CostFunctions BY DEF PathInv, GradientTypeOK
  <2>2. /\ x.offer \in OnTheirWay /\ x.offer.frame \in Frame /\ x.node \in Nodes
        /\ x.offer.minCost \in 0 .. NoRoute
    BY <2>1, AcceptedType DEF Offer
  <2>3. x.offer.frame.from \in Nodes BY <2>2 DEF Frame
  <2>4. c \in 0 .. NoRoute BY <2>1, <2>3, CostType
  <2>5. x.offer.minCost \in NextHopCosts(c) BY <2>2 DEF PriceInv, Priced
  <2>6. NoRoute <= x.offer.minCost
    <3>1. x.node # Root BY <2>1, <2>2 DEF CostFunctions, NoRoute
    <3>. QED BY <3>1 DEF PriceInv, HookAccepts
  <2>. HIDE DEF c
  <2>7. c = NoRoute BY <2>2, <2>4, <2>5, <2>6 DEF NextHopCosts, NoRoute
  <2>. QED BY <2>7 DEF c
<1>. QED BY <1>1, <1>2, PriceStep, PathInvariant, PTL DEF GradientSpec

(***************************************************************************)
(* The threshold of every frame in air or waiting is known, and the        *)
(* accepted ones are in air.                                               *)
(***************************************************************************)
THEOREM GradientTypeCorrect == GradientSpec => []GradientTypeOK
BY PathInvariant, PTL DEF PathInv
=============================================================================
