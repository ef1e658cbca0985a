------------------------- MODULE OrplRoutingProofs -------------------------
(***************************************************************************)
(* Proofs about downwards routing, for any network, any costs and any      *)
(* number of packets, hellos and encounters.                               *)
(***************************************************************************)
EXTENDS OrplRouting, TLAPS

(***************************************************************************)
(* Costs fit what frames carry.  Off the root they exceed the least cost   *)
(* of a hop; at the root the cost to itself is 0.                          *)
(***************************************************************************)
LEMMA MinimumCostRange == MinimumCost \in 0 .. NoRoute - 1 /\ Capped(MinimumCost) = MinimumCost
BY OrplAssumption DEF MinimumCost, Capped, NoRoute

LEMMA CostToTyped ==
    ASSUME costToRoot \in [Nodes -> Estimates], NEW n \in Nodes, NEW d
    PROVE  CostTo(n, d) \in 0 .. NoRoute
<1>1. costToRoot[n] \in Nat BY OrplAssumption
<1>2. costToRoot[n] \div 2 \in Nat BY <1>1
<1>3. costToRoot[n] \div 2 + ForwardingCost \in Nat BY <1>2, OrplAssumption
<1>4. \A c \in Nat : Capped(c) \in 0 .. NoRoute BY DEF Capped, NoRoute
<1>5. MinimumCost \in Nat BY MinimumCostRange DEF NoRoute
<1>6. MinimumCost \in 0 .. NoRoute /\ 0 \in 0 .. NoRoute BY MinimumCostRange DEF NoRoute
<1>7. CASE n = d BY <1>6, <1>7 DEF CostTo
<1>8. CASE n # d /\ n = Root BY <1>4, <1>5, <1>8, Zenon DEF CostTo
<1>9. CASE n # d /\ n # Root BY <1>3, <1>4, <1>9, Zenon DEF CostTo
<1>. QED BY <1>7, <1>8, <1>9

LEMMA RootCheapest ==
    ASSUME costToRoot \in [Nodes -> Estimates], NEW n \in Nodes
    PROVE  /\ UpwardsCost(n) \in 0 .. NoRoute
           /\ n = Root => UpwardsCost(n) = 0
           /\ n # Root => MinimumCost < UpwardsCost(n)
<1>1. UpwardsCost(n) \in 0 .. NoRoute BY CostToTyped DEF UpwardsCost
<1>2. n = Root => UpwardsCost(n) = 0 BY DEF UpwardsCost, CostTo
<1>3. ASSUME n # Root PROVE MinimumCost < UpwardsCost(n)
  <2>1. UpwardsCost(n) = Capped(costToRoot[n] \div 2 + ForwardingCost)
    BY <1>3 DEF UpwardsCost, CostTo
  <2>2. costToRoot[n] \in Estimates OBVIOUS
  <2>3. costToRoot[n] \div 2 + ForwardingCost > MinimumCost BY <2>2, OrplAssumption
  <2>4. costToRoot[n] \div 2 + ForwardingCost \in Nat
    <3>1. costToRoot[n] \in Nat BY <2>2, OrplAssumption
    <3>2. costToRoot[n] \div 2 \in Nat BY <3>1
    <3>. QED BY <3>2, OrplAssumption
  <2>5. \A x \in Nat : x > MinimumCost => MinimumCost < Capped(x)
    BY MinimumCostRange DEF Capped, NoRoute
  <2>. QED BY <2>1, <2>3, <2>4, <2>5, Zenon
<1>. QED BY <1>1, <1>2, <1>3

\* What a node reports as its cost: a packet that the root sends on reports a hop's.
Reported(n, c) == c = UpwardsCost(n) \/ (n = Root /\ c = MinimumCost)

LEMMA CostToReported ==
    ASSUME NEW n \in Nodes, NEW d, n # d
    PROVE  Reported(n, CostTo(n, d))
BY MinimumCostRange DEF CostTo, Reported, UpwardsCost

(***************************************************************************)
(* The frames that a node makes are frames, from it, with a routing set it *)
(* shares.                                                                 *)
(***************************************************************************)
LEMMA FramesOfTyped ==
    ASSUME NEW n \in Nodes, NEW p \in Packets \cup {Hello}, NEW ttl \in 1 .. InitialTTL,
           NEW cost \in 0 .. NoRoute, NEW path \in Seq(Hop),
           NEW f \in FramesOf(n, p, ttl, cost, path)
    PROVE  /\ f \in Frame
           /\ f.from = n /\ f.costInd = cost /\ f.shared \in SharedSets(n)
<1>. DEFINE down == DownwardsRoutable(n, Destination[p])
            costs == IF down THEN {NoRoute} ELSE NextHopCosts(cost)
<1>1. PICK c \in costs, S \in SharedSets(n) :
        f = [pkt |-> p, from |-> n, ttl |-> ttl, upwards |-> ~down, costInd |-> cost,
             minCost |-> c, shared |-> S, path |-> Append(path, [node |-> n, upwards |-> ~down])]
  BY SMTT(30) DEF FramesOf
<1>2. costs \subseteq Int
  <2>1. NextHopCosts(cost) \subseteq Int BY OrplAssumption DEF NextHopCosts, NoRoute
  <2>2. {NoRoute} \subseteq Int BY DEF NoRoute
  <2>. QED BY <2>1, <2>2, Zenon
<1>3. (~down) \in BOOLEAN BY Zenon
<1>. DEFINE up == ~down
<1>. HIDE DEF up, down, costs
<1>4. up \in BOOLEAN /\ up = ~down BY <1>3 DEF up
<1>5. [node |-> n, upwards |-> up] \in Hop BY <1>4 DEF Hop
<1>6. Append(path, [node |-> n, upwards |-> up]) \in Seq(Hop) BY <1>5
<1>7. SharedSets(n) \subseteq SUBSET Nodes BY DEF SharedSets, SharingRoutingSet, Routes
<1>8. c \in Int /\ S \in SUBSET Nodes BY <1>2, <1>7
<1>9. f = [pkt |-> p, from |-> n, ttl |-> ttl, upwards |-> up, costInd |-> cost,
           minCost |-> c, shared |-> S, path |-> Append(path, [node |-> n, upwards |-> up])]
  BY <1>1 DEF up
<1>10. f \in Frame BY <1>4, <1>6, <1>8, <1>9, Zenon DEF Frame
<1>. QED BY <1>9, <1>10

LEMMA WithoutSetTyped ==
    ASSUME NEW f \in Frame
    PROVE  /\ WithoutSet(f) \in Frame
           /\ WithoutSet(f).shared = {}
BY DEF WithoutSet, Frame

\* The frame of a packet sent down with a minimum expected cost of 0.
LEMMA RepeatedTyped ==
    ASSUME NEW f \in Frame
    PROVE  LET g == [f EXCEPT !.minCost = IF @ < 0 THEN @ ELSE 0]
           IN  g \in Frame /\ g.from = f.from /\ g.costInd = f.costInd /\ g.shared = f.shared
BY DEF Frame

\* An entry keeps its type when it is counted, activated or taken to a warm-up.
LEMMA EntryTyped ==
    ASSUME NEW e \in NeighborEntry, NEW total \in Interactions, NEW cost \in 0 .. NoRoute, NEW own
    PROVE  /\ [e EXCEPT !.interactionsTotal = total, !.lastEqDC = cost] \in NeighborEntry
           /\ AddedToWarmup(e, cost, total) \in NeighborEntry
           /\ Activated(e, own) \in NeighborEntry
           /\ Reactivated(e) \in NeighborEntry
<1>1. 0 \in Interactions BY OrplAssumption DEF Interactions
<1>2. [e EXCEPT !.interactionsTotal = total, !.lastEqDC = cost] \in NeighborEntry
  BY DEF NeighborEntry
<1>3. AddedToWarmup(e, cost, total) \in NeighborEntry BY DEF NeighborEntry, AddedToWarmup
<1>4. Activated(e, own) \in NeighborEntry
  <2>. DEFINE b == e.interactionsTotal > 0 /\ e.lastEqDC > own
  <2>1. b \in BOOLEAN BY Zenon
  <2>. HIDE DEF b
  <2>2. [e EXCEPT !.active = b, !.interactionsTotal = 0] \in NeighborEntry
    BY <1>1, <2>1 DEF NeighborEntry
  <2>. QED BY <2>2 DEF Activated, b
<1>5. Reactivated(e) \in NeighborEntry
  <2>. DEFINE b == e.interactionsTotal > 0
  <2>1. b \in BOOLEAN
    <3>1. e.interactionsTotal \in Int BY OrplAssumption DEF NeighborEntry, Interactions
    <3>. QED BY <3>1
  <2>. HIDE DEF b
  <2>2. [e EXCEPT !.active = b, !.interactionsTotal = 0] \in NeighborEntry
    BY <1>1, <2>1 DEF NeighborEntry
  <2>3. Reactivated(e) = [e EXCEPT !.active = b, !.interactionsTotal = 0]
    BY Zenon DEF Reactivated, b
  <2>. QED BY <2>2, <2>3
<1>. QED BY <1>2, <1>3, <1>4, <1>5

-----------------------------------------------------------------------------
(***************************************************************************)
(* Types                                                                   *)
(***************************************************************************)
LEMMA OrplTypeInit == ASSUME OrplInit PROVE OrplTypeOK
<1>1. DefaultEntry \in NeighborEntry
  BY OrplAssumption DEF DefaultEntry, NeighborEntry, Interactions, NoRoute
<1>. QED BY <1>1, OrplAssumption DEF OrplInit, OrplTypeOK

LEMMA OrplTypeStep ==
    ASSUME OrplTypeOK, [OrplNext]_ovars
    PROVE  OrplTypeOK'
<1>1. CASE UNCHANGED ovars
  BY <1>1 DEF ovars, OrplTypeOK
<1>2. ASSUME NEW n \in Nodes, SendHello(n) PROVE OrplTypeOK'
  <2>1. PICK S \in SharedSets(n) :
          air' = air \cup {[pkt |-> Hello, from |-> n, ttl |-> InitialTTL, upwards |-> TRUE,
                            costInd |-> UpwardsCost(n), minCost |-> NoRoute, shared |-> S,
                            path |-> <<>>]}
    BY <1>2 DEF SendHello
  <2>2. S \in SUBSET Nodes BY DEF SharedSets, SharingRoutingSet, Routes
  <2>3. UpwardsCost(n) \in 0 .. NoRoute BY RootCheapest DEF OrplTypeOK
  <2>4. InitialTTL \in 1 .. InitialTTL /\ NoRoute \in Int BY OrplAssumption DEF NoRoute
  <2>5. <<>> \in Seq(Hop) /\ Hello \in Packets \cup {Hello} /\ TRUE \in BOOLEAN OBVIOUS
  <2>6. [pkt |-> Hello, from |-> n, ttl |-> InitialTTL, upwards |-> TRUE,
         costInd |-> UpwardsCost(n), minCost |-> NoRoute, shared |-> S, path |-> <<>>] \in Frame
    BY <2>2, <2>3, <2>4, <2>5, Zenon DEF Frame
  <2>7. air' \subseteq Frame BY <2>1, <2>6 DEF OrplTypeOK
  <2>. QED BY <1>2, <2>7 DEF SendHello, OrplTypeOK
<1>3. ASSUME NEW n \in Nodes, NEW p \in Packets, HandleUpperPacket(n, p) PROVE OrplTypeOK'
  <2>1. PICK f \in FramesOf(n, p, InitialTTL, UpwardsCost(n), <<>>) : air' = air \cup {f}
    BY <1>3 DEF HandleUpperPacket
  <2>2. UpwardsCost(n) \in 0 .. NoRoute BY RootCheapest DEF OrplTypeOK
  <2>3. InitialTTL \in 1 .. InitialTTL /\ <<>> \in Seq(Hop) BY OrplAssumption
  <2>4. f \in Frame BY <2>1, <2>2, <2>3, FramesOfTyped
  <2>. QED BY <1>3, <2>1, <2>4 DEF HandleUpperPacket, OrplTypeOK
<1>4. ASSUME NEW n \in Nodes, NEW f \in air, DatagramPreRoutingHook(n, f) PROVE OrplTypeOK'
  <2>1. WithoutSet(f) \in Frame BY WithoutSetTyped DEF OrplTypeOK
  <2>. QED BY <1>4, <2>1 DEF DatagramPreRoutingHook, OrplTypeOK
<1>5. ASSUME NEW n \in Nodes, NEW f \in air, ReceiveRoutingSet(n, f) PROVE OrplTypeOK'
  <2>1. PICK total \in [f.shared -> Interactions] :
          routingSetTable' = [routingSetTable EXCEPT ![n] = [d \in Nodes |->
            IF d \in f.shared THEN AddedToWarmup(@[d], f.costInd, total[d]) ELSE @[d]]]
    BY <1>5 DEF ReceiveRoutingSet
  <2>2. f \in Frame /\ f.costInd \in 0 .. NoRoute BY DEF OrplTypeOK, Frame
  <2>3. ASSUME NEW d \in Nodes
        PROVE (IF d \in f.shared THEN AddedToWarmup(routingSetTable[n][d], f.costInd, total[d])
               ELSE routingSetTable[n][d]) \in NeighborEntry
    <3>1. routingSetTable[n][d] \in NeighborEntry BY DEF OrplTypeOK
    <3>. QED BY <2>1, <2>2, <3>1, EntryTyped
  <2>4. routingSetTable' \in [Nodes -> [Nodes -> NeighborEntry]]
    BY <2>1, <2>3 DEF OrplTypeOK
  <2>. QED BY <1>5, <2>4 DEF ReceiveRoutingSet, OrplTypeOK
<1>6. ASSUME NEW n \in Nodes, ForwardPacket(n) PROVE OrplTypeOK'
  <2>. DEFINE f == accepted[n]
  <2>1. f \in Frame BY <1>6 DEF ForwardPacket, OrplTypeOK
  <2>2. PICK g \in FramesOf(n, f.pkt, f.ttl - 1, CostTo(n, Destination[f.pkt]), f.path) :
          waitingPacket' = [waitingPacket EXCEPT ![n] = g]
    BY <1>6 DEF ForwardPacket
  <2>3. f.pkt \in Packets \cup {Hello} /\ f.path \in Seq(Hop) BY <2>1 DEF Frame
  <2>4. f.ttl - 1 \in 1 .. InitialTTL
    <3>1. f.ttl \in 1 .. InitialTTL /\ f.ttl - 1 > 0
      BY <1>6, <2>1 DEF ForwardPacket, MayQueue, Frame
    <3>. QED BY <3>1, OrplAssumption
  <2>5. CostTo(n, Destination[f.pkt]) \in 0 .. NoRoute BY CostToTyped DEF OrplTypeOK
  <2>6. g \in Frame
    <3>1. ASSUME NEW p \in Packets \cup {Hello}, NEW ttl \in 1 .. InitialTTL,
                 NEW cost \in 0 .. NoRoute, NEW path \in Seq(Hop),
                 NEW h \in FramesOf(n, p, ttl, cost, path)
          PROVE  h \in Frame
      BY FramesOfTyped
    <3>. HIDE DEF f
    <3>. QED BY <2>2, <2>3, <2>4, <2>5, <3>1
  <2>. QED BY <1>6, <2>2, <2>6 DEF ForwardPacket, OrplTypeOK
<1>7. ASSUME NEW n \in Nodes, DeliverOrDrop(n) PROVE OrplTypeOK'
  BY <1>7 DEF DeliverOrDrop, OrplTypeOK
<1>8. ASSUME NEW n \in Nodes, SendWaiting(n) PROVE OrplTypeOK'
  BY <1>8 DEF SendWaiting, OrplTypeOK
<1>9. ASSUME NEW n \in Nodes, LinkDone(n) PROVE OrplTypeOK'
  BY <1>9 DEF LinkDone, OrplTypeOK
<1>10. ASSUME NEW n \in Nodes, NEW d \in Nodes, UpdateEncounters(n, d) PROVE OrplTypeOK'
  <2>1. PICK cost \in IndicatedCosts(d), total \in Counted(encountersTable[n][d].interactionsTotal) :
          encountersTable' = [encountersTable EXCEPT ![n][d] =
            [@ EXCEPT !.interactionsTotal = total, !.lastEqDC = cost]]
    BY <1>10 DEF UpdateEncounters
  <2>2. cost \in 0 .. NoRoute
    <3>1. UpwardsCost(d) \in 0 .. NoRoute BY RootCheapest DEF OrplTypeOK
    <3>2. \A g \in air : g.costInd \in 0 .. NoRoute BY DEF OrplTypeOK, Frame
    <3>. QED BY <3>1, <3>2 DEF IndicatedCosts
  <2>3. total \in Interactions BY DEF Counted
  <2>4. encountersTable[n][d] \in NeighborEntry BY DEF OrplTypeOK
  <2>5. [encountersTable[n][d] EXCEPT !.interactionsTotal = total, !.lastEqDC = cost] \in NeighborEntry
    BY <2>2, <2>3, <2>4, EntryTyped
  <2>6. encountersTable' \in [Nodes -> [Nodes -> NeighborEntry]]
    BY <2>1, <2>5 DEF OrplTypeOK
  <2>. QED BY <1>10, <2>6 DEF UpdateEncounters, OrplTypeOK
<1>11. ASSUME NEW n \in Nodes, ActivateWarmUpRoutingData(n) PROVE OrplTypeOK'
  <2>1. \A d \in Nodes : /\ Activated(routingSetTable[n][d], UpwardsCost(n)) \in NeighborEntry
                         /\ Reactivated(encountersTable[n][d]) \in NeighborEntry
    <3>. TAKE d \in Nodes
    <3>1. routingSetTable[n][d] \in NeighborEntry /\ encountersTable[n][d] \in NeighborEntry
      BY DEF OrplTypeOK
    <3>2. 0 \in Interactions /\ 0 \in 0 .. NoRoute BY OrplAssumption DEF Interactions, NoRoute
    <3>. QED BY <3>1, <3>2, EntryTyped
  <2>2. /\ routingSetTable' \in [Nodes -> [Nodes -> NeighborEntry]]
        /\ encountersTable' \in [Nodes -> [Nodes -> NeighborEntry]]
    BY <1>11, <2>1 DEF ActivateWarmUpRoutingData, OrplTypeOK
  <2>. QED BY <1>11, <2>2 DEF ActivateWarmUpRoutingData, OrplTypeOK
<1>12. ASSUME NEW n \in Nodes, EstimateChanges(n) PROVE OrplTypeOK'
  BY <1>12 DEF EstimateChanges, OrplTypeOK
<1>13. ASSUME NEW f \in air, RepeatToDestination(f) PROVE OrplTypeOK'
  <2>1. f \in Frame BY DEF OrplTypeOK
  <2>2. [f EXCEPT !.minCost = IF @ < 0 THEN @ ELSE 0] \in Frame BY <2>1, RepeatedTyped
  <2>. QED BY <1>13, <2>2 DEF RepeatToDestination, OrplTypeOK
<1>. QED
  BY <1>1, <1>2, <1>3, <1>4, <1>5, <1>6, <1>7, <1>8, <1>9, <1>10, <1>11, <1>12, <1>13
  DEF OrplNext

\* The tables, frames and estimates of downwards routing keep their types in
\* every network; no frame is sent with a hop limit of 0.
THEOREM OrplTypeCorrect == OrplSpec => []OrplTypeOK
BY OrplTypeInit, OrplTypeStep, PTL DEF OrplSpec
-----------------------------------------------------------------------------
(***************************************************************************)
(* What is shared lies below                                               *)
(*                                                                         *)
(* The invariant adds to RoutingSetsConsistent what a node remembers of    *)
(* its direct neighbours, a cost that they have reported, and that every   *)
(* frame reports a cost of its sender.                                     *)
(***************************************************************************)
LearntBelow ==
    \A n, d \in Nodes : Known(routingSetTable[n][d]) => Below(n, d, routingSetTable[n][d].lastEqDC)

MetAsReported ==
    \A n, d \in Nodes :
        Known(encountersTable[n][d]) => n # d /\ Reported(d, encountersTable[n][d].lastEqDC)

\* What f shares lies below the cost it reports.
SharesBelow(f) == \A d \in f.shared : d # Root /\ f.costInd <= UpwardsCost(d)

FrameSound(f) == Reported(f.from, f.costInd) /\ SharesBelow(f)

FramesSound == \A f \in OnTheirWay : FrameSound(f)

SetsInv == Settled => LearntBelow /\ MetAsReported /\ FramesSound

\* Settled estimates leave every cost to the root as it is: the root's is 0.
LEMMA CostKept ==
    ASSUME Settled, OrplTypeOK, [OrplNext]_ovars, NEW n \in Nodes
    PROVE  UpwardsCost(n)' = UpwardsCost(n)
<1>1. costToRoot' = costToRoot \/ \E m \in Nodes : EstimateChanges(m)
  BY DEF OrplNext, ovars, SendHello, HandleUpperPacket, DatagramPreRoutingHook, ReceiveRoutingSet,
         ForwardPacket, DeliverOrDrop, SendWaiting, LinkDone, UpdateEncounters,
         ActivateWarmUpRoutingData, RepeatToDestination
<1>2. CASE costToRoot' = costToRoot BY <1>2 DEF UpwardsCost, CostTo
<1>3. ASSUME NEW m \in Nodes, EstimateChanges(m) PROVE UpwardsCost(n)' = UpwardsCost(n)
  <2>1. m = Root BY <1>3 DEF EstimateChanges, Settled
  <2>2. n # Root => costToRoot'[n] = costToRoot[n] BY <1>3, <2>1 DEF EstimateChanges, OrplTypeOK
  <2>. QED BY <2>2 DEF UpwardsCost, CostTo
<1>. QED BY <1>1, <1>2, <1>3

\* An address that a node shares lies below it, whichever table it is from.
LEMMA SharedSound ==
    ASSUME OrplTypeOK, LearntBelow, MetAsReported, NEW n \in Nodes, NEW d \in SharingRoutingSet(n)
    PROVE  d \in Nodes /\ d # Root /\ UpwardsCost(n) + ForwardingCost <= UpwardsCost(d)
<1>1. PICK c : <<d, c>> \in Routes(n) /\ c >= UpwardsCost(n) + ForwardingCost
  BY DEF SharingRoutingSet, IsShared, Routes
<1>2. d \in Nodes /\ \/ encountersTable[n][d].active /\ c = encountersTable[n][d].lastEqDC
                     \/ routingSetTable[n][d].active /\ c = routingSetTable[n][d].lastEqDC
  BY <1>1 DEF Routes
<1>3. UpwardsCost(n) \in 0 .. NoRoute /\ UpwardsCost(d) \in 0 .. NoRoute
  BY <1>2, RootCheapest DEF OrplTypeOK
<1>4. CASE routingSetTable[n][d].active /\ c = routingSetTable[n][d].lastEqDC
  <2>1. d # Root /\ UpwardsCost(n) + ForwardingCost <= c /\ c <= UpwardsCost(d)
    BY <1>2, <1>4 DEF LearntBelow, Known, Below
  <2>2. c \in 0 .. NoRoute BY <1>2, <1>4 DEF OrplTypeOK, NeighborEntry
  <2>. QED BY <1>2, <1>3, <2>1, <2>2, OrplAssumption
<1>5. CASE encountersTable[n][d].active /\ c = encountersTable[n][d].lastEqDC
  <2>1. n # d /\ Reported(d, c) BY <1>2, <1>5 DEF MetAsReported, Known
  <2>2. d # Root
    <3>1. SUFFICES ASSUME d = Root PROVE FALSE OBVIOUS
    <3>2. c \in {0, MinimumCost} BY <1>2, <2>1, <3>1, RootCheapest DEF Reported, OrplTypeOK
    <3>3. MinimumCost < UpwardsCost(n) BY <2>1, <3>1, RootCheapest DEF OrplTypeOK
    <3>. QED BY <1>1, <1>3, <3>2, <3>3, MinimumCostRange, OrplAssumption DEF NoRoute
  <2>3. c = UpwardsCost(d) BY <2>1, <2>2 DEF Reported
  <2>. QED BY <1>1, <1>2, <2>2, <2>3
<1>. QED BY <1>2, <1>4, <1>5

\* So does what a frame of its shares, below the cost that the frame reports.
LEMMA MadeSound ==
    ASSUME OrplTypeOK, LearntBelow, MetAsReported, NEW n \in Nodes,
           NEW f, f.from = n, Reported(n, f.costInd), f.shared \in SharedSets(n)
    PROVE  FrameSound(f)
<1>1. ASSUME NEW d \in f.shared PROVE d # Root /\ f.costInd <= UpwardsCost(d)
  <2>1. d \in SharingRoutingSet(n) BY <1>1 DEF SharedSets
  <2>2. d \in Nodes /\ d # Root /\ UpwardsCost(n) + ForwardingCost <= UpwardsCost(d)
    BY <2>1, SharedSound
  <2>3. /\ UpwardsCost(n) \in 0 .. NoRoute /\ UpwardsCost(d) \in 0 .. NoRoute
        /\ MinimumCost < UpwardsCost(d)
    BY <2>2, RootCheapest DEF OrplTypeOK
  <2>4. MinimumCost \in Int /\ ForwardingCost \in Nat BY MinimumCostRange, OrplAssumption
  <2>5. f.costInd = UpwardsCost(n) \/ f.costInd = MinimumCost BY DEF Reported
  <2>. QED BY <2>2, <2>3, <2>4, <2>5
<1>. QED BY <1>1 DEF FrameSound, SharesBelow

LEMMA FramesOfSound ==
    ASSUME OrplTypeOK, LearntBelow, MetAsReported, NEW n \in Nodes, NEW p \in Packets \cup {Hello},
           NEW ttl \in 1 .. InitialTTL, NEW cost \in 0 .. NoRoute, NEW path \in Seq(Hop),
           Reported(n, cost), NEW f \in FramesOf(n, p, ttl, cost, path)
    PROVE  FrameSound(f)
<1>1. f.from = n BY FramesOfTyped
<1>2. f.costInd = cost BY SMTT(30) DEF FramesOf
<1>3. f.shared \in SharedSets(n) BY FramesOfTyped, ZenonT(60)
<1>. QED BY <1>1, <1>2, <1>3, MadeSound

\* No address is shared by one table and excluded by the other.
LEMMA NoneExcluded ==
    ASSUME OrplTypeOK, LearntBelow, MetAsReported
    PROVE  NoPotentialLoop
<1>1. SUFFICES ASSUME NEW n \in Nodes, NEW d \in SharingRoutingSet(n), d \in ExcludedRoutingSet(n)
               PROVE  FALSE
  BY DEF NoPotentialLoop
<1>2. d \in Nodes /\ d # Root /\ UpwardsCost(n) + ForwardingCost <= UpwardsCost(d)
  BY SharedSound
<1>3. PICK c : <<d, c>> \in Routes(n) /\ ~(c >= UpwardsCost(n) + ForwardingCost)
  BY <1>1 DEF ExcludedRoutingSet, IsShared, Routes
<1>4. \/ encountersTable[n][d].active /\ c = encountersTable[n][d].lastEqDC
      \/ routingSetTable[n][d].active /\ c = routingSetTable[n][d].lastEqDC
  BY <1>3 DEF Routes
<1>5. UpwardsCost(n) + ForwardingCost \in Int
  <2>1. UpwardsCost(n) \in 0 .. NoRoute BY RootCheapest DEF OrplTypeOK
  <2>. QED BY <2>1, OrplAssumption
<1>7. CASE routingSetTable[n][d].active /\ c = routingSetTable[n][d].lastEqDC
  <2>1. UpwardsCost(n) + ForwardingCost <= c BY <1>2, <1>7 DEF LearntBelow, Known, Below
  <2>2. c \in 0 .. NoRoute BY <1>2, <1>7 DEF OrplTypeOK, NeighborEntry
  <2>. QED BY <1>3, <1>5, <2>1, <2>2
<1>6. CASE encountersTable[n][d].active /\ c = encountersTable[n][d].lastEqDC
  BY <1>2, <1>3, <1>6 DEF MetAsReported, Known, Reported
<1>. QED BY <1>4, <1>6, <1>7

LEMMA SetsInit == ASSUME OrplInit PROVE SetsInv
<1>1. \A n, d \in Nodes : ~Known(routingSetTable[n][d]) /\ ~Known(encountersTable[n][d])
  BY DEF OrplInit, Known, DefaultEntry
<1>2. OnTheirWay = {} BY DEF OrplInit, OnTheirWay
<1>. QED BY <1>1, <1>2 DEF SetsInv, LearntBelow, MetAsReported, FramesSound

LEMMA LearntStep ==
    ASSUME Settled, OrplTypeOK, LearntBelow, FramesSound, [OrplNext]_ovars
    PROVE  LearntBelow'
<1>1. \A n \in Nodes : UpwardsCost(n)' = UpwardsCost(n) BY CostKept
<1>2. \A n, d \in Nodes : \A c : Below(n, d, c)' <=> Below(n, d, c) BY <1>1 DEF Below
<1>3. SUFFICES ASSUME NEW m \in Nodes, NEW d \in Nodes, Known(routingSetTable'[m][d])
               PROVE  Below(m, d, routingSetTable'[m][d].lastEqDC)
  BY <1>2 DEF LearntBelow, Known
<1>. DEFINE e == routingSetTable[m][d]
<1>4. e \in NeighborEntry BY DEF OrplTypeOK
<1>5. Known(e) => Below(m, d, e.lastEqDC) BY DEF LearntBelow
<1>6. CASE routingSetTable' = routingSetTable BY <1>3, <1>5, <1>6
<1>7. ASSUME NEW n \in Nodes, NEW f \in air, ReceiveRoutingSet(n, f)
      PROVE  Below(m, d, routingSetTable'[m][d].lastEqDC)
  <2>1. PICK total \in [f.shared -> Interactions] :
          routingSetTable' = [routingSetTable EXCEPT ![n] = [x \in Nodes |->
            IF x \in f.shared THEN AddedToWarmup(@[x], f.costInd, total[x]) ELSE @[x]]]
    BY <1>7 DEF ReceiveRoutingSet
  <2>2. CASE n = m /\ d \in f.shared
    <3>1. routingSetTable'[m][d] = AddedToWarmup(e, f.costInd, total[d])
      BY <2>1, <2>2 DEF OrplTypeOK
    <3>2. routingSetTable'[m][d].lastEqDC = f.costInd \/
            (e.interactionsTotal # 0 /\ routingSetTable'[m][d].lastEqDC = e.lastEqDC)
      BY <1>4, <3>1 DEF AddedToWarmup, NeighborEntry
    <3>3. Below(m, d, f.costInd)
      <4>1. UpwardsCost(m) + ForwardingCost <= f.costInd
        <5>1. UpwardsCost(m) \in 0 .. NoRoute /\ f.costInd \in 0 .. NoRoute
          BY RootCheapest DEF OrplTypeOK, Frame
        <5>2. f.costInd >= UpwardsCost(m) + ForwardingCost
          BY <1>7, <2>2 DEF ReceiveRoutingSet, SharedFromBelow
        <5>. QED BY <5>1, <5>2, OrplAssumption
      <4>2. d # Root /\ f.costInd <= UpwardsCost(d)
        BY <2>2 DEF FramesSound, FrameSound, SharesBelow, OnTheirWay
      <4>. QED BY <4>1, <4>2 DEF Below
    <3>4. e.interactionsTotal # 0 => Known(e)
      BY <1>4, OrplAssumption DEF Known, NeighborEntry, Interactions
    <3>. QED BY <1>5, <3>2, <3>3, <3>4
  <2>3. CASE ~(n = m /\ d \in f.shared)
    <3>1. routingSetTable'[m][d] = e BY <2>1, <2>3 DEF OrplTypeOK
    <3>. QED BY <1>3, <1>5, <3>1
  <2>. QED BY <2>2, <2>3
<1>8. ASSUME NEW n \in Nodes, ActivateWarmUpRoutingData(n)
      PROVE  Below(m, d, routingSetTable'[m][d].lastEqDC)
  <2>1. CASE n = m
    <3>1. routingSetTable'[m][d] = Activated(e, UpwardsCost(m))
      BY <1>8, <2>1 DEF ActivateWarmUpRoutingData, OrplTypeOK
    <3>2. /\ routingSetTable'[m][d].lastEqDC = e.lastEqDC
          /\ routingSetTable'[m][d].interactionsTotal = 0
          /\ routingSetTable'[m][d].active => e.interactionsTotal > 0
      BY <1>4, <3>1 DEF Activated, NeighborEntry
    <3>. QED BY <1>3, <1>5, <3>2 DEF Known
  <2>2. CASE n # m
    <3>1. routingSetTable'[m][d] = e BY <1>8, <2>2 DEF ActivateWarmUpRoutingData, OrplTypeOK
    <3>. QED BY <1>3, <1>5, <3>1
  <2>. QED BY <2>1, <2>2
<1>. QED
  BY <1>6, <1>7, <1>8
  DEF OrplNext, ovars, SendHello, HandleUpperPacket, DatagramPreRoutingHook, ForwardPacket,
      DeliverOrDrop, SendWaiting, LinkDone, UpdateEncounters, EstimateChanges, RepeatToDestination

LEMMA MetStep ==
    ASSUME Settled, OrplTypeOK, MetAsReported, FramesSound, [OrplNext]_ovars
    PROVE  MetAsReported'
<1>1. \A n \in Nodes : UpwardsCost(n)' = UpwardsCost(n) BY CostKept
<1>2. \A d \in Nodes : \A c : Reported(d, c)' <=> Reported(d, c) BY <1>1 DEF Reported
<1>3. SUFFICES ASSUME NEW m \in Nodes, NEW d \in Nodes, Known(encountersTable'[m][d])
               PROVE  m # d /\ Reported(d, encountersTable'[m][d].lastEqDC)
  BY <1>2 DEF MetAsReported, Known
<1>. DEFINE e == encountersTable[m][d]
<1>4. e \in NeighborEntry BY DEF OrplTypeOK
<1>5. Known(e) => m # d /\ Reported(d, e.lastEqDC) BY DEF MetAsReported
<1>6. CASE encountersTable' = encountersTable BY <1>3, <1>5, <1>6
<1>7. ASSUME NEW n \in Nodes, NEW x \in Nodes, UpdateEncounters(n, x)
      PROVE  m # d /\ Reported(d, encountersTable'[m][d].lastEqDC)
  <2>1. PICK cost \in IndicatedCosts(x), total \in Counted(encountersTable[n][x].interactionsTotal) :
          encountersTable' = [encountersTable EXCEPT ![n][x] =
            [@ EXCEPT !.interactionsTotal = total, !.lastEqDC = cost]]
    BY <1>7 DEF UpdateEncounters
  <2>2. CASE n = m /\ x = d
    <3>1. encountersTable'[m][d].lastEqDC = cost
      BY <1>4, <2>1, <2>2 DEF OrplTypeOK, NeighborEntry
    <3>2. Reported(d, cost)
      BY <2>2 DEF IndicatedCosts, Reported, FramesSound, FrameSound, OnTheirWay
    <3>3. m # d BY <1>7, <2>2, OrplAssumption DEF UpdateEncounters
    <3>. QED BY <3>1, <3>2, <3>3
  <2>3. CASE ~(n = m /\ x = d)
    <3>1. encountersTable'[m][d] = e BY <2>1, <2>3 DEF OrplTypeOK
    <3>. QED BY <1>3, <1>5, <3>1
  <2>. QED BY <2>2, <2>3
<1>8. ASSUME NEW n \in Nodes, ActivateWarmUpRoutingData(n)
      PROVE  m # d /\ Reported(d, encountersTable'[m][d].lastEqDC)
  <2>1. CASE n = m
    <3>1. encountersTable'[m][d] = Reactivated(e)
      BY <1>8, <2>1 DEF ActivateWarmUpRoutingData, OrplTypeOK
    <3>2. /\ encountersTable'[m][d].lastEqDC = e.lastEqDC
          /\ encountersTable'[m][d].interactionsTotal = 0
          /\ encountersTable'[m][d].active => e.interactionsTotal > 0
      BY <1>4, <3>1 DEF Reactivated, NeighborEntry
    <3>. QED BY <1>3, <1>5, <3>2 DEF Known
  <2>2. CASE n # m
    <3>1. encountersTable'[m][d] = e BY <1>8, <2>2 DEF ActivateWarmUpRoutingData, OrplTypeOK
    <3>. QED BY <1>3, <1>5, <3>1
  <2>. QED BY <2>1, <2>2
<1>. QED
  BY <1>6, <1>7, <1>8
  DEF OrplNext, ovars, SendHello, HandleUpperPacket, DatagramPreRoutingHook, ReceiveRoutingSet,
      ForwardPacket, DeliverOrDrop, SendWaiting, LinkDone, EstimateChanges, RepeatToDestination

\* A frame made in a step, or repeated, is as sound as the ones there were.
LEMMA FramesStep ==
    ASSUME Settled, OrplTypeOK, LearntBelow, MetAsReported, FramesSound, [OrplNext]_ovars
    PROVE  FramesSound'
<1>1. \A n \in Nodes : UpwardsCost(n)' = UpwardsCost(n) BY CostKept
<1>2. OrplTypeOK' BY OrplTypeStep
<1>3. SUFFICES ASSUME NEW f \in OnTheirWay' PROVE FrameSound(f)
  <2>1. \A f \in Frame : FrameSound(f) => FrameSound(f)'
    BY <1>1 DEF Frame, FrameSound, SharesBelow, Reported
  <2>2. OnTheirWay' \subseteq Frame BY <1>2 DEF OnTheirWay, OrplTypeOK
  <2>. QED BY <2>1, <2>2 DEF FramesSound
<1>4. ASSUME f \in OnTheirWay PROVE FrameSound(f) BY <1>4 DEF FramesSound
<1>5. ASSUME NEW n \in Nodes, SendHello(n) PROVE FrameSound(f)
  <2>1. CASE f \in OnTheirWay BY <1>4, <2>1
  <2>2. CASE f \notin OnTheirWay
    <3>1. /\ f.from = n /\ f.costInd = UpwardsCost(n) /\ f.shared \in SharedSets(n)
      BY <1>5, <2>2 DEF SendHello, OnTheirWay
    <3>. QED BY <3>1, MadeSound DEF Reported
  <2>. QED BY <2>1, <2>2
<1>6. ASSUME NEW n \in Nodes, NEW p \in Packets, HandleUpperPacket(n, p) PROVE FrameSound(f)
  <2>1. PICK g \in FramesOf(n, p, InitialTTL, UpwardsCost(n), <<>>) : air' = air \cup {g}
    BY <1>6 DEF HandleUpperPacket
  <2>2. UpwardsCost(n) \in 0 .. NoRoute BY RootCheapest DEF OrplTypeOK
  <2>3. InitialTTL \in 1 .. InitialTTL /\ <<>> \in Seq(Hop) BY OrplAssumption
  <2>4. Reported(n, UpwardsCost(n)) BY DEF Reported
  <2>5. FrameSound(g) BY <2>2, <2>3, <2>4, FramesOfSound
  <2>6. f \in OnTheirWay \/ f = g BY <1>6, <2>1 DEF HandleUpperPacket, OnTheirWay
  <2>. QED BY <1>4, <2>5, <2>6
<1>7. ASSUME NEW n \in Nodes, ForwardPacket(n) PROVE FrameSound(f)
  <2>. DEFINE h == accepted[n]
  <2>1. h \in Frame /\ h.ttl - 1 > 0 /\ n # Destination[h.pkt]
    BY <1>7 DEF ForwardPacket, MayQueue, OrplTypeOK
  <2>2. PICK g \in FramesOf(n, h.pkt, h.ttl - 1, CostTo(n, Destination[h.pkt]), h.path) :
          waitingPacket' = [waitingPacket EXCEPT ![n] = g]
    BY <1>7 DEF ForwardPacket
  <2>3. h.pkt \in Packets \cup {Hello} /\ h.path \in Seq(Hop) /\ h.ttl \in 1 .. InitialTTL
    BY <2>1 DEF Frame
  <2>4. h.ttl - 1 \in 1 .. InitialTTL BY <2>1, <2>3, OrplAssumption
  <2>5. CostTo(n, Destination[h.pkt]) \in 0 .. NoRoute BY CostToTyped DEF OrplTypeOK
  <2>6. Reported(n, CostTo(n, Destination[h.pkt])) BY <2>1, CostToReported
  <2>7. FrameSound(g)
    <3>1. ASSUME NEW p \in Packets \cup {Hello}, NEW ttl \in 1 .. InitialTTL,
                 NEW cost \in 0 .. NoRoute, NEW path \in Seq(Hop), Reported(n, cost),
                 NEW x \in FramesOf(n, p, ttl, cost, path)
          PROVE  FrameSound(x)
      BY <3>1, FramesOfSound
    <3>. HIDE DEF h
    <3>. QED BY <2>2, <2>3, <2>4, <2>5, <2>6, <3>1
  <2>8. f \in OnTheirWay \/ f = g BY <1>7, <2>2 DEF ForwardPacket, OnTheirWay, OrplTypeOK
  <2>. QED BY <1>4, <2>7, <2>8
<1>8. ASSUME NEW g \in air, RepeatToDestination(g) PROVE FrameSound(f)
  <2>. DEFINE h == [g EXCEPT !.minCost = IF @ < 0 THEN @ ELSE 0]
  <2>1. f \in OnTheirWay \/ f = h BY <1>8 DEF RepeatToDestination, OnTheirWay
  <2>2. g \in Frame /\ FrameSound(g) BY DEF OrplTypeOK, FramesSound, OnTheirWay
  <2>3. h.from = g.from /\ h.costInd = g.costInd /\ h.shared = g.shared BY <2>2, RepeatedTyped
  <2>. HIDE DEF h
  <2>4. FrameSound(h) BY <2>2, <2>3 DEF FrameSound, SharesBelow
  <2>. QED BY <1>4, <2>1, <2>4
<1>9. ASSUME NEW n \in Nodes, SendWaiting(n) PROVE FrameSound(f)
  BY <1>4, <1>9 DEF SendWaiting, OnTheirWay, OrplTypeOK
<1>10. ASSUME NEW n \in Nodes, LinkDone(n) PROVE FrameSound(f)
  BY <1>4, <1>10 DEF LinkDone, OnTheirWay
<1>11. CASE UNCHANGED <<air, waitingPacket>> BY <1>4, <1>11 DEF OnTheirWay
<1>. QED
  BY <1>5, <1>6, <1>7, <1>8, <1>9, <1>10, <1>11
  DEF OrplNext, ovars, DatagramPreRoutingHook, ReceiveRoutingSet, DeliverOrDrop, UpdateEncounters,
      ActivateWarmUpRoutingData, EstimateChanges

\* In a network of any size, with settled estimates, whatever a node learns
\* from shared routing sets is below it, through any number of nodes that pass
\* it on and however late a frame is heard; no address is both shared and
\* excluded (RoutingSetsConsistent).
THEOREM RoutingSetsAgree == OrplSpec => []RoutingSetsConsistent
<1>. DEFINE IInv == OrplTypeOK /\ SetsInv
<1>1. OrplInit => IInv BY OrplTypeInit, SetsInit
<1>2. IInv /\ [OrplNext]_ovars => IInv'
  <2>1. SUFFICES ASSUME OrplTypeOK, SetsInv, [OrplNext]_ovars PROVE IInv' OBVIOUS
  <2>2. ASSUME Settled PROVE LearntBelow' /\ MetAsReported' /\ FramesSound'
    BY <2>1, <2>2, LearntStep, MetStep, FramesStep DEF SetsInv
  <2>. QED BY <2>1, <2>2, OrplTypeStep DEF SetsInv
<1>3. IInv => RoutingSetsConsistent
  BY NoneExcluded DEF SetsInv, RoutingSetsConsistent, RoutingSetBelow, LearntBelow, FramesSound,
                      FrameSound, SharesBelow
<1>. QED BY <1>1, <1>2, <1>3, PTL DEF OrplSpec

-----------------------------------------------------------------------------
(***************************************************************************)
(* Who accepts what goes down                                              *)
(*                                                                         *)
(* A routable destination is in one of the tables, so it costs as much as  *)
(* the tables' invariant says.                                             *)
(***************************************************************************)
LEMMA RoutableAbove ==
    ASSUME OrplTypeOK, LearntBelow, MetAsReported, NEW n \in Nodes, NEW d \in Nodes, n # d,
           DownwardsRoutable(n, d)
    PROVE  UpwardsCost(n) <= MostReported(d) + ForwardingCost
<1>. DEFINE met == encountersTable[n][d]
            learnt == routingSetTable[n][d]
<1>1. ImmediateNeighborBelow(n, d) \/ IsNeighborEntryActive(learnt)
  BY DEF DownwardsRoutable, CalculateDownwardsCost, NoRoute
<1>2. met \in NeighborEntry /\ learnt \in NeighborEntry BY DEF OrplTypeOK
<1>3. \A e \in NeighborEntry : IsNeighborEntryActive(e) => Known(e)
  BY DEF IsNeighborEntryActive, Known, Many, NeighborEntry
<1>4. /\ UpwardsCost(n) \in 0 .. NoRoute /\ UpwardsCost(d) \in 0 .. NoRoute
      /\ n = Root => UpwardsCost(n) = 0
  BY RootCheapest DEF OrplTypeOK
<1>5. MostReported(d) \in Nat BY <1>4, MinimumCostRange DEF MostReported, NoRoute
<1>6. ForwardingCost \in Nat /\ costToRoot[n] \in Nat BY OrplAssumption DEF OrplTypeOK
<1>7. CASE n = Root BY <1>4, <1>5, <1>6, <1>7
<1>8. CASE n # Root /\ ImmediateNeighborBelow(n, d)
  <2>1. Known(met) /\ 2 * met.lastEqDC >= costToRoot[n]
    BY <1>2, <1>3, <1>8 DEF ImmediateNeighborBelow
  <2>2. Reported(d, met.lastEqDC) BY <2>1 DEF MetAsReported
  <2>3. met.lastEqDC \in Nat BY <1>2 DEF NeighborEntry
  <2>. DEFINE cost == costToRoot[n]
              last == met.lastEqDC
  <2>4. UpwardsCost(n) = Capped(cost \div 2 + ForwardingCost)
    BY <1>8 DEF UpwardsCost, CostTo
  <2>5. last <= MostReported(d)
    <3>1. d = Root => UpwardsCost(d) = 0 BY RootCheapest DEF OrplTypeOK
    <3>. HIDE DEF last, cost, met
    <3>2. Reported(d, last) BY <2>2 DEF last
    <3>3. last \in Nat BY <2>3 DEF last
    <3>. QED BY <1>4, <3>1, <3>2, <3>3, MinimumCostRange DEF MostReported, Reported, NoRoute
  <2>. HIDE DEF last, cost, met
  <2>6. cost \in Nat /\ last \in Nat /\ 2 * last >= cost BY <1>6, <2>1, <2>3 DEF cost, last
  <2>7. cost \div 2 \in Nat /\ cost \div 2 <= last BY <2>6
  <2>8. \A x \in Nat : Capped(x) <= x BY DEF Capped, NoRoute
  <2>9. UpwardsCost(n) <= cost \div 2 + ForwardingCost BY <1>6, <2>4, <2>7, <2>8
  <2>. QED BY <1>4, <1>5, <1>6, <2>5, <2>6, <2>7, <2>9
<1>9. CASE IsNeighborEntryActive(learnt)
  <2>1. Below(n, d, learnt.lastEqDC) BY <1>2, <1>3, <1>9 DEF LearntBelow
  <2>2. learnt.lastEqDC \in Nat BY <1>2 DEF NeighborEntry
  <2>. HIDE DEF learnt
  <2>. QED BY <1>4, <1>6, <2>1, <2>2 DEF Below, MostReported
<1>. QED BY <1>1, <1>7, <1>8, <1>9

\* What a node has accepted is a packet; it lies between its ends if it goes down.
BetweenEnds(n, f) ==
    /\ f.pkt \in Packets
    /\ ~f.upwards /\ n # Destination[f.pkt] =>
        /\ UpwardsCost(f.from) < UpwardsCost(n)
        /\ UpwardsCost(n) <= MostReported(Destination[f.pkt]) + ForwardingCost

AcceptedInv ==
    Settled => \A n \in Nodes : accepted[n] # NoPacket => BetweenEnds(n, accepted[n])

\* The accepting node costs more than the sender, whatever of its two costs that reported.
LEMMA AcceptsBelowSender ==
    ASSUME OrplTypeOK, NEW n \in Nodes, NEW f \in Frame, Reported(f.from, f.costInd),
           <<f.from, n>> \in Links, f.costInd < UpwardsCost(n)
    PROVE  UpwardsCost(f.from) < UpwardsCost(n)
<1>1. f.from \in Nodes /\ f.costInd \in 0 .. NoRoute BY DEF Frame
<1>2. /\ UpwardsCost(n) \in 0 .. NoRoute
      /\ f.from = Root => UpwardsCost(f.from) = 0
  BY <1>1, RootCheapest DEF OrplTypeOK
<1>. QED BY <1>1, <1>2 DEF Reported

\* Every step keeps what was accepted; a hook's acceptance finds it true.
LEMMA AcceptedStep ==
    ASSUME Settled, OrplTypeOK, SetsInv, AcceptedInv, [OrplNext]_ovars
    PROVE  AcceptedInv'
<1>1. \A n \in Nodes : UpwardsCost(n)' = UpwardsCost(n) BY CostKept
<1>2. OrplTypeOK' BY OrplTypeStep
<1>3. SUFFICES ASSUME NEW m \in Nodes, accepted'[m] # NoPacket
               PROVE  BetweenEnds(m, accepted'[m])
  <2>1. \A d \in Nodes : MostReported(d)' = MostReported(d) BY <1>1 DEF MostReported
  <2>2. \A p \in Packets : Destination[p] \in Nodes BY OrplAssumption
  <2>3. \A f \in Frame, n \in Nodes : BetweenEnds(n, f) => BetweenEnds(n, f)'
    BY <1>1, <2>1, <2>2 DEF BetweenEnds, Frame
  <2>4. \A n \in Nodes : accepted'[n] # NoPacket => accepted'[n] \in Frame
    BY <1>2 DEF OrplTypeOK
  <2>. QED BY <2>3, <2>4 DEF AcceptedInv
<1>4. CASE accepted'[m] = accepted[m] BY <1>3, <1>4 DEF AcceptedInv
<1>5. ASSUME NEW n \in Nodes, NEW f \in air, DatagramPreRoutingHook(n, f)
      PROVE  BetweenEnds(m, accepted'[m])
  <2>1. CASE m # n BY <1>4, <1>5, <2>1 DEF DatagramPreRoutingHook, OrplTypeOK
  <2>2. CASE m = n
    <3>1. f \in Frame /\ f.pkt # Hello /\ <<f.from, n>> \in Links /\ HookAccepts(n, f)
      BY <1>5 DEF DatagramPreRoutingHook, OrplTypeOK
    <3>2. f.pkt \in Packets /\ Destination[f.pkt] \in Nodes BY <3>1, OrplAssumption DEF Frame
    <3>3. ASSUME ~f.upwards, n # Destination[f.pkt]
          PROVE  /\ UpwardsCost(f.from) < UpwardsCost(n)
                 /\ UpwardsCost(n) <= MostReported(Destination[f.pkt]) + ForwardingCost
      <4>1. f.costInd < UpwardsCost(n) /\ DownwardsRoutable(n, Destination[f.pkt])
        BY <3>1, <3>3 DEF HookAccepts
      <4>2. Reported(f.from, f.costInd)
        BY DEF SetsInv, FramesSound, FrameSound, OnTheirWay
      <4>3. UpwardsCost(f.from) < UpwardsCost(n) BY <3>1, <4>1, <4>2, AcceptsBelowSender
      <4>4. UpwardsCost(n) <= MostReported(Destination[f.pkt]) + ForwardingCost
        BY <3>2, <3>3, <4>1, RoutableAbove DEF SetsInv
      <4>. QED BY <4>3, <4>4
    <3>4. BetweenEnds(n, f) BY <3>2, <3>3 DEF BetweenEnds
    <3>5. accepted'[m] = WithoutSet(f) BY <1>5, <2>2 DEF DatagramPreRoutingHook, OrplTypeOK
    <3>6. /\ WithoutSet(f).pkt = f.pkt /\ WithoutSet(f).from = f.from
          /\ WithoutSet(f).upwards = f.upwards
      BY <3>1 DEF WithoutSet, Frame
    <3>. QED BY <2>2, <3>4, <3>5, <3>6 DEF BetweenEnds
  <2>. QED BY <2>1, <2>2
<1>6. ASSUME NEW n \in Nodes, ForwardPacket(n) \/ DeliverOrDrop(n)
      PROVE  BetweenEnds(m, accepted'[m])
  BY <1>3, <1>4, <1>6 DEF ForwardPacket, DeliverOrDrop, OrplTypeOK
<1>. QED
  BY <1>4, <1>5, <1>6
  DEF OrplNext, ovars, SendHello, HandleUpperPacket, ReceiveRoutingSet, SendWaiting, LinkDone,
      UpdateEncounters, ActivateWarmUpRoutingData, EstimateChanges, RepeatToDestination

\* With settled estimates a relay that accepts a packet going down lies below
\* the sender, and above what the destination reports up to one forwarding
\* cost, however old its tables are (AcceptedBetween).
THEOREM AcceptedLieBetween == OrplSpec => []AcceptedBetween
<1>. DEFINE IInv == OrplTypeOK /\ SetsInv /\ AcceptedInv
<1>1. OrplInit => IInv BY OrplTypeInit, SetsInit DEF OrplInit, AcceptedInv
<1>2. IInv /\ [OrplNext]_ovars => IInv'
  <2>1. SUFFICES ASSUME IInv, [OrplNext]_ovars PROVE IInv' OBVIOUS
  <2>2. ASSUME Settled PROVE LearntBelow' /\ MetAsReported' /\ FramesSound' /\ AcceptedInv'
    BY <2>1, <2>2, LearntStep, MetStep, FramesStep, AcceptedStep DEF SetsInv
  <2>. QED BY <2>1, <2>2, OrplTypeStep DEF SetsInv, AcceptedInv
<1>3. IInv => AcceptedBetween BY DEF AcceptedInv, AcceptedBetween, BetweenEnds
<1>. QED BY <1>1, <1>2, <1>3, PTL DEF OrplSpec

-----------------------------------------------------------------------------
(***************************************************************************)
(* Packets only come back after a turn                                     *)
(*                                                                         *)
(* As long as a packet keeps its direction, costs fall along its path on   *)
(* the way up and rise on the way down.  For that the frames on their way  *)
(* must end their path with the hop they are on, and ask for less than     *)
(* their sender costs when they go up; whoever accepts one is then on the  *)
(* right side of the sender, or has no route and can only turn it down.    *)
(***************************************************************************)
Toward(x, y) ==
    IF x.upwards THEN UpwardsCost(y.node) < UpwardsCost(x.node)
    ELSE UpwardsCost(x.node) < UpwardsCost(y.node)

SameWay(path, i, j) == \A k \in i .. j - 1 : path[k].upwards = path[k + 1].upwards

PathInOrder(path) ==
    \A i, j \in DOMAIN path :
        i < j /\ SameWay(path, i, j) =>
            path[i].upwards = path[j].upwards /\ Toward(path[i], path[j])

LastHop(f) == f.path # <<>> /\ f.path[Len(f.path)] = [node |-> f.from, upwards |-> f.upwards]

Climbs(f) ==
    f.upwards =>
        \/ f.minCost < UpwardsCost(f.from)
        \/ f.minCost = NoRoute /\ UpwardsCost(f.from) = NoRoute
        \/ f.from = Root /\ f.minCost <= 0

SentInOrder(f) ==
    IF f.pkt = Hello THEN f.path = <<>>
    ELSE LastHop(f) /\ PathInOrder(f.path) /\ Climbs(f)

Closer(n, f) ==
    IF f.upwards THEN UpwardsCost(n) < UpwardsCost(f.from) \/ UpwardsCost(n) = NoRoute
    ELSE UpwardsCost(f.from) < UpwardsCost(n)

TakenInOrder(n, f) ==
    /\ f.pkt # Hello /\ LastHop(f) /\ PathInOrder(f.path)
    /\ n # Destination[f.pkt] => Closer(n, f)

PathsInv ==
    Settled /\ ForwardingCost > 0 =>
        /\ \A f \in OnTheirWay : SentInOrder(f)
        /\ \A n \in Nodes : accepted[n] # NoPacket => TakenInOrder(n, accepted[n])

\* A path stays in order when a hop is added that continues or turns.
LEMMA PathExtended ==
    ASSUME OrplTypeOK, NEW path \in Seq(Hop), PathInOrder(path), NEW hop \in Hop,
           path # <<>> /\ path[Len(path)].upwards = hop.upwards => Toward(path[Len(path)], hop)
    PROVE  PathInOrder(Append(path, hop))
<1>. DEFINE new == Append(path, hop)
            l == Len(path)
<1>1. l \in Nat /\ DOMAIN path = 1 .. l /\ DOMAIN new = 1 .. l + 1 OBVIOUS
<1>2. new[l + 1] = hop /\ \A i \in 1 .. l : new[i] = path[i] /\ path[i] \in Hop OBVIOUS
<1>3. \A i \in 1 .. l : UpwardsCost(path[i].node) \in Int
  BY <1>2, RootCheapest DEF OrplTypeOK, Hop
<1>4. UpwardsCost(hop.node) \in Int BY RootCheapest DEF OrplTypeOK, Hop
<1>5. path # <<>> <=> l > 0 OBVIOUS
<1>. HIDE DEF new, l
<1>6. ASSUME NEW i \in 1 .. l + 1, NEW j \in 1 .. l + 1, i < j, SameWay(new, i, j)
      PROVE  new[i].upwards = new[j].upwards /\ Toward(new[i], new[j])
  <2>1. CASE j <= l
    <3>1. i \in 1 .. l /\ j \in 1 .. l BY <1>1, <1>6, <2>1
    <3>2. \A k \in i .. j - 1 : k \in 1 .. l /\ k + 1 \in 1 .. l BY <1>1, <3>1
    <3>3. SameWay(path, i, j) BY <1>2, <1>6, <3>2 DEF SameWay
    <3>. QED BY <1>1, <1>2, <1>6, <3>1, <3>3 DEF PathInOrder
  <2>2. CASE j = l + 1
    <3>1. i \in 1 .. l /\ l \in 1 .. l /\ l \in i .. j - 1 BY <1>1, <1>6, <2>2
    <3>2. path[l].upwards = hop.upwards BY <1>2, <1>6, <2>2, <3>1 DEF SameWay
    <3>3. Toward(path[l], hop) BY <1>1, <1>5, <3>1, <3>2 DEF l
    <3>4. CASE i = l BY <1>2, <2>2, <3>1, <3>2, <3>3, <3>4
    <3>5. CASE i < l
      <4>1. \A k \in i .. l - 1 : k \in 1 .. l /\ k + 1 \in 1 .. l /\ k \in i .. j - 1
        BY <1>1, <2>2, <3>1
      <4>2. SameWay(path, i, l) BY <1>2, <1>6, <4>1 DEF SameWay
      <4>3. path[i].upwards = path[l].upwards /\ Toward(path[i], path[l])
        BY <1>1, <3>1, <3>5, <4>2 DEF PathInOrder
      <4>4. Toward(path[i], hop) BY <1>3, <1>4, <3>1, <3>3, <4>3 DEF Toward
      <4>. QED BY <1>2, <2>2, <3>1, <3>2, <4>3, <4>4
    <3>. QED BY <1>1, <3>1, <3>4, <3>5
  <2>. QED BY <1>1, <2>1, <2>2
<1>7. PathInOrder(new) BY <1>1, <1>6, Zenon DEF PathInOrder
<1>. QED BY <1>7 DEF new

\* A node that two hops of such a path share has a turn between them.
LEMMA InOrderTurns ==
    ASSUME OrplTypeOK, NEW path \in Seq(Hop), PathInOrder(path)
    PROVE  Turns(path)
<1>1. SUFFICES ASSUME NEW i \in DOMAIN path, NEW j \in DOMAIN path, i < j,
                      path[i].node = path[j].node, SameWay(path, i, j)
               PROVE  FALSE
  BY DEF Turns, SameWay
<1>2. Toward(path[i], path[j]) BY <1>1 DEF PathInOrder
<1>3. path[i] \in Hop OBVIOUS
<1>4. UpwardsCost(path[i].node) \in Int BY <1>3, RootCheapest DEF OrplTypeOK, Hop
<1>. QED BY <1>1, <1>2, <1>4 DEF Toward

\* Who accepts a frame is on its side of the sender.
LEMMA HookCloser ==
    ASSUME OrplTypeOK, NEW n \in Nodes, NEW f \in Frame, Reported(f.from, f.costInd), Climbs(f),
           <<f.from, n>> \in Links, n # Destination[f.pkt], HookAccepts(n, f)
    PROVE  Closer(n, f)
<1>1. f.from \in Nodes /\ f.minCost \in Int /\ f.from # n BY OrplAssumption DEF Frame
<1>2. /\ UpwardsCost(n) \in 0 .. NoRoute /\ UpwardsCost(f.from) \in 0 .. NoRoute
      /\ n # Root => MinimumCost < UpwardsCost(n)
  BY <1>1, RootCheapest DEF OrplTypeOK
<1>3. CASE f.upwards
  <2>1. UpwardsCost(n) <= f.minCost BY <1>3 DEF HookAccepts
  <2>2. CASE f.minCost < UpwardsCost(f.from) BY <1>1, <1>2, <1>3, <2>1, <2>2 DEF Closer
  <2>3. CASE f.minCost = NoRoute /\ UpwardsCost(f.from) = NoRoute
    BY <1>2, <1>3, <2>3 DEF Closer, NoRoute
  <2>4. CASE f.from = Root /\ f.minCost <= 0
    BY <1>1, <1>2, <2>1, <2>4, MinimumCostRange DEF NoRoute
  <2>. QED BY <1>3, <2>2, <2>3, <2>4 DEF Climbs
<1>4. CASE ~f.upwards
  BY <1>4, AcceptsBelowSender DEF HookAccepts, Closer
<1>. QED BY <1>3, <1>4

\* f is p as n sends it after path: it ends with the hop, and asks for less than n costs.
SentBy(n, p, path, f) ==
    /\ f.pkt = p
    /\ f.upwards \in BOOLEAN /\ (f.upwards <=> ~DownwardsRoutable(n, Destination[p]))
    /\ f.path = Append(path, [node |-> n, upwards |-> f.upwards])
    /\ LastHop(f) /\ Climbs(f)

LEMMA FramesOfClimb ==
    ASSUME OrplTypeOK, ForwardingCost > 0, NEW n \in Nodes, NEW p \in Packets \cup {Hello}, NEW ttl,
           NEW cost \in 0 .. NoRoute, Reported(n, cost), NEW path \in Seq(Hop),
           NEW f \in FramesOf(n, p, ttl, cost, path)
    PROVE  SentBy(n, p, path, f)
<1>. DEFINE down == DownwardsRoutable(n, Destination[p])
            up == ~down
            costs == IF down THEN {NoRoute} ELSE NextHopCosts(cost)
<1>1. PICK c \in costs, S \in SharedSets(n) :
        f = [pkt |-> p, from |-> n, ttl |-> ttl, upwards |-> ~down, costInd |-> cost,
             minCost |-> c, shared |-> S, path |-> Append(path, [node |-> n, upwards |-> ~down])]
  BY SMTT(30) DEF FramesOf
<1>2. up \in BOOLEAN BY Zenon
<1>3. up => c \in NextHopCosts(cost) BY <1>1, Zenon
<1>4. up <=> ~DownwardsRoutable(n, Destination[p]) BY Zenon
<1>5. f = [pkt |-> p, from |-> n, ttl |-> ttl, upwards |-> up, costInd |-> cost,
           minCost |-> c, shared |-> S, path |-> Append(path, [node |-> n, upwards |-> up])]
  BY <1>1, Zenon
<1>. HIDE DEF down, up, costs
<1>6. /\ f.pkt = p /\ f.from = n /\ f.minCost = c /\ f.upwards = up
      /\ f.path = Append(path, [node |-> n, upwards |-> up])
  BY <1>5, Zenon
<1>7. LastHop(f)
  <2>. DEFINE hop == [node |-> n, upwards |-> up]
  <2>1. hop \in Hop BY <1>2 DEF Hop
  <2>. HIDE DEF hop
  <2>2. Append(path, hop) # <<>> /\ Append(path, hop)[Len(Append(path, hop))] = hop
    <3>1. Len(Append(path, hop)) = Len(path) + 1 /\ Len(path) \in Nat BY <2>1
    <3>. QED BY <2>1, <3>1
  <2>. QED BY <1>6, <2>2 DEF LastHop, hop
<1>8. Climbs(f)
  <2>1. SUFFICES ASSUME up
                 PROVE  \/ c < UpwardsCost(n)
                        \/ c = NoRoute /\ UpwardsCost(n) = NoRoute
                        \/ n = Root /\ c <= 0
    BY <1>6, Zenon DEF Climbs
  <2>2. c \in NextHopCosts(cost) BY <1>3, <2>1
  <2>3. ForwardingCost \in Nat BY OrplAssumption
  <2>4. CASE n # Root
    <3>1. cost = UpwardsCost(n) BY <2>4 DEF Reported
    <3>2. cost = NoRoute \/ c < cost BY <2>2, <2>3 DEF NextHopCosts, NoRoute
    <3>3. cost = NoRoute => c = NoRoute BY <2>2 DEF NextHopCosts
    <3>. QED BY <3>1, <3>2, <3>3
  <2>5. CASE n = Root
    <3>1. cost = 0 \/ cost = MinimumCost BY <2>5, RootCheapest DEF Reported, OrplTypeOK
    <3>2. MinimumCost = ForwardingCost /\ MinimumCost < NoRoute
      BY <2>3, OrplAssumption DEF MinimumCost
    <3>3. cost <= ForwardingCost /\ cost # NoRoute BY <2>3, <3>1, <3>2 DEF NoRoute
    <3>4. c = cost - ForwardingCost BY <2>2, <3>3 DEF NextHopCosts
    <3>. QED BY <2>3, <2>5, <3>3, <3>4
  <2>. QED BY <2>4, <2>5
<1>. QED BY <1>2, <1>4, <1>6, <1>7, <1>8, Zenon DEF SentBy

\* The node that sends a packet on goes on in order from where it accepted it.
LEMMA ForwardedInOrder ==
    ASSUME OrplTypeOK, ForwardingCost > 0, NEW n \in Nodes, NEW h \in Frame, TakenInOrder(n, h),
           n # Destination[h.pkt], HasRoute(n, Destination[h.pkt]), NEW ttl,
           NEW g \in FramesOf(n, h.pkt, ttl, CostTo(n, Destination[h.pkt]), h.path)
    PROVE  SentInOrder(g)
<1>. DEFINE d == Destination[h.pkt]
            hop == [node |-> n, upwards |-> g.upwards]
<1>1. /\ h.pkt \in Packets \cup {Hello} /\ h.path \in Seq(Hop) /\ h.from \in Nodes
      /\ h.upwards \in BOOLEAN
  BY DEF Frame
<1>2. CostTo(n, d) \in 0 .. NoRoute /\ Reported(n, CostTo(n, d))
  BY CostToTyped, CostToReported DEF OrplTypeOK
<1>3. /\ g.pkt = h.pkt /\ g.upwards \in BOOLEAN /\ (g.upwards <=> ~DownwardsRoutable(n, d))
      /\ g.path = Append(h.path, hop) /\ LastHop(g) /\ Climbs(g)
  <2>1. ASSUME NEW p \in Packets \cup {Hello}, NEW cost \in 0 .. NoRoute, Reported(n, cost),
               NEW path \in Seq(Hop), NEW f \in FramesOf(n, p, ttl, cost, path)
        PROVE  SentBy(n, p, path, f)
    BY <2>1, FramesOfClimb
  <2>2. SentBy(n, h.pkt, h.path, g) BY <1>1, <1>2, <2>1
  <2>. QED BY <2>2, Zenon DEF SentBy
<1>4. h.pkt # Hello /\ LastHop(h) /\ PathInOrder(h.path) /\ Closer(n, h) BY DEF TakenInOrder
<1>5. hop \in Hop BY <1>3 DEF Hop
<1>6. ASSUME h.path[Len(h.path)].upwards = hop.upwards
      PROVE  Toward(h.path[Len(h.path)], hop)
  <2>1. h.upwards = g.upwards BY <1>4, <1>6 DEF LastHop
  <2>2. h.path[Len(h.path)].node = h.from /\ h.path[Len(h.path)].upwards = h.upwards
    BY <1>4 DEF LastHop
  <2>3. h.upwards => UpwardsCost(n) < UpwardsCost(h.from)
    <3>1. SUFFICES ASSUME h.upwards, UpwardsCost(n) = NoRoute PROVE FALSE
      BY <1>4 DEF Closer
    <3>2. CostTo(n, d) < NoRoute BY <1>3, <2>1, <3>1, Zenon DEF HasRoute
    <3>3. n # Root BY <3>1, RootCheapest DEF OrplTypeOK, NoRoute
    <3>4. CostTo(n, d) = UpwardsCost(n) BY <1>2, <3>3 DEF Reported
    <3>. QED BY <3>1, <3>2, <3>4 DEF NoRoute
  <2>4. ~h.upwards => UpwardsCost(h.from) < UpwardsCost(n) BY <1>4 DEF Closer
  <2>. QED BY <2>2, <2>3, <2>4 DEF Toward
<1>7. PathInOrder(g.path) BY <1>1, <1>3, <1>4, <1>5, <1>6, PathExtended, Zenon
<1>. QED BY <1>3, <1>4, <1>7 DEF SentInOrder

\* The repetition for the destination, with the minimum cost 0, is still for nodes nearer.
LEMMA RepeatedInOrder ==
    ASSUME OrplTypeOK, NEW g \in Frame, g.pkt # Hello, SentInOrder(g)
    PROVE  SentInOrder([g EXCEPT !.minCost = IF @ < 0 THEN @ ELSE 0])
<1>. DEFINE h == [g EXCEPT !.minCost = IF @ < 0 THEN @ ELSE 0]
<1>1. /\ h.pkt = g.pkt /\ h.from = g.from /\ h.upwards = g.upwards /\ h.path = g.path
      /\ h.minCost = (IF g.minCost < 0 THEN g.minCost ELSE 0)
      /\ g.minCost \in Int /\ g.from \in Nodes
  BY DEF Frame
<1>. HIDE DEF h
<1>2. LastHop(h) BY <1>1 DEF SentInOrder, LastHop
<1>3. Climbs(h)
  <2>1. /\ UpwardsCost(g.from) \in 0 .. NoRoute
        /\ g.from # Root => 0 < UpwardsCost(g.from)
    BY <1>1, RootCheapest, MinimumCostRange DEF OrplTypeOK, NoRoute
  <2>2. h.minCost <= 0 /\ h.minCost \in Int BY <1>1
  <2>. QED BY <1>1, <2>1, <2>2 DEF Climbs, NoRoute
<1>. QED BY <1>1, <1>2, <1>3 DEF SentInOrder, h

\* What was said of frames and paths stays true while costs do.
LEMMA OrderKept ==
    ASSUME OrplTypeOK, \A n \in Nodes : UpwardsCost(n)' = UpwardsCost(n), NEW f \in Frame
    PROVE  /\ SentInOrder(f) => SentInOrder(f)'
           /\ \A n \in Nodes : TakenInOrder(n, f) => TakenInOrder(n, f)'
<1>1. f.path \in Seq(Hop) /\ f.from \in Nodes BY DEF Frame
<1>2. \A i \in DOMAIN f.path : f.path[i] \in Hop BY <1>1
<1>3. \A x, y \in Hop : Toward(x, y)' <=> Toward(x, y) BY DEF Toward, Hop
<1>4. PathInOrder(f.path) => PathInOrder(f.path)'
  BY <1>2, <1>3 DEF PathInOrder, SameWay
<1>5. LastHop(f)' <=> LastHop(f) BY DEF LastHop
<1>6. Climbs(f)' <=> Climbs(f) BY <1>1 DEF Climbs
<1>7. \A n \in Nodes : Closer(n, f)' <=> Closer(n, f) BY <1>1 DEF Closer
<1>. QED BY <1>4, <1>5, <1>6, <1>7 DEF SentInOrder, TakenInOrder

\* Each step makes frames in order, and has a node accept them from its side.
LEMMA PathsStep ==
    ASSUME Settled, ForwardingCost > 0, OrplTypeOK, SetsInv, PathsInv, [OrplNext]_ovars
    PROVE  PathsInv'
<1>1. \A n \in Nodes : UpwardsCost(n)' = UpwardsCost(n) BY CostKept
<1>2. OrplTypeOK' BY OrplTypeStep
<1>3. OnTheirWay \subseteq Frame /\ OnTheirWay' \subseteq Frame
  BY <1>2 DEF OnTheirWay, OrplTypeOK
<1>4. SUFFICES /\ \A f \in OnTheirWay' : SentInOrder(f)
               /\ \A m \in Nodes : accepted'[m] # NoPacket => TakenInOrder(m, accepted'[m])
  <2>1. ASSUME NEW f \in Frame
        PROVE  /\ SentInOrder(f) => SentInOrder(f)'
               /\ \A n \in Nodes : TakenInOrder(n, f) => TakenInOrder(n, f)'
    BY <1>1, OrderKept
  <2>2. \A n \in Nodes : accepted'[n] # NoPacket => accepted'[n] \in Frame
    BY <1>2 DEF OrplTypeOK
  <2>. QED BY <1>3, <2>1, <2>2, Zenon DEF PathsInv
<1>. DEFINE Sent == \A f \in OnTheirWay' : SentInOrder(f)
            Taken == \A m \in Nodes : accepted'[m] # NoPacket => TakenInOrder(m, accepted'[m])
<1>5. /\ \A f \in OnTheirWay : SentInOrder(f)
      /\ \A m \in Nodes : accepted[m] # NoPacket => TakenInOrder(m, accepted[m])
  BY DEF PathsInv
<1>6. CASE UNCHANGED <<air, waitingPacket, accepted>> BY <1>5, <1>6 DEF OnTheirWay
<1>7. ASSUME NEW n \in Nodes, SendHello(n) PROVE Sent /\ Taken
  <2>1. PICK g : air' = air \cup {g} /\ g.pkt = Hello /\ g.path = <<>>
    <3>. DEFINE hello(S) ==
            [pkt |-> Hello, from |-> n, ttl |-> InitialTTL, upwards |-> TRUE,
             costInd |-> UpwardsCost(n), minCost |-> NoRoute, shared |-> S, path |-> <<>>]
    <3>1. PICK S \in SharedSets(n) : air' = air \cup {hello(S)} BY <1>7, Zenon DEF SendHello
    <3>2. hello(S).pkt = Hello /\ hello(S).path = <<>> OBVIOUS
    <3>. HIDE DEF hello
    <3>. QED BY <3>1, <3>2, Zenon
  <2>2. \A f \in OnTheirWay' : f \in OnTheirWay \/ f = g
    BY <1>7, <2>1 DEF SendHello, OnTheirWay
  <2>. QED BY <1>5, <1>7, <2>1, <2>2 DEF SendHello, SentInOrder
<1>8. ASSUME NEW n \in Nodes, NEW p \in Packets, HandleUpperPacket(n, p) PROVE Sent /\ Taken
  <2>1. PICK g \in FramesOf(n, p, InitialTTL, UpwardsCost(n), <<>>) : air' = air \cup {g}
    BY <1>8 DEF HandleUpperPacket
  <2>2. UpwardsCost(n) \in 0 .. NoRoute /\ Reported(n, UpwardsCost(n))
    BY RootCheapest DEF OrplTypeOK, Reported
  <2>3. <<>> \in Seq(Hop) /\ p # Hello /\ PathInOrder(<<>>)
    BY OrplAssumption DEF PathInOrder
  <2>4. /\ g.pkt = p /\ g.upwards \in BOOLEAN /\ LastHop(g) /\ Climbs(g)
        /\ g.path = Append(<<>>, [node |-> n, upwards |-> g.upwards])
    <3>1. ASSUME NEW cost \in 0 .. NoRoute, Reported(n, cost), NEW path \in Seq(Hop),
                 NEW f \in FramesOf(n, p, InitialTTL, cost, path)
          PROVE  SentBy(n, p, path, f)
      <4>1. p \in Packets \cup {Hello} OBVIOUS
      <4>. QED BY <3>1, <4>1, FramesOfClimb
    <3>2. SentBy(n, p, <<>>, g) BY <2>1, <2>2, <2>3, <3>1
    <3>. QED BY <3>2, Zenon DEF SentBy
  <2>5. [node |-> n, upwards |-> g.upwards] \in Hop BY <2>4 DEF Hop
  <2>6. PathInOrder(g.path) BY <2>3, <2>4, <2>5, PathExtended
  <2>7. SentInOrder(g) BY <2>3, <2>4, <2>6 DEF SentInOrder
  <2>8. \A f \in OnTheirWay' : f \in OnTheirWay \/ f = g
    BY <1>8, <2>1 DEF HandleUpperPacket, OnTheirWay
  <2>. QED BY <1>5, <1>8, <2>7, <2>8 DEF HandleUpperPacket
<1>9. ASSUME NEW n \in Nodes, NEW f \in air, DatagramPreRoutingHook(n, f) PROVE Sent /\ Taken
  <2>1. /\ f \in Frame /\ f.pkt # Hello /\ <<f.from, n>> \in Links /\ HookAccepts(n, f)
        /\ SentInOrder(f)
    BY <1>5, <1>9 DEF DatagramPreRoutingHook, OnTheirWay, OrplTypeOK
  <2>2. Reported(f.from, f.costInd) BY DEF SetsInv, FramesSound, FrameSound, OnTheirWay
  <2>3. TakenInOrder(n, f)
    <3>1. n # Destination[f.pkt] => Closer(n, f) BY <2>1, <2>2, HookCloser DEF SentInOrder
    <3>. QED BY <2>1, <3>1 DEF SentInOrder, TakenInOrder
  <2>4. /\ WithoutSet(f).pkt = f.pkt /\ WithoutSet(f).from = f.from
        /\ WithoutSet(f).upwards = f.upwards /\ WithoutSet(f).path = f.path
    BY <2>1 DEF WithoutSet, Frame
  <2>5. TakenInOrder(n, WithoutSet(f)) BY <2>3, <2>4 DEF TakenInOrder, LastHop, Closer
  <2>6. Taken BY <1>5, <1>9, <2>5 DEF DatagramPreRoutingHook, OrplTypeOK
  <2>. QED BY <1>5, <1>9, <2>6 DEF DatagramPreRoutingHook, OnTheirWay
<1>10. ASSUME NEW n \in Nodes, ForwardPacket(n) PROVE Sent /\ Taken
  <2>. DEFINE h == accepted[n]
  <2>1. /\ h \in Frame /\ TakenInOrder(n, h) /\ n # Destination[h.pkt]
        /\ HasRoute(n, Destination[h.pkt])
    BY <1>5, <1>10 DEF ForwardPacket, OrplTypeOK
  <2>2. PICK g \in FramesOf(n, h.pkt, h.ttl - 1, CostTo(n, Destination[h.pkt]), h.path) :
          waitingPacket' = [waitingPacket EXCEPT ![n] = g]
    BY <1>10 DEF ForwardPacket
  <2>3. SentInOrder(g)
    <3>. HIDE DEF h
    <3>. QED BY <2>1, <2>2, ForwardedInOrder
  <2>4. \A f \in OnTheirWay' : f \in OnTheirWay \/ f = g
    BY <1>10, <2>2 DEF ForwardPacket, OnTheirWay, OrplTypeOK
  <2>5. Taken BY <1>5, <1>10 DEF ForwardPacket, OrplTypeOK
  <2>. QED BY <1>5, <2>3, <2>4, <2>5
<1>11. ASSUME NEW n \in Nodes, DeliverOrDrop(n) PROVE Sent /\ Taken
  BY <1>5, <1>11 DEF DeliverOrDrop, OnTheirWay, OrplTypeOK
<1>12. ASSUME NEW n \in Nodes, SendWaiting(n) PROVE Sent /\ Taken
  BY <1>5, <1>12 DEF SendWaiting, OnTheirWay, OrplTypeOK
<1>13. ASSUME NEW n \in Nodes, LinkDone(n) PROVE Sent /\ Taken
  BY <1>5, <1>13 DEF LinkDone, OnTheirWay
<1>14. ASSUME NEW g \in air, RepeatToDestination(g) PROVE Sent /\ Taken
  <2>. DEFINE h == [g EXCEPT !.minCost = IF @ < 0 THEN @ ELSE 0]
  <2>1. \A f \in OnTheirWay' : f \in OnTheirWay \/ f = h
    BY <1>14 DEF RepeatToDestination, OnTheirWay
  <2>2. g \in Frame /\ g.pkt # Hello /\ SentInOrder(g)
    BY <1>5, <1>14 DEF RepeatToDestination, OnTheirWay, OrplTypeOK
  <2>3. SentInOrder(h) BY <2>2, RepeatedInOrder
  <2>. QED BY <1>5, <1>14, <2>1, <2>3 DEF RepeatToDestination
<1>. QED
  BY <1>6, <1>7, <1>8, <1>9, <1>10, <1>11, <1>12, <1>13, <1>14
  DEF OrplNext, ovars, ReceiveRoutingSet, UpdateEncounters, ActivateWarmUpRoutingData,
      EstimateChanges

\* With settled estimates and a positive forwarding cost, no packet comes back
\* to a node that sent it without a turn of its direction in between, however
\* many nodes there are and whatever they remember (LoopsOnlyByTurning).
THEOREM PacketsLoopOnlyByTurning == OrplSpec => []LoopsOnlyByTurning
<1>. DEFINE IInv == OrplTypeOK /\ SetsInv /\ PathsInv
<1>1. OrplInit => IInv
  <2>1. ASSUME OrplInit PROVE PathsInv BY <2>1 DEF OrplInit, PathsInv, OnTheirWay
  <2>. QED BY <2>1, OrplTypeInit, SetsInit
<1>2. IInv /\ [OrplNext]_ovars => IInv'
  <2>1. SUFFICES ASSUME IInv, [OrplNext]_ovars PROVE IInv' OBVIOUS
  <2>2. ASSUME Settled PROVE LearntBelow' /\ MetAsReported' /\ FramesSound'
    BY <2>1, <2>2, LearntStep, MetStep, FramesStep DEF SetsInv
  <2>3. PathsInv'
    <3>1. CASE Settled /\ ForwardingCost > 0 BY <2>1, <3>1, PathsStep
    <3>2. CASE ~(Settled /\ ForwardingCost > 0) BY <3>2 DEF PathsInv, Settled
    <3>. QED BY <3>1, <3>2
  <2>. QED BY <2>1, <2>2, <2>3, OrplTypeStep DEF SetsInv
<1>3. IInv => LoopsOnlyByTurning
  <2>1. SUFFICES ASSUME IInv, Settled, ForwardingCost > 0, NEW f \in OnTheirWay
                 PROVE  Turns(f.path)
    BY DEF LoopsOnlyByTurning
  <2>2. f \in Frame /\ SentInOrder(f) BY <2>1 DEF OnTheirWay, OrplTypeOK, PathsInv
  <2>3. f.path \in Seq(Hop) BY <2>2 DEF Frame
  <2>4. PathInOrder(f.path) BY <2>2 DEF SentInOrder, PathInOrder
  <2>. QED BY <2>1, <2>3, <2>4, InOrderTurns
<1>. QED BY <1>1, <1>2, <1>3, PTL DEF OrplSpec

=============================================================================
