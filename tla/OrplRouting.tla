---------------------------- MODULE OrplRouting ----------------------------
(***************************************************************************)
(* ORPLRouting over ORPLRoutingTable: downwards routing.  Nodes share the  *)
(* addresses that lie below them in the frames they send; a node that      *)
(* hears them from a sender below itself keeps them for the next period.   *)
(* A packet whose destination a node knows to be below goes downwards,     *)
(* every other packet goes up to the root as in CostGradient.              *)
(*                                                                         *)
(* "air" holds the frames that link layers have or transmit: a node in     *)
(* range may hear one, or accept it, at any time until its link layer is   *)
(* done with it, and be handed an accepted one at any time after.          *)
(* Numbering, duplicates and lifecycle are those of ORWRouting.            *)
(***************************************************************************)
EXTENDS Integers, Sequences, FiniteSets

CONSTANTS
    Nodes,              \* addresses
    Root,               \* rootAddress
    Links,              \* pairs of nodes of which the second hears the first
    Meetings,           \* bound: those of which the second counts encounters
    Packets,            \* packets with payload, each sent once
    Hello,              \* a broadcast of ORWHello
    Helloing,           \* nodes that send them
    Origin,             \* the node whose application sends a packet
    Destination,        \* the address it is for
    InitialTTL,         \* initialTTL
    ForwardingCost,     \* forwardingCost, in ExpectedCost (tenths of an EqDC)
    Estimates,          \* values of calculateCostToRoot
    InitialEstimates,   \* those of the nodes at first
    Unsettled,          \* nodes whose estimate has not converged and may change
    MaxFrames,          \* bound: frames of one node in air
    MaxInteractions,    \* bound: 1 leaves out what more than two interactions add
    NoPacket

NoRoute == 255

\* The least cost that is reported for a hop.
MinimumCost == IF ForwardingCost < 1 THEN 1 ELSE ForwardingCost

(***************************************************************************)
(* The estimate is a real number; it is kept in twentieths of an EqDC, an  *)
(* odd one standing for all between two ExpectedCosts.  One hop costs at   *)
(* least one duty cycle, so a cost off the root exceeds MinimumCost.       *)
(***************************************************************************)
ASSUME OrplAssumption ==
    /\ Root \in Nodes
    /\ Links \subseteq Nodes \X Nodes /\ \A n \in Nodes : <<n, n>> \notin Links
    /\ Meetings \subseteq Links
    /\ Hello \notin Packets /\ Helloing \subseteq Nodes
    /\ Origin \in [Packets -> Nodes] /\ Destination \in [Packets -> Nodes]
    /\ InitialTTL \in 1 .. 255
    /\ ForwardingCost \in Nat /\ ForwardingCost < NoRoute
    /\ Estimates \subseteq Nat
    /\ InitialEstimates \subseteq [Nodes -> Estimates]
    /\ \A e \in Estimates : e \div 2 + ForwardingCost > MinimumCost
    /\ Unsettled \subseteq Nodes
    /\ MaxFrames \in Nat /\ MaxInteractions \in 1 .. 2

\* Nobody asks the root for what it has estimated of itself.
Settled == Unsettled \subseteq {Root}

VARIABLES
    costToRoot,         \* calculateCostToRoot of each node, in twentieths
    encountersTable,    \* direct neighbours, by node and address
    routingSetTable,    \* addresses learnt from shared sets, likewise
    air,                \* frames with the link layers
    accepted,           \* the frame a node's hook has accepted, to be handed up
    waitingPacket,      \* the packet waiting to be forwarded
    sent                \* packets that applications have sent

ovars == <<costToRoot, encountersTable, routingSetTable, air, accepted, waitingPacket, sent>>

(***************************************************************************)
(* NeighborEntry: recentInteractionProb is kept as whether it is positive, *)
(* interactionsTotal as whether it is positive (Few) and exceeds 2 (Many). *)
(***************************************************************************)
Few == 1
Many == 2

Interactions == 0 .. MaxInteractions

NeighborEntry == [interactionsTotal : Interactions, active : BOOLEAN, lastEqDC : 0 .. NoRoute]

DefaultEntry == [interactionsTotal |-> 0, active |-> FALSE, lastEqDC |-> NoRoute]

(***************************************************************************)
(* The header fields that are read: costInd and minCost of the link layer, *)
(* upwards of both, the routing set option.  "path" lists the nodes that   *)
(* sent the packet on, each with the direction it chose.                   *)
(***************************************************************************)
Hop == [node : Nodes, upwards : BOOLEAN]

Frame == [pkt : Packets \cup {Hello}, from : Nodes, ttl : 1 .. InitialTTL, upwards : BOOLEAN,
          costInd : 0 .. NoRoute, minCost : Int, shared : SUBSET Nodes, path : Seq(Hop)]

ASSUME OrplNoPacketAssumption == NoPacket \notin Frame

OrplInit ==
    /\ costToRoot \in InitialEstimates
    /\ encountersTable = [n \in Nodes |-> [d \in Nodes |-> DefaultEntry]]
    /\ routingSetTable = [n \in Nodes |-> [d \in Nodes |-> DefaultEntry]]
    /\ air = {}
    /\ accepted = [n \in Nodes |-> NoPacket]
    /\ waitingPacket = [n \in Nodes |-> NoPacket]
    /\ sent = {}
-----------------------------------------------------------------------------
Capped(c) == IF c < NoRoute THEN c ELSE NoRoute

\* calculateUpwardsCost(destination)
CostTo(n, d) ==
    IF n = d THEN 0
    ELSE IF n = Root THEN Capped(MinimumCost)
    ELSE Capped(costToRoot[n] \div 2 + ForwardingCost)

UpwardsCost(n) == CostTo(n, Root)

\* nextHopEqDC, of which the conversion may lose a tenth; see CostGradient.  A
\* root of cost 0 asks for a negative one, which fails the assertion ORWMac.cc:308
\* of a debug build; a release build sends it, and so does the model.
NextHopCosts(cost) ==
    IF cost = NoRoute THEN {NoRoute}
    ELSE IF cost <= ForwardingCost THEN {cost - ForwardingCost}
    ELSE {cost - ForwardingCost, cost - ForwardingCost - 1}

IsNeighborEntryActive(entry) == entry.active \/ entry.interactionsTotal = Many

\* The neighbour is at least as expensive as this node before its own forwarding cost.
ImmediateNeighborBelow(n, d) ==
    /\ IsNeighborEntryActive(encountersTable[n][d])
    /\ 2 * encountersTable[n][d].lastEqDC >= costToRoot[n]

CalculateDownwardsCost(n, d) ==
    IF n = d THEN 0
    ELSE IF ImmediateNeighborBelow(n, d) THEN MinimumCost
    ELSE IF IsNeighborEntryActive(routingSetTable[n][d]) THEN 2 * MinimumCost
    ELSE NoRoute

DownwardsRoutable(n, d) == CalculateDownwardsCost(n, d) < NoRoute

(***************************************************************************)
(* getRoute's entries of both tables, as pairs of address and metric.      *)
(***************************************************************************)
Routes(n) ==
    UNION {{<<d, table[n][d].lastEqDC>> : d \in {x \in Nodes : table[n][x].active}} :
           table \in {encountersTable, routingSetTable}}

IsShared(n, route) == route[2] >= UpwardsCost(n) + ForwardingCost

SharingRoutingSet(n) == {route[1] : route \in {x \in Routes(n) : IsShared(n, x)}}

ExcludedRoutingSet(n) == {route[1] : route \in {x \in Routes(n) : ~IsShared(n, x)}}

\* setDownControlInfo adds the routing set at random.
SharedSets(n) == {{}, SharingRoutingSet(n)}

-----------------------------------------------------------------------------
\* handleLowerPacket deletes the routing set from the packet it is handed.
WithoutSet(f) == [f EXCEPT !.shared = {}]

HasRoom(n) == Cardinality({f \in air : f.from = n}) < MaxFrames

(***************************************************************************)
(* A packet as n sends it: checkDownwardsRoutableAndTag, then the header's *)
(* direction, the costs and the routing set.                               *)
(***************************************************************************)
FramesOf(n, p, ttl, cost, path) ==
    LET down == DownwardsRoutable(n, Destination[p])
    IN  {[pkt |-> p, from |-> n, ttl |-> ttl, upwards |-> ~down, costInd |-> cost,
          minCost |-> c, shared |-> S, path |-> Append(path, [node |-> n, upwards |-> ~down])] :
            c \in IF down THEN {NoRoute} ELSE NextHopCosts(cost), S \in SharedSets(n)}

SendHello(n) ==
    /\ n \in Helloing /\ HasRoom(n)
    /\ \E S \in SharedSets(n) :
        air' = air \cup {[pkt |-> Hello, from |-> n, ttl |-> InitialTTL, upwards |-> TRUE,
                          costInd |-> UpwardsCost(n), minCost |-> NoRoute, shared |-> S,
                          path |-> <<>>]}
    /\ UNCHANGED <<costToRoot, encountersTable, routingSetTable, accepted, waitingPacket, sent>>

HandleUpperPacket(n, p) ==
    /\ Origin[p] = n /\ p \notin sent /\ HasRoom(n)
    /\ \E f \in FramesOf(n, p, InitialTTL, UpwardsCost(n), <<>>) : air' = air \cup {f}
    /\ sent' = sent \cup {p}
    /\ UNCHANGED <<costToRoot, encountersTable, routingSetTable, accepted, waitingPacket>>

\* Fault: whoever knows the destination accepts a packet that goes down.
HookAcceptsFromBelow(n, f) ==
    \/ n = Destination[f.pkt]
    \/ f.upwards /\ UpwardsCost(n) <= f.minCost
    \/ ~f.upwards /\ DownwardsRoutable(n, Destination[f.pkt])

(***************************************************************************)
(* ORWRoutingTable's answer for the destination and for packets that go    *)
(* up, then ORPLRoutingTable's for those that go down.  A link layer       *)
(* stores one accepted frame, which only its transmitter's next replaces.  *)
(***************************************************************************)
HookAccepts(n, f) ==
    \/ n = Destination[f.pkt]
    \/ f.upwards /\ UpwardsCost(n) <= f.minCost
    \/ /\ ~f.upwards
       /\ f.costInd < UpwardsCost(n)
       /\ DownwardsRoutable(n, Destination[f.pkt])

DatagramPreRoutingHook(n, f) ==
    /\ f.pkt # Hello /\ <<f.from, n>> \in Links
    /\ accepted[n] # NoPacket => accepted[n].from = f.from
    /\ HookAccepts(n, f)
    /\ accepted' = [accepted EXCEPT ![n] = WithoutSet(f)]
    /\ UNCHANGED <<costToRoot, encountersTable, routingSetTable, air, waitingPacket, sent>>

(***************************************************************************)
(* The destination's acknowledgment was heard: the transmitter repeats the *)
(* data with the minimum expected cost 0.                                  *)
(***************************************************************************)
RepeatToDestination(f) ==
    /\ f.pkt # Hello /\ accepted[Destination[f.pkt]] = WithoutSet(f)
    /\ air' = (air \ {f}) \cup {[f EXCEPT !.minCost = IF @ < 0 THEN @ ELSE 0]}
    /\ UNCHANGED <<costToRoot, encountersTable, routingSetTable, accepted, waitingPacket, sent>>

\* Fault: the hop limit is not looked at until it is negative.
QueueExhausted(n, f) == waitingPacket[n] = NoPacket /\ f.ttl - 1 >= 0

\* The condition of queueDelayed, with the header advanced.
MayQueue(n, f) == waitingPacket[n] = NoPacket /\ f.ttl - 1 > 0

\* The table knows a next hop, up or down.
HasRoute(n, d) == DownwardsRoutable(n, d) \/ CostTo(n, d) < NoRoute

\* handleLowerPacket away from the destination: the direction is decided again.
ForwardPacket(n) ==
    LET f == accepted[n] IN
    /\ f # NoPacket /\ n # Destination[f.pkt]
    /\ HasRoute(n, Destination[f.pkt]) /\ MayQueue(n, f)
    /\ \E g \in FramesOf(n, f.pkt, f.ttl - 1, CostTo(n, Destination[f.pkt]), f.path) :
        waitingPacket' = [waitingPacket EXCEPT ![n] = g]
    /\ accepted' = [accepted EXCEPT ![n] = NoPacket]
    /\ UNCHANGED <<costToRoot, encountersTable, routingSetTable, air, sent>>

\* Delivered, or dropped without a route, a free slot or a hop left.
DeliverOrDrop(n) ==
    LET f == accepted[n] IN
    /\ f # NoPacket
    /\ \/ n = Destination[f.pkt]
       \/ ~HasRoute(n, Destination[f.pkt])
       \/ ~MayQueue(n, f)
    /\ accepted' = [accepted EXCEPT ![n] = NoPacket]
    /\ UNCHANGED <<costToRoot, encountersTable, routingSetTable, air, waitingPacket, sent>>

SendWaiting(n) ==
    /\ waitingPacket[n] # NoPacket /\ HasRoom(n)
    /\ air' = air \cup {waitingPacket[n]}
    /\ waitingPacket' = [waitingPacket EXCEPT ![n] = NoPacket]
    /\ UNCHANGED <<costToRoot, encountersTable, routingSetTable, accepted, sent>>

\* n's link layer has sent or dropped a packet.
LinkDone(n) ==
    /\ \E f \in air : f.from = n /\ air' = air \ {f}
    /\ UNCHANGED <<costToRoot, encountersTable, routingSetTable, accepted, waitingPacket, sent>>
-----------------------------------------------------------------------------
\* interactionsTotal++, or += a weight of at most 1
Counted(total) == {t \in Interactions : t >= Few /\ t >= total}

\* The costs that d's acknowledgments and frames report.
IndicatedCosts(d) == {UpwardsCost(d)} \cup {f.costInd : f \in {g \in air : g.from = d}}

\* updateEncounters
UpdateEncounters(n, d) ==
    /\ <<d, n>> \in Meetings
    /\ \E cost \in IndicatedCosts(d), total \in Counted(encountersTable[n][d].interactionsTotal) :
        encountersTable' = [encountersTable EXCEPT ![n][d] =
            [@ EXCEPT !.interactionsTotal = total, !.lastEqDC = cost]]
    /\ UNCHANGED <<costToRoot, routingSetTable, air, accepted, waitingPacket, sent>>

\* Fault: sets are learnt from whoever shares them.
SharedByAnyone(n, f) == f.shared # {}

\* Observed routing set is downwards from this node.
SharedFromBelow(n, f) ==
    f.shared # {} /\ f.costInd >= UpwardsCost(n) + ForwardingCost

\* addToDownwardsWarmupSet keeps the highest cost since the last period.
AddedToWarmup(entry, cost, total) ==
    [entry EXCEPT
        !.interactionsTotal = total,
        !.lastEqDC = IF entry.interactionsTotal = 0 \/ @ < cost \/ @ = NoRoute THEN cost ELSE @]

\* receiveSignal(packetReceivedFromLower)
ReceiveRoutingSet(n, f) ==
    /\ <<f.from, n>> \in Links
    /\ SharedFromBelow(n, f)
    /\ \E total \in [f.shared -> Interactions] :
        /\ \A d \in f.shared : total[d] \in Counted(routingSetTable[n][d].interactionsTotal)
        /\ routingSetTable' = [routingSetTable EXCEPT ![n] = [d \in Nodes |->
            IF d \in f.shared THEN AddedToWarmup(@[d], f.costInd, total[d]) ELSE @[d]]]
    /\ UNCHANGED <<costToRoot, encountersTable, air, accepted, waitingPacket, sent>>

\* Fault: an address reported at this node's own cost is kept as well.
ActivatedAtOwnCost(entry, own) ==
    [entry EXCEPT !.active = entry.interactionsTotal > 0 /\ entry.lastEqDC >= own,
                  !.interactionsTotal = 0]

Activated(entry, own) ==
    [entry EXCEPT !.active = entry.interactionsTotal > 0 /\ entry.lastEqDC > own,
                  !.interactionsTotal = 0]

\* calculateInteractionProbability
Reactivated(entry) ==
    [entry EXCEPT !.active = entry.interactionsTotal > 0, !.interactionsTotal = 0]

(***************************************************************************)
(* activateWarmUpRoutingData ends a period: what was not heard in it is    *)
(* forgotten.  The estimate is computed anew.                              *)
(***************************************************************************)
ActivateWarmUpRoutingData(n) ==
    /\ routingSetTable' = [routingSetTable EXCEPT ![n] =
            [d \in Nodes |-> Activated(@[d], UpwardsCost(n))]]
    /\ encountersTable' = [encountersTable EXCEPT ![n] = [d \in Nodes |->
            Reactivated(@[d])]]
    /\ UNCHANGED <<costToRoot, air, accepted, waitingPacket, sent>>

EstimateChanges(n) ==
    /\ n \in Unsettled
    /\ \E e \in Estimates : costToRoot' = [costToRoot EXCEPT ![n] = e]
    /\ UNCHANGED <<encountersTable, routingSetTable, air, accepted, waitingPacket, sent>>

OrplNext ==
    \/ \E n \in Nodes :
        \/ SendHello(n)
        \/ \E p \in Packets : HandleUpperPacket(n, p)
        \/ \E f \in air : DatagramPreRoutingHook(n, f) \/ ReceiveRoutingSet(n, f)
        \/ ForwardPacket(n)
        \/ DeliverOrDrop(n)
        \/ SendWaiting(n)
        \/ LinkDone(n)
        \/ \E d \in Nodes : UpdateEncounters(n, d)
        \/ ActivateWarmUpRoutingData(n)
        \/ EstimateChanges(n)
    \/ \E f \in air : RepeatToDestination(f)

OrplSpec == OrplInit /\ [][OrplNext]_ovars

(***************************************************************************)
(* A node that sends hellos ends its period again and again, and its link  *)
(* layer gets done with every frame (see ORWMac).                          *)
(***************************************************************************)
OrplFairSpec ==
    /\ OrplSpec
    /\ \A n \in Nodes : WF_ovars(ActivateWarmUpRoutingData(n)) /\ WF_ovars(LinkDone(n))
-----------------------------------------------------------------------------
OnTheirWay == air \cup ({waitingPacket[n] : n \in Nodes} \ {NoPacket})

Known(entry) == entry.active \/ entry.interactionsTotal > 0

(***************************************************************************)
(* Type invariant.  The hop limit of a frame never runs out: a relay only  *)
(* queues what it may still send.                                          *)
(***************************************************************************)
OrplTypeOK ==
    /\ costToRoot \in [Nodes -> Estimates]
    /\ encountersTable \in [Nodes -> [Nodes -> NeighborEntry]]
    /\ routingSetTable \in [Nodes -> [Nodes -> NeighborEntry]]
    /\ air \subseteq Frame
    /\ accepted \in [Nodes -> Frame \cup {NoPacket}]
    /\ waitingPacket \in [Nodes -> Frame \cup {NoPacket}]
    /\ sent \subseteq Packets

\* d lies below n, and the cost c that n remembers of it between the two.
Below(n, d, c) ==
    /\ d # Root
    /\ UpwardsCost(n) + ForwardingCost <= c
    /\ c <= UpwardsCost(d)

\* Whatever n has learnt of is below it, and what is shared below the sender.
RoutingSetBelow ==
    /\ \A n, d \in Nodes :
        LET entry == routingSetTable[n][d]
        IN  Known(entry) => Below(n, d, entry.lastEqDC)
    /\ \A f \in OnTheirWay : \A d \in f.shared : d # Root /\ f.costInd <= UpwardsCost(d)

\* "Potential routing loop" (ORPLRouting.cc:124-132)
NoPotentialLoop == \A n \in Nodes : SharingRoutingSet(n) \cap ExcludedRoutingSet(n) = {}

(***************************************************************************)
(* Once the estimates have settled, whatever a node learns from shared     *)
(* sets is really below it: through any number of nodes that pass the      *)
(* address on, and however late a frame is heard, the cost remembered of   *)
(* an address lies between the node's own and the one of the address.  So  *)
(* getSharingRoutingSet never finds an address to be shared by one table   *)
(* and excluded by the other.                                              *)
(***************************************************************************)
RoutingSetsConsistent == Settled => RoutingSetBelow /\ NoPotentialLoop

\* The most that d reports of itself: a packet that the root sends on reports a hop.
MostReported(d) == IF d = Root THEN MinimumCost ELSE UpwardsCost(d)

(***************************************************************************)
(* A relay that accepts a packet going downwards lies below its sender     *)
(* and, up to one forwarding cost, above what the destination reports.     *)
(***************************************************************************)
AcceptedBetween ==
    Settled => \A n \in Nodes :
        LET f == accepted[n]
        IN  f # NoPacket /\ ~f.upwards /\ n # Destination[f.pkt] =>
                /\ UpwardsCost(f.from) < UpwardsCost(n)
                /\ UpwardsCost(n) <= MostReported(Destination[f.pkt]) + ForwardingCost

\* Between two visits of a node the packet has turned.
Turns(path) ==
    \A i, j \in DOMAIN path :
        i < j /\ path[i].node = path[j].node =>
            \E k \in i .. j - 1 : path[k].upwards # path[k + 1].upwards

(***************************************************************************)
(* With settled estimates and a positive forwarding cost no packet comes   *)
(* back to a node that sent it without having turned from up to down, or   *)
(* back up where a routing set forgot the destination in the meantime.     *)
(***************************************************************************)
LoopsOnlyByTurning ==
    Settled /\ ForwardingCost > 0 => \A f \in OnTheirWay : Turns(f.path)

\* Nobody meets d any more.
Left(d) == \A n \in Nodes : ~Known(encountersTable[n][d])

Forgotten(d) == \A n \in Nodes : ~routingSetTable[n][d].active

(***************************************************************************)
(* Nodes remind each other of addresses.  Once a node has left, and the    *)
(* estimates have settled, it is forgotten by all: nobody keeps it alive   *)
(* by hearing it back from a node it told.                                 *)
(***************************************************************************)
LeftIsForgotten == \A d \in Nodes : <>[]Left(d) => <>[]Forgotten(d)

=============================================================================
