----------------------------- MODULE ORWRouting -----------------------------
(***************************************************************************)
(* The network layer of ORW, networklayer/ORWRouting: every node sends the *)
(* packets of its applications towards the root, relays what its link      *)
(* layer hands up, one packet at a time, and the root delivers each packet *)
(* that it does not remember.                                              *)
(*                                                                         *)
(* Between the nodes stands "air", everything ever handed to a link layer. *)
(* Any other node may be handed a frame from it at any later time, several *)
(* times or never: transmitters repeat data, acknowledgments are lost, two *)
(* forwarders may both accept, and a frame kept over a restart goes up     *)
(* late.  Which relays accept a frame depends on costs: see CostGradient.  *)
(***************************************************************************)
EXTENDS SelfMessages, Integers, Sequences

CONSTANTS
    Nodes,              \* addresses
    Root,               \* rootAddress, every packet's destination
    NoAddress,          \* the unspecified L3Address
    Packets,            \* packets the applications send
    Hellos,             \* those without payload, from ORWHello
    Origin,             \* the node whose application sends a packet
    InitialTTL,         \* initialTTL
    HistorySize,        \* maxSize of packetHistory, 2048
    SequenceNumbers,    \* values of sequenceNumber, 2^16
    MaxDelivered,       \* bound: packets the root delivers
    NoPacket

ASSUME ORWRoutingAssumption ==
    /\ Root \in Nodes /\ NoAddress \notin Nodes
    /\ Hellos \subseteq Packets
    /\ Origin \in [Packets -> Nodes]
    /\ InitialTTL \in 1 .. 255
    /\ HistorySize \in Nat \ {0}
    /\ SequenceNumbers \in Nat \ {0}
    /\ MaxDelivered \in Nat

VARIABLES
    operating,          \* lifecycle state of each node
    sequenceNumber,     \* number of the next packet from above
    waitingPacket,      \* the packet waiting to be forwarded
    nextForwardTimer,   \* the message that ends the wait
    packetHistory,      \* records of the packets the root delivered, oldest first
    air,                \* frames handed to link layers
    sent,               \* packets from above, per node, in order
    delivered,          \* headers of the packets handed up at the root, in order
    deletedSignalled    \* ForwPacketSent was emitted with a deleted packet

vars == <<operating, sequenceNumber, waitingPacket, nextForwardTimer, packetHistory,
          air, sent, delivered, deletedSignalled>>

(***************************************************************************)
(* A packet with the header fields that are read: OpportunisticRouting-    *)
(* Header's id and ttl.  The source is Origin[pkt]; "from" is the node     *)
(* whose link layer has the frame.                                         *)
(***************************************************************************)
Frame == [pkt : Packets, id : 0 .. SequenceNumbers - 1, ttl : 0 .. 255, from : Nodes]

ASSUME NoPacketAssumption == NoPacket \notin Frame

NoFrameWaits(n) == waitingPacket[n] = NoPacket

PacketRecord == [source : Nodes \cup {NoAddress}, seqNo : 0 .. SequenceNumbers - 1]

RecordOf(header) == [source |-> Origin[header.pkt], seqNo |-> header.id]

DefaultRecord == [source |-> NoAddress, seqNo |-> 0]

(***************************************************************************)
(* OrderedDropHeadQueue.  It is constructed with maxSize default elements. *)
(***************************************************************************)
Find(q, element) == \E i \in DOMAIN q : q[i] = element

Erased(q, element) ==
    IF Find(q, element)
    THEN LET i == CHOOSE i \in DOMAIN q :
                      q[i] = element /\ \A j \in 1 .. i - 1 : q[j] # element
         IN  SubSeq(q, 1, i - 1) \o SubSeq(q, i + 1, Len(q))
    ELSE q

Newest(q, size) == IF Len(q) > size THEN SubSeq(q, Len(q) - size + 1, Len(q)) ELSE q

\* Fault: the head is never dropped.
InsertGrowing(q, element) == Append(Erased(q, element), element)

Insert(q, element) == Append(Newest(Erased(q, element), HistorySize - 1), element)

Init ==
    /\ operating = [n \in Nodes |-> TRUE]
    /\ sequenceNumber = [n \in Nodes |-> 0]
    /\ waitingPacket = [n \in Nodes |-> NoPacket]
    /\ nextForwardTimer = [n \in Nodes |-> "off"]
    /\ packetHistory = [i \in 1 .. HistorySize |-> DefaultRecord]
    /\ air = {}
    /\ sent = [n \in Nodes |-> <<>>]
    /\ delivered = <<>>
    /\ deletedSignalled = FALSE
-----------------------------------------------------------------------------
\* The header of a new packet.
Encapsulate(n, p) == [pkt |-> p, id |-> sequenceNumber[n], ttl |-> InitialTTL, from |-> n]

\* header->setId(sequenceNumber++)
NumberPacket(n) ==
    sequenceNumber' = [sequenceNumber EXCEPT ![n] = (@ + 1) % SequenceNumbers]

(***************************************************************************)
(* An application sends a packet, once.                                    *)
(***************************************************************************)
HandleUpperPacket(n, p) ==
    /\ operating[n] /\ Origin[p] = n
    /\ \A i \in DOMAIN sent[n] : sent[n][i] # p
    /\ NumberPacket(n)
    /\ air' = air \cup {Encapsulate(n, p)}
    /\ sent' = [sent EXCEPT ![n] = Append(@, p)]
    /\ UNCHANGED <<operating, waitingPacket, nextForwardTimer, packetHistory, delivered,
                   deletedSignalled>>

\* handleLowerPacket.  A packet without payload is deleted whatever its destination.
HandedUp(n, f) == operating[n] /\ f.from # n /\ f.pkt \notin Hellos

MessageKnown(record) == Find(packetHistory, record)

(***************************************************************************)
(* A known record's packet is dropped, which changes nothing.              *)
(***************************************************************************)
DeduplicateAndDeliver(f) ==
    /\ Len(delivered) < MaxDelivered
    /\ HandedUp(Root, f) /\ ~MessageKnown(RecordOf(f))
    /\ packetHistory' = Insert(packetHistory, RecordOf(f))
    /\ delivered' = Append(delivered, [pkt |-> f.pkt, id |-> f.id])
    /\ UNCHANGED <<operating, sequenceNumber, waitingPacket, nextForwardTimer, air, sent,
                   deletedSignalled>>

\* Fault: the hop limit is not counted down.
AdvanceKeepingTTL(n, f) == [f EXCEPT !.from = n]

\* uint8_t ttl
AdvanceHeaderOneHop(n, f) == [f EXCEPT !.ttl = (@ - 1) % 256, !.from = n]

\* Fault: the hop limit is not looked at.
QueueWhateverTTL(n, f) == NoFrameWaits(n)

\* The condition of queueDelayed.
MayQueue(n, f) == NoFrameWaits(n) /\ f.ttl > 0

(***************************************************************************)
(* forwardPacket, where the table knows a next hop: advance the header,    *)
(* queueDelayed, emit the packet.  queueDelayed deletes what it does not   *)
(* queue.  Without a next hop the packet is dropped, and nothing changes.  *)
(***************************************************************************)
ForwardQueued(n, f) ==
    /\ HandedUp(n, f) /\ n # Root
    /\ LET g == AdvanceHeaderOneHop(n, f)
       IN  /\ MayQueue(n, g)
           /\ waitingPacket' = [waitingPacket EXCEPT ![n] = g]
    /\ nextForwardTimer' = IF IsScheduled(nextForwardTimer, n) THEN nextForwardTimer
                           ELSE Schedule(nextForwardTimer, n, "later")
    /\ UNCHANGED <<operating, sequenceNumber, packetHistory, air, sent, delivered,
                   deletedSignalled>>

ForwardDropped(n, f) ==
    /\ HandedUp(n, f) /\ n # Root
    /\ ~MayQueue(n, AdvanceHeaderOneHop(n, f))
    /\ deletedSignalled' = TRUE
    /\ UNCHANGED <<operating, sequenceNumber, waitingPacket, nextForwardTimer, packetHistory,
                   air, sent, delivered>>

HandleSelfMessage(n) ==
    /\ nextForwardTimer[n] = "later"
    /\ IF NoFrameWaits(n)
       THEN /\ nextForwardTimer' = Cancel(nextForwardTimer, n)
            /\ UNCHANGED <<air, waitingPacket>>
       ELSE /\ air' = air \cup {waitingPacket[n]}
            /\ waitingPacket' = [waitingPacket EXCEPT ![n] = NoPacket]
            /\ nextForwardTimer' = Schedule(Cancel(nextForwardTimer, n), n, "later")
    /\ UNCHANGED <<operating, sequenceNumber, packetHistory, sent, delivered, deletedSignalled>>

\* Fault: a node that starts forgets the packet that waited.
HandleStartForgetting(n) ==
    /\ ~operating[n]
    /\ operating' = [operating EXCEPT ![n] = TRUE]
    /\ waitingPacket' = [waitingPacket EXCEPT ![n] = NoPacket]
    /\ UNCHANGED <<sequenceNumber, nextForwardTimer, packetHistory, air, sent, delivered,
                   deletedSignalled>>

\* Fault: a node that starts leaves its packet to the next one's timer.
HandleStartWithoutTimer(n) ==
    /\ ~operating[n]
    /\ operating' = [operating EXCEPT ![n] = TRUE]
    /\ UNCHANGED <<sequenceNumber, waitingPacket, nextForwardTimer, packetHistory, air, sent,
                   delivered, deletedSignalled>>

HandleStartOperation(n) ==
    /\ ~operating[n]
    /\ operating' = [operating EXCEPT ![n] = TRUE]
    /\ nextForwardTimer' = IF NoFrameWaits(n) THEN nextForwardTimer
                           ELSE Schedule(nextForwardTimer, n, "later")
    /\ UNCHANGED <<sequenceNumber, waitingPacket, packetHistory, air, sent, delivered,
                   deletedSignalled>>

\* Fault: a stop leaves the timer in the event set.
HandleStopKeepingTimer(n) ==
    /\ operating[n]
    /\ operating' = [operating EXCEPT ![n] = FALSE]
    /\ UNCHANGED <<sequenceNumber, waitingPacket, nextForwardTimer, packetHistory, air, sent,
                   delivered, deletedSignalled>>

\* Fault: a stop also loses the history.
HandleStopForgettingHistory(n) ==
    /\ operating[n]
    /\ operating' = [operating EXCEPT ![n] = FALSE]
    /\ packetHistory' = [i \in 1 .. HistorySize |-> DefaultRecord]
    /\ nextForwardTimer' = Cancel(nextForwardTimer, n)
    /\ UNCHANGED <<sequenceNumber, waitingPacket, air, sent, delivered, deletedSignalled>>

\* Fault: a stop also resets the sequence number.
HandleStopResettingNumber(n) ==
    /\ operating[n]
    /\ operating' = [operating EXCEPT ![n] = FALSE]
    /\ sequenceNumber' = [sequenceNumber EXCEPT ![n] = 0]
    /\ nextForwardTimer' = Cancel(nextForwardTimer, n)
    /\ UNCHANGED <<waitingPacket, packetHistory, air, sent, delivered, deletedSignalled>>

\* handleStopOperation; handleCrashOperation calls it
HandleStopOperation(n) ==
    /\ operating[n]
    /\ operating' = [operating EXCEPT ![n] = FALSE]
    /\ nextForwardTimer' = Cancel(nextForwardTimer, n)
    /\ UNCHANGED <<sequenceNumber, waitingPacket, packetHistory, air, sent, delivered,
                   deletedSignalled>>

Next ==
    \/ \E n \in Nodes :
        \/ \E p \in Packets : HandleUpperPacket(n, p)
        \/ \E f \in air : ForwardQueued(n, f) \/ ForwardDropped(n, f)
        \/ HandleSelfMessage(n)
        \/ HandleStartOperation(n)
        \/ HandleStopOperation(n)
    \/ \E f \in air : DeduplicateAndDeliver(f)

Spec == Init /\ [][Next]_vars

(***************************************************************************)
(* The event scheduler delivers every message that stays scheduled.        *)
(***************************************************************************)
FairSpec == Spec /\ \A n \in Nodes : WF_vars(HandleSelfMessage(n))
-----------------------------------------------------------------------------
(***************************************************************************)
(* Type invariant of the network layer's members.                          *)
(***************************************************************************)
TypeOK ==
    /\ operating \in [Nodes -> BOOLEAN]
    /\ sequenceNumber \in [Nodes -> 0 .. SequenceNumbers - 1]
    /\ waitingPacket \in [Nodes -> Frame \cup {NoPacket}]
    /\ nextForwardTimer \in [Nodes -> TimerState \ {"error"}]
    /\ packetHistory \in Seq(PacketRecord) /\ Len(packetHistory) = HistorySize
    /\ air \subseteq Frame
    /\ sent \in [Nodes -> Seq(Packets)]
    /\ delivered \in Seq([pkt : Packets, id : 0 .. SequenceNumbers - 1])
    /\ deletedSignalled \in BOOLEAN

(***************************************************************************)
(* The forward timer is not pending in a node that is down, where firing   *)
(* is an error, and is pending in a running node whose slot is taken:      *)
(* queueDelayed, the timer's handler, start and stop agree about it.       *)
(***************************************************************************)
SlotServed ==
    \A n \in Nodes :
        /\ IsScheduled(nextForwardTimer, n) => operating[n]
        /\ operating[n] /\ ~NoFrameWaits(n) => IsScheduled(nextForwardTimer, n)

Waiting == {waitingPacket[n] : n \in Nodes} \ {NoPacket}

(***************************************************************************)
(* The hop limit works: a frame's ttl is never 0 and never wraps, a frame  *)
(* with the initial ttl comes from the packet's origin, and any other is a *)
(* relay's copy of a frame of the same packet, under the same number, from *)
(* a node one hop before.                                                  *)
(***************************************************************************)
HopChain ==
    \A f \in air \cup Waiting :
        /\ f.ttl \in 1 .. InitialTTL
        /\ IF f.ttl = InitialTTL THEN f.from = Origin[f.pkt]
           ELSE \E g \in air : /\ g.pkt = f.pkt /\ g.id = f.id
                               /\ g.ttl = f.ttl + 1 /\ g.from # f.from

(***************************************************************************)
(* The root hands up a packet again only after more other packets than the *)
(* history holds, through restarts as well.                                *)
(***************************************************************************)
DuplicateWindow ==
    \A i, j \in DOMAIN delivered :
        i < j /\ delivered[i].pkt = delivered[j].pkt => j - i > HistorySize

\* the i-th and j-th packets of a node are at least all sequence numbers apart
Apart(i, j) == i - j >= SequenceNumbers \/ j - i >= SequenceNumbers

(***************************************************************************)
(* Packets of one node have the same number only SequenceNumbers packets   *)
(* apart, through restarts as well; so a packet that the root drops as a   *)
(* duplicate was delivered, or its number was used again that much later.  *)
(***************************************************************************)
FalseDuplicateOnlyAfterWrap ==
    \A f \in air, d \in {delivered[k] : k \in DOMAIN delivered} :
        RecordOf(f) = RecordOf(d) =>
            \/ f.pkt = d.pkt
            \/ \E i, j \in DOMAIN sent[Origin[f.pkt]] :
                  /\ sent[Origin[f.pkt]][i] = f.pkt
                  /\ sent[Origin[f.pkt]][j] = d.pkt
                  /\ Apart(i, j)

(***************************************************************************)
(* A packet queued to be forwarded leaves the slot only to be sent, through*)
(* later packets, stops, crashes and starts.                               *)
(***************************************************************************)
QueuedNotLost ==
    [][\A n \in Nodes :
        ~NoFrameWaits(n) /\ waitingPacket'[n] # waitingPacket[n] =>
            waitingPacket'[n] = NoPacket /\ waitingPacket[n] \in air']_vars

(***************************************************************************)
(* The slot of a node that stays up is emptied again and again: a relay is *)
(* never blocked by a packet whose timer got lost.                         *)
(***************************************************************************)
SlotEmptied ==
    \A n \in Nodes : <>[]operating[n] => []<>NoFrameWaits(n)

(***************************************************************************)
(* ORWRouting.ned:27 declares ForwPacketSent as a signal that carries a    *)
(* packet, and :28 counts it as a packet sent.                             *)
(***************************************************************************)
SignalledPacketExists == ~deletedSignalled
=============================================================================
