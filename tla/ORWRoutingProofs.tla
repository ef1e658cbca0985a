-------------------------- MODULE ORWRoutingProofs --------------------------
(***************************************************************************)
(* Proofs about the network layer, for any number of nodes, packets and    *)
(* deliveries, any hop limit, history size and number of sequence numbers: *)
(* types, the forward timer and slot, hop limits, and then the sequence    *)
(* numbers and the duplicate history.                                      *)
(***************************************************************************)
EXTENDS ORWRouting, TLAPS

(***************************************************************************)
(* Arithmetic of sequence numbers                                          *)
(***************************************************************************)
LEMMA ModuloGap ==
    ASSUME NEW m \in Nat \ {0}, NEW u \in Nat, NEW v \in Nat, u % m = v % m, u < v
    PROVE  v - u >= m
BY SMTT(30)

USE ORWRoutingAssumption, NoPacketAssumption

Header == [pkt : Packets, id : 0 .. SequenceNumbers - 1]

(***************************************************************************)
(* One hop costs one of the hop limit, and wraps only from 0.              *)
(***************************************************************************)
LEMMA OneHop ==
    ASSUME NEW n \in Nodes, NEW f \in Frame
    PROVE  /\ AdvanceHeaderOneHop(n, f) \in Frame
           /\ AdvanceHeaderOneHop(n, f).pkt = f.pkt
           /\ AdvanceHeaderOneHop(n, f).id = f.id
           /\ AdvanceHeaderOneHop(n, f).from = n
           /\ f.ttl > 0 => AdvanceHeaderOneHop(n, f).ttl = f.ttl - 1
<1>1. f.ttl \in 0 .. 255 BY DEF Frame
<1>2. (f.ttl - 1) % 256 \in 0 .. 255 /\ (f.ttl > 0 => (f.ttl - 1) % 256 = f.ttl - 1)
  BY <1>1, SMT
<1>. DEFINE ttl == (f.ttl - 1) % 256
<1>3. AdvanceHeaderOneHop(n, f) = [pkt |-> f.pkt, id |-> f.id, ttl |-> ttl, from |-> n]
  <2>1. AdvanceHeaderOneHop(n, f) = [f EXCEPT !.ttl = ttl, !.from = n]
    BY DEF AdvanceHeaderOneHop
  <2>. HIDE DEF ttl
  <2>. QED BY <2>1 DEF Frame
<1>4. f.pkt \in Packets /\ f.id \in 0 .. SequenceNumbers - 1 BY DEF Frame
<1>. HIDE DEF ttl
<1>5. [pkt |-> f.pkt, id |-> f.id, ttl |-> ttl, from |-> n] \in Frame
  BY <1>2, <1>4, Zenon DEF Frame, ttl
<1>6. f.ttl > 0 => ttl = f.ttl - 1 BY <1>2 DEF ttl
<1>. QED BY <1>3, <1>5, <1>6

LEMMA RecordType ==
    ASSUME NEW f \in Frame
    PROVE  RecordOf(f) \in PacketRecord
<1>1. f.pkt \in Packets /\ f.id \in 0 .. SequenceNumbers - 1 BY DEF Frame
<1>2. Origin[f.pkt] \in Nodes BY <1>1
<1>. QED BY <1>1, <1>2, Zenon DEF RecordOf, PacketRecord

(***************************************************************************)
(* A history that is full and does not know a record drops its oldest      *)
(* record for it.                                                          *)
(***************************************************************************)
LEMMA InsertUnknown ==
    ASSUME NEW q \in Seq(PacketRecord), Len(q) = HistorySize,
           NEW e \in PacketRecord, ~Find(q, e)
    PROVE  /\ Insert(q, e) \in Seq(PacketRecord)
           /\ Len(Insert(q, e)) = HistorySize
           /\ \A i \in 1 .. HistorySize :
                  Insert(q, e)[i] = IF i < HistorySize THEN q[i + 1] ELSE e
<1>1. Erased(q, e) = q BY DEF Erased
<1>2. Newest(q, HistorySize - 1) = SubSeq(q, 2, HistorySize) BY DEF Newest
<1>3. Insert(q, e) = Append(SubSeq(q, 2, HistorySize), e) BY <1>1, <1>2 DEF Insert
<1>4. /\ SubSeq(q, 2, HistorySize) \in Seq(PacketRecord)
      /\ Len(SubSeq(q, 2, HistorySize)) = HistorySize - 1
      /\ \A i \in 1 .. HistorySize - 1 : SubSeq(q, 2, HistorySize)[i] = q[i + 1]
  OBVIOUS
<1>. QED BY <1>3, <1>4

-----------------------------------------------------------------------------
(***************************************************************************)
(* Types and the forward timer.                                            *)
(***************************************************************************)
SlotInv == TypeOK /\ SlotServed

LEMMA SlotInit == Init => SlotInv
<1>. SUFFICES ASSUME Init PROVE SlotInv OBVIOUS
<1>1. DefaultRecord \in PacketRecord BY DEF DefaultRecord, PacketRecord
<1>2. packetHistory \in Seq(PacketRecord) /\ Len(packetHistory) = HistorySize
  BY <1>1 DEF Init
<1>3. /\ operating \in [Nodes -> BOOLEAN] /\ deletedSignalled \in BOOLEAN
      /\ nextForwardTimer \in [Nodes -> TimerState \ {"error"}]
  BY DEF Init, TimerState
<1>4. /\ sequenceNumber \in [Nodes -> 0 .. SequenceNumbers - 1]
      /\ waitingPacket \in [Nodes -> Frame \cup {NoPacket}]
      /\ air \subseteq Frame
  BY DEF Init
<1>5. sent \in [Nodes -> Seq(Packets)] /\ delivered \in Seq(Header)
  BY DEF Init
<1>6. TypeOK BY <1>2, <1>3, <1>4, <1>5 DEF TypeOK, Header
<1>7. SlotServed BY DEF Init, SlotServed, IsScheduled, NoFrameWaits
<1>. QED BY <1>6, <1>7 DEF SlotInv

LEMMA SlotStep == SlotInv /\ [Next]_vars => SlotInv'
<1>. SUFFICES ASSUME SlotInv, [Next]_vars PROVE TypeOK' /\ SlotServed' BY DEF SlotInv
<1>. USE DEF SlotInv
<1>1. CASE UNCHANGED vars
  BY <1>1 DEF vars, TypeOK, SlotServed, IsScheduled, NoFrameWaits
<1>2. ASSUME NEW n \in Nodes, NEW p \in Packets, HandleUpperPacket(n, p)
      PROVE  TypeOK' /\ SlotServed'
  <2>1. (sequenceNumber[n] + 1) % SequenceNumbers \in 0 .. SequenceNumbers - 1
    BY SMTT(30) DEF TypeOK
  <2>2. sequenceNumber' \in [Nodes -> 0 .. SequenceNumbers - 1]
    BY <1>2, <2>1 DEF HandleUpperPacket, NumberPacket, TypeOK
  <2>3. air' \subseteq Frame
    <3>1. sequenceNumber[n] \in 0 .. SequenceNumbers - 1 BY DEF TypeOK
    <3>2. InitialTTL \in 0 .. 255 OBVIOUS
    <3>3. Encapsulate(n, p) \in Frame BY <3>1, <3>2 DEF Frame, Encapsulate
    <3>. QED BY <1>2, <3>3 DEF HandleUpperPacket, TypeOK
  <2>4. sent' \in [Nodes -> Seq(Packets)] BY <1>2 DEF HandleUpperPacket, TypeOK
  <2>5. TypeOK' BY <1>2, <2>2, <2>3, <2>4 DEF HandleUpperPacket, TypeOK
  <2>. QED BY <1>2, <2>5 DEF HandleUpperPacket, SlotServed, IsScheduled, NoFrameWaits
<1>3. ASSUME NEW n \in Nodes, NEW f \in air, ForwardQueued(n, f)
      PROVE  TypeOK' /\ SlotServed'
  <2>1. AdvanceHeaderOneHop(n, f) \in Frame BY OneHop DEF TypeOK
  <2>2. waitingPacket' = [waitingPacket EXCEPT ![n] = AdvanceHeaderOneHop(n, f)]
    BY <1>3 DEF ForwardQueued
  <2>3. waitingPacket' \in [Nodes -> Frame \cup {NoPacket}] BY <2>1, <2>2 DEF TypeOK
  <2>4. /\ nextForwardTimer' \in [Nodes -> TimerState \ {"error"}]
        /\ nextForwardTimer'[n] # "off"
        /\ \A m \in Nodes \ {n} : nextForwardTimer'[m] = nextForwardTimer[m]
    BY <1>3 DEF ForwardQueued, IsScheduled, Schedule, TypeOK, TimerState
  <2>5. TypeOK' BY <1>3, <2>3, <2>4 DEF ForwardQueued, TypeOK
  <2>6. operating[n] /\ operating' = operating BY <1>3 DEF ForwardQueued, HandedUp
  <2>7. \A m \in Nodes \ {n} : waitingPacket'[m] = waitingPacket[m] BY <2>2 DEF TypeOK
  <2>. QED BY <2>4, <2>5, <2>6, <2>7, Zenon DEF SlotServed, IsScheduled, NoFrameWaits
<1>4. ASSUME NEW n \in Nodes, NEW f \in air, ForwardDropped(n, f)
      PROVE  TypeOK' /\ SlotServed'
  BY <1>4 DEF ForwardDropped, TypeOK, SlotServed, IsScheduled, NoFrameWaits
<1>5. ASSUME NEW n \in Nodes, HandleSelfMessage(n)
      PROVE  TypeOK' /\ SlotServed'
  <2>1. CASE NoFrameWaits(n)
    <3>1. /\ nextForwardTimer' = [nextForwardTimer EXCEPT ![n] = "off"]
          /\ UNCHANGED <<operating, waitingPacket, air>>
      BY <1>5, <2>1 DEF HandleSelfMessage, Cancel
    <3>2. TypeOK' BY <1>5, <3>1 DEF HandleSelfMessage, TypeOK, TimerState
    <3>3. /\ nextForwardTimer'[n] = "off"
          /\ \A m \in Nodes \ {n} : nextForwardTimer'[m] = nextForwardTimer[m]
      BY <3>1 DEF TypeOK
    <3>. QED BY <2>1, <3>1, <3>2, <3>3, Zenon DEF SlotServed, IsScheduled, NoFrameWaits
  <2>2. CASE ~NoFrameWaits(n)
    <3>1. /\ nextForwardTimer' = [nextForwardTimer EXCEPT ![n] = "later"]
          /\ waitingPacket' = [waitingPacket EXCEPT ![n] = NoPacket]
          /\ air' = air \cup {waitingPacket[n]}
          /\ operating' = operating
          /\ nextForwardTimer[n] = "later"
      BY <1>5, <2>2 DEF HandleSelfMessage, Cancel, Schedule, TypeOK
    <3>2. waitingPacket[n] \in Frame BY <2>2 DEF NoFrameWaits, TypeOK
    <3>3. TypeOK' BY <1>5, <3>1, <3>2 DEF HandleSelfMessage, TypeOK, TimerState
    <3>4. /\ waitingPacket'[n] = NoPacket /\ nextForwardTimer' = nextForwardTimer
          /\ \A m \in Nodes \ {n} : waitingPacket'[m] = waitingPacket[m]
      BY <3>1 DEF TypeOK
    <3>. QED BY <3>1, <3>3, <3>4, Zenon DEF SlotServed, IsScheduled, NoFrameWaits
  <2>. QED BY <2>1, <2>2
<1>6. ASSUME NEW n \in Nodes, HandleStartOperation(n)
      PROVE  TypeOK' /\ SlotServed'
  <2>1. nextForwardTimer[n] = "off" BY <1>6 DEF HandleStartOperation, SlotServed, IsScheduled
  <2>2. /\ nextForwardTimer' \in [Nodes -> TimerState \ {"error"}]
        /\ \A m \in Nodes \ {n} : nextForwardTimer'[m] = nextForwardTimer[m]
        /\ NoFrameWaits(n) \/ nextForwardTimer'[n] # "off"
    BY <1>6, <2>1 DEF HandleStartOperation, Schedule, TypeOK, TimerState
  <2>3. TypeOK' BY <1>6, <2>2 DEF HandleStartOperation, TypeOK
  <2>4. /\ waitingPacket' = waitingPacket /\ operating'[n]
        /\ \A m \in Nodes \ {n} : operating'[m] = operating[m]
    BY <1>6 DEF HandleStartOperation, TypeOK
  <2>. QED BY <2>2, <2>3, <2>4, ZenonT(30) DEF SlotServed, IsScheduled, NoFrameWaits
<1>7. ASSUME NEW n \in Nodes, HandleStopOperation(n)
      PROVE  TypeOK' /\ SlotServed'
  <2>1. TypeOK' BY <1>7 DEF HandleStopOperation, Cancel, TypeOK, TimerState
  <2>. QED BY <1>7, <2>1
    DEF HandleStopOperation, Cancel, SlotServed, IsScheduled, NoFrameWaits, TypeOK
<1>8. ASSUME NEW f \in air, DeduplicateAndDeliver(f)
      PROVE  TypeOK' /\ SlotServed'
  <2>1. f \in Frame /\ RecordOf(f) \in PacketRecord
    <3>1. f \in Frame BY DEF TypeOK
    <3>. QED BY <3>1, RecordType
  <2>2. packetHistory' \in Seq(PacketRecord) /\ Len(packetHistory') = HistorySize
    BY <1>8, <2>1, InsertUnknown DEF DeduplicateAndDeliver, MessageKnown, TypeOK
  <2>3. [pkt |-> f.pkt, id |-> f.id] \in Header BY <2>1 DEF Frame, Header
  <2>4. delivered' \in Seq(Header)
    BY <1>8, <2>3 DEF DeduplicateAndDeliver, TypeOK, Header
  <2>5. TypeOK' BY <1>8, <2>2, <2>4 DEF DeduplicateAndDeliver, TypeOK, Header
  <2>. QED BY <1>8, <2>5 DEF DeduplicateAndDeliver, SlotServed, IsScheduled, NoFrameWaits
<1>. QED BY <1>1, <1>2, <1>3, <1>4, <1>5, <1>6, <1>7, <1>8 DEF Next

(***************************************************************************)
(* Every member of the network layer keeps its type, and the forward timer *)
(* never is scheduled twice, in any run with stops, crashes and restarts.  *)
(***************************************************************************)
THEOREM RoutingTypeCorrect == Spec => []TypeOK
<1>1. Spec => []SlotInv BY SlotInit, SlotStep, PTL DEF Spec
<1>2. SlotInv => TypeOK BY DEF SlotInv
<1>. QED BY <1>1, <1>2, PTL

(***************************************************************************)
(* A packet that waits in a running node always has a timer pending, and a *)
(* node that is down has none.                                             *)
(***************************************************************************)
THEOREM SlotAlwaysServed == Spec => []SlotServed
<1>1. Spec => []SlotInv BY SlotInit, SlotStep, PTL DEF Spec
<1>2. SlotInv => SlotServed BY DEF SlotInv
<1>. QED BY <1>1, <1>2, PTL

-----------------------------------------------------------------------------
(***************************************************************************)
(* The hop limit.  air only grows and a slot only takes a relay's copy of  *)
(* a frame in air, so links to a frame one hop before last.                *)
(***************************************************************************)
Linked(f, frames) ==
    /\ f.ttl \in 1 .. InitialTTL
    /\ IF f.ttl = InitialTTL THEN f.from = Origin[f.pkt]
       ELSE \E g \in frames : /\ g.pkt = f.pkt /\ g.id = f.id
                              /\ g.ttl = f.ttl + 1 /\ g.from # f.from

LEMMA HopChainLinked == HopChain <=> \A f \in air \cup Waiting : Linked(f, air)
BY Zenon DEF HopChain, Linked

LEMMA LinkedLasts ==
    ASSUME NEW f, NEW s, NEW t, s \subseteq t, Linked(f, s)
    PROVE  Linked(f, t)
BY Zenon DEF Linked

LEMMA HopStep == SlotInv /\ HopChain /\ [Next]_vars => HopChain'
<1>. SUFFICES ASSUME SlotInv, \A f \in air \cup Waiting : Linked(f, air), [Next]_vars
              PROVE  \A f \in air' \cup Waiting' : Linked(f, air')
  BY HopChainLinked, Zenon DEF HopChain, Linked
<1>0. TypeOK BY DEF SlotInv
<1>1. ASSUME UNCHANGED <<air, waitingPacket>>
      PROVE  \A f \in air' \cup Waiting' : Linked(f, air')
  BY <1>1, Zenon DEF Waiting
<1>2. ASSUME NEW n \in Nodes, NEW p \in Packets, HandleUpperPacket(n, p)
      PROVE  \A f \in air' \cup Waiting' : Linked(f, air')
  <2>. DEFINE g == Encapsulate(n, p)
  <2>1. /\ air' = air \cup {g} /\ Waiting' = Waiting
        /\ Origin[p] = n
    BY <1>2, Zenon DEF HandleUpperPacket, Waiting
  <2>2. Linked(g, air') BY <2>1 DEF Linked, Encapsulate
  <2>3. air \subseteq air' BY <2>1, Zenon
  <2>4. \A f \in air \cup Waiting : Linked(f, air') BY <2>3, LinkedLasts
  <2>. QED BY <2>1, <2>2, <2>4, Zenon
<1>3. ASSUME NEW n \in Nodes, NEW f \in air, ForwardQueued(n, f)
      PROVE  \A h \in air' \cup Waiting' : Linked(h, air')
  <2>. DEFINE g == AdvanceHeaderOneHop(n, f)
  <2>1. air' = air /\ waitingPacket' = [waitingPacket EXCEPT ![n] = g]
        /\ g.ttl > 0 /\ f.from # n
    BY <1>3, Zenon DEF ForwardQueued, MayQueue, HandedUp
  <2>2. Waiting' \subseteq Waiting \cup {g}
    BY <1>0, <2>1, Zenon DEF Waiting, TypeOK
  <2>3. f \in Frame /\ Linked(f, air) BY <1>0 DEF TypeOK
  <2>4. f.ttl \in 1 .. InitialTTL BY <2>3 DEF Linked
  <2>5. g.pkt = f.pkt /\ g.id = f.id /\ g.from = n /\ g.ttl = f.ttl - 1
    BY <2>3, <2>4, OneHop
  <2>6. g.ttl \in 1 .. InitialTTL /\ g.ttl # InitialTTL /\ f.ttl = g.ttl + 1
    BY <2>1, <2>4, <2>5
  <2>. HIDE DEF g
  <2>7. Linked(g, air) BY <2>1, <2>5, <2>6, Zenon DEF Linked
  <2>. QED BY <2>1, <2>2, <2>7, Zenon
<1>4. ASSUME NEW n \in Nodes, HandleSelfMessage(n)
      PROVE  \A f \in air' \cup Waiting' : Linked(f, air')
  <2>1. CASE NoFrameWaits(n) BY <1>1, <1>4, <2>1 DEF HandleSelfMessage
  <2>2. CASE ~NoFrameWaits(n)
    <3>1. /\ air' = air \cup {waitingPacket[n]}
          /\ waitingPacket' = [waitingPacket EXCEPT ![n] = NoPacket]
      BY <1>4, <2>2, Zenon DEF HandleSelfMessage
    <3>2. waitingPacket[n] \in Waiting BY <2>2 DEF Waiting, NoFrameWaits
    <3>3. Waiting' \subseteq Waiting BY <1>0, <3>1, Zenon DEF Waiting, TypeOK
    <3>4. air \subseteq air' BY <3>1, Zenon
    <3>5. \A f \in air \cup Waiting : Linked(f, air') BY <3>4, LinkedLasts
    <3>. QED BY <3>1, <3>2, <3>3, <3>5, Zenon
  <2>. QED BY <2>1, <2>2
<1>5. ASSUME NEW n \in Nodes, NEW f \in air, ForwardDropped(n, f)
      PROVE  UNCHANGED <<air, waitingPacket>>
  BY <1>5 DEF ForwardDropped
<1>6. ASSUME NEW n \in Nodes, HandleStartOperation(n) \/ HandleStopOperation(n)
      PROVE  UNCHANGED <<air, waitingPacket>>
  BY <1>6, Zenon DEF HandleStartOperation, HandleStopOperation
<1>7. ASSUME NEW f \in air, DeduplicateAndDeliver(f)
      PROVE  UNCHANGED <<air, waitingPacket>>
  BY <1>7 DEF DeduplicateAndDeliver
<1>8. CASE UNCHANGED vars BY <1>1, <1>8 DEF vars
<1>. QED BY <1>1, <1>2, <1>3, <1>4, <1>5, <1>6, <1>7, <1>8, Zenon DEF Next

LEMMA HopInit == Init => HopChain
BY DEF Init, HopChain, Waiting

(***************************************************************************)
(* Every copy of a packet has crossed one hop for every unit its hop limit *)
(* is below the initial one, and no copy has crossed more than initialTTL. *)
(***************************************************************************)
THEOREM HopLimitHolds == Spec => []HopChain
<1>1. Init => SlotInv /\ HopChain BY SlotInit, HopInit
<1>2. SlotInv /\ HopChain /\ [Next]_vars => (SlotInv /\ HopChain)'
  BY SlotStep, HopStep
<1>3. Spec => [](SlotInv /\ HopChain) BY <1>1, <1>2, PTL DEF Spec
<1>. QED BY <1>3, PTL

(***************************************************************************)
(* A packet that was queued is lost to no other packet, stop or start.     *)
(***************************************************************************)
THEOREM QueuedIsSent == Spec => QueuedNotLost
<1>. DEFINE Kept ==
         \A n \in Nodes :
             ~NoFrameWaits(n) /\ waitingPacket'[n] # waitingPacket[n] =>
                 waitingPacket'[n] = NoPacket /\ waitingPacket[n] \in air'
<1>1. ASSUME SlotInv, [Next]_vars PROVE [Kept]_vars
  <2>0. TypeOK BY <1>1 DEF SlotInv
  <2>1. ASSUME waitingPacket' = waitingPacket PROVE Kept BY <2>1
  <2>2. ASSUME NEW n \in Nodes, NEW f \in air, ForwardQueued(n, f) PROVE Kept
    <3>1. NoFrameWaits(n) /\ \A m \in Nodes \ {n} : waitingPacket'[m] = waitingPacket[m]
      BY <2>0, <2>2 DEF ForwardQueued, MayQueue, TypeOK
    <3>. QED BY <3>1, Zenon
  <2>3. ASSUME NEW n \in Nodes, HandleSelfMessage(n) PROVE Kept
    <3>1. CASE NoFrameWaits(n) BY <2>1, <2>3, <3>1 DEF HandleSelfMessage
    <3>2. CASE ~NoFrameWaits(n)
      BY <2>0, <2>3, <3>2 DEF HandleSelfMessage, TypeOK
    <3>. QED BY <3>1, <3>2
  <2>4. ASSUME NEW n \in Nodes,
               \/ \E p \in Packets : HandleUpperPacket(n, p)
               \/ \E f \in air : ForwardDropped(n, f)
               \/ HandleStartOperation(n)
               \/ HandleStopOperation(n)
        PROVE  waitingPacket' = waitingPacket
    BY <2>4, Zenon
    DEF HandleUpperPacket, ForwardDropped, HandleStartOperation, HandleStopOperation
  <2>5. ASSUME NEW f \in air, DeduplicateAndDeliver(f) PROVE waitingPacket' = waitingPacket
    BY <2>5 DEF DeduplicateAndDeliver
  <2>. HIDE DEF Kept
  <2>. QED BY <1>1, <2>1, <2>2, <2>3, <2>4, <2>5, Zenon DEF Next
<1>2. Spec => []SlotInv BY SlotInit, SlotStep, PTL DEF Spec
<1>. QED BY <1>1, <1>2, PTL DEF Spec, QueuedNotLost
-----------------------------------------------------------------------------
(***************************************************************************)
(* Sequence numbers and the duplicate history                              *)
(***************************************************************************)
LEMMA NextNumber ==
    ASSUME NEW k \in Nat
    PROVE  ((k % SequenceNumbers) + 1) % SequenceNumbers = (k + 1) % SequenceNumbers
<1>. DEFINE M == SequenceNumbers
            q == k \div M
            x == k % M
<1>1. M \in Nat \ {0} /\ q \in Nat /\ x \in 0 .. M - 1 /\ k = M * q + x BY SMTT(30)
<1>. HIDE DEF M, q, x
<1>2. CASE x + 1 < M
  <2>1. (x + 1) % M = x + 1 BY <1>1, <1>2, SMTT(30)
  <2>2. (k + 1) % M = x + 1 BY <1>1, <1>2, SMTT(30)
  <2>. QED BY <2>1, <2>2 DEF M, x
<1>3. CASE x + 1 = M
  <2>1. (x + 1) % M = 0 BY <1>1, <1>3, SMTT(30)
  <2>2. k + 1 = M * (q + 1) BY <1>1, <1>3, SMTT(30)
  <2>3. (k + 1) % M = 0 BY <1>1, <2>2, SMTT(30)
  <2>. QED BY <2>1, <2>3 DEF M, x
<1>. QED BY <1>1, <1>2, <1>3

LEMMA SameNumber ==
    ASSUME NEW i \in Nat, NEW j \in Nat, i # j,
           i % SequenceNumbers = j % SequenceNumbers
    PROVE  Apart(i + 1, j + 1)
<1>1. CASE i < j
  <2>1. j - i >= SequenceNumbers BY <1>1, ModuloGap
  <2>. QED BY <2>1 DEF Apart
<1>2. CASE j < i
  <2>1. i - j >= SequenceNumbers BY <1>2, ModuloGap
  <2>. QED BY <2>1 DEF Apart
<1>. QED BY <1>1, <1>2

-----------------------------------------------------------------------------
(***************************************************************************)
(* A packet's number is its place among the packets of its node, modulo    *)
(* the number of sequence numbers, in every copy and over every restart.   *)
(***************************************************************************)
NumberedAt(h, s, k) ==
    k \in DOMAIN s /\ s[k] = h.pkt /\ h.id = (k - 1) % SequenceNumbers

Numbered(h) == \E k \in Nat \ {0} : NumberedAt(h, sent[Origin[h.pkt]], k)

SentOnce == \A n \in Nodes : \A i, j \in DOMAIN sent[n] : i # j => sent[n][i] # sent[n][j]

Counted == \A n \in Nodes : sequenceNumber[n] = Len(sent[n]) % SequenceNumbers

NumberInv ==
    /\ SentOnce
    /\ Counted
    /\ \A f \in air \cup Waiting : Numbered(f)
    /\ \A k \in DOMAIN delivered : Numbered(delivered[k])

LEMMA NumberedSame ==
    ASSUME NEW h, NEW g, h.pkt = g.pkt, h.id = g.id, Numbered(h)
    PROVE  Numbered(g)
BY Zenon DEF Numbered, NumberedAt

LEMMA NumberInit == Init => NumberInv
<1>. SUFFICES ASSUME Init PROVE NumberInv OBVIOUS
<1>1. 0 % SequenceNumbers = 0 OBVIOUS
<1>2. SentOnce /\ Counted BY <1>1 DEF Init, SentOnce, Counted
<1>3. Waiting = {} BY DEF Init, Waiting
<1>. QED BY <1>2, <1>3 DEF Init, NumberInv

LEMMA NumberStep == SlotInv /\ NumberInv /\ [Next]_vars => NumberInv'
<1>. SUFFICES ASSUME SlotInv, NumberInv, [Next]_vars PROVE NumberInv' OBVIOUS
<1>0. TypeOK BY DEF SlotInv
<1>1. ASSUME sent' = sent, sequenceNumber' = sequenceNumber,
             \A f \in air' \cup Waiting' : Numbered(f),
             \A k \in DOMAIN delivered' : Numbered(delivered'[k])
      PROVE  NumberInv'
  <2>1. SentOnce' /\ Counted' BY <1>1, ZenonT(40) DEF NumberInv, SentOnce, Counted
  <2>2. \A f \in air' \cup Waiting' : Numbered(f)' BY <1>1, Zenon DEF Numbered
  <2>3. \A k \in DOMAIN delivered' : Numbered(delivered[k])' BY <1>1, Zenon DEF Numbered
  <2>. QED BY <2>1, <2>2, <2>3, Zenon DEF NumberInv
<1>9. ASSUME UNCHANGED <<air, waitingPacket, sent, sequenceNumber, delivered>>
      PROVE  NumberInv'
  <2>1. air' = air /\ Waiting' = Waiting /\ delivered' = delivered
    BY <1>9, Zenon DEF Waiting
  <2>2. sent' = sent /\ sequenceNumber' = sequenceNumber BY <1>9
  <2>3. \A f \in air' \cup Waiting' : Numbered(f) BY <2>1, Zenon DEF NumberInv
  <2>4. \A k \in DOMAIN delivered' : Numbered(delivered'[k]) BY <2>1, Zenon DEF NumberInv
  <2>. QED BY <1>1, <2>2, <2>3, <2>4
<1>2. ASSUME NEW n \in Nodes, NEW p \in Packets, HandleUpperPacket(n, p)
      PROVE  NumberInv'
  <2>. DEFINE k == Len(sent[n])
  <2>0. PICK g : g = [pkt |-> p, id |-> sequenceNumber[n], ttl |-> InitialTTL, from |-> n]
    OBVIOUS
  <2>1. /\ air' = air \cup {g} /\ Waiting' = Waiting /\ delivered' = delivered
        /\ sent' = [sent EXCEPT ![n] = Append(sent[n], p)]
        /\ sequenceNumber' =
               [sequenceNumber EXCEPT ![n] = (sequenceNumber[n] + 1) % SequenceNumbers]
        /\ Origin[p] = n
        /\ \A i \in DOMAIN sent[n] : sent[n][i] # p
    BY <1>2, <2>0, Zenon DEF HandleUpperPacket, NumberPacket, Encapsulate, Waiting
  <2>2. /\ sent[n] \in Seq(Packets) /\ k \in Nat /\ DOMAIN sent[n] = 1 .. k
        /\ sent'[n] = Append(sent[n], p)
        /\ \A m \in Nodes \ {n} : sent'[m] = sent[m]
    BY <1>0, <2>1 DEF TypeOK
  <2>3. /\ DOMAIN sent'[n] = 1 .. k + 1 /\ Len(sent'[n]) = k + 1
        /\ sent'[n][k + 1] = p
        /\ \A i \in 1 .. k : sent'[n][i] = sent[n][i]
    BY <2>2
  <2>. HIDE DEF k
  <2>4. SentOnce'
    <3>. SUFFICES ASSUME NEW m \in Nodes, NEW i \in DOMAIN sent'[m], NEW j \in DOMAIN sent'[m],
                         i # j
                  PROVE  sent'[m][i] # sent'[m][j]
      BY Zenon DEF SentOnce
    <3>1. CASE m # n BY <2>2, <3>1, ZenonT(40) DEF NumberInv, SentOnce
    <3>2. CASE m = n
      <4>1. i \in 1 .. k \/ i = k + 1 BY <2>2, <2>3, <3>2
      <4>2. j \in 1 .. k \/ j = k + 1 BY <2>2, <2>3, <3>2
      <4>3. \A x \in 1 .. k : sent[n][x] # p BY <2>1, <2>2
      <4>4. \A x, y \in 1 .. k : x # y => sent[n][x] # sent[n][y]
        BY <2>2, Zenon DEF NumberInv, SentOnce
      <4>5. sent'[n][i] # sent'[n][j] BY <2>3, <4>1, <4>2, <4>3, <4>4, Zenon
      <4>. QED BY <3>2, <4>5
    <3>. QED BY <3>1, <3>2
  <2>5. sequenceNumber[n] = k % SequenceNumbers BY Zenon DEF NumberInv, Counted, k
  <2>6. Counted'
    <3>1. sequenceNumber'[n] = (k + 1) % SequenceNumbers
      BY <1>0, <2>1, <2>2, <2>5, NextNumber DEF TypeOK
    <3>2. \A m \in Nodes \ {n} : sequenceNumber'[m] = sequenceNumber[m]
      BY <1>0, <2>1 DEF TypeOK
    <3>. QED BY <2>2, <2>3, <3>1, <3>2, Zenon DEF NumberInv, Counted
  <2>7. ASSUME NEW h, Numbered(h) PROVE Numbered(h)'
    <3>1. PICK i \in Nat \ {0} : NumberedAt(h, sent[Origin[h.pkt]], i)
      BY <2>7, Zenon DEF Numbered
    <3>2. CASE Origin[h.pkt] = n
      <4>1. NumberedAt(h, sent'[n], i) BY <2>2, <2>3, <3>1, <3>2 DEF NumberedAt
      <4>. QED BY <3>2, <4>1, Zenon DEF Numbered
    <3>3. CASE Origin[h.pkt] # n
      <4>1. h.pkt \in Packets => Origin[h.pkt] \in Nodes OBVIOUS
      <4>2. Origin[h.pkt] \in Nodes => sent'[Origin[h.pkt]] = sent[Origin[h.pkt]]
        BY <2>2, <3>3
      <4>3. Origin[h.pkt] \notin Nodes => sent'[Origin[h.pkt]] = sent[Origin[h.pkt]]
        BY <1>0, <2>1, <3>3 DEF TypeOK
      <4>. QED BY <3>1, <4>2, <4>3, Zenon DEF Numbered, NumberedAt
    <3>. QED BY <3>2, <3>3
  <2>8. Numbered(g)'
    <3>1. NumberedAt(g, sent'[n], k + 1) BY <2>0, <2>2, <2>3, <2>5 DEF NumberedAt
    <3>2. k + 1 \in Nat \ {0} BY <2>2
    <3>3. g.pkt = p BY <2>0
    <3>. QED BY <2>1, <3>1, <3>2, <3>3, Zenon DEF Numbered
  <2>9. \A f \in air' \cup Waiting' : Numbered(f)'
    BY <2>1, <2>7, <2>8, Zenon DEF NumberInv
  <2>10. \A i \in DOMAIN delivered' : Numbered(delivered[i])'
    BY <2>1, <2>7, Zenon DEF NumberInv, Numbered
  <2>. QED BY <2>4, <2>6, <2>9, <2>10, Zenon DEF NumberInv
<1>3. ASSUME NEW n \in Nodes, NEW f \in air, ForwardQueued(n, f)
      PROVE  NumberInv'
  <2>. DEFINE g == AdvanceHeaderOneHop(n, f)
  <2>1. /\ waitingPacket' = [waitingPacket EXCEPT ![n] = g]
        /\ UNCHANGED <<air, sent, sequenceNumber, delivered>>
    BY <1>3, Zenon DEF ForwardQueued
  <2>2. Waiting' \subseteq Waiting \cup {g} BY <1>0, <2>1, Zenon DEF Waiting, TypeOK
  <2>3. g.pkt = f.pkt /\ g.id = f.id BY <1>0, OneHop DEF TypeOK
  <2>4. Numbered(f) BY DEF NumberInv
  <2>. HIDE DEF g
  <2>5. Numbered(g) BY <2>3, <2>4, NumberedSame
  <2>6. \A h \in air' \cup Waiting' : Numbered(h) BY <2>1, <2>2, <2>5, Zenon DEF NumberInv
  <2>7. \A k \in DOMAIN delivered' : Numbered(delivered'[k]) BY <2>1, Zenon DEF NumberInv
  <2>. QED BY <1>1, <2>1, <2>6, <2>7
<1>4. ASSUME NEW n \in Nodes, HandleSelfMessage(n)
      PROVE  NumberInv'
  <2>1. CASE NoFrameWaits(n) BY <1>9, <1>4, <2>1 DEF HandleSelfMessage
  <2>2. CASE ~NoFrameWaits(n)
    <3>1. /\ air' = air \cup {waitingPacket[n]}
          /\ waitingPacket' = [waitingPacket EXCEPT ![n] = NoPacket]
          /\ UNCHANGED <<sent, sequenceNumber, delivered>>
      BY <1>4, <2>2, Zenon DEF HandleSelfMessage
    <3>2. waitingPacket[n] \in Waiting BY <2>2 DEF Waiting, NoFrameWaits
    <3>3. Waiting' \subseteq Waiting BY <1>0, <3>1, Zenon DEF Waiting, TypeOK
    <3>4. \A h \in air' \cup Waiting' : Numbered(h) BY <3>1, <3>2, <3>3, Zenon DEF NumberInv
    <3>5. \A k \in DOMAIN delivered' : Numbered(delivered'[k]) BY <3>1, Zenon DEF NumberInv
    <3>. QED BY <1>1, <3>1, <3>4, <3>5
  <2>. QED BY <2>1, <2>2
<1>5. ASSUME NEW n \in Nodes, NEW f \in air, ForwardDropped(n, f)
      PROVE  UNCHANGED <<air, waitingPacket, sent, sequenceNumber, delivered>>
  BY <1>5 DEF ForwardDropped
<1>6. ASSUME NEW n \in Nodes, HandleStartOperation(n) \/ HandleStopOperation(n)
      PROVE  UNCHANGED <<air, waitingPacket, sent, sequenceNumber, delivered>>
  BY <1>6, Zenon DEF HandleStartOperation, HandleStopOperation
<1>7. ASSUME NEW f \in air, DeduplicateAndDeliver(f)
      PROVE  NumberInv'
  <2>. DEFINE g == [pkt |-> f.pkt, id |-> f.id]
  <2>1. /\ delivered' = Append(delivered, g)
        /\ UNCHANGED <<air, waitingPacket, sent, sequenceNumber>>
    BY <1>7, Zenon DEF DeduplicateAndDeliver
  <2>2. Numbered(g)
    <3>1. g.pkt = f.pkt /\ g.id = f.id OBVIOUS
    <3>2. Numbered(f) BY DEF NumberInv
    <3>. HIDE DEF g
    <3>. QED BY <3>1, <3>2, NumberedSame
  <2>3. g \in Header BY <1>0 DEF TypeOK, Frame, Header
  <2>. HIDE DEF g
  <2>4. \A k \in DOMAIN delivered' :
            delivered'[k] = g \/ (k \in DOMAIN delivered /\ delivered'[k] = delivered[k])
    <3>1. delivered \in Seq(Header) BY <1>0 DEF TypeOK, Header
    <3>. QED BY <2>1, <2>3, <3>1
  <2>5. \A k \in DOMAIN delivered' : Numbered(delivered'[k])
    BY <2>2, <2>4, Zenon DEF NumberInv
  <2>6. \A h \in air' \cup Waiting' : Numbered(h) BY <2>1, Zenon DEF NumberInv, Waiting
  <2>. QED BY <1>1, <2>1, <2>5, <2>6
<1>8. CASE UNCHANGED vars BY <1>9, <1>8 DEF vars
<1>. QED BY <1>1, <1>2, <1>3, <1>4, <1>5, <1>6, <1>7, <1>8, <1>9, Zenon DEF Next

LEMMA NumberInvFalseDuplicate == TypeOK /\ NumberInv => FalseDuplicateOnlyAfterWrap
<1>. SUFFICES ASSUME TypeOK, NumberInv, NEW f \in air,
                     NEW d \in {delivered[k] : k \in DOMAIN delivered},
                     RecordOf(f) = RecordOf(d)
              PROVE  \/ f.pkt = d.pkt
                     \/ \E i, j \in DOMAIN sent[Origin[f.pkt]] :
                            /\ sent[Origin[f.pkt]][i] = f.pkt
                            /\ sent[Origin[f.pkt]][j] = d.pkt
                            /\ Apart(i, j)
  BY Zenon DEF FalseDuplicateOnlyAfterWrap
<1>. DEFINE s == sent[Origin[f.pkt]]
<1>0. Numbered(f) /\ Numbered(d) BY Zenon DEF NumberInv
<1>1. Origin[f.pkt] = Origin[d.pkt] /\ f.id = d.id BY DEF RecordOf
<1>2. PICK i \in Nat \ {0} : NumberedAt(f, s, i) BY <1>0, Zenon DEF Numbered
<1>3. PICK j \in Nat \ {0} : NumberedAt(d, s, j) BY <1>0, <1>1, Zenon DEF Numbered
<1>4. CASE i = j BY <1>2, <1>3, <1>4, Zenon DEF NumberedAt
<1>5. CASE i # j
  <2>1. i - 1 \in Nat /\ j - 1 \in Nat /\ i - 1 # j - 1 /\ i = i - 1 + 1 /\ j = j - 1 + 1
    BY <1>5
  <2>2. (i - 1) % SequenceNumbers = (j - 1) % SequenceNumbers
    BY <1>1, <1>2, <1>3, Zenon DEF NumberedAt
  <2>3. Apart(i, j) BY <2>1, <2>2, SameNumber
  <2>. QED BY <1>2, <1>3, <2>3, Zenon DEF NumberedAt
<1>. QED BY <1>4, <1>5

-----------------------------------------------------------------------------
(***************************************************************************)
(* The history holds the records of the last deliveries, the latest at its *)
(* end, before them what is left of the default records.                   *)
(***************************************************************************)
HistoryTail ==
    \A i \in 1 .. HistorySize :
        packetHistory[i] = IF i + Len(delivered) > HistorySize
                           THEN RecordOf(delivered[i + Len(delivered) - HistorySize])
                           ELSE DefaultRecord

HistoryInv == SlotInv /\ NumberInv /\ HistoryTail /\ DuplicateWindow

LEMMA HistoryInit == Init => HistoryInv
<1>. SUFFICES ASSUME Init PROVE HistoryInv OBVIOUS
<1>1. Len(delivered) = 0 /\ DOMAIN delivered = {} BY DEF Init
<1>2. HistoryTail BY <1>1 DEF Init, HistoryTail
<1>3. DuplicateWindow BY <1>1, Zenon DEF DuplicateWindow
<1>. QED BY <1>2, <1>3, SlotInit, NumberInit DEF HistoryInv

(***************************************************************************)
(* A packet delivered at the i-th place is still known after fewer than    *)
(* HistorySize further deliveries.                                         *)
(***************************************************************************)
LEMMA RecentKnown ==
    ASSUME TypeOK, HistoryTail,
           NEW i \in DOMAIN delivered, Len(delivered) + 1 - i <= HistorySize
    PROVE  MessageKnown(RecordOf(delivered[i]))
<1>. DEFINE L == Len(delivered)
            x == i + HistorySize - L
<1>1. L \in Nat /\ i \in 1 .. L /\ L + 1 - i <= HistorySize BY SMTT(30) DEF TypeOK
<1>. HIDE DEF L
<1>2. x \in 1 .. HistorySize /\ x + L > HistorySize /\ x + L - HistorySize = i
  BY <1>1
<1>. HIDE DEF x
<1>3. packetHistory[x] = RecordOf(delivered[i]) BY <1>2 DEF HistoryTail, L
<1>4. x \in DOMAIN packetHistory BY <1>2 DEF TypeOK
<1>. QED BY <1>3, <1>4, Zenon DEF MessageKnown, Find

LEMMA NumberUnique ==
    ASSUME TypeOK, SentOnce, NEW g, NEW h, Numbered(g), Numbered(h), g.pkt = h.pkt,
           Origin[g.pkt] \in Nodes
    PROVE  RecordOf(g) = RecordOf(h)
<1>1. PICK i \in Nat \ {0} : NumberedAt(g, sent[Origin[g.pkt]], i) BY Zenon DEF Numbered
<1>2. PICK j \in Nat \ {0} : NumberedAt(h, sent[Origin[g.pkt]], j) BY Zenon DEF Numbered
<1>3. i = j BY <1>1, <1>2, Zenon DEF NumberedAt, SentOnce
<1>. QED BY <1>1, <1>2, <1>3, Zenon DEF NumberedAt, RecordOf

LEMMA HistoryStep == HistoryInv /\ [Next]_vars => HistoryTail' /\ DuplicateWindow'
<1>. SUFFICES ASSUME HistoryInv, [Next]_vars PROVE HistoryTail' /\ DuplicateWindow' OBVIOUS
<1>. DEFINE L == Len(delivered)
<1>0. TypeOK /\ NumberInv /\ HistoryTail /\ DuplicateWindow BY DEF HistoryInv, SlotInv
<1>1. CASE UNCHANGED <<packetHistory, delivered>>
  BY <1>0, <1>1, Zenon DEF HistoryTail, DuplicateWindow
<1>2. ASSUME NEW f \in air, DeduplicateAndDeliver(f)
      PROVE  HistoryTail' /\ DuplicateWindow'
  <2>. DEFINE r == RecordOf(f)
  <2>0. PICK g : g = [pkt |-> f.pkt, id |-> f.id] OBVIOUS
  <2>1. /\ packetHistory' = Insert(packetHistory, r)
        /\ delivered' = Append(delivered, g)
        /\ ~MessageKnown(r)
    BY <1>2, <2>0, Zenon DEF DeduplicateAndDeliver
  <2>2. f \in Frame /\ r \in PacketRecord
    <3>1. f \in Frame BY <1>0 DEF TypeOK
    <3>. QED BY <3>1, RecordType
  <2>3. g \in Header /\ RecordOf(g) = r /\ g.pkt = f.pkt
    BY <2>0, <2>2 DEF Frame, Header, RecordOf
  <2>. HIDE DEF r
  <2>4. \A i \in 1 .. HistorySize :
            packetHistory'[i] = IF i < HistorySize THEN packetHistory[i + 1] ELSE r
    <3>1. packetHistory \in Seq(PacketRecord) /\ Len(packetHistory) = HistorySize
      BY <1>0, Zenon DEF TypeOK
    <3>2. ~Find(packetHistory, r) BY <2>1, Zenon DEF MessageKnown
    <3>. QED BY <2>1, <2>2, <3>1, <3>2, InsertUnknown, Zenon
  <2>5. delivered \in Seq(Header) BY <1>0 DEF TypeOK, Header
  <2>6. /\ L \in Nat /\ Len(delivered') = L + 1 /\ DOMAIN delivered = 1 .. L
        /\ DOMAIN delivered' = 1 .. L + 1
        /\ delivered'[L + 1] = g
        /\ \A i \in 1 .. L : delivered'[i] = delivered[i]
    BY <2>1, <2>3, <2>5
  <2>. HIDE DEF L
  <2>7. HistoryTail'
    <3>. SUFFICES ASSUME NEW i \in 1 .. HistorySize
                  PROVE  packetHistory'[i] =
                             IF i + (L + 1) > HistorySize
                             THEN RecordOf(delivered'[i + (L + 1) - HistorySize])
                             ELSE DefaultRecord
      BY <2>6, Zenon DEF HistoryTail
    <3>1. CASE i = HistorySize
      <4>1. i + (L + 1) > HistorySize /\ i + (L + 1) - HistorySize = L + 1
        BY <2>6, <3>1
      <4>. QED BY <2>3, <2>4, <2>6, <3>1, <4>1
    <3>2. CASE i < HistorySize
      <4>1. /\ i + 1 \in 1 .. HistorySize
            /\ packetHistory'[i] = packetHistory[i + 1]
        BY <2>4, <3>2
      <4>2. packetHistory[i + 1] = IF i + 1 + L > HistorySize
                                   THEN RecordOf(delivered[i + 1 + L - HistorySize])
                                   ELSE DefaultRecord
        BY <1>0, <4>1, Zenon DEF HistoryTail, L
      <4>3. CASE i + (L + 1) > HistorySize
        <5>1. /\ i + 1 + L > HistorySize
              /\ i + 1 + L - HistorySize = i + (L + 1) - HistorySize
              /\ i + (L + 1) - HistorySize \in 1 .. L
          BY <2>6, <3>2, <4>3
        <5>. QED BY <2>6, <4>1, <4>2, <4>3, <5>1, Zenon
      <4>4. CASE ~(i + (L + 1) > HistorySize)
        <5>1. ~(i + 1 + L > HistorySize) BY <2>6, <4>4
        <5>. QED BY <4>1, <4>2, <4>4, <5>1, Zenon
      <4>. QED BY <4>3, <4>4
    <3>. QED BY <3>1, <3>2
  <2>8. DuplicateWindow'
    <3>. SUFFICES ASSUME NEW i \in 1 .. L + 1, NEW j \in 1 .. L + 1,
                         i < j, delivered'[i].pkt = delivered'[j].pkt
                  PROVE  j - i > HistorySize
      BY <2>6, Zenon DEF DuplicateWindow
    <3>1. i \in 1 .. L BY <2>6
    <3>2. CASE j \in 1 .. L
      BY <1>0, <2>6, <3>1, <3>2, Zenon DEF DuplicateWindow
    <3>3. CASE j = L + 1
      <4>1. delivered[i].pkt = f.pkt BY <2>3, <2>6, <3>1, <3>3
      <4>2. Numbered(delivered[i]) /\ Numbered(f)
        BY <1>0, <2>6, <3>1, Zenon DEF NumberInv
      <4>3. Origin[f.pkt] \in Nodes BY <2>2 DEF Frame
      <4>4. RecordOf(delivered[i]) = r
        BY <1>0, <4>1, <4>2, <4>3, NumberUnique, Zenon DEF NumberInv, r
      <4>5. ~(L + 1 - i <= HistorySize)
        BY <1>0, <2>1, <2>6, <3>1, <4>4, RecentKnown, Zenon DEF L
      <4>. QED BY <2>6, <3>1, <3>3, <4>5
    <3>. QED BY <2>6, <3>2, <3>3
  <2>. QED BY <2>7, <2>8
<1>3. ASSUME NEW n \in Nodes,
             \/ \E p \in Packets : HandleUpperPacket(n, p)
             \/ \E f \in air : ForwardQueued(n, f) \/ ForwardDropped(n, f)
             \/ HandleSelfMessage(n)
             \/ HandleStartOperation(n)
             \/ HandleStopOperation(n)
      PROVE  UNCHANGED <<packetHistory, delivered>>
  BY <1>3, Zenon DEF HandleUpperPacket, ForwardQueued, ForwardDropped, HandleSelfMessage,
                     HandleStartOperation, HandleStopOperation
<1>4. CASE UNCHANGED vars BY <1>1, <1>4 DEF vars
<1>. QED BY <1>1, <1>2, <1>3, <1>4, Zenon DEF Next

LEMMA HistoryInvariant == Spec => []HistoryInv
<1>1. HistoryInv /\ [Next]_vars => HistoryInv'
  BY SlotStep, NumberStep, HistoryStep DEF HistoryInv
<1>. QED BY HistoryInit, <1>1, PTL DEF Spec

(***************************************************************************)
(* Between two deliveries of one packet the root has delivered at least as *)
(* many others as the history holds.                                       *)
(***************************************************************************)
THEOREM DuplicatesAreRemembered == Spec => []DuplicateWindow
<1>1. HistoryInv => DuplicateWindow BY DEF HistoryInv
<1>. QED BY <1>1, HistoryInvariant, PTL

(***************************************************************************)
(* A packet the root takes for a duplicate is one, or its node has sent at *)
(* least SequenceNumbers packets between the two.                          *)
(***************************************************************************)
THEOREM DuplicatesAreGenuine == Spec => []FalseDuplicateOnlyAfterWrap
<1>1. HistoryInv => FalseDuplicateOnlyAfterWrap
  BY NumberInvFalseDuplicate DEF HistoryInv, SlotInv
<1>. QED BY <1>1, HistoryInvariant, PTL
=============================================================================
