------------------------- MODULE ORWMacPacketProofs -------------------------
(***************************************************************************)
(* What becomes of the packets of the network layer.                       *)
(*                                                                         *)
(* A handler does one of five things to the transmit queue, the current    *)
(* frame and the outcomes (PacketStep), and each of them keeps every       *)
(* packet in exactly one place (Custody) and is a step of LinkPromise on   *)
(* the line of packets, or leaves the line as it is.  That a handler does  *)
(* no more than that needs the control invariants: a packet taken is       *)
(* there, and a stop drops none.                                           *)
(***************************************************************************)
EXTENDS ORWMacProofs, ORWMacRefinement

PacketOutcome == {"new", "held", "sent", "noRoute", "overflow", "down"}

\* The types of the variables that say where the packets are
PacketsTyped ==
    /\ txQueue \in Seq(Packets)
    /\ currentTxFrame \in Packets \cup {NoFrame}
    /\ outcome \in [Packets -> PacketOutcome]

\* What a handler does to them: nothing, or take a packet handed down, behind
\* others or first of all, or take the next of the queue, or end a try.
QueuePacket(p) ==
    /\ outcome[p] = "new"
    /\ txQueue' = EnqueueDropHead(txQueue, p)
    /\ outcome' = OutcomeAfterEnqueue(p)
    /\ currentTxFrame' = currentTxFrame

TakePacket(p) ==
    /\ outcome[p] = "new"
    /\ ~HasWork
    /\ SetupTransmission(EnqueueDropHead(txQueue, p), OutcomeAfterEnqueue(p))

TakeNext == txQueue # <<>> /\ SetupTransmission(txQueue, outcome)

EndTry ==
    /\ currentTxFrame # NoFrame
    /\ \E forwarders, broadcast : CompletePacketTransmission(forwarders, broadcast)

PacketStep ==
    \/ UNCHANGED <<txQueue, currentTxFrame, outcome>>
    \/ \E p \in Packets : QueuePacket(p) \/ TakePacket(p)
    \/ TakeNext
    \/ EndTry

Elements(queue) == {queue[i] : i \in DOMAIN queue}

Distinct(queue) == \A i, j \in DOMAIN queue : queue[i] = queue[j] => i = j

-----------------------------------------------------------------------------
(***************************************************************************)
(* The queue                                                               *)
(***************************************************************************)

\* Taking the head leaves the other elements, and distinct ones distinct.
LEMMA TailElements ==
    ASSUME NEW queue \in Seq(Packets), queue # <<>>, Distinct(queue)
    PROVE  /\ Head(queue) \in Elements(queue)
           /\ Tail(queue) \in Seq(Packets)
           /\ Len(Tail(queue)) = Len(queue) - 1
           /\ Distinct(Tail(queue))
           /\ Elements(Tail(queue)) = Elements(queue) \ {Head(queue)}
<1>1. Len(queue) \in Nat \ {0} /\ DOMAIN queue = 1..Len(queue)
  OBVIOUS
<1>2. /\ Tail(queue) \in Seq(Packets)
      /\ Len(Tail(queue)) = Len(queue) - 1
      /\ DOMAIN Tail(queue) = 1..(Len(queue) - 1)
      /\ \A i \in 1..(Len(queue) - 1) : Tail(queue)[i] = queue[i + 1]
  BY <1>1
<1>3. Head(queue) = queue[1] /\ 1 \in DOMAIN queue
  BY <1>1
<1>4. Distinct(Tail(queue))
  <2> SUFFICES ASSUME NEW i \in 1..(Len(queue) - 1), NEW j \in 1..(Len(queue) - 1),
                      queue[i + 1] = queue[j + 1]
               PROVE i = j
    BY <1>2 DEF Distinct
  <2> QED
    BY <1>1 DEF Distinct
<1>5. Elements(Tail(queue)) \subseteq Elements(queue) \ {Head(queue)}
  <2> SUFFICES ASSUME NEW i \in 1..(Len(queue) - 1)
               PROVE queue[i + 1] \in Elements(queue) \ {queue[1]}
    BY <1>2, <1>3 DEF Elements
  <2>1. i + 1 \in DOMAIN queue /\ i + 1 # 1
    BY <1>1
  <2> QED
    BY <2>1, <1>3 DEF Elements, Distinct
<1>6. Elements(queue) \ {Head(queue)} \subseteq Elements(Tail(queue))
  <2> SUFFICES ASSUME NEW i \in DOMAIN queue, queue[i] # queue[1]
               PROVE queue[i] \in Elements(Tail(queue))
    BY <1>3 DEF Elements
  <2>1. i - 1 \in 1..(Len(queue) - 1) /\ (i - 1) + 1 = i
    BY <1>1
  <2> QED
    BY <2>1, <1>2 DEF Elements
<1> QED
  BY <1>2, <1>3, <1>4, <1>5, <1>6 DEF Elements

\* Appending adds one element, and a new one keeps them distinct.
LEMMA AppendElements ==
    ASSUME NEW queue \in Seq(Packets), Distinct(queue), NEW p \in Packets \ Elements(queue)
    PROVE  /\ Append(queue, p) \in Seq(Packets)
           /\ Len(Append(queue, p)) = Len(queue) + 1
           /\ Distinct(Append(queue, p))
           /\ Elements(Append(queue, p)) = Elements(queue) \cup {p}
<1>1. /\ Append(queue, p) \in Seq(Packets)
      /\ Len(Append(queue, p)) = Len(queue) + 1
      /\ DOMAIN queue = 1..Len(queue) /\ Len(queue) \in Nat
      /\ DOMAIN Append(queue, p) = 1..(Len(queue) + 1)
      /\ \A i \in 1..Len(queue) : Append(queue, p)[i] = queue[i]
      /\ Append(queue, p)[Len(queue) + 1] = p
  OBVIOUS
<1>2. \A i \in DOMAIN Append(queue, p) : i \in DOMAIN queue \/ i = Len(queue) + 1
  BY <1>1
<1>3. Distinct(Append(queue, p))
  BY <1>1, <1>2 DEF Distinct, Elements
<1>4. Elements(Append(queue, p)) \subseteq Elements(queue) \cup {p}
  BY <1>1, <1>2 DEF Elements
<1>5. Elements(queue) \cup {p} \subseteq Elements(Append(queue, p))
  <2>1. \A i \in DOMAIN queue : i \in DOMAIN Append(queue, p)
    BY <1>1
  <2>2. Len(queue) + 1 \in DOMAIN Append(queue, p)
    BY <1>1
  <2> QED
    BY <1>1, <2>1, <2>2 DEF Elements
<1> QED
  BY <1>1, <1>3, <1>4, <1>5

\* The drop-head queue never exceeds its capacity, takes the new packet and
\* gives up exactly the head, exactly when it is full.
LEMMA EnqueueElements ==
    ASSUME NEW queue \in Seq(Packets), Distinct(queue), Len(queue) <= QueueCapacity,
           NEW p \in Packets \ Elements(queue)
    PROVE  /\ EnqueueDropHead(queue, p) \in Seq(Packets)
           /\ Len(EnqueueDropHead(queue, p)) <= QueueCapacity
           /\ Distinct(EnqueueDropHead(queue, p))
           /\ Elements(EnqueueDropHead(queue, p)) =
                (IF Len(queue) < QueueCapacity THEN Elements(queue)
                 ELSE Elements(queue) \ {Head(queue)}) \cup {p}
<1>1. CASE Len(queue) < QueueCapacity
  BY <1>1, AppendElements, ORWMacAssumption DEF EnqueueDropHead
<1>2. CASE ~(Len(queue) < QueueCapacity)
  <2>1. queue # <<>> /\ Len(queue) = QueueCapacity
    BY <1>2, ORWMacAssumption
  <2>2. /\ Tail(queue) \in Seq(Packets) /\ Len(Tail(queue)) = QueueCapacity - 1
        /\ Distinct(Tail(queue))
        /\ Elements(Tail(queue)) = Elements(queue) \ {Head(queue)}
    BY <2>1, TailElements
  <2>3. p \in Packets \ Elements(Tail(queue))
    BY <2>2
  <2>4. EnqueueDropHead(queue, p) = Append(Tail(queue), p)
    BY <1>2 DEF EnqueueDropHead
  <2>5. /\ Append(Tail(queue), p) \in Seq(Packets)
        /\ Len(Append(Tail(queue), p)) = Len(Tail(queue)) + 1
        /\ Distinct(Append(Tail(queue), p))
        /\ Elements(Append(Tail(queue), p)) = Elements(Tail(queue)) \cup {p}
    BY <2>2, <2>3, AppendElements
  <2>6. Len(EnqueueDropHead(queue, p)) <= QueueCapacity
    BY <2>2, <2>4, <2>5, ORWMacAssumption
  <2> QED
    BY <1>2, <2>2, <2>4, <2>5, <2>6
<1> QED
  BY <1>1, <1>2

-----------------------------------------------------------------------------
Held == {p \in Packets : outcome[p] = "held"}

\* Custody in terms of the set of queued packets
LEMMA CustodyElements ==
    Custody <=> /\ Held = Elements(txQueue) \cup ({currentTxFrame} \ {NoFrame})
                /\ Distinct(txQueue)
                /\ currentTxFrame \notin Elements(txQueue)
                /\ Len(txQueue) <= QueueCapacity
BY DEF Custody, Held, Elements, Distinct

\* A step that leaves queue, current frame and outcomes alone
LEMMA CustodyUntouched ==
    ASSUME Custody, UNCHANGED <<txQueue, currentTxFrame, outcome>>
    PROVE  Custody'
BY DEF Custody

\* Taking the next packet, whatever becomes of a packet still current, from a
\* queue and outcomes that are consistent with each other and with it
LEMMA SetupTransmissionCustody ==
    ASSUME PacketsTyped,
           NEW queue \in Seq(Packets), queue # <<>>, Distinct(queue), Len(queue) <= QueueCapacity,
           NEW outcomes \in [Packets -> PacketOutcome],
           {p \in Packets : outcomes[p] = "held"} = Elements(queue) \cup ({currentTxFrame} \ {NoFrame}),
           currentTxFrame \notin Elements(queue),
           SetupTransmission(queue, outcomes)
    PROVE  Custody'
<1>1. /\ Head(queue) \in Elements(queue)
      /\ Tail(queue) \in Seq(Packets)
      /\ Len(Tail(queue)) = Len(queue) - 1
      /\ Distinct(Tail(queue))
      /\ Elements(Tail(queue)) = Elements(queue) \ {Head(queue)}
  BY TailElements
<1>2. Elements(queue) \subseteq Packets
  BY DEF Elements
<1>3. txQueue' = Tail(queue) /\ currentTxFrame' = Head(queue)
  BY DEF SetupTransmission
<1>4. Held' = Elements(queue)
  <2>1. CASE currentTxFrame = NoFrame
    BY <2>1 DEF SetupTransmission, Held
  <2>2. CASE currentTxFrame # NoFrame
    <3>1. currentTxFrame \in Packets
      BY <2>2 DEF PacketsTyped
    <3>2. outcome' = [outcomes EXCEPT ![currentTxFrame] = "overflow"]
      BY <2>2 DEF SetupTransmission
    <3> QED
      BY <2>2, <3>1, <3>2, <1>2 DEF Held
  <2> QED
    BY <2>1, <2>2
<1>5. Held' = Elements(Tail(queue)) \cup ({Head(queue)} \ {NoFrame})
  BY <1>1, <1>2, <1>4, ORWMacAssumption
<1>6. Len(Tail(queue)) <= QueueCapacity
  BY <1>1, ORWMacAssumption
<1>7. Head(queue) \notin Elements(Tail(queue))
  BY <1>1
<1> QED
  BY <1>1, <1>3, <1>5, <1>6, <1>7, CustodyElements DEF Custody, Held, Elements, Distinct

\* A packet handed down joins the held ones, the head of a full queue leaves.
LEMMA EnqueueCustody ==
    ASSUME PacketsTyped, Custody, NEW p \in Packets, outcome[p] = "new"
    PROVE  /\ p \notin Elements(txQueue) /\ p # currentTxFrame
           /\ {r \in Packets : OutcomeAfterEnqueue(p)[r] = "held"} =
                Elements(EnqueueDropHead(txQueue, p)) \cup ({currentTxFrame} \ {NoFrame})
           /\ currentTxFrame \notin Elements(EnqueueDropHead(txQueue, p))
<1> DEFINE after == {r \in Packets : OutcomeAfterEnqueue(p)[r] = "held"}
<1>1. /\ Held = Elements(txQueue) \cup ({currentTxFrame} \ {NoFrame})
      /\ Distinct(txQueue) /\ Len(txQueue) <= QueueCapacity
      /\ currentTxFrame \notin Elements(txQueue)
  BY CustodyElements
<1>2. p \notin Held /\ p # NoFrame
  BY ORWMacAssumption DEF Held
<1>3. p \notin Elements(txQueue) /\ p # currentTxFrame
  BY <1>1, <1>2
<1>4. Elements(EnqueueDropHead(txQueue, p)) =
        (IF Len(txQueue) < QueueCapacity THEN Elements(txQueue)
         ELSE Elements(txQueue) \ {Head(txQueue)}) \cup {p}
  BY <1>1, <1>3, EnqueueElements DEF PacketsTyped
<1>5. CASE Len(txQueue) < QueueCapacity
  <2>1. after = Held \cup {p}
    BY <1>5 DEF OutcomeAfterEnqueue, Held, PacketsTyped
  <2> QED
    BY <2>1, <1>1, <1>3, <1>4, <1>5
<1>6. CASE ~(Len(txQueue) < QueueCapacity)
  <2>1. txQueue # <<>>
    BY <1>6, ORWMacAssumption
  <2>2. Head(txQueue) \in Elements(txQueue)
    BY <2>1, <1>1, TailElements DEF PacketsTyped
  <2>3. after = (Held \cup {p}) \ {Head(txQueue)}
    BY <1>3, <1>6, <2>2 DEF OutcomeAfterEnqueue, Held, PacketsTyped
  <2> QED
    BY <2>2, <2>3, <1>1, <1>3, <1>4, <1>6
<1> QED
  BY <1>3, <1>5, <1>6

\* The end of a transmission settles the current packet or keeps it.
LEMMA CompleteCustody ==
    ASSUME PacketsTyped, Custody, NEW forwarders, NEW broadcast,
           currentTxFrame # NoFrame,
           CompletePacketTransmission(forwarders, broadcast)
    PROVE  Custody'
<1>1. /\ Held = Elements(txQueue) \cup ({currentTxFrame} \ {NoFrame})
      /\ Distinct(txQueue) /\ Len(txQueue) <= QueueCapacity
      /\ currentTxFrame \notin Elements(txQueue)
  BY CustodyElements
<1>2. currentTxFrame \in Packets /\ outcome \in [Packets -> PacketOutcome]
  BY DEF PacketsTyped
<1>3. txQueue' = txQueue
  BY DEF CompletePacketTransmission
<1>4. NoFrame \notin Elements(txQueue)
  BY ORWMacAssumption DEF Elements, PacketsTyped
<1>5. outcome[currentTxFrame] = "held"
  BY <1>1, <1>2 DEF Held
<1>6. \/ Held' = Held /\ currentTxFrame' = currentTxFrame
      \/ Held' = Held \ {currentTxFrame} /\ currentTxFrame' = NoFrame
  <2>1. PICK result \in {"sent", "noRoute", "held"} :
           /\ outcome' = [outcome EXCEPT ![currentTxFrame] = result]
           /\ currentTxFrame' = IF result = "held" THEN currentTxFrame ELSE NoFrame
    <3> DEFINE result == IF forwarders >= RequiredForwarders \/ broadcast THEN "sent"
                         ELSE IF txInProgressTries >= MaxTxTries THEN "noRoute"
                         ELSE "held"
    <3>1. /\ outcome' = [outcome EXCEPT ![currentTxFrame] = result]
          /\ currentTxFrame' = IF result = "held" THEN currentTxFrame ELSE NoFrame
      BY Zenon DEF CompletePacketTransmission
    <3>2. result \in {"sent", "noRoute", "held"}
      OBVIOUS
    <3> HIDE DEF result
    <3> QED
      BY <3>1, <3>2
  <2>2. CASE result = "held"
    BY <2>1, <2>2, <1>2, <1>5 DEF Held
  <2>3. CASE result # "held"
    BY <2>1, <2>3, <1>2 DEF Held
  <2> QED
    BY <2>2, <2>3
<1>7. Held' = Elements(txQueue) \cup ({currentTxFrame'} \ {NoFrame})
  BY <1>1, <1>6
<1>8. currentTxFrame' \notin Elements(txQueue)
  BY <1>1, <1>4, <1>6
<1> QED
  BY <1>1, <1>3, <1>7, <1>8 DEF Custody, Held, Elements, Distinct

-----------------------------------------------------------------------------
\* Custody holds before the first packet.
LEMMA CustodyInit == InitVariables => Custody
BY ORWMacAssumption DEF InitVariables, Custody

\* Whatever a handler does to the packets, it keeps each in one place.
LEMMA PacketStepKeepsCustody ==
    ASSUME PacketsTyped, Custody, PacketStep
    PROVE  Custody'
<1>0. /\ Held = Elements(txQueue) \cup ({currentTxFrame} \ {NoFrame})
      /\ Distinct(txQueue) /\ Len(txQueue) <= QueueCapacity
      /\ currentTxFrame \notin Elements(txQueue)
      /\ txQueue \in Seq(Packets)
      /\ outcome \in [Packets -> PacketOutcome]
  BY CustodyElements DEF PacketsTyped
<1>1. ASSUME NEW p \in Packets, QueuePacket(p) PROVE Custody'
  <2>1. /\ p \notin Elements(txQueue)
        /\ Held' = Elements(txQueue') \cup ({currentTxFrame'} \ {NoFrame})
        /\ currentTxFrame' \notin Elements(txQueue')
    BY <1>1, EnqueueCustody DEF Held, QueuePacket
  <2>2. Distinct(txQueue') /\ Len(txQueue') <= QueueCapacity
    BY <1>0, <1>1, <2>1, EnqueueElements DEF QueuePacket
  <2> QED
    BY <2>1, <2>2 DEF Custody, Held, Elements, Distinct
<1>2. ASSUME NEW p \in Packets, TakePacket(p) PROVE Custody'
  <2>1. /\ p \notin Elements(txQueue)
        /\ {r \in Packets : OutcomeAfterEnqueue(p)[r] = "held"} =
             Elements(EnqueueDropHead(txQueue, p)) \cup ({currentTxFrame} \ {NoFrame})
        /\ currentTxFrame \notin Elements(EnqueueDropHead(txQueue, p))
    BY <1>2, EnqueueCustody DEF TakePacket
  <2>2. /\ EnqueueDropHead(txQueue, p) \in Seq(Packets)
        /\ Len(EnqueueDropHead(txQueue, p)) <= QueueCapacity
        /\ Distinct(EnqueueDropHead(txQueue, p))
    BY <1>0, <2>1, EnqueueElements
  <2>3. EnqueueDropHead(txQueue, p) # <<>>
    <3>1. ASSUME NEW queue \in Seq(Packets) PROVE Append(queue, p) # <<>>
      <4>1. Len(Append(queue, p)) = Len(queue) + 1 /\ Len(queue) \in Nat
        OBVIOUS
      <4> QED
        BY <4>1
    <3>2. Len(txQueue) < QueueCapacity \/ Tail(txQueue) \in Seq(Packets)
      BY <1>0, ORWMacAssumption
    <3> QED
      BY <1>0, <3>1, <3>2 DEF EnqueueDropHead
  <2>4. OutcomeAfterEnqueue(p) \in [Packets -> PacketOutcome]
    BY <1>0 DEF OutcomeAfterEnqueue, PacketOutcome
  <2> QED
    BY <1>2, <2>1, <2>2, <2>3, <2>4, SetupTransmissionCustody DEF TakePacket
<1>3. CASE TakeNext
  BY <1>0, <1>3, SetupTransmissionCustody DEF Held, TakeNext
<1>4. CASE EndTry
  BY <1>4, CompleteCustody DEF EndTry
<1>5. CASE UNCHANGED <<txQueue, currentTxFrame, outcome>>
  BY <1>5, CustodyUntouched
<1> QED
  BY <1>1, <1>2, <1>3, <1>4, <1>5 DEF PacketStep

-----------------------------------------------------------------------------
(***************************************************************************)
(* The line                                                                *)
(***************************************************************************)

\* A packet in front of a queue
LEMMA FrontOfLine ==
    ASSUME NEW c \in Packets, NEW queue \in Seq(Packets)
    PROVE  /\ <<c>> \o queue \in Seq(Packets)
           /\ <<c>> \o queue # <<>>
           /\ Len(<<c>> \o queue) = Len(queue) + 1
           /\ Head(<<c>> \o queue) = c
           /\ Tail(<<c>> \o queue) = queue
<1>1. /\ <<c>> \o queue \in Seq(Packets)
      /\ Len(<<c>> \o queue) = Len(queue) + 1
      /\ Len(queue) \in Nat
  OBVIOUS
<1>2. <<c>> \o queue # <<>>
  BY <1>1
<1>3. Head(<<c>> \o queue) = c
  BY <1>1
<1>4. Tail(<<c>> \o queue) = queue
  <2>1. /\ Tail(<<c>> \o queue) \in Seq(Packets)
        /\ Len(Tail(<<c>> \o queue)) = Len(queue)
    BY <1>1, <1>2
  <2>2. \A i \in 1..Len(queue) : Tail(<<c>> \o queue)[i] = queue[i]
    BY <1>1, <1>2
  <2> QED
    BY <2>1, <2>2
<1> QED
  BY <1>1, <1>2, <1>3, <1>4

\* The head of a queue in front of the rest is the queue.
LEMMA HeadInFront ==
    ASSUME NEW queue \in Seq(Packets), queue # <<>>
    PROVE  Head(queue) \in Packets /\ <<Head(queue)>> \o Tail(queue) = queue
<1>1. /\ Head(queue) \in Packets /\ Tail(queue) \in Seq(Packets)
      /\ Len(queue) \in Nat \ {0} /\ Len(Tail(queue)) = Len(queue) - 1
      /\ Head(queue) = queue[1]
      /\ \A i \in 1..(Len(queue) - 1) : Tail(queue)[i] = queue[i + 1]
  OBVIOUS
<1>2. /\ <<Head(queue)>> \o Tail(queue) \in Seq(Packets)
      /\ Len(<<Head(queue)>> \o Tail(queue)) = Len(queue)
  BY <1>1
<1>3. \A i \in 1..Len(queue) : (<<Head(queue)>> \o Tail(queue))[i] = queue[i]
  BY <1>1
<1> QED
  BY <1>1, <1>2, <1>3

\* Appending behind a packet in front
LEMMA AppendBehind ==
    ASSUME NEW c \in Packets, NEW queue \in Seq(Packets), NEW p \in Packets
    PROVE  <<c>> \o Append(queue, p) = Append(<<c>> \o queue, p)
<1>1. /\ <<c>> \o Append(queue, p) \in Seq(Packets)
      /\ Append(<<c>> \o queue, p) \in Seq(Packets)
      /\ Len(<<c>> \o Append(queue, p)) = Len(queue) + 2
      /\ Len(Append(<<c>> \o queue, p)) = Len(queue) + 2
      /\ Len(queue) \in Nat
  OBVIOUS
<1>2. \A i \in 1..(Len(queue) + 2) :
        (<<c>> \o Append(queue, p))[i] = Append(<<c>> \o queue, p)[i]
  OBVIOUS
<1> QED
  BY <1>1, <1>2

-----------------------------------------------------------------------------
(***************************************************************************)
(* The steps on the line                                                   *)
(***************************************************************************)

\* A step that leaves queue, current frame and outcomes alone is a stutter.
LEMMA LineUntouched ==
    ASSUME UNCHANGED <<txQueue, currentTxFrame, outcome>>
    PROVE  UNCHANGED <<outcome, Line>>
BY DEF Line

\* A packet handed down joins the line at its end; if the queue is full its
\* oldest leaves, which is the first or the second in the line.
LEMMA QueuedStep ==
    ASSUME PacketsTyped, Custody, NEW p \in Packets, QueuePacket(p)
    PROVE  Link!Accept(p) \/ Link!AcceptOverflow(p)
<1>1. /\ outcome[p] = "new"
      /\ txQueue' = EnqueueDropHead(txQueue, p)
      /\ outcome' = OutcomeAfterEnqueue(p)
      /\ currentTxFrame' = currentTxFrame
  BY DEF QueuePacket
<1>2. /\ txQueue \in Seq(Packets) /\ Len(txQueue) \in Nat /\ Len(txQueue) <= QueueCapacity
      /\ currentTxFrame \in Packets \cup {NoFrame} /\ NoFrame \notin Packets
      /\ QueueCapacity \in Nat \ {0}
  BY ORWMacAssumption DEF PacketsTyped, Custody
<1>3. CASE Len(txQueue) < QueueCapacity
  <2>1. /\ txQueue' = Append(txQueue, p)
        /\ outcome' = [outcome EXCEPT ![p] = "held"]
    BY <1>1, <1>3 DEF EnqueueDropHead, OutcomeAfterEnqueue
  <2>2. CASE currentTxFrame = NoFrame
    BY <1>1, <1>2, <1>3, <2>1, <2>2 DEF Line, Link!Accept
  <2>3. CASE currentTxFrame # NoFrame
    <3>1. Line = <<currentTxFrame>> \o txQueue /\ Line' = <<currentTxFrame>> \o Append(txQueue, p)
      BY <1>1, <2>1, <2>3 DEF Line
    <3>2. Line' = Append(Line, p)
      BY <1>2, <2>3, <3>1, AppendBehind
    <3>3. Len(Line) <= QueueCapacity
      BY <1>2, <1>3, <2>3, <3>1, FrontOfLine
    <3> QED
      BY <1>1, <2>1, <3>2, <3>3 DEF Link!Accept
  <2> QED
    BY <2>2, <2>3
<1>4. CASE ~(Len(txQueue) < QueueCapacity)
  <2>1. txQueue # <<>> /\ Len(txQueue) = QueueCapacity
    BY <1>2, <1>4
  <2>2. /\ txQueue' = Append(Tail(txQueue), p)
        /\ outcome' = [outcome EXCEPT ![p] = "held", ![Head(txQueue)] = "overflow"]
        /\ Tail(txQueue) \in Seq(Packets)
    BY <1>1, <1>2, <1>4, <2>1 DEF EnqueueDropHead, OutcomeAfterEnqueue
  <2>3. CASE currentTxFrame = NoFrame
    BY <1>1, <1>2, <2>1, <2>2, <2>3 DEF Line, Link!AcceptOverflow
  <2>4. CASE currentTxFrame # NoFrame
    <3>1. /\ Line = <<currentTxFrame>> \o txQueue
          /\ Line' = <<currentTxFrame>> \o Append(Tail(txQueue), p)
      BY <1>1, <2>2, <2>4 DEF Line
    <3>2. /\ Len(Line) = Len(txQueue) + 1 /\ Head(Line) = currentTxFrame
          /\ Tail(Line) = txQueue
      BY <1>2, <2>4, <3>1, FrontOfLine
    <3>3. Line[2] = Head(txQueue)
      BY <1>2, <2>1, <2>4, <3>1
    <3>4. Line' = <<Head(Line)>> \o Append(Tail(Tail(Line)), p)
      BY <3>1, <3>2
    <3>5. Len(Line) >= QueueCapacity /\ Len(Line) > 1
      BY <1>2, <2>1, <3>2
    <3> QED
      BY <1>1, <2>2, <3>3, <3>4, <3>5 DEF Link!AcceptOverflow
  <2> QED
    BY <2>3, <2>4
<1> QED
  BY <1>3, <1>4

\* An idle link layer holds no packet: the new one is the line.
LEMMA IdleStep ==
    ASSUME NEW p \in Packets, TakePacket(p)
    PROVE  Link!Accept(p)
<1>1. txQueue = <<>> /\ currentTxFrame = NoFrame /\ Len(txQueue) = 0
  BY DEF TakePacket, HasWork
<1>2. /\ outcome[p] = "new"
      /\ SetupTransmission(EnqueueDropHead(txQueue, p), OutcomeAfterEnqueue(p))
  BY DEF TakePacket
<1>3. /\ EnqueueDropHead(txQueue, p) = <<p>>
      /\ OutcomeAfterEnqueue(p) = [outcome EXCEPT ![p] = "held"]
  <2>1. Len(txQueue) < QueueCapacity /\ Append(<<>>, p) = <<p>>
    BY <1>1, ORWMacAssumption
  <2> QED
    BY <1>1, <2>1 DEF EnqueueDropHead, OutcomeAfterEnqueue
<1>4. /\ outcome' = [outcome EXCEPT ![p] = "held"]
      /\ currentTxFrame' = p /\ txQueue' = <<>>
  <2>1. Head(<<p>>) = p /\ Tail(<<p>>) = <<>>
    OBVIOUS
  <2>2. /\ currentTxFrame' = Head(EnqueueDropHead(txQueue, p))
        /\ txQueue' = Tail(EnqueueDropHead(txQueue, p))
        /\ outcome' = OutcomeAfterEnqueue(p)
    BY <1>1, <1>2, Zenon DEF SetupTransmission
  <2> QED
    BY <1>3, <2>1, <2>2
<1>5. Line = <<>> /\ Line' = <<p>>
  <2>1. p # NoFrame /\ <<p>> \o <<>> = <<p>>
    BY ORWMacAssumption
  <2> QED
    BY <1>1, <1>4, <2>1 DEF Line
<1>6. Line' = Append(Line, p) /\ Len(Line) <= QueueCapacity
  BY <1>5, ORWMacAssumption
<1> QED
  BY <1>2, <1>4, <1>6 DEF Link!Accept

\* Taking the next packet moves it to the front, past one tried in vain.
LEMMA SetupStep ==
    ASSUME PacketsTyped, TakeNext
    PROVE  Link!GiveWay \/ UNCHANGED <<outcome, Line>>
<1>1. /\ txQueue \in Seq(Packets) /\ Len(txQueue) \in Nat \ {0}
      /\ currentTxFrame \in Packets \cup {NoFrame} /\ NoFrame \notin Packets
  BY ORWMacAssumption DEF PacketsTyped, TakeNext
<1>2. currentTxFrame' = Head(txQueue) /\ txQueue' = Tail(txQueue)
  BY DEF TakeNext, SetupTransmission
<1>3. Line' = txQueue
  BY <1>1, <1>2, HeadInFront DEF Line
<1>4. CASE currentTxFrame = NoFrame
  BY <1>3, <1>4 DEF TakeNext, SetupTransmission, Line
<1>5. CASE currentTxFrame # NoFrame
  <2>1. outcome' = [outcome EXCEPT ![currentTxFrame] = "overflow"]
    BY <1>5 DEF TakeNext, SetupTransmission
  <2>2. Line = <<currentTxFrame>> \o txQueue
    BY <1>5 DEF Line
  <2>3. Len(Line) > 1 /\ Head(Line) = currentTxFrame /\ Tail(Line) = txQueue
    BY <1>1, <1>5, <2>2, FrontOfLine
  <2> QED
    BY <1>3, <2>1, <2>3 DEF Link!GiveWay
<1> QED
  BY <1>4, <1>5

\* The end of a try settles the first of the line or leaves it there.
LEMMA CompleteStep ==
    ASSUME PacketsTyped, Custody, NEW forwarders, NEW broadcast, currentTxFrame # NoFrame,
           CompletePacketTransmission(forwarders, broadcast)
    PROVE  Link!Resolve \/ UNCHANGED <<outcome, Line>>
<1>1. /\ txQueue \in Seq(Packets) /\ currentTxFrame \in Packets
      /\ outcome \in [Packets -> PacketOutcome]
  BY DEF PacketsTyped
<1>2. outcome[currentTxFrame] = "held"
  BY <1>1, CustodyElements DEF Held
<1>3. PICK result \in {"sent", "noRoute", "held"} :
         /\ outcome' = [outcome EXCEPT ![currentTxFrame] = result]
         /\ currentTxFrame' = IF result = "held" THEN currentTxFrame ELSE NoFrame
         /\ txQueue' = txQueue
  <2> DEFINE result == IF forwarders >= RequiredForwarders \/ broadcast THEN "sent"
                       ELSE IF txInProgressTries >= MaxTxTries THEN "noRoute"
                       ELSE "held"
  <2>1. /\ outcome' = [outcome EXCEPT ![currentTxFrame] = result]
        /\ currentTxFrame' = IF result = "held" THEN currentTxFrame ELSE NoFrame
        /\ txQueue' = txQueue
    BY Zenon DEF CompletePacketTransmission
  <2>2. result \in {"sent", "noRoute", "held"}
    OBVIOUS
  <2> HIDE DEF result
  <2> QED
    BY <2>1, <2>2
<1>4. CASE result = "held"
  <2>1. UNCHANGED <<txQueue, currentTxFrame, outcome>>
    BY <1>1, <1>2, <1>3, <1>4
  <2> QED
    BY <2>1, LineUntouched
<1>5. CASE result # "held"
  <2>1. Line = <<currentTxFrame>> \o txQueue /\ Line' = txQueue
    BY <1>3, <1>5 DEF Line
  <2>2. Line # <<>> /\ Head(Line) = currentTxFrame /\ Tail(Line) = txQueue
    BY <1>1, <2>1, FrontOfLine
  <2> QED
    BY <1>3, <1>5, <2>1, <2>2 DEF Link!Resolve
<1> QED
  BY <1>4, <1>5

\* Whatever a handler does to the packets is a step of the promise, or none.
LEMMA PacketStepPromised ==
    ASSUME PacketsTyped, Custody, PacketStep
    PROVE  [Link!Next]_<<outcome, Line>>
BY QueuedStep, IdleStep, SetupStep, CompleteStep, LineUntouched
DEF PacketStep, EndTry, Link!Next

\* The promise starts with no packet.
LEMMA PromiseInit == InitVariables => Link!Init
BY DEF InitVariables, Link!Init, Line

-----------------------------------------------------------------------------
(***************************************************************************)
(* The handlers of ORWMac                                                  *)
(***************************************************************************)

\* Every handler does one of the five things to the packets.
LEMMA HandlerPacketStep ==
    ASSUME ControlInv, [Next]_vars
    PROVE  PacketStep
<1>1. ASSUME NEW p \in Packets, UpperPacketQueued(p) \/ UpperPacketIdle(p) PROVE PacketStep
  BY <1>1 DEF UpperPacketQueued, UpperPacketIdle, PacketStep, QueuePacket, TakePacket, In,
     ControlInv, NoRuntimeError
<1>2. ASSUME AwaitRadioReady \/ AwaitTransmitStart PROVE PacketStep
  BY <1>2 DEF AwaitRadioReady, AwaitTransmitStart, PacketStep, TakeNext, HasWork,
     ControlInv, NoRuntimeError
<1>3. ASSUME TxAckTimeoutComplete PROVE PacketStep
  <2>1. currentTxFrame # NoFrame
    BY <1>3 DEF TxAckTimeoutComplete, AckTimeout, Sending, ControlInv, NoRuntimeError
  <2> QED
    BY <1>3, <2>1 DEF TxAckTimeoutComplete, PacketStep, EndTry
<1>4. ASSUME HandleCrashOperation PROVE PacketStep
  BY <1>4 DEF HandleCrashOperation, ControlInv, RetryUnacknowledged, PacketStep
<1>5. ASSUME UNCHANGED txVars PROVE PacketStep
  BY <1>5 DEF txVars, PacketStep
<1>6. CASE UNCHANGED vars
  BY <1>5, <1>6 DEF vars
<1>7. CASE Next
  <2>1. ASSUME \/ TxBackoffTimer \/ TxReady \/ TxEndAwaitAck
               \/ \E fromDestination \in BOOLEAN : TxAckReceived(fromDestination)
               \/ TxAckTimeoutBusy \/ TxAckTimeoutContention
               \/ TxEndAsleep \/ AwaitReplenished
        PROVE PacketStep
    BY <2>1, <1>5
    DEF TxBackoffTimer, TxReady, TxEndAwaitAck, TxAckReceived, TxAckTimeoutBusy, txVars,
        TxAckTimeoutContention, TxEndAsleep, AwaitReplenished, PacketStep
  <2>2. ASSUME \/ \E frame \in DataFrame \cup {NoFrame} : IdleReceive(frame) \/ AwaitReceive(frame)
               \/ \E frame \in DataFrame :
                    RxFirstData(frame) \/ RxRepeatedData(frame) \/ RxFinishRepeatedData(frame)
               \/ RxBackoffTimer \/ RxAckReady \/ RxAckEnd \/ RxRadioReady
               \/ RxDataTimeout \/ RxFinishTimeout \/ RadioReady \/ NodeStart
        PROVE PacketStep
    BY <2>2, <1>5
    DEF IdleReceive, AwaitReceive, StartReception, RxFirstData, RxRepeatedData,
        RxFinishRepeatedData, RxBackoffTimer, RxAckReady, RxAckEnd, RxRadioReady, RxDataTimeout,
        RxFinishTimeout, RadioReady, NodeStart
  <2> QED
    BY <1>1, <1>2, <1>3, <1>4, <1>7, <2>1, <2>2 DEF Next, AwaitNotReplenished, NodeStop
<1> QED
  BY <1>6, <1>7

\* The packets are typed in every state ControlInv holds in.
LEMMA ControlTypesPackets == ControlInv => PacketsTyped
BY DEF ControlInv, TypeOK, PacketsTyped, PacketOutcome

\* A packet the MAC has accepted and not yet reported on is queued or current,
\* once, for every queue capacity, through every drop, retry and restart.
THEOREM PacketsInCustody == Spec => []Custody
<1>1. Init => Custody
  BY CustodyInit DEF Init
<1>2. ControlInv /\ Custody /\ [Next]_vars => Custody'
  BY HandlerPacketStep, ControlTypesPackets, PacketStepKeepsCustody
<1> QED
  BY <1>1, <1>2, ControlInvariant, PTL DEF Spec

\* The link layer with its radio, timers, acknowledgments, low battery, stops
\* and restarts implements LinkPromise, for every number of packets and
\* every queue capacity: packets are served in the order they were handed down,
\* and none is lost.
THEOREM ImplementsLinkPromise == Spec => KeepsLinkPromise
<1>1. Init => Link!Init
  BY PromiseInit DEF Init
<1>2. ControlInv /\ Custody /\ [Next]_vars => [Link!Next]_<<outcome, Line>>
  BY HandlerPacketStep, ControlTypesPackets, PacketStepPromised
<1> QED
  BY <1>1, <1>2, ControlInvariant, PacketsInCustody, PTL DEF Spec, KeepsLinkPromise, Link!Spec
=============================================================================
