------------------------------- MODULE OrwHello -------------------------------
(***************************************************************************)
(* ORWHello.cc: the application that breaks a node's silence with hello    *)
(* broadcasts.  It listens to what the network layer sends, its own hellos *)
(* included, and keeps the last few transmissions with the on-off cycle    *)
(* they were made in.  At every start it compares them with the rate       *)
(* asked for.  The timer and the list of destinations are those of INET's  *)
(* IpvxTrafGen, which it extends.                                          *)
(***************************************************************************)
EXTENDS Integers, FiniteSets, SequencesExt

CONSTANTS
    DestAddresses,          \* destAddresses, in the order of the parameter
    OtherAddresses,         \* to which the network layer sends besides
    PacketCapacity,         \* of the DropHeadQueue destinationRecord
    RateNum, RateDen,       \* intermittentPacketRate, as a fraction
    MaxCycles               \* bound on onOffCycles

ASSUME OrwHelloAssumption ==
    /\ DestAddresses \in Seq(ToSet(DestAddresses)) \ {<<>>}
    /\ PacketCapacity \in Nat \ {0}
    /\ RateNum \in Nat \ {0} /\ RateDen \in Nat /\ RateNum < RateDen
    /\ MaxCycles \in Nat

VARIABLES
    operating,         \* the node is up
    onOffCycles,       \* number of starts
    numSent,           \* hellos sent, 0 or (for any number) 1
    sendTimer,         \* "off", or the kind of the pending timer of IpvxTrafGen
    sentMessageQueue   \* the transmissions remembered, oldest first

vars == <<operating, onOffCycles, numSent, sendTimer, sentMessageQueue>>

Address == ToSet(DestAddresses) \cup OtherAddresses
Record == [id : Nat, dest : Address]

HelloTypeOK ==
    /\ operating \in BOOLEAN
    /\ onOffCycles \in 0..MaxCycles
    /\ numSent \in 0..1
    /\ sendTimer \in {"off", "START", "NEXT"}
    /\ sentMessageQueue \in Seq(Record)
    /\ Len(sentMessageQueue) <= PacketCapacity

Init ==
    /\ operating = FALSE
    /\ onOffCycles = 0
    /\ numSent = 0
    /\ sendTimer = "off"
    /\ sentMessageQueue = <<>>

-----------------------------------------------------------------------------
\* The records of one destination, the k-th
DestinationCount(k) ==
    Cardinality({i \in DOMAIN sentMessageQueue : sentMessageQueue[i].dest = DestAddresses[k]})

\* The first with the fewest records
QuietestDestination(k) ==
    \A j \in DOMAIN DestAddresses :
        /\ DestinationCount(k) <= DestinationCount(j)
        /\ j < k => DestinationCount(k) < DestinationCount(j)

\* int(minTransmissionProbability * numCycles), since the oldest record
TransmissionsExpected(cycle) == (RateNum * (cycle - sentMessageQueue[1].id)) \div RateDen

\* Fault: the destination has to be a whole transmission behind.
TooQuietStrictly(cycle) ==
    /\ sentMessageQueue # <<>>
    /\ \E k \in DOMAIN DestAddresses : DestinationCount(k) < TransmissionsExpected(cycle)

\* The quietest destination has no more records than expected if any has.
TooQuiet(cycle) ==
    /\ sentMessageQueue # <<>>
    /\ \E k \in DOMAIN DestAddresses : DestinationCount(k) <= TransmissionsExpected(cycle)

\* Fault: one record too many fits.
RecordOverCapacity(a, cycle) ==
    LET kept == IF Len(sentMessageQueue) <= PacketCapacity THEN sentMessageQueue
                ELSE Tail(sentMessageQueue)
    IN  sentMessageQueue' = Append(kept, [id |-> cycle, dest |-> a])

\* receiveSignal: a transmission of the network layer pushes out the oldest.  The
\* id is a uint16_t, compared here as a number: one that wrapped only makes the
\* record look older and a hello more likely.
RecordSent(a, cycle) ==
    LET kept == IF Len(sentMessageQueue) < PacketCapacity THEN sentMessageQueue
                ELSE Tail(sentMessageQueue)
    IN  sentMessageQueue' = Append(kept, [id |-> cycle, dest |-> a])

\* The hello reaches the network layer, which reports it as sent, at once.  A
\* debug build asserts besides that it goes to the first of the destinations
\* (ORWHello.cc:54); the model goes on with any of them.
SendPacket(cycle) ==
    /\ numSent' = 1
    /\ \E k \in DOMAIN DestAddresses :
         QuietestDestination(k) /\ RecordSent(DestAddresses[k], cycle)

\* Before its first hello the application just waits for its start time.
HandleStartBeforeFirst ==
    /\ ~operating /\ numSent = 0 /\ onOffCycles < MaxCycles
    /\ operating' = TRUE
    /\ onOffCycles' = onOffCycles + 1
    /\ sendTimer' = "START"
    /\ UNCHANGED <<numSent, sentMessageQueue>>

\* Later a start sends a hello if too few transmissions are remembered.
HandleStartOperation ==
    /\ ~operating /\ numSent > 0 /\ onOffCycles < MaxCycles
    /\ operating' = TRUE
    /\ onOffCycles' = onOffCycles + 1
    /\ sendTimer' = "NEXT"
    /\ IF TooQuiet(onOffCycles') THEN SendPacket(onOffCycles')
       ELSE UNCHANGED <<numSent, sentMessageQueue>>

\* The timer of IpvxTrafGen: send, and wait for sendInterval.
TimerFires ==
    /\ operating /\ sendTimer # "off"
    /\ sendTimer' = "NEXT"
    /\ SendPacket(onOffCycles)
    /\ UNCHANGED <<operating, onOffCycles>>

\* Any other packet that the network layer sends.
NetworkLayerSends(a) ==
    /\ operating
    /\ RecordSent(a, onOffCycles)
    /\ UNCHANGED <<operating, onOffCycles, numSent, sendTimer>>

\* A stop or crash takes down the timer only.
HandleStopOperation ==
    /\ operating
    /\ operating' = FALSE
    /\ sendTimer' = "off"
    /\ UNCHANGED <<onOffCycles, numSent, sentMessageQueue>>

Next ==
    \/ HandleStartBeforeFirst \/ HandleStartOperation \/ HandleStopOperation
    \/ TimerFires
    \/ \E a \in Address : NetworkLayerSends(a)

Spec == Init /\ [][Next]_vars

-----------------------------------------------------------------------------
\* A node that was once heard is never silent for longer than it takes the
\* rate to ask for one transmission more than are remembered, whatever was
\* sent to whom before: a start no later than that sends a hello.
SilenceBounded ==
    operating /\ numSent > 0 =>
        RateNum * (onOffCycles - Last(sentMessageQueue).id) < RateDen * PacketCapacity
=============================================================================
