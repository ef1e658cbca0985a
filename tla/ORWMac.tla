------------------------------- MODULE ORWMac -------------------------------
(***************************************************************************)
(* One node's opportunistic link layer: the state machine of ORWMac.cc and *)
(* ORWMacState.cc with its carrier sense backoff, its drop-head transmit   *)
(* queue and its data radio.  Other nodes, the channel, the energy storage *)
(* and the network layer's accept/reject hook are the environment: every   *)
(* answer they can give is a choice of the model.                          *)
(*                                                                         *)
(* An action is one event handler run to completion, with everything it    *)
(* calls.  A handler may call the radio, and a radio that falls asleep in  *)
(* no time reports it before the call returns: the nested DATA_RX_IDLE     *)
(* handler is then part of the same action.                                *)
(***************************************************************************)
EXTENDS CSMATxBackoff, Naturals, Sequences, FiniteSets

CONSTANTS
    Packets,              \* packets of the network layer, each handed down once
    BroadcastPackets,     \* those tagged EqDCBroadcast: never acknowledged
    Neighbours,           \* transmitters of the data frames heard
    RxPackets,            \* packets carried by the data frames heard
    RxPacketsForMe,       \* those whose final destination is this node
    QueueCapacity,        \* packetCapacity of the DropHeadQueue
    MaxTxTries,           \* maxTxTries, a field: see PlainFields
    CheckDataPacketEqDC,  \* checkDataPacketEqDC, likewise
    SkipDirectTxFinalAck, \* skipDirectTxFinalAck, likewise
    NoFrame               \* nullptr, of currentTxFrame and of currentRxFrame

RequiredForwarders == 1   \* requiredForwarders
MaxEqDC == 255            \* EqDC(25.5): any nonzero cost, only 0 is compared with

DataFrame == [src : Neighbours, pkt : RxPackets]

ASSUME ORWMacAssumption ==
    /\ BroadcastPackets \subseteq Packets
    /\ RxPacketsForMe \subseteq RxPackets
    /\ QueueCapacity \in Nat \ {0}
    /\ MaxTxTries \in Nat \ {0}
    /\ CheckDataPacketEqDC \in BOOLEAN
    /\ SkipDirectTxFinalAck \in BOOLEAN
    /\ NoFrame \notin Packets
    /\ NoFrame \notin DataFrame

VARIABLES
    operating,              \* operationalState = OPERATING
    macState,               \* State: what the MAC as a whole does
    txDataState,            \* TxDataState, while macState is TRANSMIT
    rxState,                \* RxState, while macState is RECEIVE
    radioMode,              \* mode of dataRadio
    transmitting,           \* the radio has a frame of this node on the air
    timer,                  \* the MAC's timer messages
    activeBackoff,          \* state of *activeBackoff
    txQueue,                \* packets waiting, oldest first
    currentTxFrame,         \* packet being transmitted or retried
    txInProgressTries,      \* attempts; a saturating count, compared with MaxTxTries
    txInProgressForwarders, \* forwarders confirmed for currentTxFrame
    acknowledgedForwarders, \* acknowledgments of this round, up to one too many
    dataMinExpectedCost,    \* 0 once the final destination has acknowledged
    outcome,                \* what became of each packet of the network layer
    currentRxFrame,         \* data frame stored and contended for
    rxOutcome,              \* what became of the last stored data frame
    deferredDuplicateDrop,  \* currentRxFrame is to be dropped, not sent up
    acceptDataEqDCThreshold \* 0 once a packet for this node was accepted

macVars  == <<operating, macState, txDataState, rxState>>
radioVars == <<radioMode, transmitting, timer, activeBackoff>>
txVars   == <<txQueue, currentTxFrame, txInProgressTries, txInProgressForwarders, outcome>>
ackVars  == <<acknowledgedForwarders, dataMinExpectedCost>>
storedVars == <<currentRxFrame, rxOutcome, deferredDuplicateDrop, acceptDataEqDCThreshold>>
vars == <<macVars, radioVars, txVars, ackVars, storedVars>>

Timer == {"receiveTimeout", "ackBackoffTimer", "transmitStartDelay",
          "replenishmentTimer", "txBackoffTimer"}

TypeOK ==
    /\ operating \in BOOLEAN
    /\ macState \in {"DATA_IDLE", "RECEIVE", "AWAIT_TRANSMIT", "TRANSMIT"}
    /\ txDataState \in {"DATA_WAIT", "DATA", "ACK_WAIT", "END"}
    /\ rxState \in {"IDLE", "DATA_WAIT", "ACK", "FINISH"}
    /\ radioMode \in RadioMode
    /\ transmitting \in BOOLEAN
    /\ timer \in [Timer -> TimerState]
    /\ activeBackoff \in BackoffState
    /\ txQueue \in Seq(Packets)
    /\ currentTxFrame \in Packets \cup {NoFrame}
    /\ txInProgressTries \in 0..MaxTxTries
    /\ txInProgressForwarders \in 0..RequiredForwarders
    /\ acknowledgedForwarders \in 0..(RequiredForwarders + 1)
    /\ dataMinExpectedCost \in {0, MaxEqDC}
    /\ outcome \in [Packets -> {"new", "held", "sent", "noRoute", "overflow", "down"}]
    /\ currentRxFrame \in DataFrame \cup {NoFrame}
    /\ rxOutcome \in {"none", "pending", "sentUp", "dropped"}
    /\ deferredDuplicateDrop \in BOOLEAN
    /\ acceptDataEqDCThreshold \in {0, MaxEqDC}

(***************************************************************************)
(* Three fields keep the values they have in ORWMac.h, as                  *)
(* ORWMac::initialize reads no parameter into them; in particular a packet *)
(* has one try.  Only WakeUpMacLayer, a subclass, loads them, so the       *)
(* handlers below ask for them and Init fixes them.                        *)
(***************************************************************************)
PlainFields ==
    /\ MaxTxTries = 1
    /\ CheckDataPacketEqDC
    /\ ~SkipDirectTxFinalAck

(***************************************************************************)
(* Before the node first starts.  rxState and txDataState have no          *)
(* initializer in the code; they are assigned before they are first read.  *)
(***************************************************************************)
InitVariables ==
    /\ operating = FALSE
    /\ macState = "DATA_IDLE"
    /\ txDataState = "END"
    /\ rxState = "IDLE"
    /\ radioMode = "OFF"
    /\ transmitting = FALSE
    /\ timer = [t \in Timer |-> "off"]
    /\ activeBackoff = "NULL"
    /\ txQueue = <<>>
    /\ currentTxFrame = NoFrame
    /\ txInProgressTries = 0
    /\ txInProgressForwarders = 0
    /\ acknowledgedForwarders = 0
    /\ dataMinExpectedCost = MaxEqDC
    /\ outcome = [p \in Packets |-> "new"]
    /\ currentRxFrame = NoFrame
    /\ rxOutcome = "none"
    /\ deferredDuplicateDrop = FALSE
    /\ acceptDataEqDCThreshold = MaxEqDC

Init == PlainFields /\ InitVariables

(***************************************************************************)
(* Timing assumption of ORWMac.ned ("must be bigger than radio Rx -> Tx"): *)
(* the protocol's delays outlast a switch to the receiver or transmitter.  *)
(* A timer due now fires whatever the radio does.                          *)
(***************************************************************************)
Fires(t) ==
    /\ operating
    /\ \/ timer[t] = "now"
       \/ timer[t] = "later" /\ radioMode \notin {"TO_RECEIVER", "TO_TRANSMITTER"}

Fired(t) == Cancel(timer, t)

In(mac) == operating /\ macState = mac
Sending(state) == In("TRANSMIT") /\ txDataState = state
Receiving(state) == In("RECEIVE") /\ rxState = state

-----------------------------------------------------------------------------
(***************************************************************************)
(* A definition whose comment begins with "Fault:" is not part of the      *)
(* specification.  It is the definition after it with a plausible bug;     *)
(* PROJECT.json names the property that each of these faults violates.     *)
(***************************************************************************)
(***************************************************************************)
(* The helpers below are the functions a handler calls.  An argument       *)
(* `timers' or `radio' is the value the handler has reached at the call.   *)
(***************************************************************************)

\* Wait for the radio, for energy or for the start timer if there is work.
\* The disjuncts are the two answers of transmissionStartEnergyCheck().
StateListeningEnterAlreadyListening(radio, timers) ==
    IF currentTxFrame' # NoFrame \/ txQueue' # <<>>
    THEN /\ macState' = "AWAIT_TRANSMIT"
         /\ \/ timer' = Schedule(timers, "replenishmentTimer", "later")
            \/ timer' = IF radio \in Switching THEN timers
                        ELSE Schedule(timers, "transmitStartDelay", "now")
    ELSE /\ macState' = "DATA_IDLE"
         /\ timer' = timers

StateListeningEnter(radio, timers) ==
    /\ radioMode' = SetRadioMode(radio, "RECEIVER")
    /\ StateListeningEnterAlreadyListening(radioMode', timers)

\* Fault: one packet too many fits.
EnqueueOverCapacity(queue, p) ==
    IF Len(queue) <= QueueCapacity THEN Append(queue, p) ELSE Append(Tail(queue), p)

\* DropHeadQueue: the oldest packet makes room
EnqueueDropHead(queue, p) ==
    IF Len(queue) < QueueCapacity THEN Append(queue, p) ELSE Append(Tail(queue), p)

OutcomeAfterEnqueue(p) ==
    IF Len(txQueue) < QueueCapacity THEN [outcome EXCEPT ![p] = "held"]
    ELSE [outcome EXCEPT ![p] = "held", ![Head(txQueue)] = "overflow"]

\* Fault: the forwarders of the last packet still count.
SetupKeepingForwarders(queue, outcomes) ==
    /\ outcome' = IF currentTxFrame = NoFrame THEN outcomes
                  ELSE [outcomes EXCEPT ![currentTxFrame] = "overflow"]
    /\ currentTxFrame' = Head(queue)
    /\ txQueue' = Tail(queue)
    /\ UNCHANGED txInProgressForwarders

\* Take the next packet; one still current is dropped as a queue overflow.
SetupTransmission(queue, outcomes) ==
    /\ outcome' = IF currentTxFrame = NoFrame THEN outcomes
                  ELSE [outcomes EXCEPT ![currentTxFrame] = "overflow"]
    /\ currentTxFrame' = Head(queue)
    /\ txQueue' = Tail(queue)
    /\ txInProgressForwarders' = 0

\* ASSERTs that there is no backoff, creates a uniform one and starts it.
StateTxEnterDataWait(radio, timers) ==
    /\ txDataState' = "DATA_WAIT"
    /\ \E b \in IF radio = "RECEIVER" THEN StartTxOrBackoff(radio, timers, FALSE)
                ELSE {StartCold(radio, timers)} :
         /\ activeBackoff' = IF activeBackoff = "NULL" THEN b.state ELSE "ERROR"
         /\ radioMode' = b.radio
         /\ timer' = b.timers

\* Fault: the attempt is not counted.
TriesWithoutThis == txInProgressTries

TriesWithThis ==
    IF txInProgressTries < MaxTxTries THEN txInProgressTries + 1 ELSE MaxTxTries

StateTxEnter(radio, timers) ==
    /\ macState' = "TRANSMIT"
    /\ dataMinExpectedCost' = MaxEqDC
    /\ txInProgressTries' = TriesWithThis
    /\ StateTxEnterDataWait(radio, timers)

\* Fault: one forwarder more than required is waited for.
CompleteWithOneMore(forwarders, broadcast) ==
    LET result == IF forwarders > RequiredForwarders \/ broadcast THEN "sent"
                  ELSE IF txInProgressTries >= MaxTxTries THEN "noRoute"
                  ELSE "held"
    IN  /\ outcome' = [outcome EXCEPT ![currentTxFrame] = result]
        /\ currentTxFrame' = IF result = "held" THEN currentTxFrame ELSE NoFrame
        /\ txInProgressForwarders' = forwarders
        /\ UNCHANGED <<txQueue, txInProgressTries>>

\* Enough forwarders or a broadcast: sent.  Out of tries: dropped.  Else kept.
CompletePacketTransmission(forwarders, broadcast) ==
    LET result == IF forwarders >= RequiredForwarders \/ broadcast THEN "sent"
                  ELSE IF txInProgressTries >= MaxTxTries THEN "noRoute"
                  ELSE "held"
    IN  /\ outcome' = [outcome EXCEPT ![currentTxFrame] = result]
        /\ currentTxFrame' = IF result = "held" THEN currentTxFrame ELSE NoFrame
        /\ txInProgressForwarders' = forwarders
        /\ UNCHANGED <<txQueue, txInProgressTries>>

\* A radio asleep at once reports DATA_RX_IDLE here, and END is left again.
StateTxEnterEnd(timers) ==
    /\ txDataState' = "END"
    /\ LET radio == SetRadioMode(radioMode, "SLEEP")
       IN  IF radio = "SLEEP" THEN StateListeningEnter(radio, timers)
           ELSE radioMode' = radio /\ timer' = timers /\ UNCHANGED macState

\* Contend: a fresh reciprocal backoff, started with a random delay.
StateReceiveEnterAck(timers) ==
    LET b == DelayCarrierSense(radioMode, timers)
    IN  /\ rxState' = "ACK"
        /\ activeBackoff' = b.state
        /\ radioMode' = b.radio
        /\ timer' = b.timers

\* Stay in contention for retransmissions, or leave at once without a frame.
StateReceiveEnterFinish(timers) ==
    /\ rxState' = "FINISH"
    /\ timer' = Schedule(timers, "receiveTimeout",
                         IF currentRxFrame' = NoFrame THEN "now" ELSE "later")

\* DUPLICATE_DETECTED: dropped when FINISH ends
StateReceiveEnterFinishDropDuplicate(timers) ==
    /\ deferredDuplicateDrop' = TRUE
    /\ UNCHANGED rxOutcome
    /\ StateReceiveEnterFinish(timers)

\* OTHER_PACKET_DROP: dropped here
StateReceiveEnterFinishDropOther(timers) ==
    /\ currentRxFrame' = NoFrame
    /\ rxOutcome' = "dropped"
    /\ deferredDuplicateDrop' = FALSE
    /\ StateReceiveEnterFinish(timers)

\* datagramPreRoutingHook: costs decide, but the destination always accepts.
MayReject(frame) == frame.pkt \notin RxPacketsForMe

\* The first data frame is stored; the network layer's hook decides whether
\* to contend for it, and lowers the threshold to 0 if it is for this node.
ProcessFirstData(frame, timers) ==
    LET stopped == Cancel(timers, "receiveTimeout")
    IN  \/ /\ MayReject(frame)
           /\ StateReceiveEnterFinishDropOther(stopped)
           /\ UNCHANGED <<acceptDataEqDCThreshold, activeBackoff, radioMode>>
        \/ /\ currentRxFrame' = frame
           /\ rxOutcome' = "pending"
           /\ acceptDataEqDCThreshold' = IF frame.pkt \in RxPacketsForMe THEN 0
                                         ELSE acceptDataEqDCThreshold
           /\ StateReceiveEnterAck(stopped)
           /\ UNCHANGED deferredDuplicateDrop

CompletePacketReception ==
    /\ currentRxFrame' = NoFrame
    /\ rxOutcome' = IF currentRxFrame = NoFrame THEN rxOutcome ELSE "sentUp"

-----------------------------------------------------------------------------
(***************************************************************************)
(* Packets from the network layer (QUEUE_SEND)                             *)
(***************************************************************************)

\* Busy, or waiting already: the packet is only queued.
UpperPacketQueued(p) ==
    /\ operating /\ macState # "DATA_IDLE"
    /\ outcome[p] = "new"
    /\ txQueue' = EnqueueDropHead(txQueue, p)
    /\ outcome' = OutcomeAfterEnqueue(p)
    /\ UNCHANGED <<macVars, radioVars, ackVars, storedVars,
                   currentTxFrame, txInProgressTries, txInProgressForwarders>>

\* Idle: the packet is set up at once and sent, or kept back while the radio
\* switches or energy is low.  ASSERTs that there is no current frame.
UpperPacketIdle(p) ==
    /\ In("DATA_IDLE")
    /\ outcome[p] = "new"
    /\ SetupTransmission(EnqueueDropHead(txQueue, p), OutcomeAfterEnqueue(p))
    /\ \/ /\ radioMode \notin Switching
          /\ StateTxEnter(radioMode, timer)
          /\ UNCHANGED <<acknowledgedForwarders, transmitting>>
       \/ /\ StateListeningEnterAlreadyListening(radioMode, timer)
          /\ UNCHANGED <<txDataState, txInProgressTries, ackVars,
                         radioMode, transmitting, activeBackoff>>
    /\ UNCHANGED <<operating, rxState, storedVars>>

(***************************************************************************)
(* AWAIT_TRANSMIT                                                          *)
(***************************************************************************)

\* DATA_RX_READY: nothing holds the transmission back but the radio did.
\* A frame still current gives way to the head of the queue.
AwaitRadioReady ==
    /\ In("AWAIT_TRANSMIT") /\ radioMode = "TO_RECEIVER"
    /\ ~IsScheduled(timer, "transmitStartDelay")
    /\ ~IsScheduled(timer, "replenishmentTimer")
    /\ IF txQueue # <<>> THEN SetupTransmission(txQueue, outcome)
       ELSE UNCHANGED <<txQueue, currentTxFrame, txInProgressForwarders, outcome>>
    /\ StateTxEnter("RECEIVER", timer)
    /\ UNCHANGED <<operating, rxState, transmitting, acknowledgedForwarders, storedVars>>

\* TX_START, once replenished
AwaitTransmitStart ==
    /\ In("AWAIT_TRANSMIT") /\ Fires("transmitStartDelay")
    /\ ~IsScheduled(timer, "replenishmentTimer")
    /\ IF currentTxFrame = NoFrame THEN SetupTransmission(txQueue, outcome)
       ELSE UNCHANGED <<txQueue, currentTxFrame, txInProgressForwarders, outcome>>
    /\ StateTxEnter(radioMode, Fired("transmitStartDelay"))
    /\ UNCHANGED <<operating, rxState, transmitting, acknowledgedForwarders, storedVars>>

\* TX_START before the replenishment check: the event is used up.  Both timers
\* are pending only after a try that is not the last.
AwaitTransmitStartTooEarly ==
    /\ In("AWAIT_TRANSMIT") /\ Fires("transmitStartDelay")
    /\ IsScheduled(timer, "replenishmentTimer")
    /\ timer' = Fired("transmitStartDelay")
    /\ UNCHANGED <<macVars, radioMode, transmitting, activeBackoff, txVars, ackVars, storedVars>>

\* Fault: back at work, but nothing starts the transmission.
AwaitReplenishedOnly ==
    /\ In("AWAIT_TRANSMIT") /\ Fires("replenishmentTimer")
    /\ timer' = Fired("replenishmentTimer")
    /\ UNCHANGED <<macVars, radioMode, transmitting, activeBackoff, txVars, ackVars, storedVars>>

\* REPLENISH_TIMEOUT with enough energy
AwaitReplenished ==
    /\ In("AWAIT_TRANSMIT") /\ Fires("replenishmentTimer")
    /\ LET timers == Fired("replenishmentTimer")
       IN  timer' = IF IsScheduled(timers, "transmitStartDelay") THEN timers
                    ELSE Schedule(timers, "transmitStartDelay", "now")
    /\ UNCHANGED <<macVars, radioMode, transmitting, activeBackoff, txVars, ackVars, storedVars>>

(***************************************************************************)
(* TRANSMIT                                                                *)
(***************************************************************************)

\* CSMA_BACKOFF: sense the carrier again.
TxBackoffTimer ==
    /\ Sending("DATA_WAIT") /\ Fires("txBackoffTimer")
    /\ activeBackoff = "WAIT"
    /\ \E b \in StartTxOrBackoff(radioMode, Fired("txBackoffTimer"), FALSE) :
         /\ activeBackoff' = b.state
         /\ radioMode' = b.radio
         /\ timer' = b.timers
    /\ UNCHANGED <<macVars, transmitting, txVars, ackVars, storedVars>>

\* TX_READY: delete the backoff and put the data frame on the air.
TxReady ==
    /\ Sending("DATA_WAIT") /\ radioMode = "TO_TRANSMITTER"
    /\ radioMode' = "TRANSMITTER"
    /\ activeBackoff' = "NULL"
    /\ timer' = Cancel(timer, "txBackoffTimer")
    /\ txDataState' = "DATA"
    /\ transmitting' = TRUE
    /\ UNCHANGED <<operating, macState, rxState, txVars, ackVars, storedVars>>

\* TX_END with an acknowledgment round to follow
TxEndAwaitAck ==
    /\ Sending("DATA") /\ transmitting
    /\ ~(SkipDirectTxFinalAck /\ dataMinExpectedCost = 0)
    /\ transmitting' = FALSE
    /\ acknowledgedForwarders' = 0
    /\ timer' = Schedule(timer, "ackBackoffTimer", "later")
    /\ txDataState' = "ACK_WAIT"
    /\ radioMode' = SetRadioMode(radioMode, "RECEIVER")
    /\ UNCHANGED <<operating, macState, rxState, activeBackoff, txVars,
                   dataMinExpectedCost, storedVars>>

\* DATA_RECEIVED: an acknowledgment for this node, perhaps from the final
\* destination.  Any other frame is discarded.
TxAckReceived(fromDestination) ==
    /\ Sending("ACK_WAIT") /\ radioMode = "RECEIVER"
    /\ acknowledgedForwarders' = IF acknowledgedForwarders > RequiredForwarders
                                 THEN acknowledgedForwarders
                                 ELSE acknowledgedForwarders + 1
    /\ dataMinExpectedCost' = IF fromDestination THEN 0 ELSE dataMinExpectedCost
    /\ UNCHANGED <<macVars, radioVars, txVars, storedVars>>

AckTimeout == Sending("ACK_WAIT") /\ Fires("ackBackoffTimer")

\* Fault: nothing wakes the transmitter after the other frame.
TxAckTimeoutBusyOnce ==
    /\ AckTimeout
    /\ currentTxFrame \notin BroadcastPackets
    /\ timer' = Fired("ackBackoffTimer")
    /\ UNCHANGED <<macVars, radioMode, transmitting, activeBackoff, txVars, ackVars, storedVars>>

\* ACK_TIMEOUT while the radio still receives something: wait once more.
TxAckTimeoutBusy ==
    /\ AckTimeout
    /\ currentTxFrame \notin BroadcastPackets
    /\ timer' = Schedule(Fired("ackBackoffTimer"), "ackBackoffTimer", "later")
    /\ UNCHANGED <<macVars, radioMode, transmitting, activeBackoff, txVars, ackVars, storedVars>>

\* ACK_TIMEOUT with several forwarders: send the data again to thin them out.
TxAckTimeoutContention ==
    /\ AckTimeout
    /\ currentTxFrame \notin BroadcastPackets
    /\ radioMode = "RECEIVER"
    /\ acknowledgedForwarders > RequiredForwarders
    /\ StateTxEnterDataWait(radioMode, Fired("ackBackoffTimer"))
    /\ UNCHANGED <<operating, macState, rxState, transmitting, txVars, ackVars, storedVars>>

\* ACK_TIMEOUT of a broadcast, or with one forwarder, or with none: the try is
\* over.  A packet kept for another try has the start timer set for it.
TxAckTimeoutComplete ==
    /\ AckTimeout
    /\ \/ /\ currentTxFrame \in BroadcastPackets
          /\ CompletePacketTransmission(txInProgressForwarders, TRUE)
          /\ StateTxEnterEnd(Fired("ackBackoffTimer"))
       \/ /\ currentTxFrame \notin BroadcastPackets
          /\ radioMode = "RECEIVER"
          /\ acknowledgedForwarders <= RequiredForwarders
          /\ CompletePacketTransmission(txInProgressForwarders + acknowledgedForwarders, FALSE)
          /\ StateTxEnterEnd(IF currentTxFrame' = NoFrame THEN Fired("ackBackoffTimer")
                             ELSE Schedule(Fired("ackBackoffTimer"),
                                           "transmitStartDelay", "later"))
    /\ UNCHANGED <<operating, rxState, transmitting, activeBackoff, ackVars, storedVars>>

\* TX_START while the radio is still falling asleep: set the timer again.  It is
\* pending then only after a try that is not the last.
TxEndTransmitStart ==
    /\ Sending("END") /\ Fires("transmitStartDelay")
    /\ timer' = Schedule(Fired("transmitStartDelay"), "transmitStartDelay", "later")
    /\ UNCHANGED <<macVars, radioMode, transmitting, activeBackoff, txVars, ackVars, storedVars>>

\* DATA_RX_IDLE of a radio that took its time to fall asleep
TxEndAsleep ==
    /\ Sending("END") /\ radioMode = "TO_SLEEP"
    /\ UNCHANGED <<currentTxFrame, txQueue>>
    /\ StateListeningEnter("SLEEP", timer)
    /\ UNCHANGED <<operating, txDataState, rxState, transmitting, activeBackoff, outcome,
                   txInProgressTries, txInProgressForwarders, ackVars, storedVars>>

(***************************************************************************)
(* RECEIVE.  Frames arrive only while the radio listens.  Two facts about  *)
(* the medium bound when: a radio hands up one frame at a time, so none    *)
(* comes at the instant a receiveTimeout due now is pending; and a         *)
(* transmitter waits ackWaitDuration, which outlasts any acknowledgment    *)
(* begun within it, so it never repeats its data while a receiver's        *)
(* acknowledgment is outstanding (RxState::ACK).                           *)
(* Frames that are discarded without a trace are left out: any frame but   *)
(* data from the stored frame's transmitter, and overheard acknowledgments.*)
(***************************************************************************)
Hears == radioMode = "RECEIVER" /\ timer["receiveTimeout"] # "now"

Repeats(frame) == currentRxFrame # NoFrame /\ frame.src = currentRxFrame.src

\* DATA_RECEIVED while listening: a reception starts, with the data frame or,
\* for another node's acknowledgment (frame = NoFrame), waiting for one.
StartReception(frame, timers) ==
    /\ macState' = "RECEIVE"
    /\ LET waiting == Schedule(timers, "receiveTimeout", "later")
       IN  IF frame # NoFrame /\ currentRxFrame = NoFrame
           THEN ProcessFirstData(frame, waiting)
           ELSE /\ rxState' = "DATA_WAIT"
                /\ timer' = waiting
                /\ UNCHANGED <<storedVars, activeBackoff, radioMode>>
    /\ UNCHANGED <<operating, txDataState, transmitting, txVars, ackVars>>

IdleReceive(frame) ==
    /\ In("DATA_IDLE") /\ Hears
    /\ StartReception(frame, timer)

\* Fault: the timers of the wait go on in the reception.
AwaitReceiveKeepingTimers(frame) ==
    /\ In("AWAIT_TRANSMIT") /\ Hears
    /\ StartReception(frame, timer)

AwaitReceive(frame) ==
    /\ In("AWAIT_TRANSMIT") /\ Hears
    /\ StartReception(frame, Cancel(Cancel(timer, "transmitStartDelay"), "replenishmentTimer"))

\* DATA_RECEIVED: the data after an overheard acknowledgment
RxFirstData(frame) ==
    /\ Receiving("DATA_WAIT") /\ Hears
    /\ currentRxFrame = NoFrame
    /\ ProcessFirstData(frame, timer)
    /\ UNCHANGED <<operating, macState, txDataState, transmitting, txVars, ackVars>>

\* DATA_RECEIVED from the transmitter of the stored frame, which the new frame
\* replaces.  The hook may reject it now; else the destination stays (or is
\* done), and a relay stays or leaves by candiateRelayContentionProbability.
RxRepeatedData(frame) ==
    /\ Receiving("DATA_WAIT") /\ Hears
    /\ Repeats(frame)
    /\ LET stopped == Cancel(timer, "receiveTimeout")
           persist == CheckDataPacketEqDC /\ acceptDataEqDCThreshold = 0
       IN  \/ /\ CheckDataPacketEqDC /\ MayReject(frame)
              /\ StateReceiveEnterFinishDropOther(stopped)
              /\ UNCHANGED <<activeBackoff, radioMode>>
           \/ /\ persist /\ SkipDirectTxFinalAck
              /\ currentRxFrame' = frame
              /\ StateReceiveEnterFinish(stopped)
              /\ UNCHANGED <<activeBackoff, radioMode, rxOutcome, deferredDuplicateDrop>>
           \/ /\ ~(persist /\ SkipDirectTxFinalAck)
              /\ currentRxFrame' = frame
              /\ StateReceiveEnterAck(stopped)
              /\ UNCHANGED <<rxOutcome, deferredDuplicateDrop>>
           \/ /\ ~persist
              /\ currentRxFrame' = frame
              /\ StateReceiveEnterFinishDropDuplicate(stopped)
              /\ UNCHANGED <<activeBackoff, radioMode>>
    /\ UNCHANGED <<operating, macState, txDataState, transmitting, txVars, ackVars,
                   acceptDataEqDCThreshold>>

\* CSMA_BACKOFF before the acknowledgment: sense again, or give up and leave
\* the contention.
RxBackoffTimer ==
    /\ Receiving("ACK") /\ Fires("txBackoffTimer")
    /\ activeBackoff = "WAIT"
    /\ UNCHANGED currentRxFrame
    /\ \E b \in StartTxOrBackoff(radioMode, Fired("txBackoffTimer"), TRUE) :
         /\ radioMode' = b.radio
         /\ \/ /\ b.state # "OFF"
               /\ activeBackoff' = b.state
               /\ timer' = b.timers
               /\ UNCHANGED <<rxState, rxOutcome, deferredDuplicateDrop>>
            \/ /\ b.state = "OFF"
               /\ activeBackoff' = "NULL"
               /\ StateReceiveEnterFinishDropDuplicate(b.timers)
    /\ UNCHANGED <<operating, macState, txDataState, transmitting, txVars, ackVars,
                   acceptDataEqDCThreshold>>

\* TX_READY: put the acknowledgment on the air.
RxAckReady ==
    /\ Receiving("ACK") /\ radioMode = "TO_TRANSMITTER"
    /\ radioMode' = "TRANSMITTER"
    /\ activeBackoff' = "FINISHED"
    /\ transmitting' = TRUE
    /\ UNCHANGED <<macVars, timer, txVars, ackVars, storedVars>>

\* TX_END: delete the backoff and wait for a repetition of the data.
RxAckEnd ==
    /\ Receiving("ACK") /\ transmitting
    /\ transmitting' = FALSE
    /\ activeBackoff' = "NULL"
    /\ rxState' = "DATA_WAIT"
    /\ timer' = Schedule(Cancel(Cancel(timer, "txBackoffTimer"), "receiveTimeout"),
                         "receiveTimeout", "later")
    /\ radioMode' = SetRadioMode(radioMode, "RECEIVER")
    /\ UNCHANGED <<operating, macState, txDataState, txVars, ackVars, storedVars>>

\* DATA_RX_READY after the acknowledgment: the wait starts over.
RxRadioReady ==
    /\ Receiving("DATA_WAIT") /\ radioMode = "TO_RECEIVER"
    /\ radioMode' = "RECEIVER"
    /\ timer' = Schedule(Cancel(timer, "receiveTimeout"), "receiveTimeout", "later")
    /\ UNCHANGED <<macVars, transmitting, activeBackoff, txVars, ackVars, storedVars>>

\* DATA_RECEIVED while the contention goes on without this node
RxFinishRepeatedData(frame) ==
    /\ Receiving("FINISH") /\ Hears
    /\ Repeats(frame)
    /\ UNCHANGED currentRxFrame
    /\ StateReceiveEnterFinish(Cancel(timer, "receiveTimeout"))
    /\ UNCHANGED <<operating, macState, txDataState, radioMode, transmitting, activeBackoff,
                   txVars, ackVars, rxOutcome, deferredDuplicateDrop, acceptDataEqDCThreshold>>

\* DATA_TIMEOUT in DATA_WAIT: send the stored frame up and listen.
RxDataTimeout ==
    /\ Receiving("DATA_WAIT") /\ Fires("receiveTimeout")
    /\ CompletePacketReception
    /\ UNCHANGED txVars
    /\ StateListeningEnter(radioMode, Fired("receiveTimeout"))
    /\ UNCHANGED <<operating, txDataState, rxState, transmitting, activeBackoff, ackVars,
                   deferredDuplicateDrop, acceptDataEqDCThreshold>>

\* Fault: the mark outlives the dropped frame.
DropKeepingMark ==
    /\ IF deferredDuplicateDrop THEN currentRxFrame' = NoFrame /\ rxOutcome' = "dropped"
       ELSE CompletePacketReception
    /\ UNCHANGED deferredDuplicateDrop

\* Fault: the mark is cleared before it is looked at.
ForgetDeferredDrop ==
    /\ CompletePacketReception
    /\ deferredDuplicateDrop' = FALSE

CompleteDeferredDrop ==
    /\ IF deferredDuplicateDrop THEN currentRxFrame' = NoFrame /\ rxOutcome' = "dropped"
       ELSE CompletePacketReception
    /\ deferredDuplicateDrop' = FALSE

\* DATA_TIMEOUT in FINISH: a deferred drop is made before that.
RxFinishTimeout ==
    /\ Receiving("FINISH") /\ Fires("receiveTimeout")
    /\ CompleteDeferredDrop
    /\ UNCHANGED txVars
    /\ StateListeningEnter(radioMode, Fired("receiveTimeout"))
    /\ UNCHANGED <<operating, txDataState, rxState, transmitting, activeBackoff, ackVars,
                   acceptDataEqDCThreshold>>

(***************************************************************************)
(* The radio and the lifecycle of the node                                 *)
(***************************************************************************)

\* DATA_RX_READY where the MAC only notes it.
RadioReady ==
    /\ operating /\ radioMode = "TO_RECEIVER"
    /\ \/ macState = "DATA_IDLE"
       \/ macState = "TRANSMIT" /\ txDataState = "ACK_WAIT"
       \/ /\ macState = "AWAIT_TRANSMIT"
          /\ \/ IsScheduled(timer, "transmitStartDelay")
             \/ IsScheduled(timer, "replenishmentTimer")
    /\ radioMode' = "RECEIVER"
    /\ UNCHANGED <<macVars, transmitting, timer, activeBackoff, txVars, ackVars, storedVars>>

\* Fault: any wait for more data counts as one before the acknowledgment.
CrashDropsWaitingFrame ==
    /\ currentTxFrame = NoFrame
    /\ currentRxFrame # NoFrame
    /\ deferredDuplicateDrop \/ IsScheduled(timer, "receiveTimeout")

\* The second disjunct never holds: the two timers have no phase in common.
CrashDropsStoredFrame ==
    /\ currentTxFrame = NoFrame
    /\ currentRxFrame # NoFrame
    /\ \/ deferredDuplicateDrop
       \/ IsScheduled(timer, "receiveTimeout") /\ IsScheduled(timer, "ackBackoffTimer")

\* handleCrashOperation, which a stop calls too; the radio goes off with the
\* node.  A frame to transmit, else a stored frame not marked as a duplicate,
\* and the queue outlive it. 
HandleCrashOperation ==
    /\ operating' = FALSE
    /\ radioMode' = "OFF"
    /\ transmitting' = FALSE
    /\ timer' = [t \in Timer |-> "off"]
    /\ activeBackoff' = "NULL"
    /\ deferredDuplicateDrop' = FALSE
    /\ LET dropTx == currentTxFrame # NoFrame /\ txInProgressForwarders > 0
           dropRx == CrashDropsStoredFrame
       IN  /\ outcome' = IF dropTx THEN [outcome EXCEPT ![currentTxFrame] = "down"]
                         ELSE outcome
           /\ currentTxFrame' = IF dropTx THEN NoFrame ELSE currentTxFrame
           /\ rxOutcome' = IF dropRx THEN "dropped" ELSE rxOutcome
           /\ currentRxFrame' = IF dropRx THEN NoFrame ELSE currentRxFrame
    /\ UNCHANGED <<macState, txDataState, rxState, txQueue, txInProgressTries,
                   txInProgressForwarders, ackVars, acceptDataEqDCThreshold>>

\* REPLENISH_TIMEOUT without energy: the MAC stops its own node.
AwaitNotReplenished ==
    /\ In("AWAIT_TRANSMIT") /\ Fires("replenishmentTimer")
    /\ HandleCrashOperation

NodeStop == operating /\ HandleCrashOperation

\* A stored frame is sent up, the radio started, and work taken up again.
NodeStart ==
    /\ ~operating
    /\ operating' = TRUE
    /\ CompletePacketReception
    /\ UNCHANGED txVars
    /\ StateListeningEnter("OFF", timer)
    /\ UNCHANGED <<txDataState, rxState, transmitting, activeBackoff, ackVars,
                   deferredDuplicateDrop, acceptDataEqDCThreshold>>

-----------------------------------------------------------------------------
(***************************************************************************)
(* Every handler that PlainFields lets happen.  AwaitTransmitStartTooEarly *)
(* and TxEndTransmitStart need a second try, which OneTry rules out, and   *)
(* the TX_END that skips the acknowledgment needs SkipDirectTxFinalAck:    *)
(* these three are handlers of WakeUpMac only.                             *)
(***************************************************************************)
Next ==
    \/ \E p \in Packets : UpperPacketIdle(p) \/ UpperPacketQueued(p)
    \/ AwaitRadioReady \/ AwaitTransmitStart \/ AwaitReplenished \/ AwaitNotReplenished
    \/ TxBackoffTimer \/ TxReady \/ TxEndAwaitAck
    \/ \E fromDestination \in BOOLEAN : TxAckReceived(fromDestination)
    \/ TxAckTimeoutBusy \/ TxAckTimeoutContention \/ TxAckTimeoutComplete
    \/ TxEndAsleep
    \/ \E frame \in DataFrame \cup {NoFrame} : IdleReceive(frame) \/ AwaitReceive(frame)
    \/ \E frame \in DataFrame :
         RxFirstData(frame) \/ RxRepeatedData(frame) \/ RxFinishRepeatedData(frame)
    \/ RxBackoffTimer \/ RxAckReady \/ RxAckEnd \/ RxRadioReady
    \/ RxDataTimeout \/ RxFinishTimeout
    \/ RadioReady \/ NodeStop \/ NodeStart

Spec == Init /\ [][Next]_vars

(***************************************************************************)
(* Fairness.  OMNeT++ delivers every scheduled message, and a radio ends   *)
(* every mode switch and every transmission.  Of the medium it is assumed  *)
(* that it is not busy at each of infinitely many random samples (or that  *)
(* the reciprocal backoff, whose window shrinks, gives up).                *)
(***************************************************************************)
Fairness ==
    /\ WF_vars(AwaitRadioReady \/ RxRadioReady \/ RadioReady)
    /\ WF_vars(TxReady \/ RxAckReady)
    /\ WF_vars(TxEndAwaitAck \/ RxAckEnd)
    /\ WF_vars(TxEndAsleep)
    /\ WF_vars(AwaitTransmitStart)
    /\ WF_vars(AwaitReplenished \/ AwaitNotReplenished)
    /\ WF_vars(RxDataTimeout \/ RxFinishTimeout)
    /\ SF_vars(TxBackoffTimer /\ activeBackoff' # "WAIT")
    /\ SF_vars(RxBackoffTimer /\ activeBackoff' # "WAIT")
    /\ SF_vars(TxAckTimeoutContention \/ TxAckTimeoutComplete)

FairSpec == Spec /\ Fairness

-----------------------------------------------------------------------------
(***************************************************************************)
(* Safety                                                                  *)
(***************************************************************************)
HasWork == currentTxFrame # NoFrame \/ txQueue # <<>>

\* No handler throws: the radio is never told to switch while it switches, no
\* pending timer is scheduled again, no backoff replaces a live one, and the
\* frame a handler dereferences or asserts to be absent (ORWMacState.cc:28,
\* 118, 176, 362, 452) is there or absent.  The assertion ORWMac.cc:308, that
\* no cost put into a header is negative, is about data left out here.
NoRuntimeError ==
    /\ radioMode # "ERROR"
    /\ activeBackoff # "ERROR"
    /\ \A t \in Timer : timer[t] # "error"
    /\ In("DATA_IDLE") => ~HasWork
    /\ In("AWAIT_TRANSMIT") => HasWork
    /\ In("TRANSMIT") /\ txDataState # "END" => currentTxFrame # NoFrame
    /\ Receiving("ACK") => currentRxFrame # NoFrame
    /\ Receiving("FINISH") => (currentRxFrame = NoFrame <=> timer["receiveTimeout"] = "now")

\* A packet the MAC has accepted and not yet reported on is in exactly one
\* place, the queue or currentTxFrame, through drops, retries and restarts.
Custody ==
    /\ {p \in Packets : outcome[p] = "held"} =
         {txQueue[i] : i \in DOMAIN txQueue} \cup ({currentTxFrame} \ {NoFrame})
    /\ \A i, j \in DOMAIN txQueue : txQueue[i] = txQueue[j] => i = j
    /\ \A i \in DOMAIN txQueue : txQueue[i] # currentTxFrame
    /\ Len(txQueue) <= QueueCapacity

\* A timer is pending only in a phase whose handler takes it, and a phase that
\* only a timer ends has it pending: nothing fires into a state that ignores
\* it, nothing fires while the node is down (OMNeT++ throws), nothing is stuck.
TimersMatchPhase ==
    /\ IsScheduled(timer, "receiveTimeout") <=> (Receiving("DATA_WAIT") \/ Receiving("FINISH"))
    /\ IsScheduled(timer, "ackBackoffTimer") <=> Sending("ACK_WAIT")
    /\ IsScheduled(timer, "transmitStartDelay") => (In("AWAIT_TRANSMIT") \/ Sending("END"))
    /\ IsScheduled(timer, "replenishmentTimer") => In("AWAIT_TRANSMIT")
    /\ IsScheduled(timer, "txBackoffTimer") <=> activeBackoff = "WAIT"

\* The backoff object lives exactly as long as the carrier sense phase of a
\* transmission, and agrees with the radio it drives.
BackoffMatchesPhase ==
    /\ activeBackoff # "NULL" <=> (Sending("DATA_WAIT") \/ Receiving("ACK"))
    /\ activeBackoff = "WAIT" => radioMode = "RECEIVER"
    /\ activeBackoff = "SWITCHING" <=> radioMode = "TO_TRANSMITTER"
    /\ transmitting <=> radioMode = "TRANSMITTER"
    /\ transmitting <=> (Sending("DATA") \/ activeBackoff = "FINISHED")
    /\ Sending("DATA_WAIT") => activeBackoff # "FINISHED"

\* Waiting to transmit, the MAC has something to wait for, and it listens.
AwaitArmed ==
    /\ In("AWAIT_TRANSMIT") =>
         \/ IsScheduled(timer, "transmitStartDelay")
         \/ IsScheduled(timer, "replenishmentTimer")
         \/ radioMode = "TO_RECEIVER"
    /\ In("DATA_IDLE") \/ In("AWAIT_TRANSMIT") \/ Sending("ACK_WAIT")
         => radioMode \in {"RECEIVER", "TO_RECEIVER"}

\* The mark "drop this frame as a duplicate" never outlives the frame it was
\* made for: left over, it would drop the next frame of another transmitter.
DeferredDropScope ==
    deferredDuplicateDrop => Receiving("FINISH") /\ rxOutcome = "pending"

\* A current frame has no confirmed forwarder between handlers: one kept for
\* another try, where a subclass allows it, never repeats a packet that was
\* passed on.  (The drop of a forwarded current frame in handleCrashOperation
\* therefore never happens.)
RetryUnacknowledged ==
    currentTxFrame # NoFrame => txInProgressForwarders = 0

\* A packet has one try: TX_START is then only set by a wait, which has not set
\* the replenishment check, and never while the radio falls asleep.
OneTry ==
    /\ In("TRANSMIT") => txInProgressTries = MaxTxTries
    /\ IsScheduled(timer, "transmitStartDelay") =>
         In("AWAIT_TRANSMIT") /\ ~IsScheduled(timer, "replenishmentTimer")

\* Nothing fires into a phase that ignores it or while the node is down, and
\* no phase is stuck: timers, the backoff object, the radio and the phase that
\* needs them agree after whatever order of handlers, stops and restarts.
PhaseServed == TimersMatchPhase /\ BackoffMatchesPhase /\ AwaitArmed /\ OneTry

\* What outlives a phase or a stop is what should: the mark goes with the frame
\* it was made for, and only a packet nobody has taken is kept for a retry.
KeptFrames == DeferredDropScope /\ RetryUnacknowledged

\* While the node runs, a frame marked as duplicate ends in a drop, never in
\* a delivery and never in oblivion.
DeferredDropCompleted ==
    [][deferredDuplicateDrop /\ ~deferredDuplicateDrop' /\ operating'
         => rxOutcome' = "dropped"]_vars

\* A stored frame is dropped only by leaving the contention or on a repetition
\* of the data: once acknowledged and not repeated, its transmitter counts on
\* this node, and not even a crash drops it.
AcknowledgedNotDropped ==
    [][rxOutcome = "pending" /\ rxOutcome' = "dropped"
         => deferredDuplicateDrop \/ \E frame \in DataFrame : RxRepeatedData(frame)]_vars

(***************************************************************************)
(* Liveness                                                                *)
(***************************************************************************)

\* Neither a low battery, nor the radio, nor a reception cut short leaves a
\* waiting packet waiting for ever: each wait ends.
AwaitEnds == []<>~In("AWAIT_TRANSMIT")

\* No phase of a transmission and no acknowledgment waits for ever.
PhasesEnd ==
    /\ \A phase \in {"DATA_WAIT", "DATA", "ACK_WAIT", "END"} : []<>~Sending(phase)
    /\ []<>~Receiving("ACK")

\* Once the node stays up, hears no more data and no more than one forwarder
\* answers, every packet accepted is sent or dropped.
QuietEnvironment ==
    /\ <>[]operating
    /\ <>[][~(\/ TxAckTimeoutContention
              \/ \E frame \in DataFrame \cup {NoFrame} : IdleReceive(frame) \/ AwaitReceive(frame)
              \/ \E frame \in DataFrame : RxFirstData(frame) \/ RxRepeatedData(frame))]_vars

EveryPacketResolved ==
    QuietEnvironment => \A p \in Packets : []<>(outcome[p] # "held")

(***************************************************************************)
(* What the code does not do                                               *)
(***************************************************************************)

\* ORWMacState.cc:260, "Compare the received data to stored data, discard it
\* new data": a stored frame is not replaced by another packet.
StoredPacketKept ==
    [][currentRxFrame # NoFrame /\ currentRxFrame' # NoFrame
         => currentRxFrame'.pkt = currentRxFrame.pkt]_vars
=============================================================================
