----------------------------- MODULE WakeUpMac -----------------------------
(***************************************************************************)
(* WakeUpMacLayer, the two-radio subclass of ORWMac: the node listens with *)
(* a wake-up radio, a transmitter sends a wake-up before its data, and the *)
(* data radio is on only for the contention that follows.  As the C++      *)
(* class inherits from ORWMac, this module extends ORWMac: handlers that   *)
(* are not overridden are its actions, those that are overridden (or call  *)
(* an overridden method) are defined here.  radioMode is the data radio's. *)
(*                                                                         *)
(* WAKE_UP_IDLE takes the place of DATA_IDLE, which is left at the first   *)
(* start and not entered again; RECEIVE/FINISH ends in the instant it      *)
(* begins, so no repetition is heard in it.                                *)
(***************************************************************************)
EXTENDS ORWMac

CONSTANT
    DynamicWakeUpChecking  \* dynamicWakeUpChecking: wake-ups are judged by cost

\* initialize() loads the fields of PlainFields, skips an acknowledgment only if
\* data packets are checked, and throws unless one of the two checks is made.
ASSUME WakeUpAssumption ==
    /\ DynamicWakeUpChecking \in BOOLEAN
    /\ SkipDirectTxFinalAck => CheckDataPacketEqDC
    /\ DynamicWakeUpChecking \/ CheckDataPacketEqDC

VARIABLES
    wakeUpRadioMode,  \* mode of wakeUpRadio
    activeRadio,      \* whose signals are interpreted, "none" before the first start
    wuState,          \* WuWaitState, while macState is WAKE_UP_WAIT
    approval          \* the "approve" message of queryWakeupRequest, which nobody cancels

wakeUpVars == <<wakeUpRadioMode, activeRadio, wuState, approval>>
wuAllVars == <<vars, wakeUpVars>>

WakeUpTypeOK ==
    /\ operating \in BOOLEAN
    /\ macState \in {"DATA_IDLE", "WAKE_UP_IDLE", "WAKE_UP_WAIT", "RECEIVE",
                     "AWAIT_TRANSMIT", "TRANSMIT"}
    /\ txDataState \in {"WAKE_UP_WAIT", "WAKE_UP", "DATA_WAIT", "DATA", "ACK_WAIT", "END"}
    /\ rxState \in {"IDLE", "DATA_WAIT", "ACK", "FINISH"}
    /\ {radioMode, wakeUpRadioMode} \subseteq RadioMode
    /\ activeRadio \in {"none", "wakeUp", "data"}
    /\ wuState \in {"IDLE", "APPROVE_WAIT", "DATA_RADIO_WAIT"}
    /\ approval \in {"off", "now"}
    /\ transmitting \in BOOLEAN
    /\ timer \in [Timer -> TimerState]
    /\ activeBackoff \in BackoffState
    /\ txQueue \in Seq(Packets)
    /\ currentTxFrame \in Packets \cup {NoFrame}
    /\ txInProgressTries \in 0..MaxTxTries
    /\ txInProgressForwarders \in 0..RequiredForwarders
    /\ acknowledgedForwarders \in 0..(RequiredForwarders + 1)
    /\ dataMinExpectedCost \in {0, MaxEqDC}
    /\ outcome \in [Packets -> {"new", "held", "sent", "noRoute", "overflow", "down"}]
    /\ currentRxFrame \in DataFrame \cup {NoFrame}
    /\ rxOutcome \in {"none", "pending", "sentUp", "dropped"}
    /\ deferredDuplicateDrop \in BOOLEAN
    /\ acceptDataEqDCThreshold \in {0, MaxEqDC}

WakeUpInit ==
    /\ InitVariables
    /\ wakeUpRadioMode = "OFF"
    /\ activeRadio = "none"
    /\ wuState = "IDLE"
    /\ approval = "off"

(***************************************************************************)
(* A delay outlasts a switch of the wake-up radio as well (0.5 ms at most  *)
(* in the node's NED), and an approval due now comes before it.            *)
(***************************************************************************)
WakeUpFires(t) ==
    /\ Fires(t)
    /\ timer[t] = "later" => wakeUpRadioMode \notin Switching /\ approval = "off"

\* A handler of ORWMac that is not overridden, with the timer t it handles
Inherit(action) == action /\ UNCHANGED wakeUpVars
InheritAt(t, action) == WakeUpFires(t) /\ Inherit(action)

-----------------------------------------------------------------------------
(***************************************************************************)
(* The two radios                                                          *)
(***************************************************************************)

\* setRadioMode(OFF): switched off in 0.1 ms, before any event can find it so
TurnedOff(mode) == IF mode \in Switching \cup {"ERROR"} THEN "ERROR" ELSE "OFF"

\* Fault: the data radio is left on.
DataRadioLeftOn(radio) == radio

\* changeActiveRadio(wakeUpRadio): a data radio that was active is turned off
DataRadioGivenUp(radio) == IF activeRadio = "data" THEN TurnedOff(radio) ELSE radio

\* changeActiveRadio(dataRadio), then setRadioMode(SLEEP).  From OFF that takes
\* the radio a while, even if it falls asleep in no time from other modes.
DataRadioTakesOver ==
    /\ activeRadio' = "data"
    /\ wakeUpRadioMode' = IF activeRadio = "wakeUp" THEN TurnedOff(wakeUpRadioMode)
                          ELSE wakeUpRadioMode
    /\ radioMode' = IF radioMode = "OFF" THEN "TO_SLEEP" ELSE SetRadioMode(radioMode, "SLEEP")

\* stateListeningEnter: back to the wake-up radio, with work or without
WakeUpListeningEnter(radio, timers) ==
    /\ wakeUpRadioMode' = SetRadioMode(wakeUpRadioMode, "RECEIVER")
    /\ radioMode' = DataRadioGivenUp(radio)
    /\ activeRadio' = "wakeUp"
    /\ IF HasWork' THEN StateListeningEnterAlreadyListening(wakeUpRadioMode', timers)
       ELSE macState' = "WAKE_UP_IDLE" /\ timer' = timers

\* stateTxEnterEnd, with the nested DATA_RX_IDLE of a radio asleep at once
WakeUpTxEnterEnd(timers) ==
    /\ txDataState' = "END"
    /\ LET radio == SetRadioMode(radioMode, "SLEEP")
       IN  IF radio = "SLEEP" THEN WakeUpListeningEnter(radio, timers)
           ELSE /\ radioMode' = radio /\ timer' = timers
                /\ UNCHANGED <<macState, wakeUpRadioMode, activeRadio>>

-----------------------------------------------------------------------------
(***************************************************************************)
(* Listening: WAKE_UP_IDLE and AWAIT_TRANSMIT                              *)
(***************************************************************************)

\* A fresh uniform backoff on the wake-up radio, then stateTxEnter
WakeUpTxEnter(radio, timers) ==
    /\ \E b \in StartTxOrDelay(radio, timers) :
         /\ activeBackoff' = b.state
         /\ wakeUpRadioMode' = b.radio
         /\ timer' = b.timers
    /\ macState' = "TRANSMIT"
    /\ txDataState' = "WAKE_UP_WAIT"
    /\ dataMinExpectedCost' = MaxEqDC

WakeUpUpperPacketQueued(p) == macState # "WAKE_UP_IDLE" /\ Inherit(UpperPacketQueued(p))

\* QUEUE_SEND while idle: the disjuncts are a wake-up, and a wait for the radio
\* or for energy.
UpperPacketWakeUpIdle(p) ==
    /\ In("WAKE_UP_IDLE")
    /\ outcome[p] = "new"
    /\ SetupTransmission(EnqueueDropHead(txQueue, p), OutcomeAfterEnqueue(p))
    /\ \/ /\ wakeUpRadioMode \notin Switching
          /\ WakeUpTxEnter(wakeUpRadioMode, timer)
       \/ /\ StateListeningEnterAlreadyListening(wakeUpRadioMode, timer)
          /\ UNCHANGED <<txDataState, dataMinExpectedCost, wakeUpRadioMode, activeBackoff>>
    /\ UNCHANGED <<operating, rxState, radioMode, transmitting, txInProgressTries,
                   acknowledgedForwarders, storedVars, activeRadio, wuState, approval>>

\* DATA_RX_READY of the wake-up radio, which alone held the transmission back
WakeUpAwaitRadioReady ==
    /\ In("AWAIT_TRANSMIT") /\ wakeUpRadioMode = "TO_RECEIVER"
    /\ ~IsScheduled(timer, "transmitStartDelay")
    /\ ~IsScheduled(timer, "replenishmentTimer")
    /\ IF txQueue # <<>> THEN SetupTransmission(txQueue, outcome)
       ELSE UNCHANGED <<txQueue, currentTxFrame, txInProgressForwarders, outcome>>
    /\ WakeUpTxEnter("RECEIVER", timer)
    /\ UNCHANGED <<operating, rxState, radioMode, transmitting, txInProgressTries,
                   acknowledgedForwarders, storedVars, activeRadio, wuState, approval>>

\* TX_START, once replenished
WakeUpAwaitTransmitStart ==
    /\ In("AWAIT_TRANSMIT") /\ WakeUpFires("transmitStartDelay")
    /\ ~IsScheduled(timer, "replenishmentTimer")
    /\ IF currentTxFrame = NoFrame THEN SetupTransmission(txQueue, outcome)
       ELSE UNCHANGED <<txQueue, currentTxFrame, txInProgressForwarders, outcome>>
    /\ WakeUpTxEnter(wakeUpRadioMode, Fired("transmitStartDelay"))
    /\ UNCHANGED <<operating, rxState, radioMode, transmitting, txInProgressTries,
                   acknowledgedForwarders, storedVars, activeRadio, wuState, approval>>

\* DATA_RX_READY where the MAC only notes it
WakeUpRadioReady ==
    /\ operating /\ wakeUpRadioMode = "TO_RECEIVER"
    /\ \/ macState = "WAKE_UP_IDLE"
       \/ /\ macState = "AWAIT_TRANSMIT"
          /\ \/ IsScheduled(timer, "transmitStartDelay")
             \/ IsScheduled(timer, "replenishmentTimer")
    /\ wakeUpRadioMode' = "RECEIVER"
    /\ UNCHANGED <<vars, activeRadio, wuState, approval>>

-----------------------------------------------------------------------------
(***************************************************************************)
(* Being woken: WAKE_UP_WAIT                                               *)
(***************************************************************************)

\* Without the dynamic check every wake-up is approved, for any data.  With it
\* the network layer's hook may reject one, or ask for its own threshold: 0 if
\* the wake-up is for this node.
WakeUpAnswers ==
    IF DynamicWakeUpChecking
    THEN [threshold : {0, MaxEqDC}, approved : {"now"}]
           \cup {[threshold |-> acceptDataEqDCThreshold, approved |-> approval]}
    ELSE {[threshold |-> MaxEqDC, approved |-> "now"]}

QueryWakeUpRequest ==
    \E answer \in WakeUpAnswers :
        /\ acceptDataEqDCThreshold' = answer.threshold
        /\ approval' = answer.approved

\* WU_START: a neighbour's wake-up.  The wait for an approval begins.
WakeUpStart(timers) ==
    /\ wakeUpRadioMode = "RECEIVER"
    /\ timer' = Schedule(timers, "receiveTimeout", "later")
    /\ QueryWakeUpRequest
    /\ wuState' = "APPROVE_WAIT"
    /\ macState' = "WAKE_UP_WAIT"
    /\ UNCHANGED <<operating, txDataState, rxState, radioMode, transmitting, activeBackoff,
                   txVars, ackVars, currentRxFrame, rxOutcome, deferredDuplicateDrop,
                   wakeUpRadioMode, activeRadio>>

WakeUpIdleStart == In("WAKE_UP_IDLE") /\ WakeUpStart(timer)

WakeUpAwaitStart ==
    /\ In("AWAIT_TRANSMIT")
    /\ WakeUpStart(Cancel(Cancel(timer, "transmitStartDelay"), "replenishmentTimer"))

Waking(state) == In("WAKE_UP_WAIT") /\ wuState = state

\* Fault: the timeout of the approval wait is left pending.
WakeUpApprovedKeepingTimeout ==
    /\ Waking("APPROVE_WAIT") /\ approval = "now"
    /\ approval' = "off"
    /\ wuState' = "DATA_RADIO_WAIT"
    /\ DataRadioTakesOver
    /\ UNCHANGED <<macVars, transmitting, timer, activeBackoff, txVars, ackVars, storedVars>>

\* WU_APPROVE: the data radio is started, by way of its sleep mode.
WakeUpApproved ==
    /\ Waking("APPROVE_WAIT") /\ approval = "now"
    /\ approval' = "off"
    /\ wuState' = "DATA_RADIO_WAIT"
    /\ DataRadioTakesOver
    /\ timer' = Cancel(Cancel(timer, "receiveTimeout"), "transmitStartDelay")
    /\ UNCHANGED <<macVars, transmitting, activeBackoff, txVars, ackVars, storedVars>>

\* DATA_TIMEOUT: nobody approved, back to listening.
WakeUpNotApproved ==
    /\ Waking("APPROVE_WAIT") /\ WakeUpFires("receiveTimeout")
    /\ UNCHANGED txVars
    /\ WakeUpListeningEnter(radioMode, Fired("receiveTimeout"))
    /\ UNCHANGED <<operating, txDataState, rxState, transmitting, activeBackoff, ackVars,
                   storedVars, wuState, approval>>

\* DATA_RX_IDLE of the data radio: it is up, let it listen.
WakeUpDataAsleep ==
    /\ Waking("DATA_RADIO_WAIT") /\ radioMode = "TO_SLEEP"
    /\ radioMode' = SetRadioMode("SLEEP", "RECEIVER")
    /\ UNCHANGED <<macVars, transmitting, timer, activeBackoff, txVars, ackVars, storedVars,
                   wakeUpVars>>

\* DATA_RX_READY of the data radio: the reception starts.
WakeUpDataReady ==
    /\ Waking("DATA_RADIO_WAIT") /\ radioMode = "TO_RECEIVER"
    /\ radioMode' = "RECEIVER"
    /\ wuState' = "IDLE"
    /\ macState' = "RECEIVE"
    /\ rxState' = "DATA_WAIT"
    /\ timer' = Schedule(timer, "receiveTimeout", "later")
    /\ UNCHANGED <<operating, txDataState, transmitting, activeBackoff, txVars, ackVars,
                   storedVars, wakeUpRadioMode, activeRadio, approval>>

-----------------------------------------------------------------------------
(***************************************************************************)
(* TRANSMIT: the wake-up before the data                                   *)
(***************************************************************************)

\* CSMA_BACKOFF before the wake-up
TxWakeUpBackoffTimer ==
    /\ Sending("WAKE_UP_WAIT") /\ WakeUpFires("txBackoffTimer")
    /\ activeBackoff = "WAIT"
    /\ \E b \in StartTxOrBackoff(wakeUpRadioMode, Fired("txBackoffTimer"), FALSE) :
         /\ activeBackoff' = b.state
         /\ wakeUpRadioMode' = b.radio
         /\ timer' = b.timers
    /\ UNCHANGED <<macVars, radioMode, transmitting, txVars, ackVars, storedVars,
                   activeRadio, wuState, approval>>

\* Fault: the backoff of the wake-up is not deleted.
TxWakeUpReadyKeepingBackoff ==
    /\ Sending("WAKE_UP_WAIT") /\ wakeUpRadioMode = "TO_TRANSMITTER"
    /\ wakeUpRadioMode' = "TRANSMITTER"
    /\ transmitting' = TRUE
    /\ txInProgressTries' = TriesWithThis
    /\ txDataState' = "WAKE_UP"
    /\ UNCHANGED <<operating, macState, rxState, radioMode, timer, activeBackoff, txQueue,
                   currentTxFrame, txInProgressForwarders, outcome, ackVars, storedVars,
                   activeRadio, wuState, approval>>

\* TX_READY: delete the backoff and send the wake-up, which counts as a try.
TxWakeUpReady ==
    /\ Sending("WAKE_UP_WAIT") /\ wakeUpRadioMode = "TO_TRANSMITTER"
    /\ wakeUpRadioMode' = "TRANSMITTER"
    /\ transmitting' = TRUE
    /\ txInProgressTries' = TriesWithThis
    /\ txDataState' = "WAKE_UP"
    /\ activeBackoff' = "NULL"
    /\ timer' = Cancel(timer, "txBackoffTimer")
    /\ UNCHANGED <<operating, macState, rxState, radioMode, txQueue, currentTxFrame,
                   txInProgressForwarders, outcome, ackVars, storedVars,
                   activeRadio, wuState, approval>>

\* Fault: nothing ends the wait for the neighbours to wake up.
TxWakeUpEndWithoutTimeout ==
    /\ Sending("WAKE_UP") /\ transmitting
    /\ transmitting' = FALSE
    /\ DataRadioTakesOver
    /\ UNCHANGED <<macVars, timer, activeBackoff, txVars, ackVars, storedVars, wuState, approval>>

\* TX_END of the wake-up: wait for the neighbours to wake up.
TxWakeUpEnd ==
    /\ Sending("WAKE_UP") /\ transmitting
    /\ transmitting' = FALSE
    /\ DataRadioTakesOver
    /\ timer' = Schedule(timer, "receiveTimeout", "later")
    /\ UNCHANGED <<macVars, activeBackoff, txVars, ackVars, storedVars, wuState, approval>>

\* DATA_RX_IDLE of the data radio in that wait: only noted
TxWakeUpAsleep ==
    /\ Sending("WAKE_UP") /\ radioMode = "TO_SLEEP"
    /\ radioMode' = "SLEEP"
    /\ UNCHANGED <<macVars, transmitting, timer, activeBackoff, txVars, ackVars, storedVars,
                   wakeUpVars>>

\* DATA_TIMEOUT: contend for the data channel.  txWakeUpWaitDuration "must be
\* bigger than radio OFF -> idle" (WakeUpMacLayer.ned:25).
TxWakeUpTimeout ==
    /\ Sending("WAKE_UP") /\ WakeUpFires("receiveTimeout") /\ radioMode # "TO_SLEEP"
    /\ StateTxEnterDataWait(radioMode, Fired("receiveTimeout"))
    /\ UNCHANGED <<operating, macState, rxState, transmitting, txVars, ackVars, storedVars,
                   wakeUpVars>>

\* RX_READY of a backoff started cold: sense the carrier.
TxRadioReady ==
    /\ Sending("DATA_WAIT") /\ radioMode = "TO_RECEIVER"
    /\ activeBackoff = "WAIT" /\ ~IsScheduled(timer, "txBackoffTimer")
    /\ \E b \in StartTxOrBackoff("RECEIVER", timer, FALSE) :
         /\ activeBackoff' = b.state
         /\ radioMode' = b.radio
         /\ timer' = b.timers
    /\ UNCHANGED <<macVars, transmitting, txVars, ackVars, storedVars, wakeUpVars>>

(***************************************************************************)
(* TRANSMIT: handlers of ORWMac that end in the overridden listening       *)
(***************************************************************************)
WakeUpTxEndDirect ==
    /\ Sending("DATA") /\ transmitting
    /\ SkipDirectTxFinalAck /\ dataMinExpectedCost = 0
    /\ transmitting' = FALSE
    /\ CompletePacketTransmission(txInProgressForwarders, TRUE)
    /\ WakeUpTxEnterEnd(timer)
    /\ UNCHANGED <<operating, rxState, activeBackoff, ackVars, storedVars, wuState, approval>>

WakeUpTxAckTimeoutComplete ==
    /\ AckTimeout /\ WakeUpFires("ackBackoffTimer")
    /\ \/ /\ currentTxFrame \in BroadcastPackets
          /\ CompletePacketTransmission(txInProgressForwarders, TRUE)
          /\ WakeUpTxEnterEnd(Fired("ackBackoffTimer"))
       \/ /\ currentTxFrame \notin BroadcastPackets
          /\ radioMode = "RECEIVER"
          /\ acknowledgedForwarders <= RequiredForwarders
          /\ CompletePacketTransmission(txInProgressForwarders + acknowledgedForwarders, FALSE)
          /\ WakeUpTxEnterEnd(IF currentTxFrame' = NoFrame THEN Fired("ackBackoffTimer")
                              ELSE Schedule(Fired("ackBackoffTimer"),
                                            "transmitStartDelay", "later"))
    /\ UNCHANGED <<operating, rxState, transmitting, activeBackoff, ackVars, storedVars,
                   wuState, approval>>

WakeUpTxEndAsleep ==
    /\ Sending("END") /\ radioMode = "TO_SLEEP"
    /\ UNCHANGED <<currentTxFrame, txQueue>>
    /\ WakeUpListeningEnter("SLEEP", timer)
    /\ UNCHANGED <<operating, txDataState, rxState, transmitting, activeBackoff, outcome,
                   txInProgressTries, txInProgressForwarders, ackVars, storedVars,
                   wuState, approval>>

-----------------------------------------------------------------------------
(***************************************************************************)
(* RECEIVE: FINISH is overridden to end at once, and listening as above.   *)
(***************************************************************************)
WakeUpEnterFinish(timers) ==
    /\ rxState' = "FINISH"
    /\ timer' = Schedule(timers, "receiveTimeout", "now")

\* DATA_RECEIVED from the stored frame's transmitter, as RxRepeatedData
WakeUpRxRepeatedData(frame) ==
    /\ Receiving("DATA_WAIT") /\ Hears
    /\ Repeats(frame)
    /\ LET stopped == Cancel(timer, "receiveTimeout")
           persist == CheckDataPacketEqDC /\ acceptDataEqDCThreshold = 0
       IN  \/ /\ CheckDataPacketEqDC /\ MayReject(frame)
              /\ currentRxFrame' = NoFrame
              /\ rxOutcome' = "dropped"
              /\ deferredDuplicateDrop' = FALSE
              /\ WakeUpEnterFinish(stopped)
              /\ UNCHANGED <<activeBackoff, radioMode>>
           \/ /\ currentRxFrame' = frame
              /\ UNCHANGED rxOutcome
              /\ \/ /\ persist /\ SkipDirectTxFinalAck
                    /\ WakeUpEnterFinish(stopped)
                    /\ UNCHANGED <<activeBackoff, radioMode, deferredDuplicateDrop>>
                 \/ /\ ~(persist /\ SkipDirectTxFinalAck)
                    /\ StateReceiveEnterAck(stopped)
                    /\ UNCHANGED deferredDuplicateDrop
                 \/ /\ ~persist
                    /\ deferredDuplicateDrop' = TRUE
                    /\ WakeUpEnterFinish(stopped)
                    /\ UNCHANGED <<activeBackoff, radioMode>>
    /\ UNCHANGED <<operating, macState, txDataState, transmitting, txVars, ackVars,
                   acceptDataEqDCThreshold, wakeUpVars>>

\* CSMA_BACKOFF before the acknowledgment, as RxBackoffTimer
WakeUpRxBackoffTimer ==
    /\ Receiving("ACK") /\ WakeUpFires("txBackoffTimer")
    /\ activeBackoff = "WAIT"
    /\ \E b \in StartTxOrBackoff(radioMode, Fired("txBackoffTimer"), TRUE) :
         /\ radioMode' = b.radio
         /\ \/ /\ b.state # "OFF"
               /\ activeBackoff' = b.state
               /\ timer' = b.timers
               /\ UNCHANGED <<rxState, deferredDuplicateDrop>>
            \/ /\ b.state = "OFF"
               /\ activeBackoff' = "NULL"
               /\ deferredDuplicateDrop' = TRUE
               /\ WakeUpEnterFinish(b.timers)
    /\ UNCHANGED <<operating, macState, txDataState, transmitting, txVars, ackVars,
                   currentRxFrame, rxOutcome, acceptDataEqDCThreshold, wakeUpVars>>

WakeUpRxDataTimeout ==
    /\ Receiving("DATA_WAIT") /\ WakeUpFires("receiveTimeout")
    /\ CompletePacketReception
    /\ UNCHANGED txVars
    /\ WakeUpListeningEnter(radioMode, Fired("receiveTimeout"))
    /\ UNCHANGED <<operating, txDataState, rxState, transmitting, activeBackoff, ackVars,
                   deferredDuplicateDrop, acceptDataEqDCThreshold, wuState, approval>>

WakeUpRxFinishTimeout ==
    /\ Receiving("FINISH") /\ WakeUpFires("receiveTimeout")
    /\ CompleteDeferredDrop
    /\ UNCHANGED txVars
    /\ WakeUpListeningEnter(radioMode, Fired("receiveTimeout"))
    /\ UNCHANGED <<operating, txDataState, rxState, transmitting, activeBackoff, ackVars,
                   acceptDataEqDCThreshold, wuState, approval>>

(***************************************************************************)
(* The lifecycle of the node.  activeRadio and wuState survive a stop.  A  *)
(* stop comes at an instant of its own, so no approval is due at it.       *)
(***************************************************************************)
BothRadiosOff == wakeUpRadioMode' = "OFF" /\ UNCHANGED <<activeRadio, wuState, approval>>

WakeUpAwaitNotReplenished ==
    /\ WakeUpFires("replenishmentTimer") /\ AwaitNotReplenished
    /\ BothRadiosOff

WakeUpNodeStop == approval = "off" /\ NodeStop /\ BothRadiosOff

WakeUpNodeStart ==
    /\ ~operating
    /\ operating' = TRUE
    /\ CompletePacketReception
    /\ UNCHANGED txVars
    /\ WakeUpListeningEnter("OFF", timer)
    /\ UNCHANGED <<txDataState, rxState, transmitting, activeBackoff, ackVars,
                   deferredDuplicateDrop, acceptDataEqDCThreshold, wuState, approval>>

-----------------------------------------------------------------------------
Listening ==
    \/ \E p \in Packets : UpperPacketWakeUpIdle(p) \/ WakeUpUpperPacketQueued(p)
    \/ WakeUpAwaitRadioReady \/ WakeUpAwaitTransmitStart \/ WakeUpRadioReady
    \/ InheritAt("transmitStartDelay", AwaitTransmitStartTooEarly)
    \/ InheritAt("replenishmentTimer", AwaitReplenished)
    \/ WakeUpAwaitNotReplenished

WakingUp ==
    \/ WakeUpIdleStart \/ WakeUpAwaitStart \/ WakeUpApproved \/ WakeUpNotApproved
    \/ WakeUpDataAsleep \/ WakeUpDataReady

Transmitting ==
    \/ TxWakeUpBackoffTimer \/ TxWakeUpReady \/ TxWakeUpEnd \/ TxWakeUpAsleep
    \/ TxWakeUpTimeout \/ TxRadioReady
    \/ InheritAt("txBackoffTimer", TxBackoffTimer)
    \/ Inherit(TxReady) \/ Inherit(TxEndAwaitAck) \/ WakeUpTxEndDirect
    \/ \E fromDestination \in BOOLEAN : Inherit(TxAckReceived(fromDestination))
    \/ Inherit(RadioReady)
    \/ InheritAt("ackBackoffTimer", TxAckTimeoutBusy)
    \/ InheritAt("ackBackoffTimer", TxAckTimeoutContention)
    \/ WakeUpTxAckTimeoutComplete
    \/ InheritAt("transmitStartDelay", TxEndTransmitStart) \/ WakeUpTxEndAsleep

ReceivingData ==
    \/ \E frame \in DataFrame : Inherit(RxFirstData(frame)) \/ WakeUpRxRepeatedData(frame)
    \/ WakeUpRxBackoffTimer \/ Inherit(RxAckReady) \/ Inherit(RxAckEnd)
    \/ Inherit(RxRadioReady) \/ WakeUpRxDataTimeout \/ WakeUpRxFinishTimeout

WakeUpNext ==
    \/ Listening \/ WakingUp \/ Transmitting \/ ReceivingData
    \/ WakeUpNodeStop \/ WakeUpNodeStart

WakeUpSpec == WakeUpInit /\ [][WakeUpNext]_wuAllVars

(***************************************************************************)
(* Fairness as in ORWMac, for both radios: the event scheduler delivers    *)
(* every message, a radio ends what it began, and the medium is not busy   *)
(* at each of infinitely many random samples.                              *)
(***************************************************************************)
WakeUpFairness ==
    /\ WF_wuAllVars(WakeUpAwaitRadioReady \/ WakeUpRadioReady)
    /\ WF_wuAllVars(WakeUpAwaitTransmitStart
                     \/ InheritAt("transmitStartDelay", AwaitTransmitStartTooEarly))
    /\ WF_wuAllVars(InheritAt("replenishmentTimer", AwaitReplenished)
                     \/ WakeUpAwaitNotReplenished)
    /\ WF_wuAllVars(WakeUpApproved \/ WakeUpNotApproved)
    /\ WF_wuAllVars(WakeUpDataAsleep \/ WakeUpDataReady)
    /\ WF_wuAllVars(TxWakeUpReady \/ TxWakeUpEnd)
    /\ WF_wuAllVars(TxWakeUpAsleep \/ TxWakeUpTimeout \/ TxRadioReady)
    /\ WF_wuAllVars(Inherit(TxReady) \/ Inherit(RxAckReady))
    /\ WF_wuAllVars(Inherit(TxEndAwaitAck) \/ WakeUpTxEndDirect \/ Inherit(RxAckEnd))
    /\ WF_wuAllVars(WakeUpTxEndAsleep)
    /\ WF_wuAllVars(Inherit(RadioReady) \/ Inherit(RxRadioReady))
    /\ WF_wuAllVars(WakeUpRxDataTimeout \/ WakeUpRxFinishTimeout)
    /\ SF_wuAllVars(TxWakeUpBackoffTimer /\ activeBackoff' # "WAIT")
    /\ SF_wuAllVars(InheritAt("txBackoffTimer", TxBackoffTimer) /\ activeBackoff' # "WAIT")
    /\ SF_wuAllVars(WakeUpRxBackoffTimer /\ activeBackoff' # "WAIT")
    /\ SF_wuAllVars(InheritAt("ackBackoffTimer", TxAckTimeoutContention)
                     \/ WakeUpTxAckTimeoutComplete)

WakeUpFairSpec == WakeUpSpec /\ WakeUpFairness

-----------------------------------------------------------------------------
(***************************************************************************)
(* Safety                                                                  *)
(***************************************************************************)

\* No handler throws: neither radio is told to switch while it switches, no
\* pending timer is scheduled again (receiveTimeout serves the approval, the
\* wait for woken neighbours and the reception), no backoff replaces a live
\* one, and a frame that a handler dereferences is there.
WakeUpNoRuntimeError ==
    /\ radioMode # "ERROR" /\ wakeUpRadioMode # "ERROR"
    /\ activeBackoff # "ERROR"
    /\ \A t \in Timer : timer[t] # "error"
    /\ In("WAKE_UP_IDLE") => ~HasWork
    /\ In("AWAIT_TRANSMIT") => HasWork
    /\ In("TRANSMIT") /\ txDataState # "END" => currentTxFrame # NoFrame
    /\ Receiving("ACK") => currentRxFrame # NoFrame

\* One receiveTimeout serves four waits, and transmitStartDelay and the approve
\* message must not fire into a phase that takes them for something else:
\* each is pending exactly in its phases, through approval, timeout, stop and
\* start.  (transmitStartDelay is never pending when a wake-up is approved,
\* which WakeUpMacLayer.cc:313 asks about.)
WakeUpTimersMatchPhase ==
    /\ IsScheduled(timer, "receiveTimeout") <=>
         \/ Receiving("DATA_WAIT") \/ Receiving("FINISH") \/ Waking("APPROVE_WAIT")
         \/ Sending("WAKE_UP") /\ ~transmitting
    /\ IsScheduled(timer, "ackBackoffTimer") <=> Sending("ACK_WAIT")
    /\ IsScheduled(timer, "transmitStartDelay") => (In("AWAIT_TRANSMIT") \/ Sending("END"))
    /\ IsScheduled(timer, "replenishmentTimer") => In("AWAIT_TRANSMIT")
    /\ IsScheduled(timer, "txBackoffTimer") => activeBackoff = "WAIT"
    /\ approval = "now" => Waking("APPROVE_WAIT")

\* Only the active radio is ever on, so that no event of the other one is lost
\* on the node, and the phase decides which one it is.
OneRadioOn ==
    /\ activeRadio = "data" => wakeUpRadioMode = "OFF"
    /\ activeRadio # "data" => radioMode = "OFF"
    /\ In("WAKE_UP_IDLE") \/ In("AWAIT_TRANSMIT") \/ Waking("APPROVE_WAIT")
         => activeRadio = "wakeUp" /\ wakeUpRadioMode \in {"RECEIVER", "TO_RECEIVER"}
    /\ In("RECEIVE") \/ Waking("DATA_RADIO_WAIT") => activeRadio = "data"

\* The backoff lives through carrier sense only, before the wake-up on one
\* radio and before data or acknowledgment on the other, and whoever is on
\* the air is in a phase that waits for the end of it.
WakeUpBackoffMatchesPhase ==
    /\ activeBackoff # "NULL" <=>
         (Sending("WAKE_UP_WAIT") \/ Sending("DATA_WAIT") \/ Receiving("ACK"))
    /\ activeBackoff = "WAIT" =>
         \/ IsScheduled(timer, "txBackoffTimer")
              /\ (IF Sending("WAKE_UP_WAIT") THEN wakeUpRadioMode ELSE radioMode) = "RECEIVER"
         \/ Sending("DATA_WAIT") /\ radioMode = "TO_RECEIVER"
    /\ activeBackoff = "SWITCHING" <=> "TO_TRANSMITTER" \in {radioMode, wakeUpRadioMode}
    /\ transmitting <=> "TRANSMITTER" \in {radioMode, wakeUpRadioMode}
    /\ transmitting => Sending("WAKE_UP") \/ Sending("DATA") \/ activeBackoff = "FINISHED"

\* Waiting to transmit, the MAC has something to wait for.
WakeUpAwaitArmed ==
    In("AWAIT_TRANSMIT") =>
        \/ IsScheduled(timer, "transmitStartDelay")
        \/ IsScheduled(timer, "replenishmentTimer")
        \/ wakeUpRadioMode = "TO_RECEIVER"

\* Nothing fires into a phase that takes it for something else, no phase is
\* stuck and no end of a backoff is lost, on whichever of the two radios.
WakeUpPhaseServed == WakeUpTimersMatchPhase /\ WakeUpBackoffMatchesPhase /\ WakeUpAwaitArmed

\* A stored frame is dropped only by leaving the contention or on a repetition
\* of the data; not by a crash, nor by the change of radios.
WakeUpAcknowledgedNotDropped ==
    [][rxOutcome = "pending" /\ rxOutcome' = "dropped"
         => \/ deferredDuplicateDrop
            \/ \E frame \in DataFrame : WakeUpRxRepeatedData(frame)]_wuAllVars

(***************************************************************************)
(* Liveness                                                                *)
(***************************************************************************)

\* No wait to transmit, no wake-up, no transmission phase and no acknowledgment
\* lasts for ever, even if the wake-up is rejected, or comes from a neighbour
\* that sends no data.
WakeUpPhasesEnd ==
    /\ []<>~In("AWAIT_TRANSMIT")
    /\ \A state \in {"APPROVE_WAIT", "DATA_RADIO_WAIT"} : []<>~Waking(state)
    /\ \A phase \in {"WAKE_UP_WAIT", "WAKE_UP", "DATA_WAIT", "DATA", "ACK_WAIT", "END"} :
         []<>~Sending(phase)
    /\ []<>~Receiving("ACK")

\* Once the node stays up, is not woken and hears of no more than one forwarder,
\* every packet accepted is sent or dropped.
WakeUpQuietEnvironment ==
    /\ <>[]operating
    /\ <>[][~(\/ TxAckTimeoutContention \/ WakeUpIdleStart \/ WakeUpAwaitStart
              \/ \E frame \in DataFrame : RxFirstData(frame) \/ WakeUpRxRepeatedData(frame))]_wuAllVars

WakeUpEveryPacketResolved ==
    WakeUpQuietEnvironment => \A p \in Packets : []<>(outcome[p] # "held")
=============================================================================
