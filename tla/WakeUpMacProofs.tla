---------------------------- MODULE WakeUpMacProofs ----------------------------
(***************************************************************************)
(* Proofs about WakeUpMac, for every set of packets and neighbours, every  *)
(* queue capacity and number of tries, both kinds of radio and both kinds  *)
(* of wake-up check.                                                       *)
(*                                                                         *)
(* As in ORWMacProofs no control invariant is inductive on its own, and    *)
(* with two radios more of it is mutual: that a radio is never told to     *)
(* switch while it switches depends on which of the two is active, that on *)
(* the phase, and the phase on the timers, one of which serves four waits. *)
(* WakeUpInv is the conjunction that is inductive.                         *)
(***************************************************************************)
EXTENDS WakeUpMac, ORWMacPacketProofs

\* Where the two radios are in the phases of which OneRadioOn and
\* WakeUpBackoffMatchesPhase say nothing, and the sub-phases that are entered
\* with their phase.
RadiosMatchPhase ==
    /\ ~operating => radioMode = "OFF" /\ wakeUpRadioMode = "OFF"
    /\ operating => activeRadio # "none" /\ macState # "DATA_IDLE"
    /\ Waking("APPROVE_WAIT") => wakeUpRadioMode = "RECEIVER"
    /\ Waking("DATA_RADIO_WAIT") => radioMode \in {"TO_SLEEP", "TO_RECEIVER"}
    /\ In("WAKE_UP_WAIT") => wuState # "IDLE"
    /\ Sending("WAKE_UP_WAIT") => activeRadio = "wakeUp"
    /\ Sending("WAKE_UP") => IF transmitting THEN activeRadio = "wakeUp"
                             ELSE activeRadio = "data" /\ radioMode \in {"TO_SLEEP", "SLEEP"}
    /\ Sending("DATA_WAIT") \/ Sending("DATA") \/ Sending("ACK_WAIT") \/ Sending("END")
         => activeRadio = "data"
    /\ Sending("DATA") => transmitting
    /\ Sending("ACK_WAIT") => radioMode \in {"RECEIVER", "TO_RECEIVER"}
    /\ Sending("END") => radioMode = "TO_SLEEP"
    /\ In("RECEIVE") => rxState # "IDLE"
    /\ Receiving("DATA_WAIT") => radioMode \in {"RECEIVER", "TO_RECEIVER"}
    /\ Receiving("FINISH") => radioMode = "RECEIVER"

\* Only two timers are ever due now: the end of RECEIVE/FINISH, and the start of
\* a transmission, for which there is a packet and the wake-up radio listens.
WakeUpTimersDue ==
    /\ \A t \in Timer \ {"receiveTimeout", "transmitStartDelay"} : timer[t] # "now"
    /\ timer["receiveTimeout"] = "now" <=> Receiving("FINISH")
    /\ timer["transmitStartDelay"] = "now"
         => In("AWAIT_TRANSMIT") /\ wakeUpRadioMode = "RECEIVER"
    /\ IsScheduled(timer, "transmitStartDelay") => HasWork

WakeUpInv ==
    /\ WakeUpTypeOK
    /\ WakeUpNoRuntimeError
    /\ WakeUpTimersMatchPhase
    /\ WakeUpBackoffMatchesPhase
    /\ WakeUpAwaitArmed
    /\ OneRadioOn
    /\ DeferredDropScope
    /\ RetryUnacknowledged
    /\ RadiosMatchPhase
    /\ WakeUpTimersDue
    /\ StoredFrameMatchesPhase

-----------------------------------------------------------------------------
(***************************************************************************)
(* Init and the actions, one step per action and under it one per conjunct *)
(* that the action can disturb.  The vocabulary of the models is expanded  *)
(* throughout.                                                             *)
(***************************************************************************)
USE ORWMacAssumption, InstantSleepAssumption, WakeUpAssumption
    DEF WakeUpInv, In, Sending, Receiving, Waking, HasWork, Fires, WakeUpFires, Fired,
        IsScheduled, Schedule, Cancel, Timer, Inherit, InheritAt, RequiredForwarders, MaxEqDC,
        macVars, radioVars, txVars, ackVars, storedVars, wakeUpVars

\* The state before the first start satisfies the invariant.
LEMMA WakeUpInvInit == WakeUpInit => WakeUpInv
<1> SUFFICES ASSUME WakeUpInit PROVE WakeUpInv
  OBVIOUS
<1>1. WakeUpTypeOK
  <2>1. txQueue \in Seq(Packets)
    BY DEF WakeUpInit, InitVariables
  <2>2. operating \in BOOLEAN /\ transmitting \in BOOLEAN /\ deferredDuplicateDrop \in BOOLEAN
    BY DEF WakeUpInit, InitVariables
  <2> QED
    BY <2>1, <2>2 DEF WakeUpInit, InitVariables, WakeUpTypeOK, TimerState, RadioMode, BackoffState
<1>2. WakeUpNoRuntimeError /\ WakeUpTimersMatchPhase /\ WakeUpBackoffMatchesPhase /\ WakeUpAwaitArmed
  BY DEF WakeUpInit, InitVariables, WakeUpNoRuntimeError, WakeUpTimersMatchPhase,
     WakeUpBackoffMatchesPhase, WakeUpAwaitArmed
<1>3. OneRadioOn /\ DeferredDropScope /\ RetryUnacknowledged
  BY DEF WakeUpInit, InitVariables, OneRadioOn, DeferredDropScope, RetryUnacknowledged
<1>4. RadiosMatchPhase /\ WakeUpTimersDue /\ StoredFrameMatchesPhase
  BY DEF WakeUpInit, InitVariables, RadiosMatchPhase, WakeUpTimersDue, StoredFrameMatchesPhase
<1> QED
  BY <1>1, <1>2, <1>3, <1>4

\* The services' own definitions, too, until the end of the module.
USE DEF SetRadioMode, SwitchingTo, Switching, RadioMode, TimerState, BackoffState,
        TurnedOff, DataRadioGivenUp, Outcome, Hears, Repeats, AckTimeout, MayReject

\* A packet from the network layer preserves the invariant.
LEMMA WakeUpUpperPacketStep ==
    WakeUpInv /\ (\/ (\E p \in Packets : WakeUpUpperPacketQueued(p))
                   \/ (\E p \in Packets : UpperPacketWakeUpIdle(p)))
        => WakeUpInv'
<1> SUFFICES ASSUME WakeUpInv,
                    \/ (\E p \in Packets : WakeUpUpperPacketQueued(p))
                    \/ (\E p \in Packets : UpperPacketWakeUpIdle(p))
             PROVE WakeUpInv'
  OBVIOUS
<1>1. ASSUME NEW p \in Packets, WakeUpUpperPacketQueued(p) PROVE WakeUpInv'
  <2>1. WakeUpTypeOK'
    BY <1>1 DEF WakeUpTypeOK, WakeUpUpperPacketQueued, UpperPacketQueued, EnqueueDropHead,
       OutcomeAfterEnqueue
  <2>2. WakeUpNoRuntimeError'
    BY <1>1 DEF WakeUpNoRuntimeError, WakeUpUpperPacketQueued, UpperPacketQueued,
       EnqueueDropHead, OutcomeAfterEnqueue
  <2>3. WakeUpTimersDue'
    <3>1. txQueue' # <<>>
      <4>1. \A queue \in Seq(Packets) : Append(queue, p) # <<>>
        OBVIOUS
      <4>2. txQueue \in Seq(Packets) /\ Len(txQueue) \in Nat
        BY <1>1 DEF WakeUpTypeOK
      <4>3. txQueue' = EnqueueDropHead(txQueue, p)
        BY <1>1 DEF WakeUpUpperPacketQueued, UpperPacketQueued
      <4>4. CASE Len(txQueue) < QueueCapacity
        BY <4>1, <4>2, <4>3, <4>4 DEF EnqueueDropHead
      <4>5. CASE Len(txQueue) >= QueueCapacity
        <5>1. Tail(txQueue) \in Seq(Packets)
          BY <4>2, <4>5
        <5> QED
          BY <4>1, <4>2, <4>3, <4>5, <5>1 DEF EnqueueDropHead
      <4> QED
        BY <4>2, <4>4, <4>5
    <3>2. UNCHANGED <<operating, macState, rxState, timer, wakeUpRadioMode>>
      BY <1>1 DEF WakeUpUpperPacketQueued, UpperPacketQueued
    <3> QED
      BY <3>1, <3>2 DEF WakeUpTimersDue
  <2>4. /\ WakeUpTimersMatchPhase'
        /\ WakeUpBackoffMatchesPhase'
        /\ WakeUpAwaitArmed'
        /\ OneRadioOn'
        /\ DeferredDropScope'
        /\ RetryUnacknowledged'
        /\ RadiosMatchPhase'
        /\ StoredFrameMatchesPhase'
    BY <1>1 DEF WakeUpTimersMatchPhase, WakeUpBackoffMatchesPhase, WakeUpAwaitArmed,
       OneRadioOn, DeferredDropScope, RetryUnacknowledged, RadiosMatchPhase,
       StoredFrameMatchesPhase, WakeUpUpperPacketQueued, UpperPacketQueued
  <2> QED
    BY <2>1, <2>2, <2>3, <2>4 DEF WakeUpInv
<1>2. ASSUME NEW p \in Packets, UpperPacketWakeUpIdle(p) PROVE WakeUpInv'
  <2>0. txQueue = <<>> /\ EnqueueDropHead(txQueue, p) = <<p>> /\ currentTxFrame' = p
    <3>1. txQueue = <<>> /\ QueueCapacity > 0
      BY <1>2, ORWMacAssumption DEF WakeUpNoRuntimeError, UpperPacketWakeUpIdle, HasWork
    <3>2. EnqueueDropHead(txQueue, p) = <<p>>
      BY <3>1 DEF EnqueueDropHead
    <3> QED
      BY <1>2, <3>1, <3>2 DEF UpperPacketWakeUpIdle, SetupTransmission
  <2>1. WakeUpTypeOK'
    <3>1. txQueue = <<>> /\ QueueCapacity > 0
      BY <2>0, ORWMacAssumption
    <3>2. EnqueueDropHead(txQueue, p) = <<p>>
      BY <2>0
    <3>3. OutcomeAfterEnqueue(p)
             \in [Packets -> {"new", "held", "sent", "noRoute", "overflow", "down"}]
      BY <3>1 DEF WakeUpTypeOK, OutcomeAfterEnqueue
    <3>4. /\ txQueue' \in Seq(Packets) /\ currentTxFrame' \in Packets \cup {NoFrame}
          /\ outcome' \in [Packets -> {"new", "held", "sent", "noRoute", "overflow", "down"}]
          /\ txInProgressForwarders' \in 0..RequiredForwarders
      BY <1>2, <3>2, <3>3 DEF WakeUpTypeOK, UpperPacketWakeUpIdle, SetupTransmission
    <3>5. /\ timer' \in [Timer -> TimerState] /\ activeBackoff' \in BackoffState
          /\ wakeUpRadioMode' \in RadioMode
      BY <1>2, TimerType DEF WakeUpTypeOK, UpperPacketWakeUpIdle, WakeUpTxEnter,
         StateListeningEnterAlreadyListening, StartTxOrDelay, DelayCarrierSense, StartTx
    <3>6. /\ macState' \in {"DATA_IDLE", "AWAIT_TRANSMIT", "TRANSMIT"}
          /\ txDataState' \in {txDataState, "WAKE_UP_WAIT"}
          /\ dataMinExpectedCost' \in {dataMinExpectedCost, MaxEqDC}
      BY <1>2 DEF UpperPacketWakeUpIdle, WakeUpTxEnter, StateListeningEnterAlreadyListening
    <3> QED
      BY <1>2, <3>4, <3>5, <3>6 DEF WakeUpTypeOK, UpperPacketWakeUpIdle
  <2>2. WakeUpNoRuntimeError'
    <3>1. currentTxFrame' # NoFrame
      BY <1>2, <2>0, ORWMacAssumption
    <3>2. radioMode' # "ERROR" /\ wakeUpRadioMode' # "ERROR" /\ activeBackoff' # "ERROR"
      BY <1>2 DEF WakeUpNoRuntimeError, WakeUpTypeOK, WakeUpBackoffMatchesPhase, OneRadioOn,
         RadiosMatchPhase, UpperPacketWakeUpIdle, WakeUpTxEnter, StartTxOrDelay,
         DelayCarrierSense, StartTx
    <3>3. \A t \in Timer : timer'[t] # "error"
      BY <1>2 DEF WakeUpNoRuntimeError, WakeUpTypeOK, WakeUpTimersMatchPhase,
         WakeUpBackoffMatchesPhase, UpperPacketWakeUpIdle,
         StateListeningEnterAlreadyListening, WakeUpTxEnter, StartTxOrDelay,
         DelayCarrierSense, StartTx
    <3>4. macState' \in {"DATA_IDLE", "AWAIT_TRANSMIT", "TRANSMIT"}
      BY <1>2 DEF UpperPacketWakeUpIdle, WakeUpTxEnter, StateListeningEnterAlreadyListening
    <3> QED
      BY <3>1, <3>2, <3>3, <3>4 DEF WakeUpNoRuntimeError, HasWork
  <2>3. WakeUpTimersMatchPhase'
    BY <1>2 DEF WakeUpTimersMatchPhase, WakeUpTypeOK, WakeUpNoRuntimeError,
       WakeUpBackoffMatchesPhase, OneRadioOn, RadiosMatchPhase, UpperPacketWakeUpIdle,
       StateListeningEnterAlreadyListening, WakeUpTxEnter, StartTxOrDelay,
       DelayCarrierSense, StartTx
  <2>4. WakeUpBackoffMatchesPhase'
    BY <1>2 DEF WakeUpBackoffMatchesPhase, WakeUpTypeOK, WakeUpNoRuntimeError,
       WakeUpTimersMatchPhase, OneRadioOn, RadiosMatchPhase, UpperPacketWakeUpIdle,
       StateListeningEnterAlreadyListening, WakeUpTxEnter, StartTxOrDelay,
       DelayCarrierSense, StartTx
  <2>5. WakeUpAwaitArmed'
    BY <1>2 DEF WakeUpAwaitArmed, WakeUpTypeOK, WakeUpNoRuntimeError,
       WakeUpTimersMatchPhase, WakeUpBackoffMatchesPhase, OneRadioOn, RadiosMatchPhase,
       UpperPacketWakeUpIdle, StateListeningEnterAlreadyListening, WakeUpTxEnter,
       StartTxOrDelay, DelayCarrierSense, StartTx
  <2>6. OneRadioOn'
    BY <1>2 DEF OneRadioOn, UpperPacketWakeUpIdle, StateListeningEnterAlreadyListening,
       WakeUpTxEnter, StartTxOrDelay, DelayCarrierSense, StartTx
  <2>7. DeferredDropScope'
    BY <1>2 DEF DeferredDropScope, UpperPacketWakeUpIdle
  <2>8. RetryUnacknowledged'
    BY <1>2 DEF RetryUnacknowledged, UpperPacketWakeUpIdle, EnqueueDropHead,
       OutcomeAfterEnqueue, SetupTransmission, StateListeningEnterAlreadyListening
  <2>9. RadiosMatchPhase'
    <3>1. currentTxFrame' # NoFrame \/ txQueue' # <<>>
      BY <1>2, <2>0, ORWMacAssumption
    <3> QED
      BY <1>2, <3>1 DEF RadiosMatchPhase, OneRadioOn, UpperPacketWakeUpIdle,
         StateListeningEnterAlreadyListening, WakeUpTxEnter
  <2>10. WakeUpTimersDue'
    BY <1>2 DEF WakeUpTimersDue, WakeUpTypeOK, WakeUpNoRuntimeError, WakeUpTimersMatchPhase,
       WakeUpBackoffMatchesPhase, OneRadioOn, RadiosMatchPhase, UpperPacketWakeUpIdle,
       StateListeningEnterAlreadyListening, WakeUpTxEnter, StartTxOrDelay,
       DelayCarrierSense, StartTx
  <2>11. StoredFrameMatchesPhase'
    BY <1>2 DEF StoredFrameMatchesPhase, UpperPacketWakeUpIdle
  <2> QED
    BY <2>1, <2>2, <2>3, <2>4, <2>5, <2>6, <2>7, <2>8, <2>9, <2>10, <2>11 DEF WakeUpInv
<1> QED
  BY <1>1, <1>2

\* A step of AWAIT_TRANSMIT preserves the invariant.
LEMMA WakeUpAwaitStep ==
    WakeUpInv /\ (\/ WakeUpAwaitRadioReady
                   \/ WakeUpAwaitTransmitStart
                   \/ WakeUpRadioReady
                   \/ InheritAt("transmitStartDelay", AwaitTransmitStartTooEarly)
                   \/ InheritAt("replenishmentTimer", AwaitReplenished))
        => WakeUpInv'
<1> SUFFICES ASSUME WakeUpInv,
                    \/ WakeUpAwaitRadioReady
                    \/ WakeUpAwaitTransmitStart
                    \/ WakeUpRadioReady
                    \/ InheritAt("transmitStartDelay", AwaitTransmitStartTooEarly)
                    \/ InheritAt("replenishmentTimer", AwaitReplenished)
             PROVE WakeUpInv'
  OBVIOUS
<1>1. ASSUME WakeUpAwaitRadioReady PROVE WakeUpInv'
  <2>1. WakeUpTypeOK'
    <3>1. /\ txQueue' \in Seq(Packets) /\ currentTxFrame' \in Packets \cup {NoFrame}
          /\ outcome' \in [Packets -> {"new", "held", "sent", "noRoute", "overflow", "down"}]
          /\ txInProgressForwarders' \in 0..RequiredForwarders
      <4>1. CASE txQueue = <<>>
        BY <1>1, <4>1 DEF WakeUpTypeOK, WakeUpAwaitRadioReady
      <4>2. CASE txQueue # <<>>
        <5>1. Head(txQueue) \in Packets /\ Tail(txQueue) \in Seq(Packets)
          BY <4>2 DEF WakeUpTypeOK
        <5>2. SetupTransmission(txQueue, outcome)
          BY <1>1, <4>2 DEF WakeUpAwaitRadioReady
        <5> QED
          BY <5>1, <5>2 DEF WakeUpTypeOK, SetupTransmission, RequiredForwarders
      <4> QED
        BY <4>1, <4>2
    <3>2. /\ timer' \in [Timer -> TimerState] /\ activeBackoff' \in BackoffState
          /\ wakeUpRadioMode' \in RadioMode
      BY <1>1 DEF WakeUpTypeOK, WakeUpAwaitRadioReady, WakeUpTxEnter, StartTxOrDelay,
         DelayCarrierSense, StartTx
    <3> QED
      BY <1>1, <3>1, <3>2 DEF WakeUpTypeOK, WakeUpAwaitRadioReady, WakeUpTxEnter
  <2>2. WakeUpNoRuntimeError'
    BY <1>1 DEF WakeUpNoRuntimeError, WakeUpTypeOK, WakeUpTimersMatchPhase,
       WakeUpBackoffMatchesPhase, OneRadioOn, RadiosMatchPhase, WakeUpAwaitRadioReady,
       SetupTransmission, WakeUpTxEnter, StartTxOrDelay, DelayCarrierSense, StartTx
  <2>3. WakeUpTimersMatchPhase'
    BY <1>1 DEF WakeUpTimersMatchPhase, WakeUpTypeOK, WakeUpNoRuntimeError,
       WakeUpBackoffMatchesPhase, OneRadioOn, RadiosMatchPhase, WakeUpAwaitRadioReady,
       SetupTransmission, WakeUpTxEnter, StartTxOrDelay, DelayCarrierSense, StartTx
  <2>4. WakeUpBackoffMatchesPhase'
    BY <1>1 DEF WakeUpBackoffMatchesPhase, WakeUpTypeOK, WakeUpAwaitRadioReady,
       SetupTransmission, WakeUpTxEnter, StartTxOrDelay, DelayCarrierSense, StartTx
  <2>5. WakeUpAwaitArmed'
    BY <1>1 DEF WakeUpAwaitArmed, WakeUpAwaitRadioReady, SetupTransmission, WakeUpTxEnter
  <2>6. OneRadioOn'
    BY <1>1 DEF OneRadioOn, WakeUpAwaitRadioReady, SetupTransmission, WakeUpTxEnter
  <2>7. DeferredDropScope'
    BY <1>1 DEF DeferredDropScope, WakeUpAwaitRadioReady
  <2>8. RetryUnacknowledged'
    BY <1>1 DEF RetryUnacknowledged, WakeUpAwaitRadioReady, SetupTransmission, WakeUpTxEnter
  <2>9. RadiosMatchPhase'
    BY <1>1 DEF RadiosMatchPhase, WakeUpTypeOK, WakeUpNoRuntimeError,
       WakeUpTimersMatchPhase, WakeUpBackoffMatchesPhase, OneRadioOn, WakeUpAwaitRadioReady,
       SetupTransmission, WakeUpTxEnter, StartTxOrDelay, DelayCarrierSense, StartTx
  <2>10. WakeUpTimersDue'
    BY <1>1 DEF WakeUpTimersDue, WakeUpTypeOK, WakeUpAwaitRadioReady, SetupTransmission,
       WakeUpTxEnter, StartTxOrDelay, DelayCarrierSense, StartTx
  <2>11. StoredFrameMatchesPhase'
    BY <1>1 DEF StoredFrameMatchesPhase, WakeUpAwaitRadioReady
  <2> QED
    BY <2>1, <2>2, <2>3, <2>4, <2>5, <2>6, <2>7, <2>8, <2>9, <2>10, <2>11 DEF WakeUpInv
<1>2. ASSUME WakeUpAwaitTransmitStart PROVE WakeUpInv'
  <2>1. WakeUpTypeOK'
    <3>1. /\ txQueue' \in Seq(Packets) /\ currentTxFrame' \in Packets \cup {NoFrame}
          /\ outcome' \in [Packets -> {"new", "held", "sent", "noRoute", "overflow", "down"}]
          /\ txInProgressForwarders' \in 0..RequiredForwarders
      BY <1>2 DEF WakeUpTypeOK, WakeUpAwaitTransmitStart, SetupTransmission, WakeUpTimersDue
    <3>2. /\ timer' \in [Timer -> TimerState] /\ activeBackoff' \in BackoffState
          /\ wakeUpRadioMode' \in RadioMode
      BY <1>2 DEF WakeUpTypeOK, WakeUpAwaitTransmitStart, WakeUpTxEnter, StartTxOrDelay,
         DelayCarrierSense, StartTx
    <3> QED
      BY <1>2, <3>1, <3>2 DEF WakeUpTypeOK, WakeUpAwaitTransmitStart, WakeUpTxEnter
  <2>2. WakeUpNoRuntimeError'
    BY <1>2 DEF WakeUpNoRuntimeError, WakeUpTypeOK, WakeUpTimersDue, WakeUpTimersMatchPhase,
       RadiosMatchPhase, OneRadioOn, WakeUpBackoffMatchesPhase, StoredFrameMatchesPhase,
       WakeUpAwaitTransmitStart, SetupTransmission, WakeUpTxEnter, StartTxOrDelay,
       DelayCarrierSense, StartTx
  <2>3. WakeUpTimersMatchPhase'
    BY <1>2 DEF WakeUpTimersMatchPhase, WakeUpTypeOK, WakeUpNoRuntimeError,
       WakeUpBackoffMatchesPhase, OneRadioOn, RadiosMatchPhase, WakeUpAwaitTransmitStart,
       SetupTransmission, WakeUpTxEnter, StartTxOrDelay, DelayCarrierSense, StartTx
  <2>4. WakeUpBackoffMatchesPhase'
    BY <1>2 DEF WakeUpBackoffMatchesPhase, WakeUpTypeOK, WakeUpTimersMatchPhase,
       WakeUpTimersDue, OneRadioOn, WakeUpAwaitTransmitStart, SetupTransmission,
       WakeUpTxEnter, StartTxOrDelay, DelayCarrierSense, StartTx
  <2>5. WakeUpAwaitArmed'
    BY <1>2 DEF WakeUpAwaitArmed, WakeUpAwaitTransmitStart, SetupTransmission, WakeUpTxEnter
  <2>6. OneRadioOn'
    BY <1>2 DEF OneRadioOn, WakeUpAwaitTransmitStart, SetupTransmission, WakeUpTxEnter
  <2>7. DeferredDropScope'
    BY <1>2 DEF DeferredDropScope, WakeUpAwaitTransmitStart
  <2>8. RetryUnacknowledged'
    BY <1>2 DEF RetryUnacknowledged, WakeUpAwaitTransmitStart, SetupTransmission,
       WakeUpTxEnter
  <2>9. RadiosMatchPhase'
    BY <1>2 DEF RadiosMatchPhase, WakeUpTypeOK, WakeUpNoRuntimeError,
       WakeUpTimersMatchPhase, WakeUpBackoffMatchesPhase, OneRadioOn,
       WakeUpAwaitTransmitStart, SetupTransmission, WakeUpTxEnter, StartTxOrDelay,
       DelayCarrierSense, StartTx
  <2>10. WakeUpTimersDue'
    BY <1>2 DEF WakeUpTimersDue, WakeUpTypeOK, WakeUpAwaitTransmitStart, SetupTransmission,
       WakeUpTxEnter, StartTxOrDelay, DelayCarrierSense, StartTx
  <2>11. StoredFrameMatchesPhase'
    BY <1>2 DEF StoredFrameMatchesPhase, WakeUpAwaitTransmitStart
  <2> QED
    BY <2>1, <2>2, <2>3, <2>4, <2>5, <2>6, <2>7, <2>8, <2>9, <2>10, <2>11 DEF WakeUpInv
<1>3. ASSUME WakeUpRadioReady PROVE WakeUpInv'
  <2>1. WakeUpTypeOK'
    BY <1>3 DEF WakeUpTypeOK, WakeUpRadioReady, vars
  <2>2. WakeUpNoRuntimeError'
    BY <1>3 DEF WakeUpNoRuntimeError, WakeUpRadioReady, vars
  <2>3. WakeUpBackoffMatchesPhase'
    BY <1>3 DEF WakeUpBackoffMatchesPhase, WakeUpRadioReady, vars
  <2>4. WakeUpAwaitArmed'
    BY <1>3 DEF WakeUpAwaitArmed, WakeUpRadioReady, vars
  <2>5. OneRadioOn'
    BY <1>3 DEF OneRadioOn, WakeUpRadioReady, vars
  <2>6. RadiosMatchPhase'
    BY <1>3 DEF RadiosMatchPhase, WakeUpRadioReady, vars
  <2>7. WakeUpTimersDue'
    BY <1>3 DEF WakeUpTimersDue, WakeUpRadioReady, vars
  <2>8. /\ WakeUpTimersMatchPhase'
        /\ DeferredDropScope'
        /\ RetryUnacknowledged'
        /\ StoredFrameMatchesPhase'
    BY <1>3 DEF WakeUpTimersMatchPhase, DeferredDropScope, RetryUnacknowledged,
       StoredFrameMatchesPhase, WakeUpRadioReady, vars
  <2> QED
    BY <2>1, <2>2, <2>3, <2>4, <2>5, <2>6, <2>7, <2>8 DEF WakeUpInv
<1>4. ASSUME InheritAt("transmitStartDelay", AwaitTransmitStartTooEarly) PROVE WakeUpInv'
  <2>1. WakeUpTypeOK'
    BY <1>4 DEF WakeUpTypeOK, AwaitTransmitStartTooEarly
  <2>2. WakeUpNoRuntimeError'
    BY <1>4 DEF WakeUpNoRuntimeError, AwaitTransmitStartTooEarly
  <2>3. WakeUpTimersMatchPhase'
    BY <1>4 DEF WakeUpTimersMatchPhase, AwaitTransmitStartTooEarly
  <2>4. WakeUpBackoffMatchesPhase'
    BY <1>4 DEF WakeUpBackoffMatchesPhase, AwaitTransmitStartTooEarly
  <2>5. WakeUpAwaitArmed'
    BY <1>4 DEF WakeUpAwaitArmed, AwaitTransmitStartTooEarly
  <2>6. WakeUpTimersDue'
    BY <1>4 DEF WakeUpTimersDue, AwaitTransmitStartTooEarly
  <2>7. /\ OneRadioOn'
        /\ DeferredDropScope'
        /\ RetryUnacknowledged'
        /\ RadiosMatchPhase'
        /\ StoredFrameMatchesPhase'
    BY <1>4 DEF OneRadioOn, DeferredDropScope, RetryUnacknowledged, RadiosMatchPhase,
       StoredFrameMatchesPhase, AwaitTransmitStartTooEarly
  <2> QED
    BY <2>1, <2>2, <2>3, <2>4, <2>5, <2>6, <2>7 DEF WakeUpInv
<1>5. ASSUME InheritAt("replenishmentTimer", AwaitReplenished) PROVE WakeUpInv'
  <2>1. WakeUpTypeOK'
    BY <1>5 DEF WakeUpTypeOK, AwaitReplenished
  <2>2. WakeUpNoRuntimeError'
    BY <1>5 DEF WakeUpNoRuntimeError, WakeUpTypeOK, AwaitReplenished
  <2>3. WakeUpTimersMatchPhase'
    BY <1>5 DEF WakeUpTimersMatchPhase, WakeUpTypeOK, AwaitReplenished
  <2>4. WakeUpBackoffMatchesPhase'
    BY <1>5 DEF WakeUpBackoffMatchesPhase, AwaitReplenished
  <2>5. WakeUpAwaitArmed'
    BY <1>5 DEF WakeUpAwaitArmed, WakeUpTypeOK, AwaitReplenished
  <2>6. WakeUpTimersDue'
    BY <1>5 DEF WakeUpTimersDue, WakeUpTypeOK, WakeUpNoRuntimeError, WakeUpTimersMatchPhase,
       WakeUpBackoffMatchesPhase, OneRadioOn, RadiosMatchPhase, AwaitReplenished
  <2>7. /\ OneRadioOn'
        /\ DeferredDropScope'
        /\ RetryUnacknowledged'
        /\ RadiosMatchPhase'
        /\ StoredFrameMatchesPhase'
    BY <1>5 DEF OneRadioOn, DeferredDropScope, RetryUnacknowledged, RadiosMatchPhase,
       StoredFrameMatchesPhase, AwaitReplenished
  <2> QED
    BY <2>1, <2>2, <2>3, <2>4, <2>5, <2>6, <2>7 DEF WakeUpInv
<1> QED
  BY <1>1, <1>2, <1>3, <1>4, <1>5

\* A step of a wake-up heard preserves the invariant.
LEMMA WakingStep ==
    WakeUpInv /\ (\/ WakeUpIdleStart
                   \/ WakeUpAwaitStart
                   \/ WakeUpApproved
                   \/ WakeUpNotApproved
                   \/ WakeUpDataAsleep
                   \/ WakeUpDataReady)
        => WakeUpInv'
<1> SUFFICES ASSUME WakeUpInv,
                    \/ WakeUpIdleStart
                    \/ WakeUpAwaitStart
                    \/ WakeUpApproved
                    \/ WakeUpNotApproved
                    \/ WakeUpDataAsleep
                    \/ WakeUpDataReady
             PROVE WakeUpInv'
  OBVIOUS
<1>1. ASSUME WakeUpIdleStart PROVE WakeUpInv'
  <2>1. WakeUpTypeOK'
    BY <1>1 DEF WakeUpTypeOK, WakeUpIdleStart, WakeUpStart, QueryWakeUpRequest,
       WakeUpAnswers
  <2>2. WakeUpNoRuntimeError'
    BY <1>1 DEF WakeUpNoRuntimeError, WakeUpTypeOK, WakeUpTimersMatchPhase,
       WakeUpBackoffMatchesPhase, WakeUpIdleStart, WakeUpStart, QueryWakeUpRequest
  <2>3. WakeUpTimersMatchPhase'
    BY <1>1 DEF WakeUpTimersMatchPhase, WakeUpTypeOK, WakeUpIdleStart, WakeUpStart,
       QueryWakeUpRequest
  <2>4. WakeUpBackoffMatchesPhase'
    BY <1>1 DEF WakeUpBackoffMatchesPhase, WakeUpIdleStart, WakeUpStart, QueryWakeUpRequest
  <2>5. WakeUpAwaitArmed'
    BY <1>1 DEF WakeUpAwaitArmed, WakeUpIdleStart, WakeUpStart, QueryWakeUpRequest
  <2>6. OneRadioOn'
    BY <1>1 DEF OneRadioOn, WakeUpIdleStart, WakeUpStart, QueryWakeUpRequest
  <2>7. DeferredDropScope'
    BY <1>1 DEF DeferredDropScope, WakeUpIdleStart, WakeUpStart, QueryWakeUpRequest
  <2>8. RadiosMatchPhase'
    BY <1>1 DEF RadiosMatchPhase, WakeUpIdleStart, WakeUpStart, QueryWakeUpRequest
  <2>9. WakeUpTimersDue'
    BY <1>1 DEF WakeUpTimersDue, WakeUpIdleStart, WakeUpStart, QueryWakeUpRequest
  <2>10. StoredFrameMatchesPhase'
    BY <1>1 DEF StoredFrameMatchesPhase, WakeUpIdleStart, WakeUpStart, QueryWakeUpRequest
  <2>11. RetryUnacknowledged'
    BY <1>1 DEF RetryUnacknowledged, WakeUpIdleStart, WakeUpStart, QueryWakeUpRequest
  <2> QED
    BY <2>1, <2>2, <2>3, <2>4, <2>5, <2>6, <2>7, <2>8, <2>9, <2>10, <2>11 DEF WakeUpInv
<1>2. ASSUME WakeUpAwaitStart PROVE WakeUpInv'
  <2>1. WakeUpTypeOK'
    BY <1>2 DEF WakeUpTypeOK, WakeUpAwaitStart, WakeUpStart, QueryWakeUpRequest,
       WakeUpAnswers
  <2>2. WakeUpNoRuntimeError'
    BY <1>2 DEF WakeUpNoRuntimeError, WakeUpTypeOK, WakeUpTimersMatchPhase,
       WakeUpBackoffMatchesPhase, WakeUpAwaitStart, WakeUpStart, QueryWakeUpRequest
  <2>3. WakeUpTimersMatchPhase'
    BY <1>2 DEF WakeUpTimersMatchPhase, WakeUpTypeOK, WakeUpAwaitStart, WakeUpStart,
       QueryWakeUpRequest
  <2>4. WakeUpBackoffMatchesPhase'
    BY <1>2 DEF WakeUpBackoffMatchesPhase, WakeUpAwaitStart, WakeUpStart, QueryWakeUpRequest
  <2>5. WakeUpAwaitArmed'
    BY <1>2 DEF WakeUpAwaitArmed, WakeUpAwaitStart, WakeUpStart, QueryWakeUpRequest
  <2>6. OneRadioOn'
    BY <1>2 DEF OneRadioOn, WakeUpAwaitStart, WakeUpStart, QueryWakeUpRequest
  <2>7. DeferredDropScope'
    BY <1>2 DEF DeferredDropScope, WakeUpAwaitStart, WakeUpStart, QueryWakeUpRequest
  <2>8. RadiosMatchPhase'
    BY <1>2 DEF RadiosMatchPhase, WakeUpAwaitStart, WakeUpStart, QueryWakeUpRequest
  <2>9. WakeUpTimersDue'
    BY <1>2 DEF WakeUpTimersDue, WakeUpTypeOK, WakeUpAwaitStart, WakeUpStart,
       QueryWakeUpRequest
  <2>10. StoredFrameMatchesPhase'
    BY <1>2 DEF StoredFrameMatchesPhase, WakeUpAwaitStart, WakeUpStart, QueryWakeUpRequest
  <2>11. RetryUnacknowledged'
    BY <1>2 DEF RetryUnacknowledged, WakeUpAwaitStart, WakeUpStart, QueryWakeUpRequest
  <2> QED
    BY <2>1, <2>2, <2>3, <2>4, <2>5, <2>6, <2>7, <2>8, <2>9, <2>10, <2>11 DEF WakeUpInv
<1>3. ASSUME WakeUpApproved PROVE WakeUpInv'
  <2>1. WakeUpTypeOK'
    BY <1>3 DEF WakeUpTypeOK, WakeUpApproved, DataRadioTakesOver
  <2>2. WakeUpNoRuntimeError'
    BY <1>3 DEF WakeUpNoRuntimeError, WakeUpTypeOK, WakeUpTimersMatchPhase,
       WakeUpBackoffMatchesPhase, OneRadioOn, RadiosMatchPhase, WakeUpApproved,
       DataRadioTakesOver
  <2>3. WakeUpTimersMatchPhase'
    BY <1>3 DEF WakeUpTimersMatchPhase, WakeUpTypeOK, WakeUpApproved
  <2>4. WakeUpBackoffMatchesPhase'
    BY <1>3 DEF WakeUpBackoffMatchesPhase, WakeUpApproved, DataRadioTakesOver
  <2>5. WakeUpAwaitArmed'
    BY <1>3 DEF WakeUpAwaitArmed, WakeUpApproved
  <2>6. OneRadioOn'
    BY <1>3 DEF OneRadioOn, WakeUpTypeOK, WakeUpNoRuntimeError, WakeUpTimersMatchPhase,
       WakeUpBackoffMatchesPhase, RadiosMatchPhase, WakeUpApproved, DataRadioTakesOver
  <2>7. RadiosMatchPhase'
    BY <1>3 DEF RadiosMatchPhase, WakeUpTypeOK, WakeUpNoRuntimeError,
       WakeUpTimersMatchPhase, WakeUpBackoffMatchesPhase, OneRadioOn, WakeUpApproved,
       DataRadioTakesOver
  <2>8. WakeUpTimersDue'
    BY <1>3 DEF WakeUpTimersDue, WakeUpTypeOK, WakeUpApproved
  <2>9. /\ DeferredDropScope'
        /\ RetryUnacknowledged'
        /\ StoredFrameMatchesPhase'
    BY <1>3 DEF DeferredDropScope, RetryUnacknowledged, StoredFrameMatchesPhase,
       WakeUpApproved
  <2> QED
    BY <2>1, <2>2, <2>3, <2>4, <2>5, <2>6, <2>7, <2>8, <2>9 DEF WakeUpInv
<1>4. ASSUME WakeUpNotApproved PROVE WakeUpInv'
  <2>1. WakeUpTypeOK'
    BY <1>4 DEF WakeUpTypeOK, WakeUpNotApproved, WakeUpListeningEnter,
       StateListeningEnterAlreadyListening
  <2>2. WakeUpNoRuntimeError'
    BY <1>4 DEF WakeUpNoRuntimeError, WakeUpTypeOK, WakeUpTimersMatchPhase,
       WakeUpBackoffMatchesPhase, OneRadioOn, RadiosMatchPhase, WakeUpNotApproved,
       WakeUpListeningEnter, StateListeningEnterAlreadyListening
  <2>3. WakeUpTimersMatchPhase'
    BY <1>4 DEF WakeUpTimersMatchPhase, WakeUpTypeOK, WakeUpTimersDue, OneRadioOn,
       WakeUpNotApproved, WakeUpListeningEnter, StateListeningEnterAlreadyListening
  <2>4. WakeUpBackoffMatchesPhase'
    BY <1>4 DEF WakeUpBackoffMatchesPhase, WakeUpNotApproved, WakeUpListeningEnter,
       StateListeningEnterAlreadyListening
  <2>5. WakeUpAwaitArmed'
    BY <1>4 DEF WakeUpAwaitArmed, WakeUpTypeOK, WakeUpNotApproved, WakeUpListeningEnter,
       StateListeningEnterAlreadyListening
  <2>6. OneRadioOn'
    BY <1>4 DEF OneRadioOn, WakeUpTypeOK, WakeUpNoRuntimeError, WakeUpTimersMatchPhase,
       WakeUpBackoffMatchesPhase, RadiosMatchPhase, WakeUpNotApproved, WakeUpListeningEnter,
       StateListeningEnterAlreadyListening
  <2>7. DeferredDropScope'
    BY <1>4 DEF DeferredDropScope, WakeUpNotApproved
  <2>8. RadiosMatchPhase'
    BY <1>4 DEF RadiosMatchPhase, WakeUpNotApproved, WakeUpListeningEnter,
       StateListeningEnterAlreadyListening
  <2>9. WakeUpTimersDue'
    BY <1>4 DEF WakeUpTimersDue, WakeUpTypeOK, WakeUpNoRuntimeError, WakeUpTimersMatchPhase,
       WakeUpBackoffMatchesPhase, OneRadioOn, RadiosMatchPhase, WakeUpNotApproved,
       WakeUpListeningEnter, StateListeningEnterAlreadyListening
  <2>10. StoredFrameMatchesPhase'
    BY <1>4 DEF StoredFrameMatchesPhase, WakeUpNotApproved
  <2>11. RetryUnacknowledged'
    BY <1>4 DEF RetryUnacknowledged, WakeUpNotApproved
  <2> QED
    BY <2>1, <2>2, <2>3, <2>4, <2>5, <2>6, <2>7, <2>8, <2>9, <2>10, <2>11 DEF WakeUpInv
<1>5. ASSUME WakeUpDataAsleep PROVE WakeUpInv'
  <2>1. WakeUpTypeOK'
    BY <1>5 DEF WakeUpTypeOK, WakeUpDataAsleep
  <2>2. WakeUpNoRuntimeError'
    BY <1>5 DEF WakeUpNoRuntimeError, WakeUpDataAsleep
  <2>3. WakeUpBackoffMatchesPhase'
    BY <1>5 DEF WakeUpBackoffMatchesPhase, WakeUpDataAsleep
  <2>4. OneRadioOn'
    BY <1>5 DEF OneRadioOn, WakeUpDataAsleep
  <2>5. RadiosMatchPhase'
    BY <1>5 DEF RadiosMatchPhase, WakeUpDataAsleep
  <2>6. /\ WakeUpTimersMatchPhase'
        /\ WakeUpAwaitArmed'
        /\ DeferredDropScope'
        /\ RetryUnacknowledged'
        /\ WakeUpTimersDue'
        /\ StoredFrameMatchesPhase'
    BY <1>5 DEF WakeUpTimersMatchPhase, WakeUpAwaitArmed, DeferredDropScope,
       RetryUnacknowledged, WakeUpTimersDue, StoredFrameMatchesPhase, WakeUpDataAsleep
  <2> QED
    BY <2>1, <2>2, <2>3, <2>4, <2>5, <2>6 DEF WakeUpInv
<1>6. ASSUME WakeUpDataReady PROVE WakeUpInv'
  <2>1. WakeUpTypeOK'
    BY <1>6 DEF WakeUpTypeOK, WakeUpDataReady
  <2>2. WakeUpNoRuntimeError'
    BY <1>6 DEF WakeUpNoRuntimeError, WakeUpTypeOK, WakeUpTimersMatchPhase, WakeUpDataReady
  <2>3. WakeUpTimersMatchPhase'
    BY <1>6 DEF WakeUpTimersMatchPhase, WakeUpTypeOK, WakeUpDataReady
  <2>4. WakeUpBackoffMatchesPhase'
    BY <1>6 DEF WakeUpBackoffMatchesPhase, WakeUpDataReady
  <2>5. WakeUpAwaitArmed'
    BY <1>6 DEF WakeUpAwaitArmed, WakeUpDataReady
  <2>6. OneRadioOn'
    BY <1>6 DEF OneRadioOn, WakeUpDataReady
  <2>7. DeferredDropScope'
    BY <1>6 DEF DeferredDropScope, WakeUpDataReady
  <2>8. RadiosMatchPhase'
    BY <1>6 DEF RadiosMatchPhase, WakeUpDataReady
  <2>9. WakeUpTimersDue'
    BY <1>6 DEF WakeUpTimersDue, WakeUpDataReady
  <2>10. StoredFrameMatchesPhase'
    BY <1>6 DEF StoredFrameMatchesPhase, WakeUpDataReady
  <2>11. RetryUnacknowledged'
    BY <1>6 DEF RetryUnacknowledged, WakeUpDataReady
  <2> QED
    BY <2>1, <2>2, <2>3, <2>4, <2>5, <2>6, <2>7, <2>8, <2>9, <2>10, <2>11 DEF WakeUpInv
<1> QED
  BY <1>1, <1>2, <1>3, <1>4, <1>5, <1>6

\* A step of a wake-up sent preserves the invariant.
LEMMA SendWakeUpStep ==
    WakeUpInv /\ (\/ TxWakeUpBackoffTimer
                   \/ TxWakeUpReady
                   \/ TxWakeUpEnd
                   \/ TxWakeUpAsleep
                   \/ TxWakeUpTimeout)
        => WakeUpInv'
<1> SUFFICES ASSUME WakeUpInv,
                    \/ TxWakeUpBackoffTimer
                    \/ TxWakeUpReady
                    \/ TxWakeUpEnd
                    \/ TxWakeUpAsleep
                    \/ TxWakeUpTimeout
             PROVE WakeUpInv'
  OBVIOUS
<1>1. ASSUME TxWakeUpBackoffTimer PROVE WakeUpInv'
  <2>1. WakeUpTypeOK'
    BY <1>1 DEF WakeUpTypeOK, TxWakeUpBackoffTimer, StartTxOrBackoff, DelayCarrierSense,
       StartTx
  <2>2. WakeUpNoRuntimeError'
    BY <1>1 DEF WakeUpNoRuntimeError, WakeUpTypeOK, TxWakeUpBackoffTimer, StartTxOrBackoff,
       DelayCarrierSense, StartTx
  <2>3. WakeUpTimersMatchPhase'
    BY <1>1 DEF WakeUpTimersMatchPhase, WakeUpTypeOK, TxWakeUpBackoffTimer,
       StartTxOrBackoff, DelayCarrierSense, StartTx
  <2>4. WakeUpBackoffMatchesPhase'
    BY <1>1 DEF WakeUpBackoffMatchesPhase, WakeUpTypeOK, TxWakeUpBackoffTimer,
       StartTxOrBackoff, DelayCarrierSense, StartTx
  <2>5. WakeUpAwaitArmed'
    BY <1>1 DEF WakeUpAwaitArmed, TxWakeUpBackoffTimer
  <2>6. OneRadioOn'
    BY <1>1 DEF OneRadioOn, WakeUpTypeOK, TxWakeUpBackoffTimer, StartTxOrBackoff,
       DelayCarrierSense, StartTx
  <2>7. RadiosMatchPhase'
    BY <1>1 DEF RadiosMatchPhase, TxWakeUpBackoffTimer
  <2>8. WakeUpTimersDue'
    BY <1>1 DEF WakeUpTimersDue, WakeUpTypeOK, TxWakeUpBackoffTimer, StartTxOrBackoff,
       DelayCarrierSense, StartTx
  <2>9. /\ DeferredDropScope'
        /\ RetryUnacknowledged'
        /\ StoredFrameMatchesPhase'
    BY <1>1 DEF DeferredDropScope, RetryUnacknowledged, StoredFrameMatchesPhase,
       TxWakeUpBackoffTimer
  <2> QED
    BY <2>1, <2>2, <2>3, <2>4, <2>5, <2>6, <2>7, <2>8, <2>9 DEF WakeUpInv
<1>2. ASSUME TxWakeUpReady PROVE WakeUpInv'
  <2>1. WakeUpTypeOK'
    BY <1>2 DEF WakeUpTypeOK, TxWakeUpReady, TriesWithThis
  <2>2. WakeUpNoRuntimeError'
    BY <1>2 DEF WakeUpNoRuntimeError, TxWakeUpReady
  <2>3. WakeUpTimersMatchPhase'
    BY <1>2 DEF WakeUpTimersMatchPhase, WakeUpTypeOK, TxWakeUpReady
  <2>4. WakeUpBackoffMatchesPhase'
    BY <1>2 DEF WakeUpBackoffMatchesPhase, WakeUpTypeOK, WakeUpNoRuntimeError,
       WakeUpTimersMatchPhase, OneRadioOn, RadiosMatchPhase, TxWakeUpReady, TriesWithThis
  <2>5. WakeUpAwaitArmed'
    BY <1>2 DEF WakeUpAwaitArmed, TxWakeUpReady
  <2>6. OneRadioOn'
    BY <1>2 DEF OneRadioOn, TxWakeUpReady
  <2>7. RadiosMatchPhase'
    BY <1>2 DEF RadiosMatchPhase, TxWakeUpReady
  <2>8. WakeUpTimersDue'
    BY <1>2 DEF WakeUpTimersDue, TxWakeUpReady
  <2>9. /\ DeferredDropScope'
        /\ RetryUnacknowledged'
        /\ StoredFrameMatchesPhase'
    BY <1>2 DEF DeferredDropScope, RetryUnacknowledged, StoredFrameMatchesPhase,
       TxWakeUpReady
  <2> QED
    BY <2>1, <2>2, <2>3, <2>4, <2>5, <2>6, <2>7, <2>8, <2>9 DEF WakeUpInv
<1>3. ASSUME TxWakeUpEnd PROVE WakeUpInv'
  <2>1. WakeUpTypeOK'
    <3>1. timer' \in [Timer -> TimerState]
      BY <1>3, TimerType DEF WakeUpTypeOK, TxWakeUpEnd
    <3>2. radioMode' \in RadioMode /\ wakeUpRadioMode' \in RadioMode
      BY <1>3, RadioModeType DEF WakeUpTypeOK, TxWakeUpEnd, DataRadioTakesOver
    <3>3. transmitting' \in BOOLEAN
      BY <1>3 DEF TxWakeUpEnd
    <3> QED
      BY <1>3, <3>1, <3>2, <3>3 DEF WakeUpTypeOK, TxWakeUpEnd, DataRadioTakesOver
  <2>2. WakeUpNoRuntimeError'
    BY <1>3 DEF WakeUpNoRuntimeError, WakeUpTypeOK, WakeUpTimersMatchPhase,
       WakeUpBackoffMatchesPhase, OneRadioOn, RadiosMatchPhase, TxWakeUpEnd,
       DataRadioTakesOver
  <2>3. WakeUpTimersMatchPhase'
    BY <1>3 DEF WakeUpTimersMatchPhase, WakeUpTypeOK, TxWakeUpEnd
  <2>4. WakeUpBackoffMatchesPhase'
    BY <1>3 DEF WakeUpBackoffMatchesPhase, WakeUpTypeOK, WakeUpNoRuntimeError,
       WakeUpTimersMatchPhase, OneRadioOn, RadiosMatchPhase, TxWakeUpEnd, DataRadioTakesOver
  <2>5. WakeUpAwaitArmed'
    BY <1>3 DEF WakeUpAwaitArmed, TxWakeUpEnd
  <2>6. OneRadioOn'
    BY <1>3 DEF OneRadioOn, WakeUpTypeOK, WakeUpNoRuntimeError, WakeUpTimersMatchPhase,
       WakeUpBackoffMatchesPhase, RadiosMatchPhase, TxWakeUpEnd, DataRadioTakesOver
  <2>7. RadiosMatchPhase'
    BY <1>3 DEF RadiosMatchPhase, WakeUpTypeOK, WakeUpNoRuntimeError,
       WakeUpTimersMatchPhase, WakeUpBackoffMatchesPhase, OneRadioOn, TxWakeUpEnd,
       DataRadioTakesOver
  <2>8. WakeUpTimersDue'
    BY <1>3 DEF WakeUpTimersDue, TxWakeUpEnd
  <2>9. /\ DeferredDropScope'
        /\ RetryUnacknowledged'
        /\ StoredFrameMatchesPhase'
    BY <1>3 DEF DeferredDropScope, RetryUnacknowledged, StoredFrameMatchesPhase, TxWakeUpEnd
  <2> QED
    BY <2>1, <2>2, <2>3, <2>4, <2>5, <2>6, <2>7, <2>8, <2>9 DEF WakeUpInv
<1>4. ASSUME TxWakeUpAsleep PROVE WakeUpInv'
  <2>1. WakeUpTypeOK'
    BY <1>4 DEF WakeUpTypeOK, TxWakeUpAsleep
  <2>2. WakeUpNoRuntimeError'
    BY <1>4 DEF WakeUpNoRuntimeError, TxWakeUpAsleep
  <2>3. WakeUpBackoffMatchesPhase'
    BY <1>4 DEF WakeUpBackoffMatchesPhase, TxWakeUpAsleep
  <2>4. OneRadioOn'
    BY <1>4 DEF OneRadioOn, TxWakeUpAsleep
  <2>5. RadiosMatchPhase'
    BY <1>4 DEF RadiosMatchPhase, TxWakeUpAsleep
  <2>6. /\ WakeUpTimersMatchPhase'
        /\ WakeUpAwaitArmed'
        /\ DeferredDropScope'
        /\ RetryUnacknowledged'
        /\ WakeUpTimersDue'
        /\ StoredFrameMatchesPhase'
    BY <1>4 DEF WakeUpTimersMatchPhase, WakeUpAwaitArmed, DeferredDropScope,
       RetryUnacknowledged, WakeUpTimersDue, StoredFrameMatchesPhase, TxWakeUpAsleep
  <2> QED
    BY <2>1, <2>2, <2>3, <2>4, <2>5, <2>6 DEF WakeUpInv
<1>5. ASSUME TxWakeUpTimeout PROVE WakeUpInv'
  <2>1. WakeUpTypeOK'
    BY <1>5 DEF WakeUpTypeOK, TxWakeUpTimeout, StateTxEnterDataWait, StartCold,
       StartTxOrBackoff, DelayCarrierSense, StartTx
  <2>2. WakeUpNoRuntimeError'
    BY <1>5 DEF WakeUpNoRuntimeError, WakeUpTypeOK, WakeUpTimersMatchPhase,
       WakeUpBackoffMatchesPhase, OneRadioOn, RadiosMatchPhase, TxWakeUpTimeout,
       StateTxEnterDataWait, StartCold, StartTxOrBackoff, DelayCarrierSense, StartTx
  <2>3. WakeUpTimersMatchPhase'
    BY <1>5 DEF WakeUpTimersMatchPhase, WakeUpTypeOK, WakeUpNoRuntimeError,
       WakeUpBackoffMatchesPhase, OneRadioOn, RadiosMatchPhase, TxWakeUpTimeout,
       StateTxEnterDataWait, StartCold, StartTxOrBackoff, DelayCarrierSense, StartTx
  <2>4. WakeUpBackoffMatchesPhase'
    BY <1>5 DEF WakeUpBackoffMatchesPhase, WakeUpTypeOK, WakeUpNoRuntimeError,
       WakeUpTimersMatchPhase, OneRadioOn, RadiosMatchPhase, TxWakeUpTimeout,
       StateTxEnterDataWait, StartCold, StartTxOrBackoff, DelayCarrierSense, StartTx
  <2>5. WakeUpAwaitArmed'
    BY <1>5 DEF WakeUpAwaitArmed, TxWakeUpTimeout
  <2>6. OneRadioOn'
    BY <1>5 DEF OneRadioOn, WakeUpTypeOK, WakeUpNoRuntimeError, WakeUpTimersMatchPhase,
       WakeUpBackoffMatchesPhase, RadiosMatchPhase, TxWakeUpTimeout
  <2>7. RadiosMatchPhase'
    BY <1>5 DEF RadiosMatchPhase, WakeUpTypeOK, WakeUpNoRuntimeError,
       WakeUpTimersMatchPhase, WakeUpBackoffMatchesPhase, OneRadioOn, TxWakeUpTimeout,
       StateTxEnterDataWait, StartCold, StartTxOrBackoff, DelayCarrierSense, StartTx
  <2>8. WakeUpTimersDue'
    BY <1>5 DEF WakeUpTimersDue, WakeUpTypeOK, TxWakeUpTimeout, StateTxEnterDataWait,
       StartCold, StartTxOrBackoff, DelayCarrierSense, StartTx
  <2>9. /\ DeferredDropScope'
        /\ RetryUnacknowledged'
        /\ StoredFrameMatchesPhase'
    BY <1>5 DEF DeferredDropScope, RetryUnacknowledged, StoredFrameMatchesPhase,
       TxWakeUpTimeout
  <2> QED
    BY <2>1, <2>2, <2>3, <2>4, <2>5, <2>6, <2>7, <2>8, <2>9 DEF WakeUpInv
<1> QED
  BY <1>1, <1>2, <1>3, <1>4, <1>5

\* A step of the data transmission up to its end preserves the invariant.
LEMMA SendDataStep ==
    WakeUpInv /\ (\/ TxRadioReady
                   \/ InheritAt("txBackoffTimer", TxBackoffTimer)
                   \/ Inherit(TxReady)
                   \/ Inherit(TxEndAwaitAck)
                   \/ WakeUpTxEndDirect)
        => WakeUpInv'
<1> SUFFICES ASSUME WakeUpInv,
                    \/ TxRadioReady
                    \/ InheritAt("txBackoffTimer", TxBackoffTimer)
                    \/ Inherit(TxReady)
                    \/ Inherit(TxEndAwaitAck)
                    \/ WakeUpTxEndDirect
             PROVE WakeUpInv'
  OBVIOUS
<1>1. ASSUME TxRadioReady PROVE WakeUpInv'
  <2>1. WakeUpTypeOK'
    BY <1>1 DEF WakeUpTypeOK, TxRadioReady, StartTxOrBackoff, DelayCarrierSense, StartTx
  <2>2. WakeUpNoRuntimeError'
    BY <1>1 DEF WakeUpNoRuntimeError, WakeUpTypeOK, TxRadioReady, StartTxOrBackoff,
       DelayCarrierSense, StartTx
  <2>3. WakeUpTimersMatchPhase'
    BY <1>1 DEF WakeUpTimersMatchPhase, WakeUpTypeOK, TxRadioReady, StartTxOrBackoff,
       DelayCarrierSense, StartTx
  <2>4. WakeUpBackoffMatchesPhase'
    BY <1>1 DEF WakeUpBackoffMatchesPhase, WakeUpTypeOK, TxRadioReady, StartTxOrBackoff,
       DelayCarrierSense, StartTx
  <2>5. WakeUpAwaitArmed'
    BY <1>1 DEF WakeUpAwaitArmed, TxRadioReady
  <2>6. OneRadioOn'
    BY <1>1 DEF OneRadioOn, TxRadioReady
  <2>7. RadiosMatchPhase'
    BY <1>1 DEF RadiosMatchPhase, TxRadioReady
  <2>8. WakeUpTimersDue'
    BY <1>1 DEF WakeUpTimersDue, WakeUpTypeOK, TxRadioReady, StartTxOrBackoff,
       DelayCarrierSense, StartTx
  <2>9. /\ DeferredDropScope'
        /\ RetryUnacknowledged'
        /\ StoredFrameMatchesPhase'
    BY <1>1 DEF DeferredDropScope, RetryUnacknowledged, StoredFrameMatchesPhase,
       TxRadioReady
  <2> QED
    BY <2>1, <2>2, <2>3, <2>4, <2>5, <2>6, <2>7, <2>8, <2>9 DEF WakeUpInv
<1>2. ASSUME InheritAt("txBackoffTimer", TxBackoffTimer) PROVE WakeUpInv'
  <2>1. WakeUpTypeOK'
    BY <1>2 DEF WakeUpTypeOK, TxBackoffTimer, StartTxOrBackoff, DelayCarrierSense, StartTx
  <2>2. WakeUpNoRuntimeError'
    BY <1>2 DEF WakeUpNoRuntimeError, WakeUpTypeOK, TxBackoffTimer, StartTxOrBackoff,
       DelayCarrierSense, StartTx
  <2>3. WakeUpTimersMatchPhase'
    BY <1>2 DEF WakeUpTimersMatchPhase, WakeUpTypeOK, TxBackoffTimer, StartTxOrBackoff,
       DelayCarrierSense, StartTx
  <2>4. WakeUpBackoffMatchesPhase'
    BY <1>2 DEF WakeUpBackoffMatchesPhase, WakeUpTypeOK, TxBackoffTimer, StartTxOrBackoff,
       DelayCarrierSense, StartTx
  <2>5. WakeUpAwaitArmed'
    BY <1>2 DEF WakeUpAwaitArmed, TxBackoffTimer
  <2>6. OneRadioOn'
    BY <1>2 DEF OneRadioOn, WakeUpTypeOK, TxBackoffTimer, StartTxOrBackoff,
       DelayCarrierSense, StartTx
  <2>7. RadiosMatchPhase'
    BY <1>2 DEF RadiosMatchPhase, TxBackoffTimer
  <2>8. WakeUpTimersDue'
    BY <1>2 DEF WakeUpTimersDue, WakeUpTypeOK, TxBackoffTimer, StartTxOrBackoff,
       DelayCarrierSense, StartTx
  <2>9. /\ DeferredDropScope'
        /\ RetryUnacknowledged'
        /\ StoredFrameMatchesPhase'
    BY <1>2 DEF DeferredDropScope, RetryUnacknowledged, StoredFrameMatchesPhase,
       TxBackoffTimer
  <2> QED
    BY <2>1, <2>2, <2>3, <2>4, <2>5, <2>6, <2>7, <2>8, <2>9 DEF WakeUpInv
<1>3. ASSUME Inherit(TxReady) PROVE WakeUpInv'
  <2>1. WakeUpTypeOK'
    BY <1>3 DEF WakeUpTypeOK, TxReady
  <2>2. WakeUpNoRuntimeError'
    BY <1>3 DEF WakeUpNoRuntimeError, TxReady
  <2>3. WakeUpTimersMatchPhase'
    BY <1>3 DEF WakeUpTimersMatchPhase, WakeUpTypeOK, TxReady
  <2>4. WakeUpBackoffMatchesPhase'
    BY <1>3 DEF WakeUpBackoffMatchesPhase, WakeUpTypeOK, WakeUpNoRuntimeError,
       WakeUpTimersMatchPhase, OneRadioOn, RadiosMatchPhase, TxReady
  <2>5. WakeUpAwaitArmed'
    BY <1>3 DEF WakeUpAwaitArmed, TxReady
  <2>6. OneRadioOn'
    BY <1>3 DEF OneRadioOn, TxReady
  <2>7. RadiosMatchPhase'
    BY <1>3 DEF RadiosMatchPhase, TxReady
  <2>8. WakeUpTimersDue'
    BY <1>3 DEF WakeUpTimersDue, TxReady
  <2>9. /\ DeferredDropScope'
        /\ RetryUnacknowledged'
        /\ StoredFrameMatchesPhase'
    BY <1>3 DEF DeferredDropScope, RetryUnacknowledged, StoredFrameMatchesPhase, TxReady
  <2> QED
    BY <2>1, <2>2, <2>3, <2>4, <2>5, <2>6, <2>7, <2>8, <2>9 DEF WakeUpInv
<1>4. ASSUME Inherit(TxEndAwaitAck) PROVE WakeUpInv'
  <2>1. WakeUpTypeOK'
    <3>1. timer' \in [Timer -> TimerState]
      BY <1>4, TimerType DEF WakeUpTypeOK, TxEndAwaitAck
    <3>2. radioMode' \in RadioMode
      BY <1>4, RadioModeType DEF WakeUpTypeOK, TxEndAwaitAck
    <3>3. transmitting' \in BOOLEAN
      BY <1>4 DEF TxEndAwaitAck
    <3>4. acknowledgedForwarders' \in 0..(RequiredForwarders + 1)
      BY <1>4 DEF TxEndAwaitAck
    <3> QED
      BY <1>4, <3>1, <3>2, <3>3, <3>4 DEF WakeUpTypeOK, TxEndAwaitAck
  <2>2. WakeUpNoRuntimeError'
    BY <1>4 DEF WakeUpNoRuntimeError, WakeUpTypeOK, WakeUpTimersMatchPhase,
       WakeUpBackoffMatchesPhase, OneRadioOn, RadiosMatchPhase, TxEndAwaitAck
  <2>3. WakeUpTimersMatchPhase'
    BY <1>4 DEF WakeUpTimersMatchPhase, WakeUpTypeOK, TxEndAwaitAck
  <2>4. WakeUpBackoffMatchesPhase'
    BY <1>4 DEF WakeUpBackoffMatchesPhase, WakeUpTypeOK, WakeUpNoRuntimeError,
       WakeUpTimersMatchPhase, OneRadioOn, RadiosMatchPhase, TxEndAwaitAck
  <2>5. WakeUpAwaitArmed'
    BY <1>4 DEF WakeUpAwaitArmed, TxEndAwaitAck
  <2>6. OneRadioOn'
    BY <1>4 DEF OneRadioOn, WakeUpTypeOK, WakeUpNoRuntimeError, WakeUpTimersMatchPhase,
       WakeUpBackoffMatchesPhase, RadiosMatchPhase, TxEndAwaitAck
  <2>7. RadiosMatchPhase'
    BY <1>4 DEF RadiosMatchPhase, WakeUpTypeOK, WakeUpNoRuntimeError,
       WakeUpTimersMatchPhase, WakeUpBackoffMatchesPhase, OneRadioOn, TxEndAwaitAck
  <2>8. WakeUpTimersDue'
    BY <1>4 DEF WakeUpTimersDue, TxEndAwaitAck
  <2>9. /\ DeferredDropScope'
        /\ RetryUnacknowledged'
        /\ StoredFrameMatchesPhase'
    BY <1>4 DEF DeferredDropScope, RetryUnacknowledged, StoredFrameMatchesPhase,
       TxEndAwaitAck
  <2> QED
    BY <2>1, <2>2, <2>3, <2>4, <2>5, <2>6, <2>7, <2>8, <2>9 DEF WakeUpInv
<1>5. ASSUME WakeUpTxEndDirect PROVE WakeUpInv'
  <2>1. WakeUpTypeOK'
    <3>1. timer' \in [Timer -> TimerState]
      BY <1>5, TimerType DEF WakeUpTypeOK, WakeUpTxEndDirect, WakeUpTxEnterEnd,
         WakeUpListeningEnter, StateListeningEnterAlreadyListening
    <3>2. radioMode' \in RadioMode /\ wakeUpRadioMode' \in RadioMode
      BY <1>5, RadioModeType DEF WakeUpTypeOK, WakeUpTxEndDirect, WakeUpTxEnterEnd,
         WakeUpListeningEnter
    <3>3. /\ macState' \in {"DATA_IDLE", "WAKE_UP_IDLE", "WAKE_UP_WAIT", "RECEIVE",
                           "AWAIT_TRANSMIT", "TRANSMIT"}
          /\ activeRadio' \in {"none", "wakeUp", "data"}
      BY <1>5 DEF WakeUpTypeOK, WakeUpTxEndDirect, WakeUpTxEnterEnd, WakeUpListeningEnter,
         StateListeningEnterAlreadyListening
    <3>4. transmitting' \in BOOLEAN
      BY <1>5 DEF WakeUpTxEndDirect
    <3>5. /\ outcome' \in [Packets -> {"new", "held", "sent", "noRoute", "overflow", "down"}]
          /\ currentTxFrame' \in Packets \cup {NoFrame}
      BY <1>5 DEF WakeUpTypeOK, WakeUpTxEndDirect, CompletePacketTransmission
    <3> QED
      BY <1>5, <3>1, <3>2, <3>3, <3>4, <3>5
      DEF WakeUpTypeOK, WakeUpTxEndDirect, CompletePacketTransmission, WakeUpTxEnterEnd
  <2>2. WakeUpNoRuntimeError'
    BY <1>5 DEF WakeUpNoRuntimeError, WakeUpTypeOK, WakeUpTimersMatchPhase,
       WakeUpBackoffMatchesPhase, OneRadioOn, RadiosMatchPhase, WakeUpTxEndDirect,
       CompletePacketTransmission, WakeUpTxEnterEnd, WakeUpListeningEnter,
       StateListeningEnterAlreadyListening
  <2>3. WakeUpTimersMatchPhase'
    BY <1>5 DEF WakeUpTimersMatchPhase, WakeUpTypeOK, WakeUpTxEndDirect,
       CompletePacketTransmission, WakeUpTxEnterEnd, WakeUpListeningEnter,
       StateListeningEnterAlreadyListening
  <2>4. WakeUpBackoffMatchesPhase'
    BY <1>5 DEF WakeUpBackoffMatchesPhase, WakeUpTypeOK, WakeUpNoRuntimeError,
       WakeUpTimersMatchPhase, OneRadioOn, RadiosMatchPhase, WakeUpTxEndDirect,
       CompletePacketTransmission, WakeUpTxEnterEnd, WakeUpListeningEnter,
       StateListeningEnterAlreadyListening
  <2>5. WakeUpAwaitArmed'
    BY <1>5 DEF WakeUpAwaitArmed, WakeUpTypeOK, WakeUpTxEndDirect,
       CompletePacketTransmission, WakeUpTxEnterEnd, WakeUpListeningEnter,
       StateListeningEnterAlreadyListening
  <2>6. OneRadioOn'
    BY <1>5 DEF OneRadioOn, WakeUpTypeOK, WakeUpNoRuntimeError, WakeUpTimersMatchPhase,
       WakeUpBackoffMatchesPhase, RadiosMatchPhase, WakeUpTxEndDirect,
       CompletePacketTransmission, WakeUpTxEnterEnd, WakeUpListeningEnter,
       StateListeningEnterAlreadyListening
  <2>7. DeferredDropScope'
    BY <1>5 DEF DeferredDropScope, WakeUpTxEndDirect
  <2>8. RetryUnacknowledged'
    BY <1>5 DEF RetryUnacknowledged, WakeUpTxEndDirect, CompletePacketTransmission,
       WakeUpTxEnterEnd
  <2>9. RadiosMatchPhase'
    BY <1>5 DEF RadiosMatchPhase, WakeUpTypeOK, WakeUpNoRuntimeError,
       WakeUpTimersMatchPhase, WakeUpBackoffMatchesPhase, OneRadioOn, WakeUpTxEndDirect,
       CompletePacketTransmission, WakeUpTxEnterEnd, WakeUpListeningEnter,
       StateListeningEnterAlreadyListening
  <2>10. WakeUpTimersDue'
    BY <1>5 DEF WakeUpTimersDue, WakeUpTypeOK, WakeUpNoRuntimeError, WakeUpTimersMatchPhase,
       WakeUpBackoffMatchesPhase, OneRadioOn, RadiosMatchPhase, WakeUpTxEndDirect,
       CompletePacketTransmission, WakeUpTxEnterEnd, WakeUpListeningEnter,
       StateListeningEnterAlreadyListening
  <2>11. StoredFrameMatchesPhase'
    BY <1>5 DEF StoredFrameMatchesPhase, WakeUpTxEndDirect
  <2> QED
    BY <2>1, <2>2, <2>3, <2>4, <2>5, <2>6, <2>7, <2>8, <2>9, <2>10, <2>11 DEF WakeUpInv
<1> QED
  BY <1>1, <1>2, <1>3, <1>4, <1>5

\* A step of the acknowledgment round preserves the invariant.
LEMMA AwaitAckStep ==
    WakeUpInv /\ (\/ (\E fromDestination \in BOOLEAN : Inherit(TxAckReceived(fromDestination)))
                   \/ Inherit(RadioReady)
                   \/ InheritAt("ackBackoffTimer", TxAckTimeoutBusy)
                   \/ InheritAt("ackBackoffTimer", TxAckTimeoutContention)
                   \/ WakeUpTxAckTimeoutComplete)
        => WakeUpInv'
<1> SUFFICES ASSUME WakeUpInv,
                    \/ (\E fromDestination \in BOOLEAN : Inherit(TxAckReceived(fromDestination)))
                    \/ Inherit(RadioReady)
                    \/ InheritAt("ackBackoffTimer", TxAckTimeoutBusy)
                    \/ InheritAt("ackBackoffTimer", TxAckTimeoutContention)
                    \/ WakeUpTxAckTimeoutComplete
             PROVE WakeUpInv'
  OBVIOUS
<1>1. ASSUME NEW fromDestination \in BOOLEAN, Inherit(TxAckReceived(fromDestination)) PROVE WakeUpInv'
  <2>1. WakeUpTypeOK'
    BY <1>1 DEF WakeUpTypeOK, TxAckReceived
  <2>2. /\ WakeUpNoRuntimeError'
        /\ WakeUpTimersMatchPhase'
        /\ WakeUpBackoffMatchesPhase'
        /\ WakeUpAwaitArmed'
        /\ OneRadioOn'
        /\ DeferredDropScope'
        /\ RetryUnacknowledged'
        /\ RadiosMatchPhase'
        /\ WakeUpTimersDue'
        /\ StoredFrameMatchesPhase'
    BY <1>1 DEF WakeUpNoRuntimeError, WakeUpTimersMatchPhase, WakeUpBackoffMatchesPhase,
       WakeUpAwaitArmed, OneRadioOn, DeferredDropScope, RetryUnacknowledged,
       RadiosMatchPhase, WakeUpTimersDue, StoredFrameMatchesPhase, TxAckReceived
  <2> QED
    BY <2>1, <2>2 DEF WakeUpInv
<1>2. ASSUME Inherit(RadioReady) PROVE WakeUpInv'
  <2>1. WakeUpTypeOK'
    BY <1>2 DEF WakeUpTypeOK, RadioReady
  <2>2. WakeUpNoRuntimeError'
    BY <1>2 DEF WakeUpNoRuntimeError, RadioReady
  <2>3. WakeUpBackoffMatchesPhase'
    BY <1>2 DEF WakeUpBackoffMatchesPhase, RadioReady
  <2>4. OneRadioOn'
    BY <1>2 DEF OneRadioOn, RadioReady
  <2>5. RadiosMatchPhase'
    BY <1>2 DEF RadiosMatchPhase, RadioReady
  <2>6. /\ WakeUpTimersMatchPhase'
        /\ WakeUpAwaitArmed'
        /\ DeferredDropScope'
        /\ RetryUnacknowledged'
        /\ WakeUpTimersDue'
        /\ StoredFrameMatchesPhase'
    BY <1>2 DEF WakeUpTimersMatchPhase, WakeUpAwaitArmed, DeferredDropScope,
       RetryUnacknowledged, WakeUpTimersDue, StoredFrameMatchesPhase, RadioReady, RadioReady
  <2> QED
    BY <2>1, <2>2, <2>3, <2>4, <2>5, <2>6 DEF WakeUpInv
<1>3. ASSUME InheritAt("ackBackoffTimer", TxAckTimeoutBusy) PROVE WakeUpInv'
  <2>1. WakeUpTypeOK'
    BY <1>3 DEF WakeUpTypeOK, TxAckTimeoutBusy
  <2>2. WakeUpNoRuntimeError'
    BY <1>3 DEF WakeUpNoRuntimeError, WakeUpTypeOK, TxAckTimeoutBusy
  <2>3. WakeUpTimersMatchPhase'
    BY <1>3 DEF WakeUpTimersMatchPhase, WakeUpTypeOK, TxAckTimeoutBusy
  <2>4. WakeUpBackoffMatchesPhase'
    BY <1>3 DEF WakeUpBackoffMatchesPhase, TxAckTimeoutBusy
  <2>5. WakeUpAwaitArmed'
    BY <1>3 DEF WakeUpAwaitArmed, TxAckTimeoutBusy
  <2>6. WakeUpTimersDue'
    BY <1>3 DEF WakeUpTimersDue, WakeUpTypeOK, TxAckTimeoutBusy
  <2>7. /\ OneRadioOn'
        /\ DeferredDropScope'
        /\ RetryUnacknowledged'
        /\ RadiosMatchPhase'
        /\ StoredFrameMatchesPhase'
    BY <1>3 DEF OneRadioOn, DeferredDropScope, RetryUnacknowledged, RadiosMatchPhase,
       StoredFrameMatchesPhase, TxAckTimeoutBusy
  <2> QED
    BY <2>1, <2>2, <2>3, <2>4, <2>5, <2>6, <2>7 DEF WakeUpInv
<1>4. ASSUME InheritAt("ackBackoffTimer", TxAckTimeoutContention) PROVE WakeUpInv'
  <2>1. WakeUpTypeOK'
    BY <1>4 DEF WakeUpTypeOK, TxAckTimeoutContention, StateTxEnterDataWait, StartCold,
       StartTxOrBackoff, DelayCarrierSense, StartTx
  <2>2. WakeUpNoRuntimeError'
    BY <1>4 DEF WakeUpNoRuntimeError, WakeUpTypeOK, WakeUpTimersMatchPhase,
       WakeUpBackoffMatchesPhase, OneRadioOn, RadiosMatchPhase, TxAckTimeoutContention,
       StateTxEnterDataWait, StartCold, StartTxOrBackoff, DelayCarrierSense, StartTx
  <2>3. WakeUpTimersMatchPhase'
    BY <1>4 DEF WakeUpTimersMatchPhase, WakeUpTypeOK, WakeUpNoRuntimeError,
       WakeUpBackoffMatchesPhase, OneRadioOn, RadiosMatchPhase, TxAckTimeoutContention,
       StateTxEnterDataWait, StartCold, StartTxOrBackoff, DelayCarrierSense, StartTx
  <2>4. WakeUpBackoffMatchesPhase'
    BY <1>4 DEF WakeUpBackoffMatchesPhase, WakeUpTypeOK, TxAckTimeoutContention,
       StateTxEnterDataWait, StartCold, StartTxOrBackoff, DelayCarrierSense, StartTx
  <2>5. WakeUpAwaitArmed'
    BY <1>4 DEF WakeUpAwaitArmed, TxAckTimeoutContention
  <2>6. OneRadioOn'
    BY <1>4 DEF OneRadioOn, TxAckTimeoutContention
  <2>7. RadiosMatchPhase'
    BY <1>4 DEF RadiosMatchPhase, TxAckTimeoutContention, StateTxEnterDataWait, StartCold
  <2>8. WakeUpTimersDue'
    BY <1>4 DEF WakeUpTimersDue, WakeUpTypeOK, TxAckTimeoutContention, StateTxEnterDataWait,
       StartCold, StartTxOrBackoff, DelayCarrierSense, StartTx
  <2>9. /\ DeferredDropScope'
        /\ RetryUnacknowledged'
        /\ StoredFrameMatchesPhase'
    BY <1>4 DEF DeferredDropScope, RetryUnacknowledged, StoredFrameMatchesPhase,
       TxAckTimeoutContention
  <2> QED
    BY <2>1, <2>2, <2>3, <2>4, <2>5, <2>6, <2>7, <2>8, <2>9 DEF WakeUpInv
<1>5. ASSUME WakeUpTxAckTimeoutComplete PROVE WakeUpInv'
  <2>1. WakeUpTypeOK'
    <3>1. PICK timers \in [Timer -> TimerState] : WakeUpTxEnterEnd(timers)
      BY <1>5, TimerType DEF WakeUpTypeOK, WakeUpTxAckTimeoutComplete
    <3>2. timer' \in [Timer -> TimerState]
      BY <3>1, TimerType DEF WakeUpTxEnterEnd, WakeUpListeningEnter,
         StateListeningEnterAlreadyListening
    <3>3. radioMode' \in RadioMode /\ wakeUpRadioMode' \in RadioMode
      BY <3>1, RadioModeType DEF WakeUpTypeOK, WakeUpTxEnterEnd, WakeUpListeningEnter
    <3>4. /\ macState' \in {"DATA_IDLE", "WAKE_UP_IDLE", "WAKE_UP_WAIT", "RECEIVE",
                           "AWAIT_TRANSMIT", "TRANSMIT"}
          /\ txDataState' \in {"WAKE_UP_WAIT", "WAKE_UP", "DATA_WAIT", "DATA", "ACK_WAIT", "END"}
          /\ activeRadio' \in {"none", "wakeUp", "data"}
      BY <3>1 DEF WakeUpTypeOK, WakeUpTxEnterEnd, WakeUpListeningEnter,
         StateListeningEnterAlreadyListening
    <3>5. /\ outcome' \in [Packets -> {"new", "held", "sent", "noRoute", "overflow", "down"}]
          /\ currentTxFrame' \in Packets \cup {NoFrame}
          /\ txQueue' \in Seq(Packets) /\ txInProgressTries' \in 0..MaxTxTries
      BY <1>5 DEF WakeUpTypeOK, WakeUpTxAckTimeoutComplete, CompletePacketTransmission
    <3>6. txInProgressForwarders' \in 0..RequiredForwarders
      BY <1>5 DEF WakeUpTypeOK, WakeUpNoRuntimeError, RetryUnacknowledged, AckTimeout, Sending,
         WakeUpTxAckTimeoutComplete, CompletePacketTransmission, RequiredForwarders, In
    <3> QED
      BY <1>5, <3>2, <3>3, <3>4, <3>5, <3>6 DEF WakeUpTypeOK, WakeUpTxAckTimeoutComplete
  <2>2. WakeUpNoRuntimeError'
    BY <1>5 DEF WakeUpNoRuntimeError, WakeUpTypeOK, WakeUpTimersDue, WakeUpTimersMatchPhase,
       RadiosMatchPhase, OneRadioOn, WakeUpBackoffMatchesPhase, StoredFrameMatchesPhase,
       WakeUpTxAckTimeoutComplete, CompletePacketTransmission, WakeUpTxEnterEnd,
       WakeUpListeningEnter, StateListeningEnterAlreadyListening
  <2>3. WakeUpTimersMatchPhase'
    BY <1>5 DEF WakeUpTimersMatchPhase, WakeUpTypeOK, WakeUpTxAckTimeoutComplete,
       CompletePacketTransmission, WakeUpTxEnterEnd, WakeUpListeningEnter,
       StateListeningEnterAlreadyListening
  <2>4. WakeUpBackoffMatchesPhase'
    BY <1>5 DEF WakeUpBackoffMatchesPhase, WakeUpTxAckTimeoutComplete,
       CompletePacketTransmission, WakeUpTxEnterEnd, WakeUpListeningEnter,
       StateListeningEnterAlreadyListening
  <2>5. WakeUpAwaitArmed'
    BY <1>5 DEF WakeUpAwaitArmed, WakeUpTypeOK, WakeUpTxAckTimeoutComplete,
       CompletePacketTransmission, WakeUpTxEnterEnd, WakeUpListeningEnter,
       StateListeningEnterAlreadyListening
  <2>6. OneRadioOn'
    BY <1>5 DEF OneRadioOn, WakeUpTypeOK, WakeUpNoRuntimeError, WakeUpTimersMatchPhase,
       WakeUpBackoffMatchesPhase, RadiosMatchPhase, WakeUpTxAckTimeoutComplete,
       CompletePacketTransmission, WakeUpTxEnterEnd, WakeUpListeningEnter,
       StateListeningEnterAlreadyListening
  <2>7. DeferredDropScope'
    BY <1>5 DEF DeferredDropScope, WakeUpTxAckTimeoutComplete
  <2>8. RetryUnacknowledged'
    BY <1>5 DEF RetryUnacknowledged, WakeUpTypeOK, WakeUpTxAckTimeoutComplete,
       CompletePacketTransmission
  <2>9. RadiosMatchPhase'
    BY <1>5 DEF RadiosMatchPhase, WakeUpTypeOK, WakeUpTimersMatchPhase, WakeUpTimersDue,
       OneRadioOn, WakeUpTxAckTimeoutComplete, CompletePacketTransmission, WakeUpTxEnterEnd,
       WakeUpListeningEnter, StateListeningEnterAlreadyListening
  <2>10. WakeUpTimersDue'
    BY <1>5 DEF WakeUpTimersDue, WakeUpTypeOK, WakeUpNoRuntimeError, WakeUpTimersMatchPhase,
       WakeUpBackoffMatchesPhase, OneRadioOn, RadiosMatchPhase, WakeUpTxAckTimeoutComplete,
       CompletePacketTransmission, WakeUpTxEnterEnd, WakeUpListeningEnter,
       StateListeningEnterAlreadyListening
  <2>11. StoredFrameMatchesPhase'
    BY <1>5 DEF StoredFrameMatchesPhase, WakeUpTxAckTimeoutComplete
  <2> QED
    BY <2>1, <2>2, <2>3, <2>4, <2>5, <2>6, <2>7, <2>8, <2>9, <2>10, <2>11 DEF WakeUpInv
<1> QED
  BY <1>1, <1>2, <1>3, <1>4, <1>5

\* The end of a transmission preserves the invariant.
LEMMA TransmissionEndStep ==
    WakeUpInv /\ (\/ InheritAt("transmitStartDelay", TxEndTransmitStart)
                   \/ WakeUpTxEndAsleep)
        => WakeUpInv'
<1> SUFFICES ASSUME WakeUpInv,
                    \/ InheritAt("transmitStartDelay", TxEndTransmitStart)
                    \/ WakeUpTxEndAsleep
             PROVE WakeUpInv'
  OBVIOUS
<1>1. ASSUME InheritAt("transmitStartDelay", TxEndTransmitStart) PROVE WakeUpInv'
  <2>1. WakeUpTypeOK'
    BY <1>1 DEF WakeUpTypeOK, TxEndTransmitStart
  <2>2. WakeUpNoRuntimeError'
    BY <1>1 DEF WakeUpNoRuntimeError, WakeUpTypeOK, TxEndTransmitStart
  <2>3. WakeUpTimersMatchPhase'
    BY <1>1 DEF WakeUpTimersMatchPhase, WakeUpTypeOK, TxEndTransmitStart
  <2>4. WakeUpBackoffMatchesPhase'
    BY <1>1 DEF WakeUpBackoffMatchesPhase, TxEndTransmitStart
  <2>5. WakeUpAwaitArmed'
    BY <1>1 DEF WakeUpAwaitArmed, TxEndTransmitStart
  <2>6. WakeUpTimersDue'
    BY <1>1 DEF WakeUpTimersDue, WakeUpTypeOK, TxEndTransmitStart
  <2>7. /\ OneRadioOn'
        /\ DeferredDropScope'
        /\ RetryUnacknowledged'
        /\ RadiosMatchPhase'
        /\ StoredFrameMatchesPhase'
    BY <1>1 DEF OneRadioOn, DeferredDropScope, RetryUnacknowledged, RadiosMatchPhase,
       StoredFrameMatchesPhase, TxEndTransmitStart
  <2> QED
    BY <2>1, <2>2, <2>3, <2>4, <2>5, <2>6, <2>7 DEF WakeUpInv
<1>2. ASSUME WakeUpTxEndAsleep PROVE WakeUpInv'
  <2>1. WakeUpTypeOK'
    BY <1>2 DEF WakeUpTypeOK, WakeUpTxEndAsleep, WakeUpListeningEnter,
       StateListeningEnterAlreadyListening
  <2>2. WakeUpNoRuntimeError'
    BY <1>2 DEF WakeUpNoRuntimeError, WakeUpTypeOK, WakeUpTimersMatchPhase,
       WakeUpBackoffMatchesPhase, OneRadioOn, RadiosMatchPhase, WakeUpTxEndAsleep,
       WakeUpListeningEnter, StateListeningEnterAlreadyListening
  <2>3. WakeUpTimersMatchPhase'
    BY <1>2 DEF WakeUpTimersMatchPhase, WakeUpTypeOK, WakeUpTimersDue, OneRadioOn,
       WakeUpTxEndAsleep, WakeUpListeningEnter, StateListeningEnterAlreadyListening
  <2>4. WakeUpBackoffMatchesPhase'
    BY <1>2 DEF WakeUpBackoffMatchesPhase, WakeUpTxEndAsleep, WakeUpListeningEnter,
       StateListeningEnterAlreadyListening
  <2>5. WakeUpAwaitArmed'
    BY <1>2 DEF WakeUpAwaitArmed, WakeUpTypeOK, WakeUpTxEndAsleep, WakeUpListeningEnter,
       StateListeningEnterAlreadyListening
  <2>6. OneRadioOn'
    BY <1>2 DEF OneRadioOn, WakeUpTxEndAsleep, WakeUpListeningEnter,
       StateListeningEnterAlreadyListening
  <2>7. DeferredDropScope'
    BY <1>2 DEF DeferredDropScope, WakeUpTxEndAsleep
  <2>8. RadiosMatchPhase'
    BY <1>2 DEF RadiosMatchPhase, WakeUpTxEndAsleep, WakeUpListeningEnter,
       StateListeningEnterAlreadyListening
  <2>9. WakeUpTimersDue'
    BY <1>2 DEF WakeUpTimersDue, WakeUpTypeOK, WakeUpNoRuntimeError, WakeUpTimersMatchPhase,
       WakeUpBackoffMatchesPhase, OneRadioOn, RadiosMatchPhase, WakeUpTxEndAsleep,
       WakeUpListeningEnter, StateListeningEnterAlreadyListening
  <2>10. StoredFrameMatchesPhase'
    BY <1>2 DEF StoredFrameMatchesPhase, WakeUpTxEndAsleep
  <2>11. RetryUnacknowledged'
    BY <1>2 DEF RetryUnacknowledged, WakeUpTxEndAsleep
  <2> QED
    BY <2>1, <2>2, <2>3, <2>4, <2>5, <2>6, <2>7, <2>8, <2>9, <2>10, <2>11 DEF WakeUpInv
<1> QED
  BY <1>1, <1>2

\* A data frame heard, and the backoff before its acknowledgment, preserve
\* the invariant.
LEMMA ReceiveDataStep ==
    WakeUpInv /\ (\/ (\E frame \in DataFrame : Inherit(RxFirstData(frame)))
                   \/ (\E frame \in DataFrame : WakeUpRxRepeatedData(frame))
                   \/ WakeUpRxBackoffTimer)
        => WakeUpInv'
<1> SUFFICES ASSUME WakeUpInv,
                    \/ (\E frame \in DataFrame : Inherit(RxFirstData(frame)))
                    \/ (\E frame \in DataFrame : WakeUpRxRepeatedData(frame))
                    \/ WakeUpRxBackoffTimer
             PROVE WakeUpInv'
  OBVIOUS
<1>1. ASSUME NEW frame \in DataFrame, Inherit(RxFirstData(frame)) PROVE WakeUpInv'
  <2>1. WakeUpTypeOK'
    BY <1>1 DEF WakeUpTypeOK, RxFirstData, ProcessFirstData, StateReceiveEnterAck,
       StateReceiveEnterFinishDropOther, DelayCarrierSense, StateReceiveEnterFinish
  <2>2. WakeUpNoRuntimeError'
    BY <1>1 DEF WakeUpNoRuntimeError, WakeUpTypeOK, WakeUpTimersMatchPhase,
       WakeUpBackoffMatchesPhase, OneRadioOn, RadiosMatchPhase, RxFirstData,
       ProcessFirstData, StateReceiveEnterAck, StateReceiveEnterFinishDropOther,
       DelayCarrierSense, StateReceiveEnterFinish
  <2>3. WakeUpTimersMatchPhase'
    BY <1>1 DEF WakeUpTimersMatchPhase, WakeUpTypeOK, RxFirstData, ProcessFirstData,
       StateReceiveEnterAck, StateReceiveEnterFinishDropOther, DelayCarrierSense,
       StateReceiveEnterFinish
  <2>4. WakeUpBackoffMatchesPhase'
    BY <1>1 DEF WakeUpBackoffMatchesPhase, WakeUpTypeOK, RxFirstData, ProcessFirstData,
       StateReceiveEnterAck, StateReceiveEnterFinishDropOther, DelayCarrierSense,
       StateReceiveEnterFinish
  <2>5. WakeUpAwaitArmed'
    BY <1>1 DEF WakeUpAwaitArmed, RxFirstData
  <2>6. OneRadioOn'
    BY <1>1 DEF OneRadioOn, RxFirstData
  <2>7. DeferredDropScope'
    <3>1. ~deferredDuplicateDrop
      BY <1>1 DEF DeferredDropScope, RxFirstData
    <3>2. ~deferredDuplicateDrop'
      BY <1>1, <3>1
      DEF RxFirstData, ProcessFirstData, StateReceiveEnterFinishDropOther,
          StateReceiveEnterAck, StateReceiveEnterFinish
    <3> QED
      BY <3>2 DEF DeferredDropScope
  <2>8. RadiosMatchPhase'
    BY <1>1 DEF RadiosMatchPhase, RxFirstData, ProcessFirstData, StateReceiveEnterAck,
       StateReceiveEnterFinishDropOther, DelayCarrierSense, StateReceiveEnterFinish
  <2>9. WakeUpTimersDue'
    BY <1>1 DEF WakeUpTimersDue, WakeUpTypeOK, RxFirstData, ProcessFirstData,
       StateReceiveEnterAck, StateReceiveEnterFinishDropOther, DelayCarrierSense,
       StateReceiveEnterFinish
  <2>10. StoredFrameMatchesPhase'
    BY <1>1 DEF StoredFrameMatchesPhase, RxFirstData, ProcessFirstData,
       StateReceiveEnterAck, StateReceiveEnterFinishDropOther, DelayCarrierSense,
       StateReceiveEnterFinish
  <2>11. RetryUnacknowledged'
    BY <1>1 DEF RetryUnacknowledged, RxFirstData
  <2> QED
    BY <2>1, <2>2, <2>3, <2>4, <2>5, <2>6, <2>7, <2>8, <2>9, <2>10, <2>11 DEF WakeUpInv
<1>2. ASSUME NEW frame \in DataFrame, WakeUpRxRepeatedData(frame) PROVE WakeUpInv'
  <2>1. WakeUpTypeOK'
    BY <1>2 DEF WakeUpTypeOK, WakeUpRxRepeatedData, StateReceiveEnterAck, WakeUpEnterFinish,
       DelayCarrierSense
  <2>2. WakeUpNoRuntimeError'
    BY <1>2 DEF WakeUpNoRuntimeError, WakeUpTypeOK, WakeUpTimersMatchPhase,
       WakeUpBackoffMatchesPhase, OneRadioOn, RadiosMatchPhase, WakeUpRxRepeatedData,
       StateReceiveEnterAck, WakeUpEnterFinish, DelayCarrierSense
  <2>3. WakeUpTimersMatchPhase'
    BY <1>2 DEF WakeUpTimersMatchPhase, WakeUpTypeOK, WakeUpRxRepeatedData,
       StateReceiveEnterAck, WakeUpEnterFinish, DelayCarrierSense
  <2>4. WakeUpBackoffMatchesPhase'
    BY <1>2 DEF WakeUpBackoffMatchesPhase, WakeUpTypeOK, WakeUpRxRepeatedData,
       StateReceiveEnterAck, WakeUpEnterFinish, DelayCarrierSense
  <2>5. WakeUpAwaitArmed'
    BY <1>2 DEF WakeUpAwaitArmed, WakeUpRxRepeatedData
  <2>6. OneRadioOn'
    BY <1>2 DEF OneRadioOn, WakeUpRxRepeatedData
  <2>7. DeferredDropScope'
    <3>1. ~deferredDuplicateDrop /\ rxOutcome = "pending"
      BY <1>2 DEF DeferredDropScope, StoredFrameMatchesPhase, WakeUpRxRepeatedData
    <3>2. CASE rxState' = "FINISH" /\ rxOutcome' = "pending"
      BY <1>2, <3>2 DEF WakeUpRxRepeatedData, DeferredDropScope
    <3>3. CASE ~(rxState' = "FINISH" /\ rxOutcome' = "pending")
      <4>1. ~deferredDuplicateDrop'
        BY <1>2, <3>1, <3>3 DEF WakeUpRxRepeatedData, StateReceiveEnterAck, WakeUpEnterFinish
      <4> QED
        BY <4>1 DEF DeferredDropScope
    <3> QED
      BY <3>2, <3>3
  <2>8. RadiosMatchPhase'
    BY <1>2 DEF RadiosMatchPhase, WakeUpRxRepeatedData, StateReceiveEnterAck,
       WakeUpEnterFinish, DelayCarrierSense
  <2>9. WakeUpTimersDue'
    BY <1>2 DEF WakeUpTimersDue, WakeUpTypeOK, WakeUpRxRepeatedData, StateReceiveEnterAck,
       WakeUpEnterFinish, DelayCarrierSense
  <2>10. StoredFrameMatchesPhase'
    BY <1>2 DEF StoredFrameMatchesPhase, WakeUpRxRepeatedData
  <2>11. RetryUnacknowledged'
    BY <1>2 DEF RetryUnacknowledged, WakeUpRxRepeatedData
  <2> QED
    BY <2>1, <2>2, <2>3, <2>4, <2>5, <2>6, <2>7, <2>8, <2>9, <2>10, <2>11 DEF WakeUpInv
<1>3. ASSUME WakeUpRxBackoffTimer PROVE WakeUpInv'
  <2>1. WakeUpTypeOK'
    <3>1. radioMode = "RECEIVER"
      BY <1>3 DEF WakeUpBackoffMatchesPhase, WakeUpRxBackoffTimer
    <3>2. PICK b \in StartTxOrBackoff(radioMode, Fired("txBackoffTimer"), TRUE) :
            WakeUpRxBackoffTimer!3!(b)
      BY <1>3 DEF WakeUpRxBackoffTimer
    <3>3. b.radio \in RadioMode /\ b.state \in BackoffState /\ b.timers \in [Timer -> TimerState]
      BY <3>1, TimerType, RadioModeType
      DEF StartTxOrBackoff, StartTx, DelayCarrierSense, WakeUpTypeOK
    <3>4. timer' \in [Timer -> TimerState]
      BY <3>2, <3>3, TimerType DEF WakeUpEnterFinish
    <3>5. deferredDuplicateDrop' \in BOOLEAN
      BY <3>2 DEF WakeUpTypeOK
    <3> QED
      BY <1>3, <3>2, <3>3, <3>4, <3>5
      DEF WakeUpRxBackoffTimer, WakeUpTypeOK, WakeUpEnterFinish
  <2>2. WakeUpNoRuntimeError'
    BY <1>3 DEF WakeUpNoRuntimeError, WakeUpTypeOK, WakeUpTimersMatchPhase,
       WakeUpBackoffMatchesPhase, OneRadioOn, RadiosMatchPhase, WakeUpRxBackoffTimer,
       StartTxOrBackoff, WakeUpEnterFinish, DelayCarrierSense, StartTx
  <2>3. WakeUpTimersMatchPhase'
    BY <1>3 DEF WakeUpTimersMatchPhase, WakeUpTypeOK, WakeUpRxBackoffTimer,
       StartTxOrBackoff, WakeUpEnterFinish, DelayCarrierSense, StartTx
  <2>4. WakeUpBackoffMatchesPhase'
    BY <1>3 DEF WakeUpBackoffMatchesPhase, WakeUpTypeOK, WakeUpRxBackoffTimer,
       StartTxOrBackoff, WakeUpEnterFinish, DelayCarrierSense, StartTx
  <2>5. WakeUpAwaitArmed'
    BY <1>3 DEF WakeUpAwaitArmed, WakeUpRxBackoffTimer
  <2>6. OneRadioOn'
    BY <1>3 DEF OneRadioOn, WakeUpRxBackoffTimer
  <2>7. DeferredDropScope'
    <3>1. ~deferredDuplicateDrop
      BY <1>3 DEF DeferredDropScope, WakeUpRxBackoffTimer
    <3>2. rxOutcome = "pending"
      BY <1>3 DEF WakeUpNoRuntimeError, StoredFrameMatchesPhase, WakeUpRxBackoffTimer
    <3>3. CASE activeBackoff' = "NULL"
      BY <1>3, <3>2, <3>3
      DEF WakeUpRxBackoffTimer, DeferredDropScope, WakeUpEnterFinish, StartTxOrBackoff,
          StartTx, DelayCarrierSense
    <3>4. CASE activeBackoff' # "NULL"
      BY <1>3, <3>1, <3>4
      DEF WakeUpRxBackoffTimer, DeferredDropScope, StartTxOrBackoff, StartTx, DelayCarrierSense
    <3> QED
      BY <3>3, <3>4
  <2>8. RadiosMatchPhase'
    BY <1>3 DEF RadiosMatchPhase, WakeUpTypeOK, WakeUpNoRuntimeError,
       WakeUpTimersMatchPhase, WakeUpBackoffMatchesPhase, OneRadioOn, WakeUpRxBackoffTimer,
       StartTxOrBackoff, WakeUpEnterFinish, DelayCarrierSense, StartTx
  <2>9. WakeUpTimersDue'
    BY <1>3 DEF WakeUpTimersDue, WakeUpTypeOK, WakeUpNoRuntimeError, WakeUpTimersMatchPhase,
       WakeUpBackoffMatchesPhase, OneRadioOn, RadiosMatchPhase, WakeUpRxBackoffTimer,
       StartTxOrBackoff, WakeUpEnterFinish, DelayCarrierSense, StartTx
  <2>10. /\ RetryUnacknowledged'
        /\ StoredFrameMatchesPhase'
    BY <1>3 DEF RetryUnacknowledged, StoredFrameMatchesPhase, WakeUpRxBackoffTimer
  <2> QED
    BY <2>1, <2>2, <2>3, <2>4, <2>5, <2>6, <2>7, <2>8, <2>9, <2>10 DEF WakeUpInv
<1> QED
  BY <1>1, <1>2, <1>3

\* The acknowledgment and the end of a reception preserve the invariant.
LEMMA ReceiveEndStep ==
    WakeUpInv /\ (\/ Inherit(RxAckReady)
                   \/ Inherit(RxAckEnd)
                   \/ Inherit(RxRadioReady)
                   \/ WakeUpRxDataTimeout
                   \/ WakeUpRxFinishTimeout)
        => WakeUpInv'
<1> SUFFICES ASSUME WakeUpInv,
                    \/ Inherit(RxAckReady)
                    \/ Inherit(RxAckEnd)
                    \/ Inherit(RxRadioReady)
                    \/ WakeUpRxDataTimeout
                    \/ WakeUpRxFinishTimeout
             PROVE WakeUpInv'
  OBVIOUS
<1>1. ASSUME Inherit(RxAckReady) PROVE WakeUpInv'
  <2>1. WakeUpTypeOK'
    BY <1>1 DEF WakeUpTypeOK, RxAckReady
  <2>2. WakeUpNoRuntimeError'
    BY <1>1 DEF WakeUpNoRuntimeError, RxAckReady
  <2>3. WakeUpTimersMatchPhase'
    BY <1>1 DEF WakeUpTimersMatchPhase, WakeUpTypeOK, WakeUpNoRuntimeError,
       WakeUpBackoffMatchesPhase, OneRadioOn, RadiosMatchPhase, RxAckReady
  <2>4. WakeUpBackoffMatchesPhase'
    BY <1>1 DEF WakeUpBackoffMatchesPhase, WakeUpTypeOK, WakeUpNoRuntimeError,
       WakeUpTimersMatchPhase, OneRadioOn, RadiosMatchPhase, RxAckReady
  <2>5. OneRadioOn'
    BY <1>1 DEF OneRadioOn, RxAckReady
  <2>6. RadiosMatchPhase'
    BY <1>1 DEF RadiosMatchPhase, RxAckReady
  <2>7. /\ WakeUpAwaitArmed'
        /\ DeferredDropScope'
        /\ RetryUnacknowledged'
        /\ WakeUpTimersDue'
        /\ StoredFrameMatchesPhase'
    BY <1>1 DEF WakeUpAwaitArmed, DeferredDropScope, RetryUnacknowledged, WakeUpTimersDue,
       StoredFrameMatchesPhase, RxAckReady
  <2> QED
    BY <2>1, <2>2, <2>3, <2>4, <2>5, <2>6, <2>7 DEF WakeUpInv
<1>2. ASSUME Inherit(RxAckEnd) PROVE WakeUpInv'
  <2>1. WakeUpTypeOK'
    BY <1>2 DEF WakeUpTypeOK, RxAckEnd
  <2>2. WakeUpNoRuntimeError'
    BY <1>2 DEF WakeUpNoRuntimeError, WakeUpTypeOK, RxAckEnd
  <2>3. WakeUpTimersMatchPhase'
    BY <1>2 DEF WakeUpTimersMatchPhase, WakeUpTypeOK, RxAckEnd
  <2>4. WakeUpBackoffMatchesPhase'
    BY <1>2 DEF WakeUpBackoffMatchesPhase, WakeUpTypeOK, RxAckEnd
  <2>5. WakeUpAwaitArmed'
    BY <1>2 DEF WakeUpAwaitArmed, RxAckEnd
  <2>6. OneRadioOn'
    BY <1>2 DEF OneRadioOn, RxAckEnd
  <2>7. DeferredDropScope'
    BY <1>2 DEF DeferredDropScope, RxAckEnd
  <2>8. RadiosMatchPhase'
    BY <1>2 DEF RadiosMatchPhase, WakeUpTypeOK, RxAckEnd
  <2>9. WakeUpTimersDue'
    BY <1>2 DEF WakeUpTimersDue, WakeUpTypeOK, RxAckEnd
  <2>10. /\ RetryUnacknowledged'
        /\ StoredFrameMatchesPhase'
    BY <1>2 DEF RetryUnacknowledged, StoredFrameMatchesPhase, RxAckEnd
  <2> QED
    BY <2>1, <2>2, <2>3, <2>4, <2>5, <2>6, <2>7, <2>8, <2>9, <2>10 DEF WakeUpInv
<1>3. ASSUME Inherit(RxRadioReady) PROVE WakeUpInv'
  <2>1. WakeUpTypeOK'
    BY <1>3 DEF WakeUpTypeOK, RxRadioReady
  <2>2. WakeUpNoRuntimeError'
    BY <1>3 DEF WakeUpNoRuntimeError, WakeUpTypeOK, RxRadioReady
  <2>3. WakeUpTimersMatchPhase'
    BY <1>3 DEF WakeUpTimersMatchPhase, WakeUpTypeOK, RxRadioReady
  <2>4. WakeUpBackoffMatchesPhase'
    BY <1>3 DEF WakeUpBackoffMatchesPhase, RxRadioReady
  <2>5. WakeUpAwaitArmed'
    BY <1>3 DEF WakeUpAwaitArmed, RxRadioReady
  <2>6. OneRadioOn'
    BY <1>3 DEF OneRadioOn, RxRadioReady
  <2>7. RadiosMatchPhase'
    BY <1>3 DEF RadiosMatchPhase, RxRadioReady
  <2>8. WakeUpTimersDue'
    BY <1>3 DEF WakeUpTimersDue, WakeUpTypeOK, RxRadioReady
  <2>9. /\ DeferredDropScope'
        /\ RetryUnacknowledged'
        /\ StoredFrameMatchesPhase'
    BY <1>3 DEF DeferredDropScope, RetryUnacknowledged, StoredFrameMatchesPhase,
       RxRadioReady
  <2> QED
    BY <2>1, <2>2, <2>3, <2>4, <2>5, <2>6, <2>7, <2>8, <2>9 DEF WakeUpInv
<1>4. ASSUME WakeUpRxDataTimeout PROVE WakeUpInv'
  <2>1. WakeUpTypeOK'
    BY <1>4 DEF WakeUpTypeOK, WakeUpRxDataTimeout, CompletePacketReception,
       WakeUpListeningEnter, StateListeningEnterAlreadyListening
  <2>2. WakeUpNoRuntimeError'
    BY <1>4 DEF WakeUpNoRuntimeError, WakeUpTypeOK, WakeUpTimersDue, WakeUpTimersMatchPhase,
       RadiosMatchPhase, OneRadioOn, WakeUpBackoffMatchesPhase, StoredFrameMatchesPhase,
       WakeUpRxDataTimeout, CompletePacketReception, WakeUpListeningEnter,
       StateListeningEnterAlreadyListening
  <2>3. WakeUpTimersMatchPhase'
    BY <1>4 DEF WakeUpTimersMatchPhase, WakeUpTypeOK, WakeUpRxDataTimeout,
       CompletePacketReception, WakeUpListeningEnter, StateListeningEnterAlreadyListening
  <2>4. WakeUpBackoffMatchesPhase'
    BY <1>4 DEF WakeUpBackoffMatchesPhase, WakeUpRxDataTimeout, CompletePacketReception,
       WakeUpListeningEnter, StateListeningEnterAlreadyListening
  <2>5. WakeUpAwaitArmed'
    BY <1>4 DEF WakeUpAwaitArmed, WakeUpTypeOK, WakeUpRxDataTimeout,
       CompletePacketReception, WakeUpListeningEnter, StateListeningEnterAlreadyListening
  <2>6. OneRadioOn'
    BY <1>4 DEF OneRadioOn, WakeUpTypeOK, WakeUpTimersDue, WakeUpTimersMatchPhase,
       RadiosMatchPhase, WakeUpBackoffMatchesPhase, WakeUpNoRuntimeError,
       StoredFrameMatchesPhase, WakeUpRxDataTimeout, CompletePacketReception,
       WakeUpListeningEnter, StateListeningEnterAlreadyListening
  <2>7. DeferredDropScope'
    BY <1>4 DEF DeferredDropScope, WakeUpRxDataTimeout
  <2>8. RadiosMatchPhase'
    BY <1>4 DEF RadiosMatchPhase, WakeUpRxDataTimeout, CompletePacketReception,
       WakeUpListeningEnter, StateListeningEnterAlreadyListening
  <2>9. WakeUpTimersDue'
    BY <1>4 DEF WakeUpTimersDue, WakeUpTypeOK, WakeUpNoRuntimeError, WakeUpTimersMatchPhase,
       WakeUpBackoffMatchesPhase, OneRadioOn, RadiosMatchPhase, WakeUpRxDataTimeout,
       CompletePacketReception, WakeUpListeningEnter, StateListeningEnterAlreadyListening
  <2>10. StoredFrameMatchesPhase'
    BY <1>4 DEF StoredFrameMatchesPhase, WakeUpRxDataTimeout, CompletePacketReception
  <2>11. RetryUnacknowledged'
    BY <1>4 DEF RetryUnacknowledged, WakeUpRxDataTimeout
  <2> QED
    BY <2>1, <2>2, <2>3, <2>4, <2>5, <2>6, <2>7, <2>8, <2>9, <2>10, <2>11 DEF WakeUpInv
<1>5. ASSUME WakeUpRxFinishTimeout PROVE WakeUpInv'
  <2>1. WakeUpTypeOK'
    <3>1. timer' \in [Timer -> TimerState]
      BY <1>5, TimerType DEF WakeUpTypeOK, WakeUpRxFinishTimeout, WakeUpListeningEnter,
         StateListeningEnterAlreadyListening
    <3>2. radioMode' \in RadioMode /\ wakeUpRadioMode' \in RadioMode
      BY <1>5, RadioModeType DEF WakeUpTypeOK, WakeUpRxFinishTimeout, WakeUpListeningEnter
    <3>3. deferredDuplicateDrop' \in BOOLEAN
      BY <1>5 DEF WakeUpTypeOK, WakeUpRxFinishTimeout, CompleteDeferredDrop
    <3>4. /\ currentRxFrame' \in DataFrame \cup {NoFrame}
          /\ rxOutcome' \in {"none", "pending", "sentUp", "dropped"}
      BY <1>5 DEF WakeUpTypeOK, WakeUpRxFinishTimeout, CompleteDeferredDrop,
         CompletePacketReception
    <3> QED
      BY <1>5, <3>1, <3>2, <3>3, <3>4
      DEF WakeUpTypeOK, WakeUpRxFinishTimeout, WakeUpListeningEnter,
          StateListeningEnterAlreadyListening
  <2>2. WakeUpNoRuntimeError'
    BY <1>5 DEF WakeUpNoRuntimeError, WakeUpTypeOK, WakeUpTimersMatchPhase,
       WakeUpBackoffMatchesPhase, OneRadioOn, RadiosMatchPhase, WakeUpRxFinishTimeout,
       CompleteDeferredDrop, WakeUpListeningEnter, CompletePacketReception,
       StateListeningEnterAlreadyListening
  <2>3. WakeUpTimersMatchPhase'
    BY <1>5 DEF WakeUpTimersMatchPhase, WakeUpTypeOK, WakeUpRxFinishTimeout,
       CompleteDeferredDrop, WakeUpListeningEnter, CompletePacketReception,
       StateListeningEnterAlreadyListening
  <2>4. WakeUpBackoffMatchesPhase'
    BY <1>5 DEF WakeUpBackoffMatchesPhase, WakeUpRxFinishTimeout, CompleteDeferredDrop,
       WakeUpListeningEnter, CompletePacketReception, StateListeningEnterAlreadyListening
  <2>5. WakeUpAwaitArmed'
    BY <1>5 DEF WakeUpAwaitArmed, WakeUpTypeOK, WakeUpRxFinishTimeout, CompleteDeferredDrop,
       WakeUpListeningEnter, CompletePacketReception, StateListeningEnterAlreadyListening
  <2>6. OneRadioOn'
    BY <1>5 DEF OneRadioOn, WakeUpTypeOK, WakeUpNoRuntimeError, WakeUpTimersMatchPhase,
       WakeUpBackoffMatchesPhase, RadiosMatchPhase, WakeUpRxFinishTimeout,
       CompleteDeferredDrop, WakeUpListeningEnter, CompletePacketReception,
       StateListeningEnterAlreadyListening
  <2>7. DeferredDropScope'
    BY <1>5 DEF DeferredDropScope, WakeUpRxFinishTimeout, CompleteDeferredDrop,
       WakeUpListeningEnter
  <2>8. RadiosMatchPhase'
    BY <1>5 DEF RadiosMatchPhase, WakeUpRxFinishTimeout, CompleteDeferredDrop,
       WakeUpListeningEnter, CompletePacketReception, StateListeningEnterAlreadyListening
  <2>9. WakeUpTimersDue'
    BY <1>5 DEF WakeUpTimersDue, WakeUpTypeOK, WakeUpNoRuntimeError, WakeUpTimersMatchPhase,
       WakeUpBackoffMatchesPhase, OneRadioOn, RadiosMatchPhase, WakeUpRxFinishTimeout,
       CompleteDeferredDrop, WakeUpListeningEnter, CompletePacketReception,
       StateListeningEnterAlreadyListening
  <2>10. StoredFrameMatchesPhase'
    BY <1>5 DEF StoredFrameMatchesPhase, WakeUpRxFinishTimeout, CompleteDeferredDrop,
       WakeUpListeningEnter, CompletePacketReception, StateListeningEnterAlreadyListening
  <2>11. RetryUnacknowledged'
    BY <1>5 DEF RetryUnacknowledged, WakeUpRxFinishTimeout
  <2> QED
    BY <2>1, <2>2, <2>3, <2>4, <2>5, <2>6, <2>7, <2>8, <2>9, <2>10, <2>11 DEF WakeUpInv
<1> QED
  BY <1>1, <1>2, <1>3, <1>4, <1>5

\* A stop, a stop for lack of energy and a start preserve the invariant.
LEMMA WakeUpNodeStep ==
    WakeUpInv /\ (\/ WakeUpNodeStop \/ WakeUpAwaitNotReplenished
                   \/ WakeUpNodeStart)
        => WakeUpInv'
<1> SUFFICES ASSUME WakeUpInv,
                    \/ WakeUpNodeStop \/ WakeUpAwaitNotReplenished
                    \/ WakeUpNodeStart
             PROVE WakeUpInv'
  OBVIOUS
<1>1. ASSUME WakeUpNodeStop \/ WakeUpAwaitNotReplenished PROVE WakeUpInv'
  <2>0. HandleCrashOperation /\ BothRadiosOff /\ approval = "off"
    BY <1>1 DEF WakeUpNodeStop, WakeUpAwaitNotReplenished, NodeStop, AwaitNotReplenished,
       WakeUpTypeOK, WakeUpTimersMatchPhase
  <2>1. WakeUpTypeOK'
    <3>1. operating' \in BOOLEAN /\ transmitting' \in BOOLEAN /\ deferredDuplicateDrop' \in BOOLEAN
      BY <2>0 DEF HandleCrashOperation
    <3>2. timer' \in [Timer -> TimerState]
      BY <2>0 DEF HandleCrashOperation
    <3>3. /\ outcome' \in [Packets -> {"new", "held", "sent", "noRoute", "overflow", "down"}]
          /\ currentTxFrame' \in Packets \cup {NoFrame}
          /\ currentRxFrame' \in DataFrame \cup {NoFrame}
          /\ rxOutcome' \in {"none", "pending", "sentUp", "dropped"}
      BY <2>0 DEF HandleCrashOperation, WakeUpTypeOK
    <3> QED
      BY <2>0, <3>1, <3>2, <3>3 DEF HandleCrashOperation, BothRadiosOff, WakeUpTypeOK
  <2>2. WakeUpNoRuntimeError'
    BY <2>0 DEF WakeUpNoRuntimeError, HandleCrashOperation, CrashDropsStoredFrame,
       BothRadiosOff
  <2>3. WakeUpTimersMatchPhase'
    BY <2>0 DEF WakeUpTimersMatchPhase, HandleCrashOperation, CrashDropsStoredFrame,
       BothRadiosOff
  <2>4. WakeUpBackoffMatchesPhase'
    BY <2>0 DEF WakeUpBackoffMatchesPhase, HandleCrashOperation, CrashDropsStoredFrame,
       BothRadiosOff
  <2>5. WakeUpAwaitArmed'
    BY <2>0 DEF WakeUpAwaitArmed, HandleCrashOperation
  <2>6. OneRadioOn'
    BY <2>0 DEF OneRadioOn, HandleCrashOperation, CrashDropsStoredFrame, BothRadiosOff
  <2>7. DeferredDropScope'
    BY <2>0 DEF DeferredDropScope, HandleCrashOperation
  <2>8. RetryUnacknowledged'
    BY <2>0 DEF RetryUnacknowledged, HandleCrashOperation
  <2>9. RadiosMatchPhase'
    BY <2>0 DEF RadiosMatchPhase, HandleCrashOperation, CrashDropsStoredFrame, BothRadiosOff
  <2>10. WakeUpTimersDue'
    BY <2>0 DEF WakeUpTimersDue, HandleCrashOperation
  <2>11. StoredFrameMatchesPhase'
    BY <2>0 DEF StoredFrameMatchesPhase, HandleCrashOperation
  <2> QED
    BY <2>1, <2>2, <2>3, <2>4, <2>5, <2>6, <2>7, <2>8, <2>9, <2>10, <2>11 DEF WakeUpInv
<1>2. ASSUME WakeUpNodeStart PROVE WakeUpInv'
  <2>1. WakeUpTypeOK'
    BY <1>2 DEF WakeUpTypeOK, WakeUpNodeStart, CompletePacketReception,
       WakeUpListeningEnter, StateListeningEnterAlreadyListening
  <2>2. WakeUpNoRuntimeError'
    BY <1>2 DEF WakeUpNoRuntimeError, WakeUpTypeOK, WakeUpTimersMatchPhase,
       WakeUpBackoffMatchesPhase, OneRadioOn, RadiosMatchPhase, WakeUpNodeStart,
       CompletePacketReception, WakeUpListeningEnter, StateListeningEnterAlreadyListening
  <2>3. WakeUpTimersMatchPhase'
    BY <1>2 DEF WakeUpTimersMatchPhase, WakeUpTypeOK, WakeUpNodeStart,
       CompletePacketReception, WakeUpListeningEnter, StateListeningEnterAlreadyListening
  <2>4. WakeUpBackoffMatchesPhase'
    BY <1>2 DEF WakeUpBackoffMatchesPhase, WakeUpNodeStart, CompletePacketReception,
       WakeUpListeningEnter, StateListeningEnterAlreadyListening
  <2>5. WakeUpAwaitArmed'
    BY <1>2 DEF WakeUpAwaitArmed, WakeUpTypeOK, WakeUpNodeStart, CompletePacketReception,
       WakeUpListeningEnter, StateListeningEnterAlreadyListening
  <2>6. OneRadioOn'
    BY <1>2 DEF OneRadioOn, WakeUpTypeOK, WakeUpNoRuntimeError, WakeUpTimersMatchPhase,
       WakeUpBackoffMatchesPhase, RadiosMatchPhase, WakeUpNodeStart,
       CompletePacketReception, WakeUpListeningEnter, StateListeningEnterAlreadyListening
  <2>7. DeferredDropScope'
    BY <1>2 DEF DeferredDropScope, WakeUpNodeStart
  <2>8. RadiosMatchPhase'
    BY <1>2 DEF RadiosMatchPhase, WakeUpNodeStart, CompletePacketReception,
       WakeUpListeningEnter, StateListeningEnterAlreadyListening
  <2>9. WakeUpTimersDue'
    BY <1>2 DEF WakeUpTimersDue, WakeUpTypeOK, WakeUpNoRuntimeError, WakeUpTimersMatchPhase,
       WakeUpBackoffMatchesPhase, OneRadioOn, RadiosMatchPhase, WakeUpNodeStart,
       CompletePacketReception, WakeUpListeningEnter, StateListeningEnterAlreadyListening
  <2>10. StoredFrameMatchesPhase'
    BY <1>2 DEF StoredFrameMatchesPhase, WakeUpNodeStart, CompletePacketReception
  <2>11. RetryUnacknowledged'
    BY <1>2 DEF RetryUnacknowledged, WakeUpNodeStart
  <2> QED
    BY <2>1, <2>2, <2>3, <2>4, <2>5, <2>6, <2>7, <2>8, <2>9, <2>10, <2>11 DEF WakeUpInv
<1> QED
  BY <1>1, <1>2

-----------------------------------------------------------------------------
\* Every step preserves the invariant.
LEMMA WakeUpInvStep == WakeUpInv /\ [WakeUpNext]_wuAllVars => WakeUpInv'
<1>1. ASSUME WakeUpInv, UNCHANGED wuAllVars PROVE WakeUpInv'
  BY <1>1 DEF wuAllVars, vars, WakeUpTypeOK, WakeUpNoRuntimeError, WakeUpTimersMatchPhase,
     WakeUpBackoffMatchesPhase, WakeUpAwaitArmed, OneRadioOn, DeferredDropScope,
     RetryUnacknowledged, RadiosMatchPhase, WakeUpTimersDue, StoredFrameMatchesPhase
<1> HIDE DEF WakeUpInv, Inherit, InheritAt
<1>2. ASSUME WakeUpInv, Listening PROVE WakeUpInv'
  BY <1>2, WakeUpUpperPacketStep, WakeUpAwaitStep, WakeUpNodeStep DEF Listening
<1>3. ASSUME WakeUpInv, WakingUp PROVE WakeUpInv'
  BY <1>3, WakingStep DEF WakingUp
<1>4. ASSUME WakeUpInv, Transmitting PROVE WakeUpInv'
  BY <1>4, SendWakeUpStep, SendDataStep, AwaitAckStep, TransmissionEndStep DEF Transmitting
<1>5. ASSUME WakeUpInv, ReceivingData PROVE WakeUpInv'
  BY <1>5, ReceiveDataStep, ReceiveEndStep DEF ReceivingData
<1> QED
  BY <1>1, <1>2, <1>3, <1>4, <1>5, WakeUpNodeStep DEF WakeUpNext

\* The invariant holds in every state.
THEOREM WakeUpInvariant == WakeUpSpec => []WakeUpInv
BY WakeUpInvInit, WakeUpInvStep, PTL DEF WakeUpSpec

\* Every variable keeps its type, the counters their bounds.
THEOREM WakeUpTypeCorrect == WakeUpSpec => []WakeUpTypeOK
BY WakeUpInvariant, PTL DEF WakeUpInv

\* No handler throws, on whichever of the two radios.
THEOREM WakeUpNeverThrows == WakeUpSpec => []WakeUpNoRuntimeError
BY WakeUpInvariant, PTL DEF WakeUpInv

\* Every timer is pending exactly in its phases, though receiveTimeout serves
\* four, the approval cannot outlive the wait for it, and the backoff ends
\* with carrier sense on either radio.
THEOREM WakeUpPhasesAlwaysServed == WakeUpSpec => []WakeUpPhaseServed
<1>1. WakeUpInv => WakeUpPhaseServed
  BY DEF WakeUpPhaseServed
<1> QED
  BY <1>1, WakeUpInvariant, PTL

\* deferredDuplicateDrop never outlives the frame it was set for, through the
\* shared receiveTimeout; and a packet kept for another try, as this MAC keeps
\* one, has no confirmed forwarder: no retry repeats what was passed on.
THEOREM WakeUpKeptFramesAreKept == WakeUpSpec => []KeptFrames
<1>1. WakeUpInv => KeptFrames
  BY DEF KeptFrames
<1> QED
  BY <1>1, WakeUpInvariant, PTL

\* At most the active radio is on.
THEOREM OneRadioAtATime == WakeUpSpec => []OneRadioOn
BY WakeUpInvariant, PTL DEF WakeUpInv

-----------------------------------------------------------------------------
(***************************************************************************)
(* The stored frame                                                        *)
(***************************************************************************)

\* What a step does to the stored frame, as in ORWMac: the change of radios,
\* the wake-ups and their rejection leave it alone.
LEMMA WakeUpStoredFrameStep ==
    ASSUME WakeUpInv, [WakeUpNext]_wuAllVars
    PROVE  /\ deferredDuplicateDrop /\ ~deferredDuplicateDrop' /\ operating'
                => rxOutcome' = "dropped"
           /\ rxOutcome = "pending" /\ rxOutcome' = "dropped"
                => deferredDuplicateDrop \/ \E frame \in DataFrame : WakeUpRxRepeatedData(frame)
<1> DEFINE Goal ==
           /\ deferredDuplicateDrop /\ ~deferredDuplicateDrop' /\ operating'
                => rxOutcome' = "dropped"
           /\ rxOutcome = "pending" /\ rxOutcome' = "dropped"
                => deferredDuplicateDrop \/ \E frame \in DataFrame : WakeUpRxRepeatedData(frame)
<1>1. ASSUME UNCHANGED <<rxOutcome, deferredDuplicateDrop>> PROVE Goal
  BY <1>1
<1>2. CASE UNCHANGED wuAllVars
  BY <1>1, <1>2 DEF wuAllVars, vars
<1>3. ASSUME NEW p \in Packets, UpperPacketWakeUpIdle(p) \/ WakeUpUpperPacketQueued(p) PROVE Goal
  BY <1>1, <1>3 DEF UpperPacketWakeUpIdle, WakeUpUpperPacketQueued, UpperPacketQueued
<1>4. CASE \/ WakeUpAwaitRadioReady \/ WakeUpAwaitTransmitStart \/ WakeUpRadioReady
           \/ AwaitTransmitStartTooEarly \/ AwaitReplenished
  BY <1>1, <1>4 DEF WakeUpAwaitRadioReady, WakeUpAwaitTransmitStart, WakeUpRadioReady,
     AwaitTransmitStartTooEarly, AwaitReplenished, vars
<1>5. CASE WakingUp
  BY <1>1, <1>5 DEF WakingUp, WakeUpIdleStart, WakeUpAwaitStart, WakeUpStart, WakeUpApproved,
     WakeUpNotApproved, WakeUpDataAsleep, WakeUpDataReady
<1>6. CASE \/ TxWakeUpBackoffTimer \/ TxWakeUpReady \/ TxWakeUpEnd \/ TxWakeUpAsleep
           \/ TxWakeUpTimeout \/ TxRadioReady \/ WakeUpTxEndDirect
           \/ WakeUpTxAckTimeoutComplete \/ WakeUpTxEndAsleep
  BY <1>1, <1>6 DEF TxWakeUpBackoffTimer, TxWakeUpReady, TxWakeUpEnd, TxWakeUpAsleep,
     TxWakeUpTimeout, TxRadioReady, WakeUpTxEndDirect, WakeUpTxAckTimeoutComplete,
     WakeUpTxEndAsleep
<1>7. CASE \/ TxBackoffTimer \/ TxReady \/ TxEndAwaitAck
           \/ \E fromDestination \in BOOLEAN : TxAckReceived(fromDestination)
           \/ RadioReady \/ TxAckTimeoutBusy \/ TxAckTimeoutContention \/ TxEndTransmitStart
  BY <1>1, <1>7 DEF TxBackoffTimer, TxReady, TxEndAwaitAck, TxAckReceived, RadioReady,
     TxAckTimeoutBusy, TxAckTimeoutContention, TxEndTransmitStart
<1>8. ASSUME NEW frame \in DataFrame, RxFirstData(frame) PROVE Goal
  <2>1. ~deferredDuplicateDrop
    BY <1>8 DEF RxFirstData, DeferredDropScope
  <2>2. CASE UNCHANGED <<rxOutcome, deferredDuplicateDrop>>
    BY <1>1, <2>2
  <2>3. CASE currentRxFrame = NoFrame
    <3>1. rxOutcome # "pending"
      BY <2>3 DEF StoredFrameMatchesPhase
    <3> QED
      BY <2>1, <3>1
  <2> QED
    BY <1>8, <2>2, <2>3 DEF RxFirstData
<1>9. ASSUME NEW frame \in DataFrame, WakeUpRxRepeatedData(frame) PROVE Goal
  <2>1. ~deferredDuplicateDrop
    BY <1>9 DEF WakeUpRxRepeatedData, DeferredDropScope
  <2> QED
    BY <1>9, <2>1
<1>10. CASE WakeUpRxBackoffTimer
  BY <1>1, <1>10 DEF WakeUpRxBackoffTimer
<1>11. CASE RxAckReady \/ RxAckEnd \/ RxRadioReady
  BY <1>1, <1>11 DEF RxAckReady, RxAckEnd, RxRadioReady
<1>12. CASE WakeUpRxDataTimeout \/ WakeUpNodeStart
  <2>1. ~deferredDuplicateDrop
    BY <1>12 DEF WakeUpRxDataTimeout, WakeUpNodeStart, DeferredDropScope
  <2> QED
    BY <1>12, <2>1 DEF WakeUpRxDataTimeout, WakeUpNodeStart, CompletePacketReception
<1>13. CASE WakeUpRxFinishTimeout
  BY <1>13 DEF WakeUpRxFinishTimeout, CompleteDeferredDrop, CompletePacketReception
<1>14. CASE WakeUpNodeStop \/ WakeUpAwaitNotReplenished
  <2>1. ~operating' /\ rxOutcome' = IF CrashDropsStoredFrame THEN "dropped" ELSE rxOutcome
    BY <1>14 DEF WakeUpNodeStop, WakeUpAwaitNotReplenished, NodeStop, AwaitNotReplenished,
       HandleCrashOperation
  <2>2. ~(IsScheduled(timer, "receiveTimeout") /\ IsScheduled(timer, "ackBackoffTimer"))
    BY DEF WakeUpTimersMatchPhase
  <2> QED
    BY <2>1, <2>2 DEF CrashDropsStoredFrame
<1> QED
  <2>1. CASE Listening
    BY <2>1, <1>3, <1>4, <1>14 DEF Listening
  <2>2. CASE Transmitting
    BY <2>2, <1>6, <1>7 DEF Transmitting
  <2>3. CASE ReceivingData
    BY <2>3, <1>8, <1>9, <1>10, <1>11, <1>12, <1>13 DEF ReceivingData
  <2> QED
    BY <2>1, <2>2, <2>3, <1>2, <1>5, <1>12, <1>14 DEF WakeUpNext

\* A stored frame is dropped only by leaving the contention or on a repetition
\* of the data, not even by a crash or by the change of radios.
THEOREM WakeUpAcknowledgedIsKept == WakeUpSpec => WakeUpAcknowledgedNotDropped
BY WakeUpInvariant, WakeUpStoredFrameStep, PTL DEF WakeUpSpec, WakeUpAcknowledgedNotDropped

\* A frame marked as duplicate ends in a drop, unless the node goes down, also
\* in the RECEIVE/FINISH that ends in the instant it begins.
THEOREM WakeUpMarkedFrameIsDropped == WakeUpSpec => DeferredDropCompleted
<1>1. WakeUpInv /\ [WakeUpNext]_wuAllVars
        => [deferredDuplicateDrop /\ ~deferredDuplicateDrop' /\ operating'
              => rxOutcome' = "dropped"]_vars
  BY WakeUpStoredFrameStep
<1> QED
  BY <1>1, WakeUpInvariant, PTL DEF WakeUpSpec, DeferredDropCompleted

-----------------------------------------------------------------------------
(***************************************************************************)
(* The packets of the network layer                                        *)
(***************************************************************************)

\* Every handler does one of the five things to the packets.
LEMMA WakeUpPacketStep ==
    ASSUME WakeUpInv, [WakeUpNext]_wuAllVars
    PROVE  PacketStep
<1>1. ASSUME NEW p \in Packets, WakeUpUpperPacketQueued(p) \/ UpperPacketWakeUpIdle(p)
      PROVE  PacketStep
  BY <1>1 DEF WakeUpUpperPacketQueued, UpperPacketQueued, UpperPacketWakeUpIdle, PacketStep,
     QueuePacket, TakePacket, WakeUpNoRuntimeError
<1>2. ASSUME WakeUpAwaitRadioReady \/ WakeUpAwaitTransmitStart PROVE PacketStep
  BY <1>2 DEF WakeUpAwaitRadioReady, WakeUpAwaitTransmitStart, PacketStep, TakeNext,
     WakeUpNoRuntimeError
<1>3. ASSUME WakeUpTxEndDirect \/ WakeUpTxAckTimeoutComplete PROVE PacketStep
  <2>1. currentTxFrame # NoFrame
    BY <1>3 DEF WakeUpTxEndDirect, WakeUpTxAckTimeoutComplete, WakeUpNoRuntimeError
  <2> QED
    BY <1>3, <2>1 DEF WakeUpTxEndDirect, WakeUpTxAckTimeoutComplete, PacketStep, EndTry
<1>4. ASSUME HandleCrashOperation PROVE PacketStep
  BY <1>4 DEF HandleCrashOperation, RetryUnacknowledged, PacketStep
<1>5. ASSUME UNCHANGED <<txQueue, currentTxFrame, outcome>> PROVE PacketStep
  BY <1>5 DEF PacketStep
<1>6. CASE UNCHANGED wuAllVars
  BY <1>5, <1>6 DEF wuAllVars, vars, txVars
<1>7. CASE \/ WakeUpRadioReady \/ AwaitTransmitStartTooEarly \/ AwaitReplenished \/ WakingUp
  BY <1>5, <1>7
  DEF WakeUpRadioReady, AwaitTransmitStartTooEarly, AwaitReplenished, WakingUp,
      WakeUpIdleStart, WakeUpAwaitStart, WakeUpStart, WakeUpApproved, WakeUpNotApproved,
      WakeUpDataAsleep, WakeUpDataReady, vars, txVars
<1>8. CASE \/ TxWakeUpBackoffTimer \/ TxWakeUpReady \/ TxWakeUpEnd \/ TxWakeUpAsleep
           \/ TxWakeUpTimeout \/ TxRadioReady \/ WakeUpTxEndAsleep
           \/ TxBackoffTimer \/ TxReady \/ TxEndAwaitAck
           \/ \E fromDestination \in BOOLEAN : TxAckReceived(fromDestination)
           \/ RadioReady \/ TxAckTimeoutBusy \/ TxAckTimeoutContention \/ TxEndTransmitStart
  BY <1>5, <1>8
  DEF TxWakeUpBackoffTimer, TxWakeUpReady, TxWakeUpEnd, TxWakeUpAsleep, TxWakeUpTimeout,
      TxRadioReady, WakeUpTxEndAsleep, TxBackoffTimer, TxReady, TxEndAwaitAck, TxAckReceived,
      RadioReady, TxAckTimeoutBusy, TxAckTimeoutContention, TxEndTransmitStart, txVars
<1>9. CASE \/ \E frame \in DataFrame : RxFirstData(frame) \/ WakeUpRxRepeatedData(frame)
           \/ WakeUpRxBackoffTimer \/ RxAckReady \/ RxAckEnd \/ RxRadioReady
           \/ WakeUpRxDataTimeout \/ WakeUpRxFinishTimeout \/ WakeUpNodeStart
  BY <1>5, <1>9
  DEF RxFirstData, WakeUpRxRepeatedData, WakeUpRxBackoffTimer, RxAckReady, RxAckEnd,
      RxRadioReady, WakeUpRxDataTimeout, WakeUpRxFinishTimeout, WakeUpNodeStart, txVars
<1>10. CASE Listening
  BY <1>1, <1>2, <1>4, <1>7, <1>10
  DEF Listening, WakeUpAwaitNotReplenished, AwaitNotReplenished
<1>11. CASE Transmitting
  BY <1>3, <1>8, <1>11 DEF Transmitting
<1>12. CASE ReceivingData
  BY <1>9, <1>12 DEF ReceivingData
<1> QED
  BY <1>4, <1>6, <1>7, <1>9, <1>10, <1>11, <1>12 DEF WakeUpNext, WakeUpNodeStop, NodeStop

\* The packets are typed in every state WakeUpInv holds in.
LEMMA WakeUpInvTypesPackets == WakeUpInv => PacketsTyped
BY DEF WakeUpTypeOK, PacketsTyped, PacketOutcome

\* A packet accepted and not yet reported on is queued or current, once,
\* through every wake-up that fails and every change of radios.
THEOREM WakeUpPacketsInCustody == WakeUpSpec => []Custody
<1>1. WakeUpInit => Custody
  BY CustodyInit DEF WakeUpInit
<1>2. WakeUpInv /\ Custody /\ [WakeUpNext]_wuAllVars => Custody'
  BY WakeUpPacketStep, WakeUpInvTypesPackets, PacketStepKeepsCustody
<1> QED
  BY <1>1, <1>2, WakeUpInvariant, PTL DEF WakeUpSpec

\* The wake-up MAC makes the same promise to the network layer as the MAC it
\* inherits from: packets are served in order, and none is lost.
THEOREM WakeUpImplementsLinkPromise == WakeUpSpec => KeepsLinkPromise
<1>1. WakeUpInit => Link!Init
  BY PromiseInit DEF WakeUpInit
<1>2. WakeUpInv /\ Custody /\ [WakeUpNext]_wuAllVars => [Link!Next]_<<outcome, Line>>
  BY WakeUpPacketStep, WakeUpInvTypesPackets, PacketStepPromised
<1> QED
  BY <1>1, <1>2, WakeUpInvariant, WakeUpPacketsInCustody, PTL
  DEF WakeUpSpec, KeepsLinkPromise, Link!Spec
=============================================================================
