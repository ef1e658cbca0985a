---------------------------- MODULE ORWMacProofs ----------------------------
(***************************************************************************)
(* Invariance proofs about ORWMac, for every set of packets and            *)
(* neighbours, every queue capacity and both kinds of radio.               *)
(*                                                                         *)
(* None of the control invariants that TLC checks is inductive on its own: *)
(* that no handler throws depends on which timers are pending, that on the *)
(* phase, and that on where the radio is.  ControlInv is their conjunction *)
(* with three more facts, and is inductive.                                *)
(***************************************************************************)
EXTENDS ORWMac, TLAPS

\* Where the radio is in the phases of which BackoffMatchesPhase and
\* AwaitArmed say nothing.
RadioMatchesPhase ==
    /\ ~operating => radioMode = "OFF"
    /\ Sending("END") => radioMode = "TO_SLEEP"
    /\ Receiving("DATA_WAIT") => radioMode \in {"RECEIVER", "TO_RECEIVER"}
    /\ Receiving("FINISH") => radioMode = "RECEIVER"
    /\ In("RECEIVE") => rxState # "IDLE"

\* Only two timers are ever due now, and then the radio is not switching; and
\* a transmission is only started for a packet.
TimersDue ==
    /\ \A t \in Timer \ {"receiveTimeout", "transmitStartDelay"} : timer[t] # "now"
    /\ timer["receiveTimeout"] = "now" => Receiving("FINISH")
    /\ timer["transmitStartDelay"] = "now" => In("AWAIT_TRANSMIT") /\ radioMode = "RECEIVER"
    /\ IsScheduled(timer, "transmitStartDelay") => HasWork

\* A running node has a stored frame only while it receives.
StoredFrameMatchesPhase ==
    /\ currentRxFrame # NoFrame <=> rxOutcome = "pending"
    /\ operating /\ currentRxFrame # NoFrame => macState = "RECEIVE"

ControlInv ==
    /\ TypeOK
    /\ NoRuntimeError
    /\ TimersMatchPhase
    /\ BackoffMatchesPhase
    /\ AwaitArmed
    /\ DeferredDropScope
    /\ RetryUnacknowledged
    /\ RadioMatchesPhase
    /\ TimersDue
    /\ StoredFrameMatchesPhase

-----------------------------------------------------------------------------
(***************************************************************************)
(* What the services return                                                *)
(***************************************************************************)

\* A mode switch leaves the radio in one of its modes.
LEMMA RadioModeType ==
    ASSUME NEW mode \in RadioMode, NEW target \in {"SLEEP", "RECEIVER", "TRANSMITTER"}
    PROVE  SetRadioMode(mode, target) \in RadioMode
BY DEF RadioMode, Switching, SetRadioMode, SwitchingTo

\* Setting or cancelling a timer leaves every timer in one of its states.
LEMMA TimerType ==
    ASSUME NEW timers \in [Timer -> TimerState], NEW t \in Timer, NEW due \in {"now", "later"}
    PROVE  /\ Schedule(timers, t, due) \in [Timer -> TimerState]
           /\ Cancel(timers, t) \in [Timer -> TimerState]
BY DEF Schedule, Cancel, TimerState

-----------------------------------------------------------------------------
(***************************************************************************)
(* Init and the actions, one step per action and under it one per conjunct *)
(* that the action can disturb.  The vocabulary of the model is expanded   *)
(* throughout.                                                             *)
(***************************************************************************)
USE ORWMacAssumption, InstantSleepAssumption
    DEF ControlInv, In, Sending, Receiving, HasWork, Fires, Fired, IsScheduled, Schedule,
        Cancel, Timer, RequiredForwarders, MaxEqDC, macVars, radioVars, txVars, ackVars, storedVars

\* The state before the first start satisfies the invariant.
LEMMA ControlInit == Init => ControlInv
<1> SUFFICES ASSUME Init PROVE ControlInv
  OBVIOUS
<1>1. TypeOK
  <2>1. txQueue \in Seq(Packets)
    BY DEF Init, InitVariables
  <2>2. operating \in BOOLEAN /\ transmitting \in BOOLEAN /\ deferredDuplicateDrop \in BOOLEAN
    BY DEF Init, InitVariables
  <2> QED
    BY <2>1, <2>2 DEF Init, InitVariables, TypeOK, TimerState, RadioMode, BackoffState
<1>2. NoRuntimeError /\ TimersMatchPhase /\ BackoffMatchesPhase /\ AwaitArmed
  BY DEF Init, InitVariables, NoRuntimeError, TimersMatchPhase, BackoffMatchesPhase, AwaitArmed
<1>3. DeferredDropScope /\ RetryUnacknowledged
  BY DEF Init, InitVariables, DeferredDropScope, RetryUnacknowledged
<1>4. RadioMatchesPhase /\ TimersDue /\ StoredFrameMatchesPhase
  BY DEF Init, InitVariables, RadioMatchesPhase, TimersDue, StoredFrameMatchesPhase
<1> QED
  BY <1>1, <1>2, <1>3, <1>4

\* The services' own definitions, too, until the end of the module.
USE DEF SetRadioMode, SwitchingTo, Switching, RadioMode, TimerState, BackoffState

\* Taking the next packet of a queue that has one keeps the types.
LEMMA SetupTransmissionType ==
    ASSUME NEW queue \in Seq(Packets), queue # <<>>,
           NEW outcomes \in [Packets -> {"new", "held", "sent", "noRoute", "overflow", "down"}],
           SetupTransmission(queue, outcomes)
    PROVE  /\ txQueue' \in Seq(Packets)
           /\ currentTxFrame' \in Packets \cup {NoFrame}
           /\ txInProgressForwarders' \in 0..RequiredForwarders
           /\ outcome' \in [Packets -> {"new", "held", "sent", "noRoute", "overflow", "down"}]
<1>1. Head(queue) \in Packets /\ Tail(queue) \in Seq(Packets)
  OBVIOUS
<1>2. outcome' \in [Packets -> {"new", "held", "sent", "noRoute", "overflow", "down"}]
  BY DEF SetupTransmission
<1> QED
  BY <1>1, <1>2 DEF SetupTransmission, RequiredForwarders

\* A packet from the network layer preserves the invariant.
LEMMA UpperPacketStep ==
    ControlInv /\ (\/ (\E p \in Packets : UpperPacketQueued(p))
                   \/ (\E p \in Packets : UpperPacketIdle(p)))
        => ControlInv'
<1> SUFFICES ASSUME ControlInv,
                    \/ (\E p \in Packets : UpperPacketQueued(p))
                    \/ (\E p \in Packets : UpperPacketIdle(p))
             PROVE ControlInv'
  OBVIOUS
<1>1. ASSUME NEW p \in Packets, UpperPacketQueued(p) PROVE ControlInv'
  <2>1. TypeOK'
    BY <1>1 DEF TypeOK, UpperPacketQueued, EnqueueDropHead, OutcomeAfterEnqueue
  <2>2. NoRuntimeError'
    BY <1>1 DEF NoRuntimeError, UpperPacketQueued, EnqueueDropHead,
       OutcomeAfterEnqueue
  <2>3. TimersDue'
    BY <1>1 DEF TimersDue, UpperPacketQueued, EnqueueDropHead,
       OutcomeAfterEnqueue
  <2>4. /\ TimersMatchPhase'
        /\ BackoffMatchesPhase'
        /\ AwaitArmed'
        /\ DeferredDropScope'
        /\ RetryUnacknowledged'
        /\ RadioMatchesPhase'
        /\ StoredFrameMatchesPhase'
    BY <1>1 DEF TimersMatchPhase, BackoffMatchesPhase, AwaitArmed,
       DeferredDropScope, RetryUnacknowledged, RadioMatchesPhase,
       StoredFrameMatchesPhase, UpperPacketQueued
  <2> QED
    BY <2>1, <2>2, <2>3, <2>4 DEF ControlInv
<1>2. ASSUME NEW p \in Packets, UpperPacketIdle(p) PROVE ControlInv'
  <2>0. txQueue = <<>> /\ EnqueueDropHead(txQueue, p) = <<p>> /\ currentTxFrame' = p
    <3>1. txQueue = <<>> /\ QueueCapacity > 0
      BY <1>2, ORWMacAssumption DEF NoRuntimeError, UpperPacketIdle, HasWork
    <3>2. EnqueueDropHead(txQueue, p) = <<p>>
      BY <3>1 DEF EnqueueDropHead
    <3> QED
      BY <1>2, <3>1, <3>2 DEF UpperPacketIdle, SetupTransmission
  <2>1. TypeOK'
    <3>1. OutcomeAfterEnqueue(p)
             \in [Packets -> {"new", "held", "sent", "noRoute", "overflow", "down"}]
      BY <2>0, ORWMacAssumption DEF TypeOK, OutcomeAfterEnqueue
    <3>2. /\ txQueue' \in Seq(Packets)
          /\ currentTxFrame' \in Packets \cup {NoFrame}
          /\ txInProgressForwarders' \in 0..RequiredForwarders
          /\ outcome' \in [Packets -> {"new", "held", "sent", "noRoute", "overflow", "down"}]
      <4>1. SetupTransmission(<<p>>, OutcomeAfterEnqueue(p))
        BY <1>2, <2>0 DEF UpperPacketIdle
      <4>2. <<p>> \in Seq(Packets) /\ <<p>> # <<>>
        BY <1>2
      <4> QED
        BY <3>1, <4>1, <4>2, SetupTransmissionType
    <3>3. timer' \in [Timer -> TimerState]
      BY <1>2, TimerType DEF TypeOK, UpperPacketIdle, StateTxEnter, StateTxEnterDataWait,
         StateListeningEnterAlreadyListening, StartTxOrBackoff, StartTx, DelayCarrierSense,
         Outcome, StartCold
    <3> QED
      BY <1>2, <3>2, <3>3 DEF TypeOK, UpperPacketIdle, StateListeningEnterAlreadyListening,
         StateTxEnter, StateTxEnterDataWait, TriesWithThis, StartTxOrBackoff, StartTx,
         DelayCarrierSense, Outcome, StartCold
  <2>2. NoRuntimeError'
    <3>1. currentTxFrame' # NoFrame
      BY <1>2, <2>0, ORWMacAssumption
    <3> QED
      BY <1>2, <3>1 DEF NoRuntimeError, TypeOK, TimersMatchPhase, BackoffMatchesPhase,
         UpperPacketIdle, StateListeningEnterAlreadyListening, StateTxEnter,
         StateTxEnterDataWait, StartTxOrBackoff, StartTx, DelayCarrierSense, Outcome,
         StartCold, HasWork
  <2>3. TimersMatchPhase'
    BY <1>2 DEF TimersMatchPhase, TypeOK, BackoffMatchesPhase, AwaitArmed,
       UpperPacketIdle, StateListeningEnterAlreadyListening, StateTxEnter,
       StateTxEnterDataWait, StartTxOrBackoff, StartTx, DelayCarrierSense,
       Outcome
  <2>4. BackoffMatchesPhase'
    BY <1>2 DEF BackoffMatchesPhase, AwaitArmed, UpperPacketIdle,
       StateListeningEnterAlreadyListening, StateTxEnter, StateTxEnterDataWait,
       StartTxOrBackoff, StartTx, DelayCarrierSense, Outcome
  <2>5. AwaitArmed'
    BY <1>2 DEF AwaitArmed, TypeOK, UpperPacketIdle,
       StateListeningEnterAlreadyListening, StateTxEnter, StateTxEnterDataWait,
       StartTxOrBackoff
  <2>6. DeferredDropScope'
    BY <1>2 DEF DeferredDropScope, UpperPacketIdle
  <2>7. RetryUnacknowledged'
    BY <1>2 DEF RetryUnacknowledged, UpperPacketIdle, SetupTransmission
  <2>8. RadioMatchesPhase'
    BY <1>2 DEF RadioMatchesPhase, UpperPacketIdle,
       StateListeningEnterAlreadyListening, StateTxEnter, StateTxEnterDataWait,
       StartTxOrBackoff
  <2>9. TimersDue'
    BY <1>2 DEF TimersDue, TypeOK, NoRuntimeError, AwaitArmed, UpperPacketIdle,
       StateListeningEnterAlreadyListening, StateTxEnter, StateTxEnterDataWait,
       StartTxOrBackoff, StartTx, DelayCarrierSense, Outcome
  <2>10. StoredFrameMatchesPhase'
    BY <1>2 DEF StoredFrameMatchesPhase, UpperPacketIdle
  <2> QED
    BY <2>1, <2>2, <2>3, <2>4, <2>5, <2>6, <2>7, <2>8, <2>9, <2>10
    DEF ControlInv
<1> QED
  BY <1>1, <1>2

\* A step of AWAIT_TRANSMIT preserves the invariant.
LEMMA AwaitStep ==
    ControlInv /\ (\/ AwaitRadioReady
                   \/ AwaitTransmitStart
                   \/ AwaitReplenished)
        => ControlInv'
<1> SUFFICES ASSUME ControlInv,
                    \/ AwaitRadioReady
                    \/ AwaitTransmitStart
                     \/ AwaitReplenished
             PROVE ControlInv'
  OBVIOUS
<1>1. ASSUME AwaitRadioReady PROVE ControlInv'
  <2>1. TypeOK'
    <3>1. /\ txQueue' \in Seq(Packets)
          /\ currentTxFrame' \in Packets \cup {NoFrame}
          /\ txInProgressForwarders' \in 0..RequiredForwarders
          /\ outcome' \in [Packets -> {"new", "held", "sent", "noRoute", "overflow", "down"}]
      <4>1. CASE txQueue = <<>>
        BY <1>1, <4>1 DEF TypeOK, AwaitRadioReady
      <4>2. CASE txQueue # <<>>
        <5>1. txQueue \in Seq(Packets)
          BY DEF TypeOK
        <5>2. outcome \in [Packets -> {"new", "held", "sent", "noRoute", "overflow", "down"}]
          BY DEF TypeOK
        <5>3. SetupTransmission(txQueue, outcome)
          BY <1>1, <4>2 DEF AwaitRadioReady
        <5> QED
          BY <4>2, <5>1, <5>2, <5>3, SetupTransmissionType
      <4> QED
        BY <4>1, <4>2
    <3>2. timer' \in [Timer -> TimerState]
      BY <1>1, TimerType
      DEF TypeOK, AwaitRadioReady, StateTxEnter, StateTxEnterDataWait, StartTxOrBackoff,
          StartTx, DelayCarrierSense, Outcome
    <3> QED
      BY <1>1, <3>1, <3>2
      DEF TypeOK, AwaitRadioReady, StateTxEnter, StateTxEnterDataWait, TriesWithThis,
          StartTxOrBackoff, StartTx, DelayCarrierSense, Outcome
  <2>2. NoRuntimeError'
    BY <1>1 DEF NoRuntimeError, TypeOK, TimersMatchPhase, BackoffMatchesPhase,
       AwaitRadioReady, SetupTransmission, StateTxEnter, StateTxEnterDataWait,
       StartTxOrBackoff, StartTx, DelayCarrierSense, Outcome
  <2>3. TimersMatchPhase'
    BY <1>1 DEF TimersMatchPhase, TypeOK, BackoffMatchesPhase, AwaitRadioReady,
       StateTxEnter, StateTxEnterDataWait, StartTxOrBackoff, StartTx,
       DelayCarrierSense, Outcome
  <2>4. BackoffMatchesPhase'
    BY <1>1 DEF BackoffMatchesPhase, AwaitRadioReady, StateTxEnter,
       StateTxEnterDataWait, StartTxOrBackoff, StartTx, DelayCarrierSense,
       Outcome
  <2>5. AwaitArmed'
    BY <1>1 DEF AwaitArmed, AwaitRadioReady, StateTxEnter, StateTxEnterDataWait
  <2>6. DeferredDropScope'
    BY <1>1 DEF DeferredDropScope, AwaitRadioReady
  <2>7. RetryUnacknowledged'
    BY <1>1 DEF RetryUnacknowledged, AwaitRadioReady, SetupTransmission
  <2>8. RadioMatchesPhase'
    BY <1>1 DEF RadioMatchesPhase, AwaitRadioReady, StateTxEnter,
       StateTxEnterDataWait
  <2>9. TimersDue'
    BY <1>1 DEF TimersDue, TypeOK, AwaitRadioReady, StateTxEnter,
       StateTxEnterDataWait, StartTxOrBackoff, StartTx, DelayCarrierSense,
       Outcome
  <2>10. StoredFrameMatchesPhase'
    BY <1>1 DEF StoredFrameMatchesPhase, AwaitRadioReady
  <2> QED
    BY <2>1, <2>2, <2>3, <2>4, <2>5, <2>6, <2>7, <2>8, <2>9, <2>10
    DEF ControlInv
<1>2. ASSUME AwaitTransmitStart PROVE ControlInv'
  <2>1. TypeOK'
    <3>1. /\ txQueue' \in Seq(Packets)
          /\ currentTxFrame' \in Packets \cup {NoFrame}
          /\ txInProgressForwarders' \in 0..RequiredForwarders
          /\ outcome' \in [Packets -> {"new", "held", "sent", "noRoute", "overflow", "down"}]
      <4>1. CASE currentTxFrame # NoFrame
        BY <1>2, <4>1 DEF TypeOK, AwaitTransmitStart
      <4>2. CASE currentTxFrame = NoFrame
        <5>1. txQueue \in Seq(Packets) /\ txQueue # <<>>
          BY <1>2, <4>2 DEF TypeOK, NoRuntimeError, HasWork, AwaitTransmitStart
        <5>2. outcome \in [Packets -> {"new", "held", "sent", "noRoute", "overflow", "down"}]
          BY DEF TypeOK
        <5>3. SetupTransmission(txQueue, outcome)
          BY <1>2, <4>2 DEF AwaitTransmitStart
        <5> QED
          BY <5>1, <5>2, <5>3, SetupTransmissionType
      <4> QED
        BY <4>1, <4>2
    <3>2. radioMode = "RECEIVER"
      BY <1>2 DEF AwaitTransmitStart, AwaitArmed, TimersDue
    <3>3. timer' \in [Timer -> TimerState]
      BY <1>2, <3>2, TimerType
      DEF TypeOK, AwaitTransmitStart, StateTxEnter, StateTxEnterDataWait, StartTxOrBackoff,
          StartTx, DelayCarrierSense, Outcome
    <3> QED
      BY <1>2, <3>1, <3>2, <3>3
      DEF TypeOK, AwaitTransmitStart, StateTxEnter, StateTxEnterDataWait, TriesWithThis,
          StartTxOrBackoff, StartTx, DelayCarrierSense, Outcome
  <2>2. NoRuntimeError'
    BY <1>2 DEF NoRuntimeError, TypeOK, TimersMatchPhase, BackoffMatchesPhase,
       AwaitArmed, TimersDue, AwaitTransmitStart, SetupTransmission,
       StateTxEnter, StateTxEnterDataWait, StartTxOrBackoff, StartTx,
       DelayCarrierSense, Outcome
  <2>3. TimersMatchPhase'
    BY <1>2 DEF TimersMatchPhase, TypeOK, BackoffMatchesPhase, AwaitArmed,
       TimersDue, AwaitTransmitStart, StateTxEnter, StateTxEnterDataWait,
       StartTxOrBackoff, StartTx, DelayCarrierSense, Outcome
  <2>4. BackoffMatchesPhase'
    BY <1>2 DEF BackoffMatchesPhase, AwaitArmed, TimersDue, AwaitTransmitStart,
       StateTxEnter, StateTxEnterDataWait, StartTxOrBackoff, StartTx,
       DelayCarrierSense, Outcome
  <2>5. AwaitArmed'
    BY <1>2 DEF AwaitArmed, AwaitTransmitStart, StateTxEnter,
       StateTxEnterDataWait
  <2>6. DeferredDropScope'
    BY <1>2 DEF DeferredDropScope, AwaitTransmitStart
  <2>7. RetryUnacknowledged'
    BY <1>2 DEF RetryUnacknowledged, AwaitTransmitStart, SetupTransmission
  <2>8. RadioMatchesPhase'
    BY <1>2 DEF RadioMatchesPhase, AwaitTransmitStart, StateTxEnter,
       StateTxEnterDataWait
  <2>9. TimersDue'
    BY <1>2 DEF TimersDue, TypeOK, AwaitTransmitStart, StateTxEnter,
       StateTxEnterDataWait, StartTxOrBackoff, StartTx, DelayCarrierSense,
       Outcome, StartCold
  <2>10. StoredFrameMatchesPhase'
    BY <1>2 DEF StoredFrameMatchesPhase, AwaitTransmitStart
  <2> QED
    BY <2>1, <2>2, <2>3, <2>4, <2>5, <2>6, <2>7, <2>8, <2>9, <2>10
    DEF ControlInv
<1>3. ASSUME AwaitReplenished PROVE ControlInv'
  <2>1. TypeOK'
    BY <1>3 DEF TypeOK, AwaitReplenished
  <2>2. NoRuntimeError'
    BY <1>3 DEF NoRuntimeError, TypeOK, AwaitReplenished
  <2>3. TimersMatchPhase'
    BY <1>3 DEF TimersMatchPhase, TypeOK, AwaitReplenished
  <2>4. AwaitArmed'
    BY <1>3 DEF AwaitArmed, TypeOK, AwaitReplenished
  <2>5. TimersDue'
    BY <1>3 DEF TimersDue, TypeOK, NoRuntimeError, AwaitArmed, AwaitReplenished
  <2>6. /\ BackoffMatchesPhase'
        /\ DeferredDropScope'
        /\ RetryUnacknowledged'
        /\ RadioMatchesPhase'
        /\ StoredFrameMatchesPhase'
    BY <1>3 DEF BackoffMatchesPhase, DeferredDropScope, RetryUnacknowledged,
       RadioMatchesPhase, StoredFrameMatchesPhase, AwaitReplenished
  <2> QED
    BY <2>1, <2>2, <2>3, <2>4, <2>5, <2>6 DEF ControlInv
<1> QED
  BY <1>1, <1>2, <1>3

\* A step of a transmission up to its acknowledgment round preserves the invariant.
LEMMA TransmitStep ==
    ControlInv /\ (\/ TxBackoffTimer
                   \/ TxReady
                   \/ TxEndAwaitAck
                   \/ (\E fromDestination \in BOOLEAN : TxAckReceived(fromDestination)))
        => ControlInv'
<1> SUFFICES ASSUME ControlInv,
                    \/ TxBackoffTimer
                    \/ TxReady
                    \/ TxEndAwaitAck
                     \/ (\E fromDestination \in BOOLEAN : TxAckReceived(fromDestination))
             PROVE ControlInv'
  OBVIOUS
<1>1. ASSUME TxBackoffTimer PROVE ControlInv'
  <2>1. TypeOK'
    BY <1>1 DEF TypeOK, TxBackoffTimer, StartTxOrBackoff, DelayCarrierSense
  <2>2. NoRuntimeError'
    BY <1>1 DEF NoRuntimeError, TypeOK, TxBackoffTimer, StartTxOrBackoff,
       DelayCarrierSense
  <2>3. TimersMatchPhase'
    BY <1>1 DEF TimersMatchPhase, TypeOK, TxBackoffTimer, StartTxOrBackoff,
       DelayCarrierSense
  <2>4. BackoffMatchesPhase'
    BY <1>1 DEF BackoffMatchesPhase, TxBackoffTimer, StartTxOrBackoff, StartTx,
       DelayCarrierSense, Outcome
  <2>5. AwaitArmed'
    BY <1>1 DEF AwaitArmed, TxBackoffTimer
  <2>6. RadioMatchesPhase'
    BY <1>1 DEF RadioMatchesPhase, TxBackoffTimer
  <2>7. TimersDue'
    BY <1>1 DEF TimersDue, TypeOK, TxBackoffTimer, StartTxOrBackoff,
       DelayCarrierSense
  <2>8. /\ DeferredDropScope'
        /\ RetryUnacknowledged'
        /\ StoredFrameMatchesPhase'
    BY <1>1 DEF DeferredDropScope, RetryUnacknowledged,
       StoredFrameMatchesPhase, TxBackoffTimer
  <2> QED
    BY <2>1, <2>2, <2>3, <2>4, <2>5, <2>6, <2>7, <2>8 DEF ControlInv
<1>2. ASSUME TxReady PROVE ControlInv'
  <2>1. TypeOK'
    BY <1>2 DEF TypeOK, TxReady
  <2>2. NoRuntimeError'
    BY <1>2 DEF NoRuntimeError, TxReady
  <2>3. TimersMatchPhase'
    BY <1>2 DEF TimersMatchPhase, TypeOK, TxReady
  <2>4. BackoffMatchesPhase'
    BY <1>2 DEF BackoffMatchesPhase, TxReady
  <2>5. AwaitArmed'
    BY <1>2 DEF AwaitArmed, TxReady
  <2>6. RadioMatchesPhase'
    BY <1>2 DEF RadioMatchesPhase, TxReady
  <2>7. TimersDue'
    BY <1>2 DEF TimersDue, TxReady
  <2>8. /\ DeferredDropScope'
        /\ RetryUnacknowledged'
        /\ StoredFrameMatchesPhase'
    BY <1>2 DEF DeferredDropScope, RetryUnacknowledged,
       StoredFrameMatchesPhase, TxReady
  <2> QED
    BY <2>1, <2>2, <2>3, <2>4, <2>5, <2>6, <2>7, <2>8 DEF ControlInv
<1>3. ASSUME TxEndAwaitAck PROVE ControlInv'
  <2>1. TypeOK'
    <3>1. timer' \in [Timer -> TimerState]
      BY <1>3, TimerType DEF TypeOK, TxEndAwaitAck
    <3>2. radioMode' \in RadioMode
      BY <1>3, RadioModeType DEF TypeOK, TxEndAwaitAck
    <3>3. transmitting' \in BOOLEAN
      BY <1>3 DEF TxEndAwaitAck
    <3>4. acknowledgedForwarders' \in 0..(RequiredForwarders + 1)
      BY <1>3 DEF TxEndAwaitAck
    <3> QED
      BY <1>3, <3>1, <3>2, <3>3, <3>4 DEF TypeOK, TxEndAwaitAck
  <2>2. NoRuntimeError'
    BY <1>3 DEF NoRuntimeError, TimersMatchPhase, BackoffMatchesPhase,
       TxEndAwaitAck
  <2>3. TimersMatchPhase'
    BY <1>3 DEF TimersMatchPhase, TypeOK, TxEndAwaitAck
  <2>4. BackoffMatchesPhase'
    BY <1>3 DEF BackoffMatchesPhase, TxEndAwaitAck
  <2>5. AwaitArmed'
    BY <1>3 DEF AwaitArmed, BackoffMatchesPhase, TxEndAwaitAck
  <2>6. RadioMatchesPhase'
    BY <1>3 DEF RadioMatchesPhase, TxEndAwaitAck
  <2>7. TimersDue'
    BY <1>3 DEF TimersDue, TxEndAwaitAck
  <2>8. /\ DeferredDropScope'
        /\ RetryUnacknowledged'
        /\ StoredFrameMatchesPhase'
    BY <1>3 DEF DeferredDropScope, RetryUnacknowledged,
       StoredFrameMatchesPhase, TxEndAwaitAck
  <2> QED
    BY <2>1, <2>2, <2>3, <2>4, <2>5, <2>6, <2>7, <2>8 DEF ControlInv
<1>4. ASSUME NEW fromDestination \in BOOLEAN, TxAckReceived(fromDestination) PROVE ControlInv'
  <2>1. TypeOK'
    BY <1>4 DEF TypeOK, TxAckReceived
  <2>2. /\ NoRuntimeError'
        /\ TimersMatchPhase'
        /\ BackoffMatchesPhase'
        /\ AwaitArmed'
        /\ DeferredDropScope'
        /\ RetryUnacknowledged'
        /\ RadioMatchesPhase'
        /\ TimersDue'
        /\ StoredFrameMatchesPhase'
    BY <1>4 DEF NoRuntimeError, TimersMatchPhase, BackoffMatchesPhase,
       AwaitArmed, DeferredDropScope, RetryUnacknowledged, RadioMatchesPhase,
       TimersDue, StoredFrameMatchesPhase, TxAckReceived
  <2> QED
    BY <2>1, <2>2 DEF ControlInv
<1> QED
  BY <1>1, <1>2, <1>3, <1>4

\* A step that ends an acknowledgment round or a transmission preserves the invariant.
LEMMA AckTimeoutStep ==
    ControlInv /\ (\/ TxAckTimeoutBusy
                   \/ TxAckTimeoutContention
                   \/ TxAckTimeoutComplete
                   \/ TxEndAsleep)
        => ControlInv'
<1> SUFFICES ASSUME ControlInv,
                    \/ TxAckTimeoutBusy
                    \/ TxAckTimeoutContention
                    \/ TxAckTimeoutComplete
                     \/ TxEndAsleep
             PROVE ControlInv'
  OBVIOUS
<1>1. ASSUME TxAckTimeoutBusy PROVE ControlInv'
  <2>1. TypeOK'
    BY <1>1 DEF TypeOK, TxAckTimeoutBusy
  <2>2. NoRuntimeError'
    BY <1>1 DEF NoRuntimeError, TypeOK, TxAckTimeoutBusy
  <2>3. TimersMatchPhase'
    BY <1>1 DEF TimersMatchPhase, TypeOK, TxAckTimeoutBusy
  <2>4. AwaitArmed'
    BY <1>1 DEF AwaitArmed, TxAckTimeoutBusy, AckTimeout
  <2>5. TimersDue'
    BY <1>1 DEF TimersDue, TypeOK, TxAckTimeoutBusy
  <2>6. /\ BackoffMatchesPhase'
        /\ DeferredDropScope'
        /\ RetryUnacknowledged'
        /\ RadioMatchesPhase'
        /\ StoredFrameMatchesPhase'
    BY <1>1 DEF BackoffMatchesPhase, DeferredDropScope, RetryUnacknowledged,
       RadioMatchesPhase, StoredFrameMatchesPhase, TxAckTimeoutBusy
  <2> QED
    BY <2>1, <2>2, <2>3, <2>4, <2>5, <2>6 DEF ControlInv
<1>2. ASSUME TxAckTimeoutContention PROVE ControlInv'
  <2>1. TypeOK'
    BY <1>2 DEF TypeOK, TxAckTimeoutContention, StateTxEnterDataWait,
       StartTxOrBackoff, StartTx, DelayCarrierSense, Outcome
  <2>2. NoRuntimeError'
    BY <1>2 DEF NoRuntimeError, TypeOK, TimersMatchPhase, BackoffMatchesPhase,
       TxAckTimeoutContention, AckTimeout, StateTxEnterDataWait,
       StartTxOrBackoff, StartTx, DelayCarrierSense, Outcome
  <2>3. TimersMatchPhase'
    BY <1>2 DEF TimersMatchPhase, TypeOK, BackoffMatchesPhase,
       TxAckTimeoutContention, AckTimeout, StateTxEnterDataWait,
       StartTxOrBackoff, StartTx, DelayCarrierSense, Outcome
  <2>4. BackoffMatchesPhase'
    BY <1>2 DEF BackoffMatchesPhase, TxAckTimeoutContention, AckTimeout,
       StateTxEnterDataWait, StartTxOrBackoff, StartTx, DelayCarrierSense,
       Outcome
  <2>5. AwaitArmed'
    BY <1>2 DEF AwaitArmed, TxAckTimeoutContention, AckTimeout,
       StateTxEnterDataWait
  <2>6. RadioMatchesPhase'
    BY <1>2 DEF RadioMatchesPhase, TxAckTimeoutContention, AckTimeout,
       StateTxEnterDataWait
  <2>7. TimersDue'
    BY <1>2 DEF TimersDue, TypeOK, TxAckTimeoutContention, AckTimeout,
       StateTxEnterDataWait, StartTxOrBackoff, StartTx, DelayCarrierSense,
       Outcome
  <2>8. /\ DeferredDropScope'
        /\ RetryUnacknowledged'
        /\ StoredFrameMatchesPhase'
    BY <1>2 DEF DeferredDropScope, RetryUnacknowledged,
       StoredFrameMatchesPhase, TxAckTimeoutContention
  <2> QED
    BY <2>1, <2>2, <2>3, <2>4, <2>5, <2>6, <2>7, <2>8 DEF ControlInv
<1>3. ASSUME TxAckTimeoutComplete PROVE ControlInv'
  <2>1. TypeOK'
    BY <1>3 DEF TypeOK, NoRuntimeError, RetryUnacknowledged,
       TxAckTimeoutComplete, AckTimeout, CompletePacketTransmission,
       StateTxEnterEnd, StateListeningEnter,
       StateListeningEnterAlreadyListening
  <2>2. NoRuntimeError'
    BY <1>3 DEF NoRuntimeError, TypeOK, TimersMatchPhase, AwaitArmed,
       TimersDue, TxAckTimeoutComplete, AckTimeout, CompletePacketTransmission,
       StateTxEnterEnd, StateListeningEnter,
       StateListeningEnterAlreadyListening
  <2>3. TimersMatchPhase'
    BY <1>3 DEF TimersMatchPhase, TypeOK, TxAckTimeoutComplete, AckTimeout,
       CompletePacketTransmission, StateTxEnterEnd, StateListeningEnter,
       StateListeningEnterAlreadyListening
  <2>4. BackoffMatchesPhase'
    BY <1>3 DEF BackoffMatchesPhase, TxAckTimeoutComplete, AckTimeout,
       CompletePacketTransmission, StateTxEnterEnd, StateListeningEnter,
       StateListeningEnterAlreadyListening
  <2>5. AwaitArmed'
    BY <1>3 DEF AwaitArmed, TxAckTimeoutComplete, AckTimeout,
       CompletePacketTransmission, StateTxEnterEnd, StateListeningEnter
  <2>6. DeferredDropScope'
    BY <1>3 DEF DeferredDropScope, TxAckTimeoutComplete, AckTimeout
  <2>7. RetryUnacknowledged'
    BY <1>3 DEF RetryUnacknowledged, TypeOK, TxAckTimeoutComplete,
       CompletePacketTransmission
  <2>8. RadioMatchesPhase'
    BY <1>3 DEF RadioMatchesPhase, AwaitArmed, TimersDue, TxAckTimeoutComplete,
       AckTimeout, CompletePacketTransmission, StateTxEnterEnd,
       StateListeningEnter, StateListeningEnterAlreadyListening
  <2>9. TimersDue'
    BY <1>3 DEF TimersDue, TypeOK, TimersMatchPhase, TxAckTimeoutComplete,
       AckTimeout, CompletePacketTransmission, StateTxEnterEnd,
       StateListeningEnter, StateListeningEnterAlreadyListening
  <2>10. StoredFrameMatchesPhase'
    BY <1>3 DEF StoredFrameMatchesPhase, TxAckTimeoutComplete, AckTimeout
  <2> QED
    BY <2>1, <2>2, <2>3, <2>4, <2>5, <2>6, <2>7, <2>8, <2>9, <2>10
    DEF ControlInv
<1>4. ASSUME TxEndAsleep PROVE ControlInv'
  <2>1. TypeOK'
    BY <1>4 DEF TypeOK, TxEndAsleep, StateListeningEnter,
       StateListeningEnterAlreadyListening
  <2>2. NoRuntimeError'
    BY <1>4 DEF NoRuntimeError, TypeOK, TimersMatchPhase, TxEndAsleep,
       StateListeningEnter, StateListeningEnterAlreadyListening
  <2>3. TimersMatchPhase'
    BY <1>4 DEF TimersMatchPhase, TypeOK, TimersDue, TxEndAsleep,
       StateListeningEnter, StateListeningEnterAlreadyListening
  <2>4. BackoffMatchesPhase'
    BY <1>4 DEF BackoffMatchesPhase, TxEndAsleep, StateListeningEnter,
       StateListeningEnterAlreadyListening
  <2>5. AwaitArmed'
    BY <1>4 DEF AwaitArmed, TxEndAsleep, StateListeningEnter
  <2>6. DeferredDropScope'
    BY <1>4 DEF DeferredDropScope, TxEndAsleep
  <2>7. RadioMatchesPhase'
    BY <1>4 DEF RadioMatchesPhase, TxEndAsleep, StateListeningEnter,
       StateListeningEnterAlreadyListening
  <2>8. TimersDue'
    BY <1>4 DEF TimersDue, TypeOK, TxEndAsleep, StateListeningEnter,
       StateListeningEnterAlreadyListening
  <2>9. StoredFrameMatchesPhase'
    BY <1>4 DEF StoredFrameMatchesPhase, TxEndAsleep
  <2>10. RetryUnacknowledged'
    BY <1>4 DEF RetryUnacknowledged, TxEndAsleep
  <2> QED
    BY <2>1, <2>2, <2>3, <2>4, <2>5, <2>6, <2>7, <2>8, <2>9, <2>10
    DEF ControlInv
<1> QED
  BY <1>1, <1>2, <1>3, <1>4

\* A data frame heard preserves the invariant.
LEMMA ReceptionStep ==
    ControlInv /\ (\/ (\E frame \in DataFrame \cup {NoFrame} : IdleReceive(frame))
                   \/ (\E frame \in DataFrame \cup {NoFrame} : AwaitReceive(frame))
                   \/ (\E frame \in DataFrame : RxFirstData(frame))
                   \/ (\E frame \in DataFrame : RxRepeatedData(frame))
                   \/ (\E frame \in DataFrame : RxFinishRepeatedData(frame)))
        => ControlInv'
<1> SUFFICES ASSUME ControlInv,
                    \/ (\E frame \in DataFrame \cup {NoFrame} : IdleReceive(frame))
                    \/ (\E frame \in DataFrame \cup {NoFrame} : AwaitReceive(frame))
                    \/ (\E frame \in DataFrame : RxFirstData(frame))
                    \/ (\E frame \in DataFrame : RxRepeatedData(frame))
                    \/ (\E frame \in DataFrame : RxFinishRepeatedData(frame))
             PROVE ControlInv'
  OBVIOUS
<1>1. ASSUME NEW frame \in DataFrame \cup {NoFrame}, IdleReceive(frame) PROVE ControlInv'
  <2>1. TypeOK'
    BY <1>1 DEF TypeOK, IdleReceive, StartReception, ProcessFirstData
  <2>2. NoRuntimeError'
    BY <1>1 DEF NoRuntimeError, TypeOK, TimersMatchPhase, IdleReceive,
       StartReception, ProcessFirstData
  <2>3. TimersMatchPhase'
    BY <1>1 DEF TimersMatchPhase, TypeOK, IdleReceive, StartReception,
       ProcessFirstData
  <2>4. BackoffMatchesPhase'
    BY <1>1 DEF BackoffMatchesPhase, IdleReceive, StartReception,
       ProcessFirstData, StateReceiveEnterFinishDropOther,
       StateReceiveEnterFinish, StateReceiveEnterAck, DelayCarrierSense,
       Outcome, Hears
  <2>5. AwaitArmed'
    BY <1>1 DEF AwaitArmed, IdleReceive, StartReception
  <2>6. DeferredDropScope'
    <3>1. ~deferredDuplicateDrop
      BY <1>1 DEF DeferredDropScope, IdleReceive
    <3>2. ~deferredDuplicateDrop'
      BY <1>1, <3>1
      DEF IdleReceive, StartReception, ProcessFirstData, StateReceiveEnterFinishDropOther,
          StateReceiveEnterAck, StateReceiveEnterFinish
    <3> QED
      BY <3>2 DEF DeferredDropScope
  <2>7. RadioMatchesPhase'
    BY <1>1 DEF RadioMatchesPhase, IdleReceive, StartReception,
       ProcessFirstData, StateReceiveEnterFinishDropOther,
       StateReceiveEnterFinish, StateReceiveEnterAck, Hears
  <2>8. TimersDue'
    BY <1>1 DEF TimersDue, TypeOK, IdleReceive, StartReception,
       ProcessFirstData
  <2>9. StoredFrameMatchesPhase'
    BY <1>1 DEF StoredFrameMatchesPhase, IdleReceive, StartReception,
       ProcessFirstData, StateReceiveEnterFinishDropOther
  <2>10. RetryUnacknowledged'
    BY <1>1 DEF RetryUnacknowledged, IdleReceive, StartReception
  <2> QED
    BY <2>1, <2>2, <2>3, <2>4, <2>5, <2>6, <2>7, <2>8, <2>9, <2>10
    DEF ControlInv
<1>2. ASSUME NEW frame \in DataFrame \cup {NoFrame}, AwaitReceive(frame) PROVE ControlInv'
  <2>1. TypeOK'
    BY <1>2 DEF TypeOK, NoRuntimeError, AwaitReceive, StartReception,
       ProcessFirstData
  <2>2. NoRuntimeError'
    BY <1>2 DEF NoRuntimeError, TypeOK, TimersMatchPhase, TimersDue,
       AwaitReceive, StartReception, ProcessFirstData
  <2>3. TimersMatchPhase'
    BY <1>2 DEF TimersMatchPhase, TypeOK, AwaitReceive, StartReception,
       ProcessFirstData
  <2>4. BackoffMatchesPhase'
    BY <1>2 DEF BackoffMatchesPhase, AwaitReceive, StartReception,
       ProcessFirstData, StateReceiveEnterFinishDropOther,
       StateReceiveEnterFinish, StateReceiveEnterAck, DelayCarrierSense,
       Outcome, Hears
  <2>5. AwaitArmed'
    BY <1>2 DEF AwaitArmed, AwaitReceive, StartReception
  <2>6. DeferredDropScope'
    <3>1. ~deferredDuplicateDrop
      BY <1>2 DEF DeferredDropScope, AwaitReceive
    <3>2. ~deferredDuplicateDrop'
      BY <1>2, <3>1
      DEF AwaitReceive, StartReception, ProcessFirstData, StateReceiveEnterFinishDropOther,
          StateReceiveEnterAck, StateReceiveEnterFinish
    <3> QED
      BY <3>2 DEF DeferredDropScope
  <2>7. RadioMatchesPhase'
    BY <1>2 DEF RadioMatchesPhase, AwaitReceive, StartReception,
       ProcessFirstData, StateReceiveEnterFinishDropOther,
       StateReceiveEnterFinish, StateReceiveEnterAck, Hears
  <2>8. TimersDue'
    BY <1>2 DEF TimersDue, TypeOK, AwaitReceive, StartReception,
       ProcessFirstData
  <2>9. StoredFrameMatchesPhase'
    BY <1>2 DEF StoredFrameMatchesPhase, AwaitReceive, StartReception,
       ProcessFirstData, StateReceiveEnterFinishDropOther
  <2>10. RetryUnacknowledged'
    BY <1>2 DEF RetryUnacknowledged, AwaitReceive, StartReception
  <2> QED
    BY <2>1, <2>2, <2>3, <2>4, <2>5, <2>6, <2>7, <2>8, <2>9, <2>10
    DEF ControlInv
<1>3. ASSUME NEW frame \in DataFrame, RxFirstData(frame) PROVE ControlInv'
  <2>1. TypeOK'
    BY <1>3 DEF TypeOK, RxFirstData, ProcessFirstData,
       StateReceiveEnterFinishDropOther, StateReceiveEnterFinish,
       StateReceiveEnterAck, DelayCarrierSense, Outcome
  <2>2. NoRuntimeError'
    BY <1>3 DEF NoRuntimeError, TypeOK, TimersMatchPhase, BackoffMatchesPhase,
       RxFirstData, ProcessFirstData, StateReceiveEnterFinishDropOther,
       StateReceiveEnterFinish, StateReceiveEnterAck, DelayCarrierSense,
       Outcome, Hears
  <2>3. TimersMatchPhase'
    BY <1>3 DEF TimersMatchPhase, TypeOK, RxFirstData, ProcessFirstData,
       StateReceiveEnterFinishDropOther, StateReceiveEnterFinish,
       StateReceiveEnterAck, DelayCarrierSense, Outcome
  <2>4. BackoffMatchesPhase'
    BY <1>3 DEF BackoffMatchesPhase, RxFirstData, ProcessFirstData,
       StateReceiveEnterFinishDropOther, StateReceiveEnterFinish,
       StateReceiveEnterAck, DelayCarrierSense, Outcome, Hears
  <2>5. AwaitArmed'
    BY <1>3 DEF AwaitArmed, RxFirstData
  <2>6. DeferredDropScope'
    <3>1. ~deferredDuplicateDrop
      BY <1>3 DEF DeferredDropScope, RxFirstData
    <3>2. ~deferredDuplicateDrop'
      BY <1>3, <3>1
      DEF RxFirstData, ProcessFirstData, StateReceiveEnterFinishDropOther,
          StateReceiveEnterAck, StateReceiveEnterFinish
    <3> QED
      BY <3>2 DEF DeferredDropScope
  <2>7. RadioMatchesPhase'
    BY <1>3 DEF RadioMatchesPhase, RxFirstData, ProcessFirstData,
       StateReceiveEnterFinishDropOther, StateReceiveEnterFinish,
       StateReceiveEnterAck, Hears
  <2>8. TimersDue'
    BY <1>3 DEF TimersDue, TypeOK, RxFirstData, ProcessFirstData,
       StateReceiveEnterFinishDropOther, StateReceiveEnterFinish,
       StateReceiveEnterAck, DelayCarrierSense, Outcome
  <2>9. StoredFrameMatchesPhase'
    BY <1>3 DEF StoredFrameMatchesPhase, RxFirstData, ProcessFirstData,
       StateReceiveEnterFinishDropOther
  <2>10. RetryUnacknowledged'
    BY <1>3 DEF RetryUnacknowledged, RxFirstData
  <2> QED
    BY <2>1, <2>2, <2>3, <2>4, <2>5, <2>6, <2>7, <2>8, <2>9, <2>10
    DEF ControlInv
<1>4. ASSUME NEW frame \in DataFrame, RxRepeatedData(frame) PROVE ControlInv'
  <2>1. TypeOK'
    BY <1>4 DEF TypeOK, RxRepeatedData, StateReceiveEnterFinishDropDuplicate,
       StateReceiveEnterFinishDropOther, StateReceiveEnterFinish,
       StateReceiveEnterAck, DelayCarrierSense, Outcome, Hears
  <2>2. NoRuntimeError'
    BY <1>4 DEF NoRuntimeError, TypeOK, TimersMatchPhase, BackoffMatchesPhase,
       RxRepeatedData, StateReceiveEnterFinishDropDuplicate,
       StateReceiveEnterFinishDropOther, StateReceiveEnterFinish,
       StateReceiveEnterAck, DelayCarrierSense, Outcome, Hears
  <2>3. TimersMatchPhase'
    BY <1>4 DEF TimersMatchPhase, TypeOK, RxRepeatedData,
       StateReceiveEnterFinishDropDuplicate, StateReceiveEnterFinishDropOther,
       StateReceiveEnterFinish, StateReceiveEnterAck, DelayCarrierSense,
       Outcome
  <2>4. BackoffMatchesPhase'
    BY <1>4 DEF BackoffMatchesPhase, RxRepeatedData,
       StateReceiveEnterFinishDropDuplicate, StateReceiveEnterFinishDropOther,
       StateReceiveEnterFinish, StateReceiveEnterAck, DelayCarrierSense,
       Outcome, Hears
  <2>5. AwaitArmed'
    BY <1>4 DEF AwaitArmed, RxRepeatedData
  <2>6. DeferredDropScope'
    <3>1. ~deferredDuplicateDrop /\ rxOutcome = "pending"
      BY <1>4 DEF DeferredDropScope, StoredFrameMatchesPhase, RxRepeatedData, Repeats
    <3>2. CASE rxState' = "FINISH" /\ rxOutcome' = "pending"
      BY <1>4, <3>2 DEF RxRepeatedData, DeferredDropScope
    <3>3. CASE ~(rxState' = "FINISH" /\ rxOutcome' = "pending")
      <4>1. ~deferredDuplicateDrop'
        BY <1>4, <3>1, <3>3
        DEF RxRepeatedData, StateReceiveEnterFinishDropDuplicate,
            StateReceiveEnterFinishDropOther, StateReceiveEnterAck, StateReceiveEnterFinish
      <4> QED
        BY <4>1 DEF DeferredDropScope
    <3> QED
      BY <3>2, <3>3
  <2>7. RadioMatchesPhase'
    BY <1>4 DEF RadioMatchesPhase, RxRepeatedData,
       StateReceiveEnterFinishDropDuplicate, StateReceiveEnterFinishDropOther,
       StateReceiveEnterFinish, StateReceiveEnterAck, Hears
  <2>8. TimersDue'
    BY <1>4 DEF TimersDue, TypeOK, RxRepeatedData,
       StateReceiveEnterFinishDropDuplicate, StateReceiveEnterFinishDropOther,
       StateReceiveEnterFinish, StateReceiveEnterAck, DelayCarrierSense,
       Outcome
  <2>9. StoredFrameMatchesPhase'
    BY <1>4 DEF StoredFrameMatchesPhase, RxRepeatedData,
       StateReceiveEnterFinishDropDuplicate, Repeats,
       StateReceiveEnterFinishDropOther
  <2>10. RetryUnacknowledged'
    BY <1>4 DEF RetryUnacknowledged, RxRepeatedData
  <2> QED
    BY <2>1, <2>2, <2>3, <2>4, <2>5, <2>6, <2>7, <2>8, <2>9, <2>10
    DEF ControlInv
<1>5. ASSUME NEW frame \in DataFrame, RxFinishRepeatedData(frame) PROVE ControlInv'
  <2>1. TypeOK'
    BY <1>5 DEF TypeOK, RxFinishRepeatedData, StateReceiveEnterFinish
  <2>2. NoRuntimeError'
    BY <1>5 DEF NoRuntimeError, TypeOK, RxFinishRepeatedData,
       StateReceiveEnterFinish
  <2>3. TimersMatchPhase'
    BY <1>5 DEF TimersMatchPhase, TypeOK, RxFinishRepeatedData,
       StateReceiveEnterFinish
  <2>4. BackoffMatchesPhase'
    BY <1>5 DEF BackoffMatchesPhase, RxFinishRepeatedData,
       StateReceiveEnterFinish
  <2>5. AwaitArmed'
    BY <1>5 DEF AwaitArmed, RxFinishRepeatedData
  <2>6. DeferredDropScope'
    BY <1>5 DEF DeferredDropScope, RxFinishRepeatedData,
       StateReceiveEnterFinish
  <2>7. RadioMatchesPhase'
    BY <1>5 DEF RadioMatchesPhase, RxFinishRepeatedData,
       StateReceiveEnterFinish
  <2>8. TimersDue'
    BY <1>5 DEF TimersDue, TypeOK, RxFinishRepeatedData,
       StateReceiveEnterFinish
  <2>9. RetryUnacknowledged' /\ StoredFrameMatchesPhase'
    BY <1>5 DEF RetryUnacknowledged, StoredFrameMatchesPhase,
       RxFinishRepeatedData
  <2> QED
    BY <2>1, <2>2, <2>3, <2>4, <2>5, <2>6, <2>7, <2>8, <2>9 DEF ControlInv
<1> QED
  BY <1>1, <1>2, <1>3, <1>4, <1>5

\* A step of this node's acknowledgment preserves the invariant.
LEMMA AcknowledgeStep ==
    ControlInv /\ (\/ RxBackoffTimer
                   \/ RxAckReady
                   \/ RxAckEnd
                   \/ RxRadioReady)
        => ControlInv'
<1> SUFFICES ASSUME ControlInv,
                    \/ RxBackoffTimer
                    \/ RxAckReady
                    \/ RxAckEnd
                    \/ RxRadioReady
             PROVE ControlInv'
  OBVIOUS
<1>1. ASSUME RxBackoffTimer PROVE ControlInv'
  <2>1. TypeOK'
    <3>1. radioMode = "RECEIVER"
      BY <1>1 DEF BackoffMatchesPhase, RxBackoffTimer
    <3>2. PICK b \in StartTxOrBackoff(radioMode, Fired("txBackoffTimer"), TRUE) :
            RxBackoffTimer!4!(b)
      BY <1>1 DEF RxBackoffTimer
    <3>3. b.radio \in RadioMode /\ b.state \in BackoffState /\ b.timers \in [Timer -> TimerState]
      BY <3>1, TimerType, RadioModeType
      DEF StartTxOrBackoff, StartTx, DelayCarrierSense, Outcome, TypeOK, BackoffState, RadioMode
    <3>4. timer' \in [Timer -> TimerState]
      BY <3>2, <3>3, TimerType
      DEF StateReceiveEnterFinishDropDuplicate, StateReceiveEnterFinish
    <3>5. deferredDuplicateDrop' \in BOOLEAN
      BY <3>2 DEF TypeOK, StateReceiveEnterFinishDropDuplicate
    <3> QED
      BY <1>1, <3>2, <3>3, <3>4, <3>5
      DEF RxBackoffTimer, TypeOK, StateReceiveEnterFinishDropDuplicate,
          StateReceiveEnterFinish, BackoffState
  <2>2. NoRuntimeError'
    BY <1>1 DEF NoRuntimeError, TypeOK, TimersMatchPhase, RxBackoffTimer,
       StartTxOrBackoff, DelayCarrierSense
  <2>3. TimersMatchPhase'
    BY <1>1 DEF TimersMatchPhase, TypeOK, RxBackoffTimer, StartTxOrBackoff,
       DelayCarrierSense
  <2>4. BackoffMatchesPhase'
    BY <1>1 DEF BackoffMatchesPhase, RxBackoffTimer,
       StateReceiveEnterFinishDropDuplicate, StateReceiveEnterFinish,
       StartTxOrBackoff, StartTx, DelayCarrierSense, Outcome
  <2>5. AwaitArmed'
    BY <1>1 DEF AwaitArmed, RxBackoffTimer
  <2>6. DeferredDropScope'
    <3>1. ~deferredDuplicateDrop
      BY <1>1 DEF DeferredDropScope, RxBackoffTimer
    <3>2. rxOutcome = "pending"
      BY <1>1 DEF NoRuntimeError, StoredFrameMatchesPhase, RxBackoffTimer
    <3>3. CASE activeBackoff' = "NULL"
      BY <1>1, <3>2, <3>3
      DEF RxBackoffTimer, DeferredDropScope, StateReceiveEnterFinishDropDuplicate,
          StateReceiveEnterFinish, StartTxOrBackoff, StartTx, DelayCarrierSense, Outcome
    <3>4. CASE activeBackoff' # "NULL"
      BY <1>1, <3>1, <3>4
      DEF RxBackoffTimer, DeferredDropScope, StartTxOrBackoff, StartTx, DelayCarrierSense, Outcome
    <3> QED
      BY <3>3, <3>4
  <2>7. RadioMatchesPhase'
    BY <1>1 DEF RadioMatchesPhase, BackoffMatchesPhase, RxBackoffTimer,
       StateReceiveEnterFinishDropDuplicate, StateReceiveEnterFinish,
       StartTxOrBackoff, StartTx, DelayCarrierSense, Outcome
  <2>8. TimersDue'
    BY <1>1 DEF TimersDue, TypeOK, TimersMatchPhase, RxBackoffTimer,
       StartTxOrBackoff, DelayCarrierSense
  <2>9. RetryUnacknowledged' /\ StoredFrameMatchesPhase'
    BY <1>1 DEF RetryUnacknowledged, StoredFrameMatchesPhase, RxBackoffTimer,
       StateReceiveEnterFinishDropDuplicate
  <2> QED
    BY <2>1, <2>2, <2>3, <2>4, <2>5, <2>6, <2>7, <2>8, <2>9 DEF ControlInv
<1>2. ASSUME RxAckReady PROVE ControlInv'
  <2>1. TypeOK'
    BY <1>2 DEF TypeOK, RxAckReady
  <2>2. NoRuntimeError'
    BY <1>2 DEF NoRuntimeError, RxAckReady
  <2>3. TimersMatchPhase'
    BY <1>2 DEF TimersMatchPhase, BackoffMatchesPhase, RxAckReady
  <2>4. BackoffMatchesPhase'
    BY <1>2 DEF BackoffMatchesPhase, RxAckReady
  <2>5. AwaitArmed'
    BY <1>2 DEF AwaitArmed, RxAckReady
  <2>6. RadioMatchesPhase'
    BY <1>2 DEF RadioMatchesPhase, RxAckReady
  <2>7. TimersDue'
    BY <1>2 DEF TimersDue, RxAckReady
  <2>8. /\ DeferredDropScope'
        /\ RetryUnacknowledged'
        /\ StoredFrameMatchesPhase'
    BY <1>2 DEF DeferredDropScope, RetryUnacknowledged,
       StoredFrameMatchesPhase, RxAckReady
  <2> QED
    BY <2>1, <2>2, <2>3, <2>4, <2>5, <2>6, <2>7, <2>8 DEF ControlInv
<1>3. ASSUME RxAckEnd PROVE ControlInv'
  <2>1. TypeOK'
    BY <1>3 DEF TypeOK, RxAckEnd
  <2>2. NoRuntimeError'
    BY <1>3 DEF NoRuntimeError, TypeOK, RxAckEnd
  <2>3. TimersMatchPhase'
    BY <1>3 DEF TimersMatchPhase, TypeOK, RxAckEnd
  <2>4. BackoffMatchesPhase'
    BY <1>3 DEF BackoffMatchesPhase, RxAckEnd
  <2>5. AwaitArmed'
    BY <1>3 DEF AwaitArmed, RxAckEnd
  <2>6. DeferredDropScope'
    BY <1>3 DEF DeferredDropScope, RxAckEnd
  <2>7. RadioMatchesPhase'
    BY <1>3 DEF RadioMatchesPhase, TypeOK, RxAckEnd
  <2>8. TimersDue'
    BY <1>3 DEF TimersDue, TypeOK, RxAckEnd
  <2>9. RetryUnacknowledged' /\ StoredFrameMatchesPhase'
    BY <1>3 DEF RetryUnacknowledged, StoredFrameMatchesPhase, RxAckEnd
  <2> QED
    BY <2>1, <2>2, <2>3, <2>4, <2>5, <2>6, <2>7, <2>8, <2>9 DEF ControlInv
<1>4. ASSUME RxRadioReady PROVE ControlInv'
  <2>1. TypeOK'
    BY <1>4 DEF TypeOK, RxRadioReady
  <2>2. NoRuntimeError'
    BY <1>4 DEF NoRuntimeError, TypeOK, RxRadioReady
  <2>3. TimersMatchPhase'
    BY <1>4 DEF TimersMatchPhase, TypeOK, RxRadioReady
  <2>4. BackoffMatchesPhase'
    BY <1>4 DEF BackoffMatchesPhase, RxRadioReady
  <2>5. AwaitArmed'
    BY <1>4 DEF AwaitArmed, RxRadioReady
  <2>6. RadioMatchesPhase'
    BY <1>4 DEF RadioMatchesPhase, RxRadioReady
  <2>7. TimersDue'
    BY <1>4 DEF TimersDue, TypeOK, RxRadioReady
  <2>8. /\ DeferredDropScope'
        /\ RetryUnacknowledged'
        /\ StoredFrameMatchesPhase'
    BY <1>4 DEF DeferredDropScope, RetryUnacknowledged,
       StoredFrameMatchesPhase, RxRadioReady
  <2> QED
    BY <2>1, <2>2, <2>3, <2>4, <2>5, <2>6, <2>7, <2>8 DEF ControlInv
<1> QED
  BY <1>1, <1>2, <1>3, <1>4

\* The end of a reception preserves the invariant.
LEMMA ReceptionEndStep ==
    ControlInv /\ (\/ RxDataTimeout
                   \/ RxFinishTimeout)
        => ControlInv'
<1> SUFFICES ASSUME ControlInv,
                    \/ RxDataTimeout
                    \/ RxFinishTimeout
             PROVE ControlInv'
  OBVIOUS
<1>1. ASSUME RxDataTimeout PROVE ControlInv'
  <2>1. TypeOK'
    BY <1>1 DEF TypeOK, RxDataTimeout, CompletePacketReception,
       StateListeningEnter, StateListeningEnterAlreadyListening
  <2>2. NoRuntimeError'
    BY <1>1 DEF NoRuntimeError, TypeOK, TimersMatchPhase, RadioMatchesPhase,
       TimersDue, RxDataTimeout, StateListeningEnter,
       StateListeningEnterAlreadyListening
  <2>3. TimersMatchPhase'
    BY <1>1 DEF TimersMatchPhase, TypeOK, RxDataTimeout, StateListeningEnter,
       StateListeningEnterAlreadyListening
  <2>4. BackoffMatchesPhase'
    BY <1>1 DEF BackoffMatchesPhase, RxDataTimeout, StateListeningEnter,
       StateListeningEnterAlreadyListening
  <2>5. AwaitArmed'
    BY <1>1 DEF AwaitArmed, TypeOK, RadioMatchesPhase, TimersDue,
       RxDataTimeout, StateListeningEnter, StateListeningEnterAlreadyListening
  <2>6. DeferredDropScope'
    BY <1>1 DEF DeferredDropScope, RxDataTimeout
  <2>7. RadioMatchesPhase'
    BY <1>1 DEF RadioMatchesPhase, RxDataTimeout, StateListeningEnter,
       StateListeningEnterAlreadyListening
  <2>8. TimersDue'
    BY <1>1 DEF TimersDue, TypeOK, RadioMatchesPhase, RxDataTimeout,
       StateListeningEnter, StateListeningEnterAlreadyListening
  <2>9. StoredFrameMatchesPhase'
    BY <1>1 DEF StoredFrameMatchesPhase, RxDataTimeout, CompletePacketReception
  <2>10. RetryUnacknowledged'
    BY <1>1 DEF RetryUnacknowledged, RxDataTimeout
  <2> QED
    BY <2>1, <2>2, <2>3, <2>4, <2>5, <2>6, <2>7, <2>8, <2>9, <2>10
    DEF ControlInv
<1>2. ASSUME RxFinishTimeout PROVE ControlInv'
  <2>1. TypeOK'
    <3>1. timer' \in [Timer -> TimerState]
      BY <1>2, TimerType DEF TypeOK, RxFinishTimeout, StateListeningEnter,
         StateListeningEnterAlreadyListening
    <3>2. radioMode' \in RadioMode
      BY <1>2, RadioModeType DEF TypeOK, RxFinishTimeout, StateListeningEnter
    <3>3. deferredDuplicateDrop' \in BOOLEAN
      BY <1>2 DEF TypeOK, RxFinishTimeout, CompleteDeferredDrop
    <3>4. /\ currentRxFrame' \in DataFrame \cup {NoFrame}
          /\ rxOutcome' \in {"none", "pending", "sentUp", "dropped"}
      BY <1>2 DEF TypeOK, RxFinishTimeout, CompleteDeferredDrop, CompletePacketReception
    <3> QED
      BY <1>2, <3>1, <3>2, <3>3, <3>4
      DEF TypeOK, RxFinishTimeout, CompleteDeferredDrop, CompletePacketReception,
          StateListeningEnter, StateListeningEnterAlreadyListening
  <2>2. NoRuntimeError'
    BY <1>2 DEF NoRuntimeError, TypeOK, TimersMatchPhase, RadioMatchesPhase,
       RxFinishTimeout, StateListeningEnter,
       StateListeningEnterAlreadyListening
  <2>3. TimersMatchPhase'
    BY <1>2 DEF TimersMatchPhase, TypeOK, RxFinishTimeout, StateListeningEnter,
       StateListeningEnterAlreadyListening
  <2>4. BackoffMatchesPhase'
    BY <1>2 DEF BackoffMatchesPhase, RxFinishTimeout, StateListeningEnter,
       StateListeningEnterAlreadyListening
  <2>5. AwaitArmed'
    BY <1>2 DEF AwaitArmed, TypeOK, RadioMatchesPhase, RxFinishTimeout,
       StateListeningEnter, StateListeningEnterAlreadyListening
  <2>6. DeferredDropScope'
    BY <1>2 DEF DeferredDropScope, RxFinishTimeout, CompleteDeferredDrop
  <2>7. RadioMatchesPhase'
    BY <1>2 DEF RadioMatchesPhase, RxFinishTimeout, StateListeningEnter,
       StateListeningEnterAlreadyListening
  <2>8. TimersDue'
    BY <1>2 DEF TimersDue, TypeOK, RadioMatchesPhase, RxFinishTimeout,
       StateListeningEnter, StateListeningEnterAlreadyListening
  <2>9. StoredFrameMatchesPhase'
    BY <1>2 DEF StoredFrameMatchesPhase, RxFinishTimeout,
       CompletePacketReception, CompleteDeferredDrop
  <2>10. RetryUnacknowledged'
    BY <1>2 DEF RetryUnacknowledged, RxFinishTimeout
  <2> QED
    BY <2>1, <2>2, <2>3, <2>4, <2>5, <2>6, <2>7, <2>8, <2>9, <2>10
    DEF ControlInv
<1> QED
  BY <1>1, <1>2

\* The radio's readiness, a stop and a start preserve the invariant.
LEMMA NodeStep ==
    ControlInv /\ (\/ RadioReady
                   \/ HandleCrashOperation
                   \/ NodeStart)
        => ControlInv'
<1> SUFFICES ASSUME ControlInv,
                    \/ RadioReady
                    \/ HandleCrashOperation
                    \/ NodeStart
             PROVE ControlInv'
  OBVIOUS
<1>1. ASSUME RadioReady PROVE ControlInv'
  <2>1. TypeOK'
    BY <1>1 DEF TypeOK, RadioReady
  <2>2. NoRuntimeError'
    BY <1>1 DEF NoRuntimeError, RadioReady
  <2>3. BackoffMatchesPhase'
    BY <1>1 DEF BackoffMatchesPhase, RadioReady
  <2>4. AwaitArmed'
    BY <1>1 DEF AwaitArmed, RadioReady
  <2>5. RadioMatchesPhase'
    BY <1>1 DEF RadioMatchesPhase, RadioReady
  <2>6. TimersDue'
    BY <1>1 DEF TimersDue, RadioReady
  <2>7. /\ TimersMatchPhase'
        /\ DeferredDropScope'
        /\ RetryUnacknowledged'
        /\ StoredFrameMatchesPhase'
    BY <1>1 DEF TimersMatchPhase, DeferredDropScope, RetryUnacknowledged,
       StoredFrameMatchesPhase, RadioReady
  <2> QED
    BY <2>1, <2>2, <2>3, <2>4, <2>5, <2>6, <2>7 DEF ControlInv
<1>2. ASSUME HandleCrashOperation PROVE ControlInv'
  <2>1. TypeOK'
    <3>1. /\ operating' \in BOOLEAN
          /\ transmitting' \in BOOLEAN
          /\ deferredDuplicateDrop' \in BOOLEAN
      BY <1>2 DEF HandleCrashOperation
    <3> QED
      BY <1>2, <3>1 DEF TypeOK, HandleCrashOperation, TimerState, RadioMode, BackoffState
  <2>2. NoRuntimeError'
    BY <1>2 DEF NoRuntimeError, HandleCrashOperation
  <2>3. TimersMatchPhase'
    BY <1>2 DEF TimersMatchPhase, HandleCrashOperation
  <2>4. BackoffMatchesPhase'
    BY <1>2 DEF BackoffMatchesPhase, HandleCrashOperation
  <2>5. AwaitArmed'
    BY <1>2 DEF AwaitArmed, HandleCrashOperation
  <2>6. DeferredDropScope'
    BY <1>2 DEF DeferredDropScope, HandleCrashOperation
  <2>7. RetryUnacknowledged'
    BY <1>2 DEF RetryUnacknowledged, HandleCrashOperation
  <2>8. RadioMatchesPhase'
    BY <1>2 DEF RadioMatchesPhase, HandleCrashOperation
  <2>9. TimersDue'
    BY <1>2 DEF TimersDue, HandleCrashOperation
  <2>10. StoredFrameMatchesPhase'
    BY <1>2 DEF StoredFrameMatchesPhase, HandleCrashOperation
  <2> QED
    BY <2>1, <2>2, <2>3, <2>4, <2>5, <2>6, <2>7, <2>8, <2>9, <2>10
    DEF ControlInv
<1>3. ASSUME NodeStart PROVE ControlInv'
  <2>1. TypeOK'
    BY <1>3 DEF TypeOK, NodeStart, CompletePacketReception,
       StateListeningEnter, StateListeningEnterAlreadyListening
  <2>2. NoRuntimeError'
    BY <1>3 DEF NoRuntimeError, TypeOK, TimersMatchPhase, NodeStart,
       StateListeningEnter, StateListeningEnterAlreadyListening
  <2>3. TimersMatchPhase'
    BY <1>3 DEF TimersMatchPhase, TypeOK, NodeStart, StateListeningEnter,
       StateListeningEnterAlreadyListening
  <2>4. BackoffMatchesPhase'
    BY <1>3 DEF BackoffMatchesPhase, NodeStart, StateListeningEnter,
       StateListeningEnterAlreadyListening
  <2>5. AwaitArmed'
    BY <1>3 DEF AwaitArmed, NodeStart, StateListeningEnter
  <2>6. DeferredDropScope'
    BY <1>3 DEF DeferredDropScope, NodeStart
  <2>7. RadioMatchesPhase'
    BY <1>3 DEF RadioMatchesPhase, NodeStart, StateListeningEnter,
       StateListeningEnterAlreadyListening
  <2>8. TimersDue'
    BY <1>3 DEF TimersDue, TypeOK, NodeStart, StateListeningEnter,
       StateListeningEnterAlreadyListening
  <2>9. StoredFrameMatchesPhase'
    BY <1>3 DEF StoredFrameMatchesPhase, NodeStart, CompletePacketReception
  <2>10. RetryUnacknowledged'
    BY <1>3 DEF RetryUnacknowledged, NodeStart
  <2> QED
    BY <2>1, <2>2, <2>3, <2>4, <2>5, <2>6, <2>7, <2>8, <2>9, <2>10
    DEF ControlInv
<1> QED
  BY <1>1, <1>2, <1>3

-----------------------------------------------------------------------------
\* Every step of the node, and every step of something else, preserves it.
LEMMA ControlStep == ControlInv /\ [Next]_vars => ControlInv'
<1> SUFFICES ASSUME ControlInv, [Next]_vars PROVE ControlInv'
  OBVIOUS
<1>1. CASE UNCHANGED vars
  BY <1>1 DEF vars, TypeOK, NoRuntimeError, TimersMatchPhase, BackoffMatchesPhase, AwaitArmed,
     DeferredDropScope, RetryUnacknowledged, RadioMatchesPhase, TimersDue, StoredFrameMatchesPhase
<1>2. CASE Next
  BY <1>2, UpperPacketStep, AwaitStep, TransmitStep, AckTimeoutStep, ReceptionStep,
     AcknowledgeStep, ReceptionEndStep, NodeStep
  DEF Next, AwaitNotReplenished, NodeStop
<1> QED
  BY <1>1, <1>2

\* ControlInv is an invariant: all control invariants hold together.
THEOREM ControlInvariant == Spec => []ControlInv
<1> QED
  BY ControlInit, ControlStep, PTL DEF Spec

\* The state variables keep their types, through every handler.
THEOREM TypeCorrect == Spec => []TypeOK
BY ControlInvariant, PTL

\* No handler of ORWMac.cc and ORWMacState.cc throws, fails an assertion or
\* uses a frame that is not there.
THEOREM NeverThrows == Spec => []NoRuntimeError
BY ControlInvariant, PTL

\* deferredDuplicateDrop never outlives the frame it was set for, and a frame
\* kept for a retry has no confirmed forwarder: no retry repeats a packet that
\* was passed on.
THEOREM KeptFramesAreKept == Spec => []KeptFrames
<1>1. ControlInv => KeptFrames
  BY DEF KeptFrames
<1> QED
  BY <1>1, ControlInvariant, PTL

-----------------------------------------------------------------------------
(***************************************************************************)
(* One try.  ControlInv holds whatever MaxTxTries is, the subclass builds  *)
(* on that; with the fields of a plain ORWMac the start timer is, besides, *)
(* never set for a packet that is tried again.                             *)
(***************************************************************************)
OneTryInv == PlainFields /\ OneTry

\* Before the first start no timer is set.
LEMMA OneTryInit == Init => OneTryInv
BY DEF Init, InitVariables, OneTryInv, OneTry

\* A handler that enters TRANSMIT counts the only try, and the end of that try
\* keeps no packet; only an AWAIT_TRANSMIT without a check sets TX_START.
LEMMA OneTryStep ==
    ASSUME ControlInv, OneTryInv, [Next]_vars
    PROVE  OneTryInv'
<1> USE DEF PlainFields
<1> SUFFICES OneTry'
  BY DEF OneTryInv
<1>1. /\ timer \in [Timer -> TimerState]
      /\ txInProgressTries \in 0..1
  BY DEF TypeOK, OneTryInv
<1>2. /\ IsScheduled(timer, "transmitStartDelay") =>
           In("AWAIT_TRANSMIT") /\ ~IsScheduled(timer, "replenishmentTimer")
      /\ IsScheduled(timer, "replenishmentTimer") => In("AWAIT_TRANSMIT")
  BY DEF OneTryInv, OneTry, TimersMatchPhase
<1>3. In("TRANSMIT") => txInProgressTries = MaxTxTries
  BY DEF OneTryInv, OneTry
<1>4. CASE UNCHANGED vars
  BY <1>2, <1>3, <1>4 DEF vars, OneTry
<1>5. ASSUME NEW p \in Packets, UpperPacketQueued(p) \/ UpperPacketIdle(p) PROVE OneTry'
  <2>1. CASE UpperPacketQueued(p)
    BY <1>2, <1>3, <2>1 DEF UpperPacketQueued, OneTry
  <2>2. CASE UpperPacketIdle(p)
    BY <1>1, <1>2, <2>2
    DEF UpperPacketIdle, StateTxEnter, StateTxEnterDataWait, TriesWithThis, StartTxOrBackoff,
        StartTx, StartCold, DelayCarrierSense, Outcome, StateListeningEnterAlreadyListening,
        OneTry, OneTryInv
  <2> QED
    BY <1>5, <2>1, <2>2
<1>6. ASSUME AwaitRadioReady \/ AwaitTransmitStart PROVE OneTry'
  BY <1>1, <1>2, <1>6
  DEF AwaitRadioReady, AwaitTransmitStart, StateTxEnter, StateTxEnterDataWait, TriesWithThis,
      StartTxOrBackoff, StartTx, StartCold, DelayCarrierSense, Outcome, OneTry, OneTryInv
<1>7. ASSUME AwaitReplenished \/ RadioReady PROVE OneTry'
  BY <1>1, <1>2, <1>3, <1>7 DEF AwaitReplenished, RadioReady, OneTry
<1>8. CASE TxBackoffTimer \/ TxReady \/ TxEndAwaitAck
  BY <1>1, <1>2, <1>3, <1>8
  DEF TxBackoffTimer, TxReady, TxEndAwaitAck, StartTxOrBackoff, StartTx, DelayCarrierSense,
      Outcome, OneTry
<1>9. ASSUME NEW fromDestination \in BOOLEAN, TxAckReceived(fromDestination) PROVE OneTry'
  BY <1>2, <1>3, <1>9 DEF TxAckReceived, OneTry
<1>10. CASE TxAckTimeoutBusy \/ TxAckTimeoutContention
  BY <1>1, <1>2, <1>3, <1>10
  DEF TxAckTimeoutBusy, TxAckTimeoutContention, AckTimeout, StateTxEnterDataWait,
      StartTxOrBackoff, StartTx, StartCold, DelayCarrierSense, Outcome, OneTry
<1>11. CASE TxAckTimeoutComplete
  <2>1. In("TRANSMIT") /\ txInProgressTries >= MaxTxTries
    BY <1>1, <1>3, <1>11 DEF TxAckTimeoutComplete, AckTimeout, OneTryInv
  <2>2. currentTxFrame' = NoFrame
    BY <2>1, <1>11 DEF TxAckTimeoutComplete, CompletePacketTransmission
  <2> DEFINE timers == Fired("ackBackoffTimer")
  <2>3. ~IsScheduled(timers, "transmitStartDelay") /\ ~IsScheduled(timers, "replenishmentTimer")
    BY <1>1, <1>2, <2>1
  <2>4. StateTxEnterEnd(timers)
    BY <1>11, <2>2 DEF TxAckTimeoutComplete
  <2>5. txInProgressTries' = txInProgressTries /\ operating' = operating
    BY <1>11 DEF TxAckTimeoutComplete, CompletePacketTransmission
  <2>6. timers \in [Timer -> TimerState]
    BY <1>1
  <2> HIDE DEF timers
  <2> QED
    BY <1>3, <2>1, <2>3, <2>4, <2>5, <2>6
    DEF StateTxEnterEnd, StateListeningEnter, StateListeningEnterAlreadyListening, OneTry
<1>12. CASE TxEndAsleep \/ RxDataTimeout \/ RxFinishTimeout \/ NodeStart
  BY <1>1, <1>2, <1>12
  DEF TxEndAsleep, RxDataTimeout, RxFinishTimeout, NodeStart, StateListeningEnter,
      StateListeningEnterAlreadyListening, OneTry
<1>13. ASSUME NEW frame \in DataFrame \cup {NoFrame}, IdleReceive(frame) \/ AwaitReceive(frame)
       PROVE  OneTry'
  BY <1>1, <1>2, <1>13
  DEF IdleReceive, AwaitReceive, StartReception, ProcessFirstData, StateReceiveEnterAck,
      StateReceiveEnterFinishDropOther, StateReceiveEnterFinish, DelayCarrierSense, Outcome, OneTry
<1>14. ASSUME NEW frame \in DataFrame,
              RxFirstData(frame) \/ RxRepeatedData(frame) \/ RxFinishRepeatedData(frame)
       PROVE  OneTry'
  BY <1>1, <1>2, <1>14
  DEF RxFirstData, RxRepeatedData, RxFinishRepeatedData, ProcessFirstData, StateReceiveEnterAck,
      StateReceiveEnterFinishDropOther, StateReceiveEnterFinishDropDuplicate,
      StateReceiveEnterFinish, DelayCarrierSense, Outcome, OneTry
<1>15. CASE RxBackoffTimer \/ RxAckReady \/ RxAckEnd \/ RxRadioReady
  BY <1>1, <1>2, <1>15
  DEF RxBackoffTimer, RxAckReady, RxAckEnd, RxRadioReady, StateReceiveEnterFinishDropDuplicate,
      StateReceiveEnterFinish, StartTxOrBackoff, StartTx, DelayCarrierSense, Outcome, OneTry
<1>16. CASE NodeStop \/ AwaitNotReplenished
  BY <1>16 DEF NodeStop, AwaitNotReplenished, HandleCrashOperation, OneTry
<1> QED
  BY <1>4, <1>5, <1>6, <1>7, <1>8, <1>9, <1>10, <1>11, <1>12, <1>13, <1>14, <1>15, <1>16 DEF Next

\* Every phase is served: a timer is pending only where its handler takes it
\* and where nothing else ends the phase, the backoff object lives as long as
\* the carrier sense and agrees with the radio, awaiting a transmission the
\* MAC always has something to wait for, and TX_START is never set for a second
\* try.  So no message fires into a stopped module, and no state of
\* ORWMacState.cc is entered for good.
THEOREM PhasesAlwaysServed == Spec => []PhaseServed
<1>1. ControlInv /\ OneTryInv => PhaseServed
  BY DEF PhaseServed, OneTryInv
<1>2. Spec => []OneTryInv
  BY ControlInvariant, OneTryInit, OneTryStep, PTL DEF Spec
<1> QED
  BY <1>1, <1>2, ControlInvariant, PTL

-----------------------------------------------------------------------------
\* What a step does to the stored frame: only the end of the wait (a timeout,
\* or the restart of the node) and a rejection settle it.
LEMMA StoredFrameStep ==
    ASSUME ControlInv, [Next]_vars
    PROVE  /\ deferredDuplicateDrop /\ ~deferredDuplicateDrop' /\ operating'
                => rxOutcome' = "dropped"
           /\ rxOutcome = "pending" /\ rxOutcome' = "dropped"
                => deferredDuplicateDrop \/ \E frame \in DataFrame : RxRepeatedData(frame)
<1> USE DEF TypeOK
<1> DEFINE Goal ==
           /\ deferredDuplicateDrop /\ ~deferredDuplicateDrop' /\ operating'
                => rxOutcome' = "dropped"
           /\ rxOutcome = "pending" /\ rxOutcome' = "dropped"
                => deferredDuplicateDrop \/ \E frame \in DataFrame : RxRepeatedData(frame)
<1>1. ASSUME UNCHANGED <<rxOutcome, deferredDuplicateDrop>> PROVE Goal
  BY <1>1
<1>2. CASE UNCHANGED vars
  BY <1>1, <1>2 DEF vars, storedVars
<1>3. ASSUME NEW p \in Packets, UpperPacketIdle(p) \/ UpperPacketQueued(p) PROVE Goal
  BY <1>1, <1>3 DEF UpperPacketIdle, UpperPacketQueued, storedVars
<1>4. CASE \/ AwaitRadioReady \/ AwaitTransmitStart \/ AwaitReplenished
  BY <1>1, <1>4 DEF AwaitRadioReady, AwaitTransmitStart, AwaitReplenished, storedVars
<1>5. CASE \/ TxBackoffTimer \/ TxReady \/ TxEndAwaitAck
           \/ TxAckTimeoutBusy \/ TxAckTimeoutContention \/ TxAckTimeoutComplete
           \/ TxEndAsleep
  <2>1. CASE TxBackoffTimer \/ TxReady \/ TxEndAwaitAck
    BY <1>1, <2>1 DEF TxBackoffTimer, TxReady, TxEndAwaitAck
  <2>2. CASE TxAckTimeoutBusy \/ TxAckTimeoutContention
    BY <1>1, <2>2 DEF TxAckTimeoutBusy, TxAckTimeoutContention
  <2>3. CASE TxAckTimeoutComplete
    BY <1>1, <2>3 DEF TxAckTimeoutComplete
  <2>4. CASE TxEndAsleep
    BY <1>1, <2>4 DEF TxEndAsleep
  <2> QED
    BY <1>5, <2>1, <2>2, <2>3, <2>4
<1>6. ASSUME NEW fromDestination \in BOOLEAN, TxAckReceived(fromDestination) PROVE Goal
  BY <1>1, <1>6 DEF TxAckReceived, storedVars
<1>7. ASSUME NEW frame \in DataFrame, RxRepeatedData(frame) PROVE Goal
  <2>1. ~deferredDuplicateDrop
    BY <1>7 DEF RxRepeatedData, Receiving, DeferredDropScope
  <2> QED
    BY <1>7, <2>1
<1>8. ASSUME NEW frame \in DataFrame \cup {NoFrame},
             \/ IdleReceive(frame) \/ AwaitReceive(frame)
             \/ RxFirstData(frame) /\ frame \in DataFrame
      PROVE  Goal
  <2>1. ~deferredDuplicateDrop
    BY <1>8 DEF IdleReceive, AwaitReceive, RxFirstData, Receiving, In, DeferredDropScope
  <2>2. CASE UNCHANGED <<rxOutcome, deferredDuplicateDrop>>
    BY <1>1, <2>2
  <2>3. CASE currentRxFrame = NoFrame
    <3>1. rxOutcome # "pending"
      BY <2>3 DEF StoredFrameMatchesPhase
    <3> QED
      BY <2>1, <3>1
  <2> QED
    BY <1>8, <2>2, <2>3
    DEF IdleReceive, AwaitReceive, RxFirstData, StartReception, storedVars
<1>9. ASSUME NEW frame \in DataFrame, RxFinishRepeatedData(frame) PROVE Goal
  BY <1>1, <1>9 DEF RxFinishRepeatedData
<1>10. CASE RxBackoffTimer
  BY <1>1, <1>10 DEF RxBackoffTimer, StateReceiveEnterFinishDropDuplicate
<1>11. CASE RxAckReady \/ RxAckEnd \/ RxRadioReady \/ RadioReady
  BY <1>1, <1>11 DEF RxAckReady, RxAckEnd, RxRadioReady, RadioReady, storedVars
<1>12. CASE RxDataTimeout \/ NodeStart
  <2>1. ~deferredDuplicateDrop
    BY <1>12 DEF RxDataTimeout, NodeStart, Receiving, In, DeferredDropScope
  <2> QED
    BY <1>12, <2>1 DEF RxDataTimeout, NodeStart, CompletePacketReception
<1>13. CASE RxFinishTimeout
  BY <1>13 DEF RxFinishTimeout, CompleteDeferredDrop, CompletePacketReception
<1>14. CASE NodeStop \/ AwaitNotReplenished
  <2>1. ~operating' /\ rxOutcome' = IF CrashDropsStoredFrame THEN "dropped" ELSE rxOutcome
    BY <1>14 DEF NodeStop, AwaitNotReplenished, HandleCrashOperation
  <2>2. ~(IsScheduled(timer, "receiveTimeout") /\ IsScheduled(timer, "ackBackoffTimer"))
    BY DEF TimersMatchPhase, Receiving, Sending, In
  <2> QED
    BY <2>1, <2>2 DEF CrashDropsStoredFrame
<1> QED
  BY <1>2, <1>3, <1>4, <1>5, <1>6, <1>7, <1>8, <1>9, <1>10, <1>11, <1>12, <1>13, <1>14 DEF Next

\* A frame marked as duplicate ends in a drop, unless the node goes down.
THEOREM MarkedFrameIsDropped == Spec => DeferredDropCompleted
BY ControlInvariant, StoredFrameStep, PTL DEF Spec, DeferredDropCompleted

\* A stored frame is dropped only by leaving the contention or on a repetition
\* of the data, not even by a crash.
THEOREM AcknowledgedIsKept == Spec => AcknowledgedNotDropped
BY ControlInvariant, StoredFrameStep, PTL DEF Spec, AcknowledgedNotDropped
=============================================================================
