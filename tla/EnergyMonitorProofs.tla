------------------------- MODULE EnergyMonitorProofs -------------------------
(***************************************************************************)
(* Proofs about EnergyMonitor: the attribution of energy, for every number *)
(* of packets and every setting of the MAC.                                *)
(*                                                                         *)
(* What a signal does depends on when it comes.  A monitor that a stop has *)
(* paused is resumed by the start of a reception, so none may be emitted   *)
(* in a stop; that is a fact about every handler of the MAC                *)
(* (StopStartsNothing).                                                    *)
(***************************************************************************)
EXTENDS EnergyMonitor, TLAPS

MonitorState == [inProgress : StartSignal \cup {"SIMSIGNAL_NULL"},
                 measuring : BOOLEAN,
                 collected : ConsumptionSignal \cup {"none"}]

InProgress(m) == m.inProgress # "SIMSIGNAL_NULL"

\* A monitor that is not paused
Running(m) == m.measuring <=> InProgress(m)

-----------------------------------------------------------------------------
(***************************************************************************)
(* The operations of the monitor                                           *)
(***************************************************************************)

\* What finishMonitoring is given to emit is one of its four signals.
LEMMA FinishEnds ==
    ASSUME NEW m \in MonitorState, NEW signal \in EndSignal
    PROVE  LET after == FinishMonitoring(m, Completes(m, signal))
           IN  after \in MonitorState /\ ~after.measuring /\ ~InProgress(after)
<1>1. Completes(m, signal) \in ConsumptionSignal
  BY DEF Completes, IsMatchingEndedSignal, ConsumptionSignal, EndSignal
<1> QED
  BY <1>1 DEF FinishMonitoring, MonitorState, InProgress

\* An end signal ends whatever is in progress.
LEMMA EndSignalEnds ==
    ASSUME NEW m \in MonitorState, NEW signal \in EndSignal
    PROVE  LET after == ReceiveSignal(m, signal)
           IN  after \in MonitorState /\ ~after.measuring /\ ~InProgress(after)
<1>1. m.inProgress # signal /\ signal \notin StartSignal
  BY DEF MonitorState, StartSignal, EndSignal
<1>2. ReceiveSignal(m, signal) = FinishMonitoring(m, Completes(m, signal))
  BY <1>1 DEF ReceiveSignal
<1> QED
  BY <1>2, FinishEnds

\* The start of a reception leaves the monitor running, unless it is paused.
LEMMA StartSignalStarts ==
    ASSUME NEW m \in MonitorState, Running(m)
    PROVE  LET after == ReceiveSignal(m, "receptionStarted")
           IN  after \in MonitorState /\ Running(after)
<1>1. CASE m.inProgress = "receptionStarted"
  BY <1>1 DEF ReceiveSignal
<1>2. CASE ~InProgress(m)
  <2>1. ReceiveSignal(m, "receptionStarted") =
          [m EXCEPT !.inProgress = "receptionStarted", !.measuring = TRUE]
    BY <1>2 DEF ReceiveSignal, StartSignal, StartMonitoring, ResumeMonitoring, InProgress,
       MonitorState
  <2> QED
    BY <2>1 DEF MonitorState, StartSignal, Running, InProgress
<1>3. CASE InProgress(m) /\ m.inProgress # "receptionStarted"
  <2>1. ReceiveSignal(m, "receptionStarted") =
          FinishMonitoring(m, Completes(m, "receptionStarted"))
    BY <1>3 DEF ReceiveSignal, InProgress
  <2>2. Completes(m, "receptionStarted") = "unknownConsumption"
    BY DEF Completes, IsMatchingEndedSignal
  <2>3. ReceiveSignal(m, "receptionStarted") =
          [inProgress |-> "SIMSIGNAL_NULL", measuring |-> FALSE,
           collected |-> "unknownConsumption"]
    BY <2>1, <2>2 DEF FinishMonitoring, ConsumptionSignal
  <2> DEFINE attributed == [inProgress |-> "SIMSIGNAL_NULL", measuring |-> FALSE,
                            collected |-> "unknownConsumption"]
  <2>4. attributed \in MonitorState
    BY DEF MonitorState, ConsumptionSignal
  <2>5. Running(attributed)
    BY DEF Running, InProgress
  <2> QED
    BY <2>3, <2>4, <2>5
<1> QED
  BY <1>1, <1>2, <1>3

\* A stop pauses a running monitor.
LEMMA StopPauses ==
    ASSUME NEW m \in MonitorState, Running(m)
    PROVE  LET after == MonitorStops(m)
           IN  after \in MonitorState /\ ~after.measuring
BY DEF MonitorStops, PauseMonitoring, MonitorState, Running, InProgress

\* A start resumes a paused monitor.
LEMMA StartResumes ==
    ASSUME NEW m \in MonitorState, ~m.measuring
    PROVE  LET after == MonitorStarts(m)
           IN  after \in MonitorState /\ Running(after)
BY DEF MonitorStarts, ResumeMonitoring, MonitorState, Running, InProgress

\* A signal that is emitted or not: an end signal only ever ends.
LEMMA SignalledEnd ==
    ASSUME NEW m \in MonitorState, NEW emitted \in BOOLEAN, NEW signal \in EndSignal
    PROVE  LET after == Signalled(m, emitted, signal)
           IN  /\ after \in MonitorState
               /\ emitted => ~after.measuring /\ ~InProgress(after)
               /\ ~emitted => after = m
BY EndSignalEnds DEF Signalled

\* What the signals of a step make of the monitor.  Without the start of a
\* reception a paused monitor stays paused.
LEMMA SignalsKeepRunning ==
    ASSUME NEW m \in MonitorState
    PROVE  LET after == ReceiveSignals(m)
           IN  /\ Running(m) => after \in MonitorState /\ Running(after)
               /\ ~ReceptionStarts =>
                    /\ after \in MonitorState
                    /\ ~m.measuring => ~after.measuring
<1> DEFINE started == Signalled(m, ReceptionStarts, "receptionStarted")
           dropped == Signalled(started, ReceptionDrops, "receptionDropped")
           ended   == Signalled(dropped, ReceptionEnds, "receptionEnded")
           sent    == Signalled(ended, TransmissionEnds, "transmissionEnded")
           twice   == Signalled(sent, TransmissionEndsTwice, "transmissionEnded")
<1>1. ReceiveSignals(m) = twice
  BY DEF ReceiveSignals
<1>2. ~ReceptionStarts => started = m
  BY DEF Signalled
<1>3. Running(m) => started \in MonitorState /\ Running(started)
  BY StartSignalStarts DEF Signalled
<1>4. \A n \in MonitorState, emitted \in BOOLEAN, signal \in EndSignal :
         /\ Signalled(n, emitted, signal) \in MonitorState
         /\ emitted => /\ ~Signalled(n, emitted, signal).measuring
                       /\ ~InProgress(Signalled(n, emitted, signal))
         /\ ~emitted => Signalled(n, emitted, signal) = n
  BY SignalledEnd
<1>5. /\ ReceptionDrops \in BOOLEAN /\ ReceptionEnds \in BOOLEAN
      /\ TransmissionEnds \in BOOLEAN /\ TransmissionEndsTwice \in BOOLEAN
  BY DEF ReceptionDrops, ReceptionEnds, TransmissionEnds, TransmissionEndsTwice
<1>6. {"receptionDropped", "receptionEnded", "transmissionEnded"} \subseteq EndSignal
  BY DEF EndSignal
<1> HIDE DEF started
<1>7. ASSUME started \in MonitorState
      PROVE  /\ dropped \in MonitorState
             /\ ReceptionDrops => ~dropped.measuring /\ ~InProgress(dropped)
             /\ ~ReceptionDrops => dropped = started
  BY <1>4, <1>5, <1>6, <1>7
<1> HIDE DEF dropped
<1>8. ASSUME dropped \in MonitorState
      PROVE  /\ ended \in MonitorState
             /\ ReceptionEnds => ~ended.measuring /\ ~InProgress(ended)
             /\ ~ReceptionEnds => ended = dropped
  BY <1>4, <1>5, <1>6, <1>8
<1> HIDE DEF ended
<1>9. ASSUME ended \in MonitorState
       PROVE  /\ sent \in MonitorState
              /\ TransmissionEnds => ~sent.measuring /\ ~InProgress(sent)
              /\ ~TransmissionEnds => sent = ended
  BY <1>4, <1>5, <1>6, <1>9
<1> HIDE DEF sent
<1>10. ASSUME sent \in MonitorState
       PROVE  /\ twice \in MonitorState
              /\ TransmissionEndsTwice => ~twice.measuring /\ ~InProgress(twice)
              /\ ~TransmissionEndsTwice => twice = sent
  BY <1>4, <1>5, <1>6, <1>10
<1> HIDE DEF twice
<1>11. ASSUME started \in MonitorState
       PROVE  /\ twice \in MonitorState
              /\ \/ twice = started
                 \/ ~twice.measuring /\ ~InProgress(twice)
  BY <1>7, <1>8, <1>9, <1>10, <1>11
<1>12. \A n : ~n.measuring /\ ~InProgress(n) => Running(n)
  BY DEF Running, InProgress
<1> QED
  BY <1>1, <1>2, <1>3, <1>11, <1>12

-----------------------------------------------------------------------------
(***************************************************************************)
(* The MAC                                                                 *)
(***************************************************************************)

\* A stop, for lack of energy or not, is the only handler that takes the node
\* down, and starts no reception.
LEMMA StopStartsNothing ==
    ASSUME Next, operating, ~operating'
    PROVE  ~ReceptionStarts
<1>1. ASSUME UNCHANGED operating PROVE FALSE
  BY <1>1
<1>2. ASSUME HandleCrashOperation PROVE ~ReceptionStarts
  BY <1>2 DEF HandleCrashOperation, ReceptionStarts, In
<1>3. CASE \/ \E p \in Packets : UpperPacketIdle(p) \/ UpperPacketQueued(p)
           \/ AwaitRadioReady \/ AwaitTransmitStart
           \/ AwaitReplenished \/ RadioReady
  BY <1>1, <1>3 DEF UpperPacketIdle, UpperPacketQueued, AwaitRadioReady, AwaitTransmitStart,
     AwaitReplenished, RadioReady, macVars
<1>4. CASE \/ TxBackoffTimer \/ TxReady \/ TxEndAwaitAck
           \/ \E fromDestination \in BOOLEAN : TxAckReceived(fromDestination)
           \/ TxAckTimeoutBusy \/ TxAckTimeoutContention \/ TxAckTimeoutComplete
           \/ TxEndAsleep
  BY <1>1, <1>4 DEF TxBackoffTimer, TxReady, TxEndAwaitAck, TxAckReceived,
     TxAckTimeoutBusy, TxAckTimeoutContention, TxAckTimeoutComplete,
     TxEndAsleep, macVars
<1>5. CASE \/ \E frame \in DataFrame \cup {NoFrame} : IdleReceive(frame) \/ AwaitReceive(frame)
           \/ \E frame \in DataFrame :
                RxFirstData(frame) \/ RxRepeatedData(frame) \/ RxFinishRepeatedData(frame)
           \/ RxBackoffTimer \/ RxAckReady \/ RxAckEnd \/ RxRadioReady
           \/ RxDataTimeout \/ RxFinishTimeout \/ NodeStart
  BY <1>1, <1>5 DEF IdleReceive, AwaitReceive, StartReception, RxFirstData, RxRepeatedData,
     RxFinishRepeatedData, RxBackoffTimer, RxAckReady, RxAckEnd, RxRadioReady, RxDataTimeout,
     RxFinishTimeout, NodeStart, macVars
<1> QED
  BY <1>2, <1>3, <1>4, <1>5 DEF Next, NodeStop, AwaitNotReplenished

\* A node that is down starts none either.
LEMMA DownStartsNothing == ~operating => ~ReceptionStarts
BY DEF ReceptionStarts, In

-----------------------------------------------------------------------------
MonitorInv == MonitorTypeOK /\ MeasuresWhileUp

\* The invariant, in terms of what the operations say of the monitor
LEMMA MonitorInvOf ==
    MonitorInv' <=> /\ monitor' \in MonitorState
                    /\ monitor'.measuring <=> operating' /\ InProgress(monitor')
BY DEF MonitorInv, MonitorTypeOK, MonitorState, MeasuresWhileUp, InProgress

\* Nothing is measured before the first start.
LEMMA MonitorInvInit == MonitorInit => MonitorInv
BY DEF MonitorInit, Init, InitVariables, MonitorInv, MonitorTypeOK, MeasuresWhileUp

\* What a step of the MAC, with its signals, makes of the monitor.
LEMMA MonitorInvStep ==
    ASSUME MonitorInv, Next, MonitorStep
    PROVE  MonitorInv'
<1> DEFINE m == [monitor EXCEPT !.collected = "none"]
<1>1. /\ m \in MonitorState
      /\ m.measuring <=> operating /\ InProgress(m)
  BY DEF MonitorInv, MonitorTypeOK, MonitorState, MeasuresWhileUp, InProgress
<1>2. \/ operating' = operating /\ monitor' = ReceiveSignals(m)
      \/ operating /\ ~operating' /\ monitor' = MonitorStops(ReceiveSignals(m))
      \/ operating /\ ~operating' /\ monitor' = ReceiveSignals(MonitorStops(m))
      \/ ~operating /\ operating' /\ monitor' = MonitorStarts(ReceiveSignals(m))
      \/ ~operating /\ operating' /\ monitor' = ReceiveSignals(MonitorStarts(m))
  BY DEF MonitorStep
<1> HIDE DEF m
<1>3. /\ operating => Running(m)
      /\ ~operating => ~m.measuring /\ ~ReceptionStarts
  BY <1>1, DownStartsNothing DEF Running
<1>4. CASE operating' = operating /\ monitor' = ReceiveSignals(m)
  <2>1. /\ monitor' \in MonitorState
        /\ operating => Running(monitor')
        /\ ~operating => ~monitor'.measuring
    BY <1>1, <1>3, <1>4, SignalsKeepRunning
  <2> QED
    BY <1>4, <2>1, MonitorInvOf DEF Running
<1>5. CASE operating /\ ~operating' /\ monitor' = MonitorStops(ReceiveSignals(m))
  <2>1. ReceiveSignals(m) \in MonitorState /\ Running(ReceiveSignals(m))
    BY <1>1, <1>3, <1>5, SignalsKeepRunning
  <2> QED
    BY <1>5, <2>1, StopPauses, MonitorInvOf
<1>6. CASE operating /\ ~operating' /\ monitor' = ReceiveSignals(MonitorStops(m))
  <2>1. MonitorStops(m) \in MonitorState /\ ~MonitorStops(m).measuring
    BY <1>1, <1>3, <1>6, StopPauses
  <2>2. ~ReceptionStarts
    BY <1>6, StopStartsNothing
  <2>3. monitor' \in MonitorState /\ ~monitor'.measuring
    BY <1>6, <2>1, <2>2, SignalsKeepRunning
  <2> QED
    BY <1>6, <2>3, MonitorInvOf
<1>7. CASE ~operating /\ operating' /\ monitor' = MonitorStarts(ReceiveSignals(m))
  <2>1. ReceiveSignals(m) \in MonitorState /\ ~ReceiveSignals(m).measuring
    BY <1>1, <1>3, <1>7, SignalsKeepRunning
  <2> QED
    BY <1>7, <2>1, StartResumes, MonitorInvOf DEF Running
<1>8. CASE ~operating /\ operating' /\ monitor' = ReceiveSignals(MonitorStarts(m))
  <2>1. MonitorStarts(m) \in MonitorState /\ Running(MonitorStarts(m))
    BY <1>1, <1>3, <1>8, StartResumes
  <2>2. monitor' \in MonitorState /\ Running(monitor')
    BY <1>8, <2>1, SignalsKeepRunning
  <2> QED
    BY <1>8, <2>2, MonitorInvOf DEF Running
<1> QED
  BY <1>2, <1>4, <1>5, <1>6, <1>7, <1>8

\* The signals are attributed and the monitor is typed and runs exactly while
\* the node is up.
THEOREM MonitorInvariant == MonitorSpec => []MonitorInv
<1>1. MonitorInv /\ [Next /\ MonitorStep]_monitorVars => MonitorInv'
  <2>1. CASE UNCHANGED monitorVars
    BY <2>1 DEF monitorVars, vars, macVars, MonitorInv, MonitorTypeOK, MeasuresWhileUp
  <2> QED
    BY <2>1, MonitorInvStep
<1> QED
  BY <1>1, MonitorInvInit, PTL DEF MonitorSpec

\* finishMonitoring is only ever given one of its four consumption signals.
THEOREM MonitorTypeCorrect == MonitorSpec => []MonitorTypeOK
BY MonitorInvariant, PTL DEF MonitorInv

\* Energy is measured exactly while the node is up and something is in
\* progress, in whichever order the MAC and its monitor stop and start.
THEOREM MeasuresOnlyWhileUp == MonitorSpec => []MeasuresWhileUp
BY MonitorInvariant, PTL DEF MonitorInv

\* The monitor only listens: the composition is an ORWMac.
THEOREM MonitorOnlyListens == MonitorSpec => Spec
<1>1. MonitorInit => Init
  BY DEF MonitorInit
<1>2. [Next /\ MonitorStep]_monitorVars => [Next]_vars
  BY DEF monitorVars
<1> QED
  BY <1>1, <1>2, PTL DEF MonitorSpec, Spec
=============================================================================
