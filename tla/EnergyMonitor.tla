---------------------------- MODULE EnergyMonitor ----------------------------
(***************************************************************************)
(* MacEnergyMonitor.cc composed with the ORWMac it listens to.  The MAC    *)
(* emits a signal when a reception starts, ends or is dropped and when a   *)
(* transmission ends; the monitor attributes the energy used since the     *)
(* last start.  Of the energy only the attribution is kept, and whether    *)
(* the starting values of a measurement are set.                           *)
(***************************************************************************)
EXTENDS ORWMac

VARIABLE monitor
    \* inProgress: the signal that started the monitoring in progress
    \* measuring: storedEnergyStartValue, -Time and initialEnergyGeneration set
    \* collected: the consumption signal last emitted in this step

monitorVars == <<vars, monitor>>

StartSignal == {"receptionStarted", "transmissionStarted"}
EndSignal == {"receptionEnded", "receptionDropped", "transmissionEnded"}
ConsumptionSignal == {"receptionConsumption", "falseReceptionConsumption",
                      "transmissionConsumption", "unknownConsumption"}

\* Type invariant.  What finishMonitoring is given to emit is one of its four
\* signals, as it asserts, as long as the node does not crash.
MonitorTypeOK ==
    monitor \in [inProgress : StartSignal \cup {"SIMSIGNAL_NULL"},
                 measuring : BOOLEAN,
                 collected : ConsumptionSignal \cup {"none"}]

MonitorInit ==
    /\ Init
    /\ monitor = [inProgress |-> "SIMSIGNAL_NULL", measuring |-> FALSE, collected |-> "none"]

-----------------------------------------------------------------------------
(***************************************************************************)
(* The monitor.  m is its state, to be changed.                            *)
(***************************************************************************)
ResumeMonitoring(m) == [m EXCEPT !.measuring = TRUE]
PauseMonitoring(m) == [m EXCEPT !.measuring = FALSE]

\* handleStartOperation, handleStopOperation
MonitorStarts(m) == IF m.inProgress = "SIMSIGNAL_NULL" THEN m ELSE ResumeMonitoring(m)

\* Fault: the measurement goes on while the node is down.
MonitorKeepsMeasuring(m) == m

MonitorStops(m) == IF m.inProgress = "SIMSIGNAL_NULL" THEN m ELSE PauseMonitoring(m)

StartMonitoring(m, signal) == ResumeMonitoring([m EXCEPT !.inProgress = signal])

\* Its assertion knows the four consumption signals only.
FinishMonitoring(m, signal) ==
    [inProgress |-> "SIMSIGNAL_NULL",
     measuring |-> FALSE,
     collected |-> IF signal \in ConsumptionSignal THEN signal ELSE "ASSERT"]

IsMatchingEndedSignal(m, signal) ==
    \/ m.inProgress = "receptionStarted" /\ signal \in {"receptionEnded", "receptionDropped"}
    \/ m.inProgress = "transmissionStarted" /\ signal = "transmissionEnded"

\* Fault: the signal of the MAC is passed on as it is.
CompletesUnchanged(m, signal) ==
    IF ~IsMatchingEndedSignal(m, signal) THEN "unknownConsumption" ELSE signal

\* The consumption a signal completes.
Completes(m, signal) ==
    IF ~IsMatchingEndedSignal(m, signal) THEN "unknownConsumption"
    ELSE CASE signal = "receptionEnded" -> "receptionConsumption"
           [] signal = "receptionDropped" -> "falseReceptionConsumption"
           [] signal = "transmissionEnded" -> "transmissionConsumption"

\* A start of what is in progress already is ignored.
ReceiveSignal(m, signal) ==
    IF m.inProgress = signal THEN m
    ELSE IF m.inProgress = "SIMSIGNAL_NULL" /\ signal \in StartSignal
         THEN StartMonitoring(m, signal)
    ELSE FinishMonitoring(m, Completes(m, signal))

-----------------------------------------------------------------------------
(***************************************************************************)
(* The signals of a step of the MAC, read off what the step changes.       *)
(***************************************************************************)

\* Only a reception out of DATA_IDLE announces itself, and no transmission.
ReceptionStarts == In("DATA_IDLE") /\ macState' = "RECEIVE"

\* dropCurrentRxFrame, of the stored frame or of one just rejected
ReceptionDrops ==
    /\ currentRxFrame' = NoFrame
    /\ \/ rxOutcome = "pending" /\ rxOutcome' = "dropped"
       \/ /\ currentRxFrame = NoFrame
          /\ ~Receiving("FINISH") /\ macState' = "RECEIVE" /\ rxState' = "FINISH"
          /\ operating'

\* completePacketReception, of a stored frame.  A reception that times out with
\* nothing stored emits nothing and stays in progress.
ReceptionEnds == rxOutcome = "pending" /\ rxOutcome' = "sentUp"

TransmissionEnds == currentTxFrame # NoFrame /\ currentTxFrame' # currentTxFrame

\* deleteCurrentTxFrame and dropCurrentTxFrame emit it, and so does
\* completePacketTransmission after them.
TransmissionEndsTwice == TransmissionEnds /\ Sending("ACK_WAIT")

\* What becomes of m if the MAC emits a signal or does not
Signalled(m, emitted, signal) == IF emitted THEN ReceiveSignal(m, signal) ELSE m

\* The signals of one step, in the order in which they are emitted
ReceiveSignals(m) ==
    LET started == Signalled(m, ReceptionStarts, "receptionStarted")
        dropped == Signalled(started, ReceptionDrops, "receptionDropped")
        ended   == Signalled(dropped, ReceptionEnds, "receptionEnded")
        sent    == Signalled(ended, TransmissionEnds, "transmissionEnded")
    IN  Signalled(sent, TransmissionEndsTwice, "transmissionEnded")

\* A stop and a start reach the MAC and its monitor in either order.
MonitorStep ==
    LET m == [monitor EXCEPT !.collected = "none"]
    IN  \/ operating' = operating /\ monitor' = ReceiveSignals(m)
        \/ operating /\ ~operating' /\ monitor' = MonitorStops(ReceiveSignals(m))
        \/ operating /\ ~operating' /\ monitor' = ReceiveSignals(MonitorStops(m))
        \/ ~operating /\ operating' /\ monitor' = MonitorStarts(ReceiveSignals(m))
        \/ ~operating /\ operating' /\ monitor' = ReceiveSignals(MonitorStarts(m))

MonitorSpec == MonitorInit /\ [][Next /\ MonitorStep]_monitorVars

-----------------------------------------------------------------------------
\* Energy is measured exactly while the node is up and something is in
\* progress, whichever of the MAC and its monitor a stop or a start reaches
\* first: nothing used or harvested while the node is down is attributed.
MeasuresWhileUp ==
    monitor.measuring <=> operating /\ monitor.inProgress # "SIMSIGNAL_NULL"
=============================================================================
