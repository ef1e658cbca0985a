--------------------------- MODULE ReceptionEnergy ---------------------------
(***************************************************************************)
(* EnergyMonitor with a history variable: has the reception that is being  *)
(* measured also been measured while the MAC was not receiving?            *)
(***************************************************************************)
EXTENDS EnergyMonitor

VARIABLE measuredElsewhere

receptionVars == <<monitorVars, measuredElsewhere>>

ReceptionInit == MonitorInit /\ measuredElsewhere = FALSE

\* It has been, or is now.
MeasuredElsewhere ==
    \/ measuredElsewhere
    \/ /\ monitor.measuring /\ monitor.inProgress = "receptionStarted"
       /\ macState # "RECEIVE"

ReceptionNext ==
    /\ Next /\ MonitorStep
    /\ measuredElsewhere' = (MeasuredElsewhere /\ monitor'.collected = "none")

ReceptionSpec == ReceptionInit /\ [][ReceptionNext]_receptionVars

\* MacEnergyMonitor.ned:18, "Energy consumption for reception": the energy
\* recorded as that of a reception was spent while the MAC received, not while
\* it waited or transmitted.
OnlyReceptionRecorded ==
    [][monitor'.collected = "receptionConsumption"
         => ~MeasuredElsewhere]_receptionVars
=============================================================================
