--------------------------- MODULE WakeUpMacTries ---------------------------
(***************************************************************************)
(* WakeUpMac with a history variable: the tries made for the packet that   *)
(* is current, beside txInProgressTries, the code's own count.             *)
(***************************************************************************)
EXTENDS WakeUpMac

VARIABLE triesOfCurrent

triesVars == <<wuAllVars, triesOfCurrent>>

TriesInit == WakeUpInit /\ triesOfCurrent = 0

\* A try is a wake-up sent for the packet, as in the code.  The count saturates.
WakeUpSent == Sending("WAKE_UP_WAIT") /\ txDataState' = "WAKE_UP"

TriesNext ==
    /\ WakeUpNext
    /\ LET before == IF currentTxFrame' = currentTxFrame THEN triesOfCurrent ELSE 0
       IN  triesOfCurrent' = IF WakeUpSent /\ before < MaxTxTries THEN before + 1 ELSE before

TriesSpec == TriesInit /\ [][TriesNext]_triesVars

\* ORWMac.ned:52, "Number of Tries till packet discarded or received", and
\* ORWMac.cc:281, "Reset progress counters", where a packet's transmission is
\* set up: each packet has maxTxTries tries of its own before it is dropped
\* with NO_ROUTE_FOUND.
DroppedAfterMaxTries ==
    [][\A p \in Packets : outcome[p] # "noRoute" /\ outcome'[p] = "noRoute"
         => triesOfCurrent >= MaxTxTries]_triesVars
=============================================================================
