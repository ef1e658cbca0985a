---------------------------- MODULE SimServices ----------------------------
(***************************************************************************)
(* The services of the simulation that the link layer drives and that live *)
(* outside this repository: self messages, and the mode switch of an INET  *)
(* radio.  A misused radio throws as well, and is left in mode "ERROR".    *)
(***************************************************************************)
EXTENDS SelfMessages

CONSTANT
    InstantSleep    \* RECEIVER->SLEEP and TRANSMITTER->SLEEP take no time

ASSUME InstantSleepAssumption == InstantSleep \in BOOLEAN

(***************************************************************************)
(* IRadio::RADIO_MODE_SWITCHING is split by the mode switched to.          *)
(***************************************************************************)
SwitchingTo ==
    [SLEEP |-> "TO_SLEEP", RECEIVER |-> "TO_RECEIVER", TRANSMITTER |-> "TO_TRANSMITTER"]

Switching == {"TO_SLEEP", "TO_RECEIVER", "TO_TRANSMITTER"}

RadioMode == {"OFF", "SLEEP", "RECEIVER", "TRANSMITTER", "ERROR"} \cup Switching

\* Radio::setRadioMode, which throws while an earlier switch is in progress
SetRadioMode(mode, target) ==
    IF mode \in Switching \cup {"ERROR"} THEN "ERROR"
    ELSE IF mode = target \/ (target = "SLEEP" /\ InstantSleep) THEN target
    ELSE SwitchingTo[target]
=============================================================================
