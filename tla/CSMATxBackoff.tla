--------------------------- MODULE CSMATxBackoff ---------------------------
(***************************************************************************)
(* The carrier sense backoff a MAC creates for one transmission attempt    *)
(* (CSMATxBackoffBase and its two subclasses).  An operator returns what   *)
(* the call leaves behind: the state of the backoff object, the mode of    *)
(* the radio and the timers.  The sampled delays are data; what the        *)
(* control sees of them is that the backoff timer is pending, and that the *)
(* RemainderReciprocal backoff gives up when its window is used up.        *)
(*                                                                         *)
(* "NULL" is the pointer of a MAC that has no backoff, and "ERROR" the     *)
(* failed assertion that the MAC had none before creating one.             *)
(***************************************************************************)
EXTENDS SimServices

BackoffState == {"NULL", "OFF", "WAIT", "SWITCHING", "FINISHED", "ERROR"}

Outcome(state, radio, timers) == [state |-> state, radio |-> radio, timers |-> timers]

\* ASSERTs that the radio listens, then waits for the backoff timer
DelayCarrierSense(radio, timers) ==
    Outcome("WAIT",
            IF radio = "RECEIVER" THEN radio ELSE "ERROR",
            Schedule(timers, "txBackoffTimer", "later"))

\* isCarrierFree() held: the radio starts switching to the transmitter
StartTx(radio, timers) ==
    Outcome("SWITCHING", SetRadioMode(radio, "TRANSMITTER"), timers)

\* The carrier is free only in receiver mode, and then only if the medium is.
\* reciprocal: a RemainderReciprocal backoff, whose calculateBackoff may abort.
StartTxOrBackoff(radio, timers, reciprocal) ==
    (IF radio = "RECEIVER" THEN {StartTx(radio, timers)} ELSE {})
        \cup {DelayCarrierSense(radio, timers)}
        \cup (IF reciprocal THEN {Outcome("OFF", radio, timers)} ELSE {})

\* The first carrier sense of a wake-up, or a first delay
StartTxOrDelay(radio, timers) ==
    (IF radio = "RECEIVER" THEN {StartTx(radio, timers)} ELSE {})
        \cup {DelayCarrierSense(radio, timers)}

\* process(START) of a fresh backoff whose radio is not listening yet
StartCold(radio, timers) ==
    Outcome("WAIT", SetRadioMode(radio, "RECEIVER"), timers)
=============================================================================
