---------------------------- MODULE SelfMessages ----------------------------
(***************************************************************************)
(* OMNeT++ self messages ("timers"), outside this repository, as its       *)
(* modules use them.  Misuse throws a cRuntimeError; here it leaves the    *)
(* value "error" behind, so that "the simulation never throws" is a state  *)
(* invariant of the modules that have timers.                              *)
(***************************************************************************)

(***************************************************************************)
(* A timer is off, due at the current simulation time, or due later.       *)
(***************************************************************************)
TimerState == {"off", "now", "later", "error"}

\* cMessage::isScheduled
IsScheduled(timers, t) == timers[t] # "off"

\* cSimpleModule::scheduleAt, which throws for a message already scheduled
Schedule(timers, t, due) ==
    [timers EXCEPT ![t] = IF timers[t] = "off" THEN due ELSE "error"]

\* cSimpleModule::cancelEvent; a fired timer leaves the event set as well
Cancel(timers, t) == [timers EXCEPT ![t] = "off"]
=============================================================================
