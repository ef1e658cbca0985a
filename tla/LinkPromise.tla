----------------------------- MODULE LinkPromise -----------------------------
(***************************************************************************)
(* What a node's link layer promises the network layer above it, without   *)
(* radio, timers, acknowledgments or energy: it keeps the packets handed   *)
(* down in the order they came, serves the oldest and reports what became  *)
(* of it, and pushes out an old packet only to make room for a new one.    *)
(* It loses none, whatever the node's battery, crashes and restarts do.    *)
(***************************************************************************)
EXTENDS Naturals, Sequences

CONSTANTS
    Packets,   \* packets of the network layer, each handed down once
    Capacity   \* packets kept, besides one being served

VARIABLES
    outcome,   \* what became of each packet
    held       \* the packets in the link layer's keeping, oldest first

Init ==
    /\ outcome = [p \in Packets |-> "new"]
    /\ held = <<>>

\* There is room for one more.
Accept(p) ==
    /\ outcome[p] = "new"
    /\ Len(held) <= Capacity
    /\ held' = Append(held, p)
    /\ outcome' = [outcome EXCEPT ![p] = "held"]

\* There is none: the oldest goes, or the oldest of those not being served.
AcceptOverflow(p) ==
    /\ outcome[p] = "new"
    /\ Len(held) >= Capacity
    /\ \/ /\ held # <<>>
          /\ held' = Append(Tail(held), p)
          /\ outcome' = [outcome EXCEPT ![p] = "held", ![Head(held)] = "overflow"]
       \/ /\ Len(held) > 1
          /\ held' = <<Head(held)>> \o Append(Tail(Tail(held)), p)
          /\ outcome' = [outcome EXCEPT ![p] = "held", ![held[2]] = "overflow"]

\* The oldest has been sent, or given up after the last try.
Resolve ==
    /\ held # <<>>
    /\ \E result \in {"sent", "noRoute"} :
         outcome' = [outcome EXCEPT ![Head(held)] = result]
    /\ held' = Tail(held)

\* The oldest, tried in vain, gives way to the one behind it.
GiveWay ==
    /\ Len(held) > 1
    /\ outcome' = [outcome EXCEPT ![Head(held)] = "overflow"]
    /\ held' = Tail(held)

Next ==
    \/ \E p \in Packets : Accept(p) \/ AcceptOverflow(p)
    \/ Resolve
    \/ GiveWay

Spec == Init /\ [][Next]_<<outcome, held>>
=============================================================================
