----------------------------- MODULE MCOrwHello -----------------------------
(***************************************************************************)
(* Model checking of OrwHello: the hub, and another address that the       *)
(* network layer sends to.                                                 *)
(***************************************************************************)
EXTENDS OrwHello

OneDestination == <<"hub">>
=============================================================================
