---------------------------- MODULE MCOrderSync ----------------------------
(* OrderSync with all orders in one stock, of which one share is held at   *)
(* the start.                                                              *)
EXTENDS OrderSync, TLC

CONSTANT stockA

OneStock == [o \in Orders |-> stockA]
OneHeld  == stockA :> 1
=============================================================================
