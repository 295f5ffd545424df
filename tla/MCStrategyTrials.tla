-------------------------- MODULE MCStrategyTrials --------------------------
(* StrategyTrials with all simulated orders in one stock. *)
EXTENDS StrategyTrials, TLC

CONSTANT stockA

OneStock == [o \in Orders |-> stockA]
=============================================================================
