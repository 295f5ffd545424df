------------------------- MODULE MCStrategyVersions -------------------------
(***************************************************************************)
(* The two partial updates of a client: switch the strategy on and keep    *)
(* its parameters, and change the parameters and keep the switch.          *)
(* Requests are alike.                                                     *)
(***************************************************************************)
EXTENDS StrategyVersions, TLC

CONSTANTS p0, p1

PartialUpdates == {[enabled |-> TRUE, params |-> Nothing],
                   [enabled |-> Nothing, params |-> p1]}
RequestSymmetry == Permutations(Requests)
=============================================================================
