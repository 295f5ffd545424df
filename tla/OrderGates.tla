----------------------------- MODULE OrderGates -----------------------------
(***************************************************************************)
(* What stands between an order and the market: the fuse and the risk      *)
(* rules.  They share no state, so a behaviour exercises one of the two    *)
(* while the other rests.                                                  *)
(***************************************************************************)
EXTENDS Fuse, RiskGates

VARIABLE gate   \* the gate that a behaviour exercises

GatesInit == gate \in {"fuse", "risk"} /\ Init /\ RiskInit
GatesNext ==
    /\ \/ gate = "fuse" /\ Next /\ UNCHANGED riskVars
       \/ gate = "risk" /\ RiskNext /\ UNCHANGED vars
    /\ UNCHANGED gate
GatesSpec == GatesInit /\ [][GatesNext]_<<gate, vars, riskVars>>
=============================================================================
