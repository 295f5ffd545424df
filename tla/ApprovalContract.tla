-------------------------- MODULE ApprovalContract --------------------------
(***************************************************************************)
(* What a human approval promises to the two people who sign it: it is     *)
(* requested by one, confirmed by another, spent once for one purpose, and *)
(* has at most one effect, never before it was spent.  Intents, locks,     *)
(* outbox rows, brokers and crashes are not visible.                       *)
(***************************************************************************)
EXTENDS Naturals

CONSTANTS Approvals, Users, None     \* Users: the requests an approval may serve

VARIABLES phase,      \* what the approval row says
          spentBy,    \* the request it was spent for
          effects     \* the requests that reached the broker, the books or the
                      \* operation on the strength of it

contractVars == <<phase, spentBy, effects>>

Phases == {"none", "requested", "approved", "consumed"}

Init ==
    /\ phase = [a \in Approvals |-> "none"]
    /\ spentBy = [a \in Approvals |-> None]
    /\ effects = [a \in Approvals |-> {}]

Move(a, from, to) == phase[a] = from /\ phase' = [phase EXCEPT ![a] = to]

Request(a) == Move(a, "none", "requested") /\ UNCHANGED <<spentBy, effects>>
Confirm(a) == Move(a, "requested", "approved") /\ UNCHANGED <<spentBy, effects>>

\* The effect comes with the spending (one transaction), after it, or never.
Spend(a, u) ==
    /\ Move(a, "approved", "consumed")
    /\ spentBy' = [spentBy EXCEPT ![a] = u]
    /\ effects' \in {effects, [effects EXCEPT ![a] = {u}]}

Effect(a) ==
    /\ phase[a] = "consumed" /\ effects[a] = {}
    /\ effects' = [effects EXCEPT ![a] = {spentBy[a]}]
    /\ UNCHANGED <<phase, spentBy>>

Next == \E a \in Approvals :
            \/ Request(a) \/ Confirm(a) \/ Effect(a)
            \/ \E u \in Users : Spend(a, u)

Spec == Init /\ [][Next]_contractVars
=============================================================================
