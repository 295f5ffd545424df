--------------------------- MODULE OrderExecution ---------------------------
(***************************************************************************)
(* The path of an order, or of an operation that needs the same authority, *)
(* from a human approval to its effect: approvals requested and confirmed  *)
(* by two people, order intents keyed by (principal, client key), the      *)
(* consumption of the approval, the broker outbox committed before the     *)
(* broker is called, the call, and what is recorded of its answer.  Every  *)
(* request runs in its own database session; the row of an intent or an    *)
(* outbox entry is named by the request that created it.  A transaction's  *)
(* writes appear in the variables when it commits; until then the locks it *)
(* holds follow from where its request stands.                             *)
(*                                                                         *)
(* Sources: trade/execution_authorization.py, trade/order_manager.py,      *)
(* trade/live_trader.py (submit_order), api/trade.py, api/risk.py.         *)
(***************************************************************************)
EXTENDS Naturals, FiniteSets

CONSTANTS
    Requests,          \* executions of a handler: POST order, cancel, recover, ...
    Approvals,         \* rows of trade.execution_approvals
    Principals,        \* authenticated callers
    Humans,            \* those whose principal_type is human
    Keys,              \* client intent keys
    PaperPayloads,     \* order payloads of mode paper
    LivePayloads,      \* order payloads of mode live
    SimulatedPayloads, \* order payloads of mode simulation
    Operations,        \* payloads of cancel, fuse recovery, T+1 release, reconcile
    None               \* NULL

BrokerPayloads == PaperPayloads \cup LivePayloads
Orders   == BrokerPayloads \cup SimulatedPayloads
Payloads == Orders \cup Operations

ASSUME HumansAssumption == Humans \subseteq Principals
ASSUME NoneAssumption ==
    None \notin Requests \cup Approvals \cup Principals \cup Keys \cup Payloads
ASSUME PayloadAssumption ==
    /\ PaperPayloads \cap LivePayloads = {}
    /\ BrokerPayloads \cap SimulatedPayloads = {}
    /\ Orders \cap Operations = {}

VARIABLES
    approval,      \* the approval rows
    expired,       \* approvals whose expires_at has passed
    consumedFor,   \* the request named in the approval's 'consumed' event
    intent,        \* order_intents.status, by creating request
    window,        \* intents whose 15 minutes have not passed
    latest,        \* the newest generation of each (principal, key)
    outbox,        \* broker_outbox.status, by the intent's request
    orders,        \* requests whose row is in trade.orders
    broker,        \* what the broker did with a request's order
    performed,     \* requests whose operation was carried out
    req,           \* the arguments a request came with
    pc             \* how far its handler has come

rows == <<approval, expired, consumedFor, intent, window, latest, outbox, orders>>
vars == <<rows, broker, performed, req, pc>>

ApprovalRow == [status   : {"none", "requested", "approved", "consumed"},
                by       : Humans \cup {None},
                approver : Humans \cup {None},
                payload  : Payloads \cup {None}]
Request == [who : Principals, key : Keys, payload : Payloads,
            approval : Approvals \cup {None}]
Slots == Principals \X Keys
Steps == {"idle", "received", "created", "authorized", "committed",
          "answered", "failed", "done"}

TypeOK ==
    /\ approval \in [Approvals -> ApprovalRow]
    /\ expired \subseteq Approvals
    /\ consumedFor \in [Approvals -> Requests \cup {None}]
    /\ intent \in [Requests -> {"none", "pending", "submitted", "uncertain", "rejected"}]
    /\ window \subseteq Requests
    /\ latest \in [Slots -> Requests \cup {None}]
    /\ outbox \in [Requests -> {"none", "pending", "sent", "uncertain"}]
    /\ orders \subseteq Requests
    /\ broker \in [Requests -> {"none", "accepted", "refused"}]
    /\ performed \subseteq Requests
    /\ req \in [Requests -> Request \cup {None}]
    /\ pc \in [Requests -> Steps]

Init ==
    /\ approval = [a \in Approvals |-> [status |-> "none", by |-> None,
                                        approver |-> None, payload |-> None]]
    /\ expired = {} /\ window = {} /\ orders = {} /\ performed = {}
    /\ consumedFor = [a \in Approvals |-> None]
    /\ intent = [r \in Requests |-> "none"]
    /\ latest = [s \in Slots |-> None]
    /\ outbox = [r \in Requests |-> "none"]
    /\ broker = [r \in Requests |-> "none"]
    /\ req = [r \in Requests |-> None]
    /\ pc = [r \in Requests |-> "idle"]

-----------------------------------------------------------------------------
(* Approvals: two people and a clock. *)

ApprovalsUnchanged == UNCHANGED <<approval, expired, consumedFor>>
IntentsUnchanged   == UNCHANGED <<intent, window, latest, outbox, orders>>
RequestsUnchanged  == UNCHANGED <<broker, performed, req, pc>>

\* request_order_approval, request_operation_approval: a human asks; the
\* check of the data authorisation may also refuse, which changes nothing.
RequestApproval(a) ==
    /\ approval[a].status = "none"
    /\ \E h \in Humans, p \in Payloads :
          approval' = [approval EXCEPT ![a] = [status |-> "requested", by |-> h,
                                               approver |-> None, payload |-> p]]
    /\ UNCHANGED <<expired, consumedFor>> /\ IntentsUnchanged /\ RequestsUnchanged

\* approve_order: a compare-and-set that only another human can win.
Approve(a) ==
    /\ approval[a].status = "requested" /\ a \notin expired
    /\ \E h \in Humans \ {approval[a].by} :
          approval' = [approval EXCEPT ![a].status = "approved", ![a].approver = h]
    /\ UNCHANGED <<expired, consumedFor>> /\ IntentsUnchanged /\ RequestsUnchanged

ApprovalExpires(a) ==
    /\ approval[a].status \in {"requested", "approved"} /\ a \notin expired
    /\ expired' = expired \cup {a}
    /\ UNCHANGED <<approval, consumedFor>> /\ IntentsUnchanged /\ RequestsUnchanged

\* The checks consumption makes on the row it has locked.
Usable(r) ==
    LET a == req[r].approval IN
    /\ a # None
    /\ req[r].who \in Humans
    /\ approval[a].status = "approved" /\ a \notin expired
    /\ approval[a].payload = req[r].payload
    /\ approval[a].by = req[r].who
    /\ approval[a].approver # approval[a].by

\* The UPDATE ... SET status = 'consumed' and the event that names r.
Consume(r) ==
    LET a == req[r].approval IN
    /\ approval' = [approval EXCEPT ![a].status = "consumed"]
    /\ consumedFor' = [consumedFor EXCEPT ![a] = r]
    /\ UNCHANGED expired

-----------------------------------------------------------------------------
(* A request and the locks of its first transaction. *)

Slot(r)    == <<req[r].who, req[r].key>>
IsOrder(r) == req[r].payload \in Orders
ForBroker(r) == req[r].payload \in BrokerPayloads
InFirstTx(r) == pc[r] \in {"created", "authorized"}

\* Mutant: no advisory lock.
SlotNeverLocked(r) == FALSE

\* The advisory lock of (principal, key) is held to the end of the transaction,
\* and so is the row lock of a consumed approval.
SlotLocked(r) == \E q \in Requests \ {r} : InFirstTx(q) /\ Slot(q) = Slot(r)
ApprovalLocked(r) ==
    /\ req[r].approval # None
    /\ \E q \in Requests \ {r} :
        pc[q] = "authorized" /\ req[q].approval = req[r].approval

Goto(r, step) == pc' = [pc EXCEPT ![r] = step]

Receive(r) ==
    /\ pc[r] = "idle"
    /\ \E q \in Request : req' = [req EXCEPT ![r] = q]
    /\ Goto(r, "received")
    /\ UNCHANGED <<broker, performed>> /\ ApprovalsUnchanged /\ IntentsUnchanged

\* The newest generation of the slot is still inside its window.
ActiveIntent(r) == latest[Slot(r)] # None /\ latest[Slot(r)] \in window

\* create_order_intent finds an active generation: the same payload gets its
\* state back, another payload is a conflict.  Neither goes any further.
RepeatedKey(r) ==
    /\ pc[r] = "received" /\ IsOrder(r)
    /\ ~SlotLocked(r) /\ ActiveIntent(r)
    /\ Goto(r, "done")
    /\ UNCHANGED <<broker, performed, req>> /\ ApprovalsUnchanged /\ IntentsUnchanged

\* ... and finds none: the next generation is inserted, not yet committed.
CreateIntent(r) ==
    /\ pc[r] = "received" /\ IsOrder(r)
    /\ ~SlotLocked(r) /\ ~ActiveIntent(r)
    /\ Goto(r, "created")
    /\ UNCHANGED <<broker, performed, req>> /\ ApprovalsUnchanged /\ IntentsUnchanged

\* The transaction commits the intent with the given status.
CommitIntent(r, status) ==
    /\ intent' = [intent EXCEPT ![r] = status]
    /\ window' = window \cup {r}
    /\ latest' = [latest EXCEPT ![Slot(r)] = r]

Reject(r) ==
    /\ CommitIntent(r, "rejected")
    /\ Goto(r, "done")
    /\ UNCHANGED <<outbox, orders, broker, performed, req>> /\ ApprovalsUnchanged

\* The execution gate, the live guards, the fuse or a risk rule says no.
RejectByChecks(r) == pc[r] = "created" /\ Reject(r)

\* consume_order_approval raises; the data authorisation may have lapsed.
RefuseApproval(r) ==
    /\ pc[r] = "created" /\ ~ApprovalLocked(r)
    /\ \E dataAuthorized \in BOOLEAN : ~(Usable(r) /\ dataAuthorized)
    /\ Reject(r)

\* All checks passed and the approval row is locked and updated.
AuthorizeOrder(r) ==
    /\ pc[r] = "created" /\ ~ApprovalLocked(r) /\ Usable(r)
    /\ Goto(r, "authorized")
    /\ UNCHANGED <<broker, performed, req>> /\ ApprovalsUnchanged /\ IntentsUnchanged

\* Mutant: the consumption is left to a later commit.
CommitOutboxUnconsumed(r) ==
    /\ pc[r] = "authorized" /\ ForBroker(r)
    /\ ApprovalsUnchanged /\ CommitIntent(r, "pending")
    /\ outbox' = [outbox EXCEPT ![r] = "pending"]
    /\ Goto(r, "committed")
    /\ UNCHANGED <<orders, broker, performed, req>>

\* Paper and live: intent, consumption and outbox entry in one commit.
CommitOutbox(r) ==
    /\ pc[r] = "authorized" /\ ForBroker(r)
    /\ Consume(r) /\ CommitIntent(r, "pending")
    /\ outbox' = [outbox EXCEPT ![r] = "pending"]
    /\ Goto(r, "committed")
    /\ UNCHANGED <<orders, broker, performed, req>>

\* Simulation: the order, the intent and the consumption are one transaction.
SimulateOrder(r) ==
    /\ pc[r] = "authorized" /\ ~ForBroker(r)
    /\ Consume(r)
    /\ \/ CommitIntent(r, "submitted") /\ orders' = orders \cup {r}
       \/ CommitIntent(r, "rejected") /\ UNCHANGED orders
    /\ Goto(r, "done")
    /\ UNCHANGED <<outbox, broker, performed, req>>

-----------------------------------------------------------------------------
(* The broker and what is recorded of its answer. *)

Mark(r, intentStatus, outboxStatus) ==
    /\ intent' = [intent EXCEPT ![r] = intentStatus]
    /\ outbox' = [outbox EXCEPT ![r] = outboxStatus]
    /\ UNCHANGED <<window, latest>>

\* The live adapter could not be built for this request: there is no trader.
NoTrader(r) ==
    /\ pc[r] = "committed" /\ req[r].payload \in LivePayloads
    /\ Mark(r, "rejected", outbox[r]) /\ Goto(r, "done")
    /\ UNCHANGED <<orders, broker, performed, req>> /\ ApprovalsUnchanged

\* The adapter answers, or raises after or before the broker took the order.
CallBroker(r) ==
    /\ pc[r] = "committed" /\ ForBroker(r)
    /\ \E taken \in {"accepted", "refused"}, step \in {"answered", "failed"} :
          /\ broker' = [broker EXCEPT ![r] = taken]
          /\ Goto(r, step)
    /\ UNCHANGED <<performed, req>> /\ ApprovalsUnchanged /\ IntentsUnchanged

\* LiveTrader.submit_order inserts the local order, then both rows are marked.
RecordAnswer(r) ==
    /\ pc[r] = "answered"
    /\ orders' = orders \cup {r}
    /\ IF broker[r] = "accepted" THEN Mark(r, "submitted", "sent")
                                 ELSE Mark(r, "uncertain", "uncertain")
    /\ Goto(r, "done")
    /\ UNCHANGED <<broker, performed, req>> /\ ApprovalsUnchanged

\* Mutant: a failed call is recorded like a failed simulation.
RecordUncertainAsRejected(r) ==
    /\ pc[r] = "failed"
    /\ Mark(r, "rejected", "uncertain") /\ Goto(r, "done")
    /\ UNCHANGED <<orders, broker, performed, req>> /\ ApprovalsUnchanged

\* The adapter raised: no local order, and nobody knows what the broker did.
RecordUncertain(r) ==
    /\ pc[r] = "failed"
    /\ Mark(r, "uncertain", "uncertain") /\ Goto(r, "done")
    /\ UNCHANGED <<orders, broker, performed, req>> /\ ApprovalsUnchanged

\* An exception rolls the open transaction back, or the process dies: what was
\* committed stays, the rest is gone, and nobody takes the request up again.
Abort(r) ==
    /\ pc[r] \notin {"idle", "done"}
    /\ Goto(r, "done")
    /\ UNCHANGED <<broker, performed, req>> /\ ApprovalsUnchanged /\ IntentsUnchanged

IntentExpires(r) ==
    /\ r \in window
    /\ window' = window \ {r}
    /\ UNCHANGED <<intent, latest, outbox, orders>>
    /\ ApprovalsUnchanged /\ RequestsUnchanged

-----------------------------------------------------------------------------
(* Operations: the approval is consumed in a transaction of its own. *)

ConsumeOperation(r) ==
    /\ pc[r] = "received" /\ ~IsOrder(r)
    /\ ~ApprovalLocked(r) /\ Usable(r)
    /\ Consume(r) /\ Goto(r, "committed")
    /\ UNCHANGED <<broker, performed, req>> /\ IntentsUnchanged

RefuseOperation(r) ==
    /\ pc[r] = "received" /\ ~IsOrder(r)
    /\ ~ApprovalLocked(r) /\ ~Usable(r)
    /\ Goto(r, "done")
    /\ UNCHANGED <<broker, performed, req>> /\ ApprovalsUnchanged /\ IntentsUnchanged

\* The operation itself, in a later transaction (the reconciliation in a job,
\* which checks that the consumed approval names it).
PerformOperation(r) ==
    /\ pc[r] = "committed" /\ ~IsOrder(r)
    /\ performed' = performed \cup {r}
    /\ Goto(r, "done")
    /\ UNCHANGED <<broker, req>> /\ ApprovalsUnchanged /\ IntentsUnchanged

-----------------------------------------------------------------------------
(* The specification. *)

\* What a handler does by itself once a request has come in and its checks
\* have passed; it waits only for the locks.
Handle(r) ==
    \/ RepeatedKey(r) \/ CreateIntent(r)
    \/ RefuseApproval(r) \/ AuthorizeOrder(r)
    \/ CommitOutbox(r) \/ SimulateOrder(r)
    \/ NoTrader(r) \/ CallBroker(r) \/ RecordAnswer(r) \/ RecordUncertain(r)
    \/ ConsumeOperation(r) \/ RefuseOperation(r) \/ PerformOperation(r)

Next ==
    \/ \E a \in Approvals : RequestApproval(a) \/ Approve(a) \/ ApprovalExpires(a)
    \/ \E r \in Requests : \/ Receive(r) \/ RejectByChecks(r) \/ Abort(r)
                           \/ IntentExpires(r) \/ Handle(r)

Spec == Init /\ [][Next]_vars

-----------------------------------------------------------------------------
(* Properties. *)

\* A request that had an effect: its order was handed to the broker or booked
\* by the simulation, or its operation was carried out.
Served(r) == broker[r] # "none" \/ r \in orders \/ r \in performed

\* One approval never pays for two effects, whichever handlers raced for it
\* (FOR UPDATE and the compare-and-set of consume_order_approval).
SingleUse ==
    \A q, r \in Requests :
        q # r /\ Served(q) /\ Served(r) => req[q].approval # req[r].approval

\* Whatever reached the broker, the books or an operation is covered by a
\* committed consumption that names it, asked for by the caller, confirmed by
\* another human, for exactly this payload.
EffectIsAuthorized ==
    \A r \in Requests : Served(r) =>
        LET a == req[r].approval IN
        /\ a # None /\ consumedFor[a] = r
        /\ approval[a].status = "consumed"
        /\ approval[a].payload = req[r].payload
        /\ approval[a].by = req[r].who
        /\ approval[a].approver \in Humans \ {req[r].who}

\* Within the 15-minute window of an intent key at most one intent lives, so a
\* client that repeats its request cannot place a second order.
OneIntentPerWindow ==
    \A q, r \in window : q # r => Slot(q) # Slot(r)

\* Orders, bookings and operations happen under one approval each, given by
\* another human for just that request, and once per intent window.
OrdersAreAuthorizedOnce ==
    TypeOK /\ SingleUse /\ EffectIsAuthorized /\ OneIntentPerWindow

\* The rows written before the call and after it agree with what happened: a
\* rejected intent never reached the broker, an entry marked sent was taken and
\* has its local order, and the outbox tells as much as the intent.
RowsTellTheTruth ==
    \A r \in Requests :
        /\ broker[r] # "none" => outbox[r] # "none" /\ intent[r] # "rejected"
        /\ outbox[r] = "sent" => broker[r] = "accepted" /\ r \in orders
        /\ outbox[r] # "none" =>
              (outbox[r] = "pending" <=> intent[r] \in {"pending", "rejected"})

\* An intent leaves 'pending' once; a settled one is never rewritten, not even
\* by a later generation of its key.
IntentMovesOnce ==
    [][\A r \in Requests :
          \/ intent'[r] = intent[r]
          \/ intent[r] = "none"
          \/ intent[r] = "pending" /\ intent'[r] # "none"]_vars

\* The approvals as the two signers see them.
Contract == INSTANCE ApprovalContract WITH
    Users   <- Requests,
    phase   <- [a \in Approvals |-> approval[a].status],
    spentBy <- consumedFor,
    effects <- [a \in Approvals |->
                  {r \in Requests : Served(r) /\ req[r].approval = a}]
ImplementsApproval == Contract!Spec

=============================================================================
