------------------------ MODULE OrderExecutionProofs ------------------------
(***************************************************************************)
(* Proofs about OrderExecution for any number of requests, approvals,      *)
(* principals, keys and payloads.                                          *)
(***************************************************************************)
EXTENDS OrderExecution, TLAPS

\* A request that has come in has its arguments: the strengthening that makes
\* the fields of req[r] well-typed; an authorised order names an approval.
Begun ==
    \A r \in Requests :
        /\ pc[r] # "idle" => req[r] \in Request
        /\ pc[r] = "authorized" => req[r].approval \in Approvals

TypeInv == TypeOK /\ Begun

LEMMA TypeInvInit == Init => TypeInv
  BY DEF Init, TypeInv, TypeOK, Begun, ApprovalRow, Steps

\* A handler's step keeps its arguments and moves its own control only.
LEMMA GotoType ==
    ASSUME TypeInv, NEW r \in Requests, pc[r] # "idle", NEW s \in Steps \ {"idle"},
           Goto(r, s), req' = req, s = "authorized" => req[r].approval \in Approvals
    PROVE  pc' \in [Requests -> Steps] /\ req' \in [Requests -> Request \cup {None}] /\ Begun'
  BY DEF TypeInv, TypeOK, Begun, Goto

LEMMA ConsumeType ==
    ASSUME TypeInv, NEW r \in Requests, req[r].approval \in Approvals, Consume(r)
    PROVE  /\ approval' \in [Approvals -> ApprovalRow]
           /\ expired' \subseteq Approvals
           /\ consumedFor' \in [Approvals -> Requests \cup {None}]
  <1> DEFINE a == req[r].approval
  <1>1. approval[a] \in ApprovalRow
    BY DEF TypeInv, TypeOK
  <1>2. [approval[a] EXCEPT !.status = "consumed"] \in ApprovalRow
    BY <1>1 DEF ApprovalRow
  <1> QED  BY <1>2 DEF TypeInv, TypeOK, Consume

LEMMA CommitIntentType ==
    ASSUME TypeInv, NEW r \in Requests, req[r] \in Request,
           NEW st \in {"pending", "submitted", "rejected"}, CommitIntent(r, st)
    PROVE  /\ intent' \in [Requests -> {"none", "pending", "submitted", "uncertain", "rejected"}]
           /\ window' \subseteq Requests
           /\ latest' \in [Slots -> Requests \cup {None}]
  <1>1. Slot(r) \in Slots
    BY DEF Slot, Slots, Request
  <1> QED  BY <1>1 DEF TypeInv, TypeOK, CommitIntent

LEMMA MarkType ==
    ASSUME TypeInv, NEW r \in Requests, NEW i \in {"submitted", "uncertain", "rejected"},
           NEW o \in {"pending", "sent", "uncertain", outbox[r]}, Mark(r, i, o)
    PROVE  /\ intent' \in [Requests -> {"none", "pending", "submitted", "uncertain", "rejected"}]
           /\ window' \subseteq Requests
           /\ latest' \in [Slots -> Requests \cup {None}]
           /\ outbox' \in [Requests -> {"none", "pending", "sent", "uncertain"}]
  BY DEF TypeInv, TypeOK, Mark

LEMMA TypeInvStep == TypeInv /\ [Next]_vars => TypeInv'
  <1> SUFFICES ASSUME TypeInv, [Next]_vars PROVE TypeInv'
    OBVIOUS
  <1> USE DEF TypeInv
  <1>1. ASSUME NEW a \in Approvals, RequestApproval(a) PROVE TypeInv'
    <2>1. PICK h \in Humans, p \in Payloads :
            approval' = [approval EXCEPT ![a] = [status |-> "requested", by |-> h,
                                                 approver |-> None, payload |-> p]]
      BY <1>1 DEF RequestApproval
    <2>2. [status |-> "requested", by |-> h, approver |-> None, payload |-> p] \in ApprovalRow
      BY DEF ApprovalRow
    <2> QED
      BY <1>1, <2>1, <2>2 DEF TypeOK, Begun, RequestApproval, IntentsUnchanged, RequestsUnchanged
  <1>2. ASSUME NEW a \in Approvals, Approve(a) PROVE TypeInv'
    <2>1. PICK h \in Humans \ {approval[a].by} :
            approval' = [approval EXCEPT ![a].status = "approved", ![a].approver = h]
      BY <1>2 DEF Approve
    <2>2. approval[a] \in ApprovalRow
      BY DEF TypeOK
    <2>3. [approval[a] EXCEPT !.status = "approved", !.approver = h] \in ApprovalRow
      BY <2>2 DEF ApprovalRow
    <2>4. approval' \in [Approvals -> ApprovalRow]
      BY <2>1, <2>2, <2>3 DEF TypeOK
    <2> QED
      BY <1>2, <2>4 DEF TypeOK, Begun, Approve, IntentsUnchanged, RequestsUnchanged
  <1>3. ASSUME NEW a \in Approvals, ApprovalExpires(a) PROVE TypeInv'
    BY <1>3 DEF TypeOK, Begun, ApprovalExpires, IntentsUnchanged, RequestsUnchanged
  <1>4. ASSUME NEW r \in Requests, Receive(r) PROVE TypeInv'
    BY <1>4 DEF TypeOK, Begun, Receive, Goto, ApprovalsUnchanged, IntentsUnchanged, Steps
  <1>5. ASSUME NEW r \in Requests, Reject(r), pc[r] = "created" PROVE TypeInv'
    <2>1. req[r] \in Request
      BY <1>5 DEF Begun
    <2> QED
      BY <1>5, <2>1, CommitIntentType, GotoType
         DEF TypeOK, Reject, ApprovalsUnchanged, Steps
  <1>6. ASSUME NEW r \in Requests, RepeatedKey(r) \/ CreateIntent(r)
                                   \/ Abort(r) \/ RefuseOperation(r)
        PROVE  TypeInv'
    BY <1>6, GotoType DEF TypeOK, RepeatedKey, CreateIntent, Abort,
       RefuseOperation, ApprovalsUnchanged, IntentsUnchanged, Steps
  <1>7. ASSUME NEW r \in Requests, AuthorizeOrder(r) PROVE TypeInv'
    <2>1. req[r].approval \in Approvals
      BY <1>7 DEF AuthorizeOrder, Usable, Begun, Request
    <2> QED
      BY <1>7, <2>1, GotoType DEF TypeOK, AuthorizeOrder, ApprovalsUnchanged,
         IntentsUnchanged, Steps
  <1>8. ASSUME NEW r \in Requests, CommitOutbox(r) PROVE TypeInv'
    <2>1. req[r] \in Request /\ req[r].approval \in Approvals
      BY <1>8 DEF Begun, CommitOutbox
    <2> QED
      BY <1>8, <2>1, ConsumeType, CommitIntentType, GotoType DEF TypeOK, CommitOutbox, Steps
  <1>9. ASSUME NEW r \in Requests, SimulateOrder(r) PROVE TypeInv'
    <2>1. req[r] \in Request /\ req[r].approval \in Approvals
      BY <1>9 DEF Begun, SimulateOrder
    <2> QED
      BY <1>9, <2>1, ConsumeType, CommitIntentType, GotoType DEF TypeOK, SimulateOrder, Steps
  <1>10. ASSUME NEW r \in Requests, ConsumeOperation(r) PROVE TypeInv'
    <2>1. req[r].approval \in Approvals
      BY <1>10 DEF ConsumeOperation, Usable, Begun, Request
    <2> QED
      BY <1>10, <2>1, ConsumeType, GotoType DEF TypeOK, ConsumeOperation, IntentsUnchanged, Steps
  <1>11. ASSUME NEW r \in Requests, NoTrader(r) \/ RecordAnswer(r) \/ RecordUncertain(r)
         PROVE  TypeInv'
    BY <1>11, MarkType, GotoType DEF TypeOK, NoTrader, RecordAnswer, RecordUncertain,
       ApprovalsUnchanged, Steps
  <1>12. ASSUME NEW r \in Requests, CallBroker(r) PROVE TypeInv'
    <2>1. PICK taken \in {"accepted", "refused"}, step \in {"answered", "failed"} :
            broker' = [broker EXCEPT ![r] = taken] /\ Goto(r, step)
      BY <1>12 DEF CallBroker
    <2> QED
      BY <1>12, <2>1, GotoType DEF TypeOK, CallBroker, ApprovalsUnchanged,
         IntentsUnchanged, Steps
  <1>13. ASSUME NEW r \in Requests, PerformOperation(r) PROVE TypeInv'
    BY <1>13, GotoType DEF TypeOK, PerformOperation, ApprovalsUnchanged, IntentsUnchanged, Steps
  <1>14. ASSUME NEW r \in Requests, IntentExpires(r) PROVE TypeInv'
    BY <1>14 DEF TypeOK, Begun, IntentExpires, ApprovalsUnchanged, RequestsUnchanged
  <1>15. ASSUME UNCHANGED vars PROVE TypeInv'
    BY <1>15 DEF TypeOK, Begun, vars, rows
  <1> QED
    BY <1>1, <1>2, <1>3, <1>4, <1>5, <1>6, <1>7, <1>8, <1>9, <1>10, <1>11, <1>12, <1>13,
       <1>14, <1>15 DEF Next, Handle, RejectByChecks, RefuseApproval

\* Every reachable state of the rows, the handlers and the broker is well-typed.
THEOREM TypeCorrect == Spec => []TypeOK
  <1>1. TypeInv => TypeOK
    BY DEF TypeInv
  <1> QED  BY <1>1, TypeInvInit, TypeInvStep, PTL DEF Spec

-----------------------------------------------------------------------------
(* The inductive invariant, one named part per resource. *)

\* Before its first commit a request has left no trace.
Early == {"idle", "received", "created", "authorized"}
Traceless(r) ==
    /\ intent[r] = "none" /\ outbox[r] = "none" /\ broker[r] = "none"
    /\ r \notin orders \cup performed \cup window
    /\ \A a \in Approvals : consumedFor[a] # r
    /\ \A s \in Slots : latest[s] # r
TracesInv == \A r \in Requests : pc[r] \in Early => Traceless(r)

\* The signatures on an approval row, and the request its consumption names.
Binds(a, r) ==
    /\ req[r].approval = a
    /\ approval[a].payload = req[r].payload
    /\ approval[a].by = req[r].who
SignedInv ==
    \A a \in Approvals :
        /\ approval[a].status # "none" => approval[a].by \in Humans
        /\ approval[a].status \in {"approved", "consumed"} =>
              approval[a].approver \in Humans \ {approval[a].by}
        /\ consumedFor[a] # None <=> approval[a].status = "consumed"
        /\ consumedFor[a] # None => Binds(a, consumedFor[a])

\* Only orders get that far; an authorised one alone holds, by its row lock, a
\* still unspent approval.
LockInv ==
    \A r \in Requests :
        /\ InFirstTx(r) => IsOrder(r)
        /\ pc[r] = "authorized" =>
              /\ Binds(req[r].approval, r)
              /\ approval[req[r].approval].status = "approved"
              /\ \A q \in Requests \ {r} :
                    pc[q] = "authorized" => req[q].approval # req[r].approval

\* Whoever has passed the first commit, or had an effect, has paid.
Paid(r) == req[r].approval \in Approvals /\ consumedFor[req[r].approval] = r
PaidInv ==
    \A r \in Requests :
        pc[r] \in {"committed", "answered", "failed"} \/ Served(r) \/ outbox[r] # "none"
        => Paid(r)

\* The advisory lock: one first transaction per slot, and none beside an
\* intent that is still inside its window.
SlotInv ==
    \A r \in Requests :
        /\ r \in window => pc[r] # "idle" /\ latest[Slot(r)] = r
        /\ InFirstTx(r) => ~ActiveIntent(r) /\ ~SlotLocked(r)

\* The rows while the call is under way.
CallInv ==
    \A r \in Requests :
        /\ pc[r] = "committed" /\ ForBroker(r) =>
              intent[r] = "pending" /\ outbox[r] = "pending" /\ broker[r] = "none"
        /\ pc[r] \in {"answered", "failed"} =>
              intent[r] = "pending" /\ outbox[r] = "pending" /\ broker[r] # "none"

IInv ==
    /\ TypeInv /\ TracesInv /\ SignedInv /\ LockInv /\ PaidInv
    /\ SlotInv /\ CallInv /\ RowsTellTheTruth

LEMMA IInvInit == Init => IInv
  <1> SUFFICES ASSUME Init PROVE IInv
    OBVIOUS
  <1> QED
    BY TypeInvInit, NoneAssumption DEF Init, IInv, TracesInv, Traceless, Early, SignedInv, LockInv,
       PaidInv, Served, SlotInv, InFirstTx, CallInv, RowsTellTheTruth

LEMMA TracesStep ==
    ASSUME IInv, [Next]_vars
    PROVE  TracesInv'
  <1> SUFFICES ASSUME NEW q \in Requests, pc'[q] \in Early
               PROVE  Traceless(q)'
    BY DEF TracesInv
  <1> USE DEF IInv, TracesInv, Traceless, Early, TypeInv, TypeOK
  <1>1. CASE UNCHANGED vars
    BY <1>1 DEF vars, rows
  <1>2. ASSUME NEW a \in Approvals, RequestApproval(a) \/ Approve(a) \/ ApprovalExpires(a)
        PROVE  Traceless(q)'
    BY <1>2 DEF RequestApproval, Approve, ApprovalExpires, IntentsUnchanged, RequestsUnchanged
  <1>3. ASSUME NEW r \in Requests, IntentExpires(r) PROVE Traceless(q)'
    BY <1>3 DEF IntentExpires, ApprovalsUnchanged, RequestsUnchanged
  <1>4. ASSUME NEW r \in Requests,
               Receive(r) \/ RepeatedKey(r) \/ CreateIntent(r) \/ AuthorizeOrder(r)
               \/ Abort(r) \/ RefuseOperation(r)
        PROVE  Traceless(q)'
    BY <1>4 DEF Receive, RepeatedKey, CreateIntent, AuthorizeOrder, Abort, RefuseOperation,
       Goto, ApprovalsUnchanged, IntentsUnchanged
  <1>5. ASSUME NEW r \in Requests, Reject(r) PROVE Traceless(q)'
    BY <1>5 DEF Reject, CommitIntent, Goto, ApprovalsUnchanged
  <1>6. ASSUME NEW r \in Requests, CommitOutbox(r) \/ SimulateOrder(r) \/ ConsumeOperation(r)
        PROVE  Traceless(q)'
    BY <1>6 DEF CommitOutbox, SimulateOrder, ConsumeOperation, Consume, CommitIntent, Goto,
       IntentsUnchanged
  <1>7. ASSUME NEW r \in Requests, NoTrader(r) \/ RecordAnswer(r) \/ RecordUncertain(r)
        PROVE  Traceless(q)'
    BY <1>7 DEF NoTrader, RecordAnswer, RecordUncertain, Mark, Goto, ApprovalsUnchanged
  <1>8. ASSUME NEW r \in Requests, CallBroker(r) \/ PerformOperation(r)
        PROVE  Traceless(q)'
    BY <1>8 DEF CallBroker, PerformOperation, Goto, ApprovalsUnchanged, IntentsUnchanged
  <1> QED
    BY <1>1, <1>2, <1>3, <1>4, <1>5, <1>6, <1>7, <1>8
       DEF Next, Handle, RejectByChecks, RefuseApproval

LEMMA SignedStep ==
    ASSUME IInv, TypeInv', [Next]_vars
    PROVE  SignedInv'
  <1> USE DEF IInv, SignedInv, TypeInv, TypeOK, Binds
  <1>1. CASE UNCHANGED vars
    BY <1>1 DEF vars, rows
  <1>2. ASSUME NEW a \in Approvals, RequestApproval(a) PROVE SignedInv'
    BY <1>2, NoneAssumption DEF RequestApproval, IntentsUnchanged, RequestsUnchanged
  <1>3. ASSUME NEW a \in Approvals, Approve(a) PROVE SignedInv'
    BY <1>3, NoneAssumption DEF Approve, IntentsUnchanged, RequestsUnchanged, ApprovalRow
  <1>4. ASSUME NEW a \in Approvals, ApprovalExpires(a) PROVE SignedInv'
    BY <1>4 DEF ApprovalExpires, IntentsUnchanged, RequestsUnchanged
  <1>5. ASSUME NEW r \in Requests, Receive(r) PROVE SignedInv'
    <2>1. \A a \in Approvals : consumedFor[a] # r
      BY <1>5 DEF Receive, TracesInv, Traceless, Early
    <2> QED  BY <1>5, <2>1 DEF Receive, ApprovalsUnchanged
  <1>6. ASSUME UNCHANGED <<approval, consumedFor, req>> PROVE SignedInv'
    BY <1>6
  <1>7. ASSUME NEW r \in Requests, Consume(r), req' = req,
               pc[r] = "authorized" \/ ConsumeOperation(r)
        PROVE  SignedInv'
    <2>1. /\ req[r].approval \in Approvals
          /\ Binds(req[r].approval, r)
          /\ approval[req[r].approval].status = "approved"
      BY <1>7 DEF LockInv, Begun, ConsumeOperation, Usable, Request
    <2>2. r # None
      BY NoneAssumption
    <2> QED  BY <1>7, <2>1, <2>2 DEF Consume, ApprovalRow
  <1> QED
    BY <1>1, <1>2, <1>3, <1>4, <1>5, <1>6, <1>7
       DEF Next, Handle, RejectByChecks, RefuseApproval, Reject, RepeatedKey, CreateIntent,
           AuthorizeOrder, Abort, RefuseOperation, CommitOutbox, SimulateOrder,
           ConsumeOperation, NoTrader, RecordAnswer, RecordUncertain, CallBroker,
           PerformOperation, IntentExpires, ApprovalsUnchanged, RequestsUnchanged

LEMMA LockStep ==
    ASSUME IInv, TypeInv', [Next]_vars
    PROVE  LockInv'
  <1> USE DEF IInv, LockInv, TypeInv, TypeOK, Binds, IsOrder, InFirstTx
  <1>1. CASE UNCHANGED vars
    BY <1>1 DEF vars, rows
  <1>2. ASSUME NEW a \in Approvals, RequestApproval(a) PROVE LockInv'
    BY <1>2 DEF RequestApproval, IntentsUnchanged, RequestsUnchanged, Begun
  <1>3. ASSUME NEW a \in Approvals, Approve(a) PROVE LockInv'
    BY <1>3 DEF Approve, IntentsUnchanged, RequestsUnchanged, Begun, ApprovalRow
  <1>4. ASSUME NEW r \in Requests, Receive(r) PROVE LockInv'
    BY <1>4 DEF Receive, Goto, ApprovalsUnchanged
  <1>5. ASSUME NEW r \in Requests, AuthorizeOrder(r) PROVE LockInv'
    <2>1. /\ IsOrder(r) /\ Binds(req[r].approval, r)
          /\ req[r].approval \in Approvals
          /\ approval[req[r].approval].status = "approved"
      BY <1>5 DEF AuthorizeOrder, Usable, Begun, Request
    <2>2. \A q \in Requests \ {r} :
            pc[q] = "authorized" => req[q].approval # req[r].approval
      BY <1>5, <2>1, NoneAssumption DEF AuthorizeOrder, ApprovalLocked
    <2> QED  BY <1>5, <2>1, <2>2 DEF AuthorizeOrder, Goto, ApprovalsUnchanged
  <1>6. ASSUME UNCHANGED <<approval, req>>,
               pc' = pc \/ \E r \in Requests, s \in Steps \ {"created", "authorized"} : Goto(r, s)
        PROVE  LockInv'
    BY <1>6 DEF Goto
  <1>7. ASSUME NEW r \in Requests, Consume(r), req' = req,
               NEW s \in Steps \ {"created", "authorized"}, Goto(r, s),
               pc[r] = "authorized" \/ ConsumeOperation(r)
        PROVE  LockInv'
    <2>1. req[r].approval \in Approvals
      BY <1>7 DEF Begun, ConsumeOperation, Usable, Request
    <2>2. \A q \in Requests \ {r} :
            pc[q] = "authorized" => req[q].approval # req[r].approval
      BY <1>7, <2>1, NoneAssumption DEF ConsumeOperation, ApprovalLocked
    <2>3. \A q \in Requests : pc'[q] = "authorized" =>
            /\ q # r /\ pc[q] = "authorized"
            /\ approval'[req[q].approval] = approval[req[q].approval]
      BY <1>7, <2>1, <2>2 DEF Goto, Consume, Begun
    <2>4. \A q \in Requests : pc'[q] \in {"created", "authorized"} => pc'[q] = pc[q]
      BY <1>7 DEF Goto
    <2> QED  BY <1>7, <2>3, <2>4
  <1>8. ASSUME NEW r \in Requests, CallBroker(r) PROVE LockInv'
    <2>1. PICK s \in {"answered", "failed"} : Goto(r, s)
      BY <1>8 DEF CallBroker
    <2> QED  BY <1>8, <2>1, <1>6 DEF CallBroker, ApprovalsUnchanged, Steps
  <1>9. ASSUME NEW r \in Requests, CommitOutbox(r) \/ SimulateOrder(r) \/ ConsumeOperation(r)
        PROVE  LockInv'
    BY <1>9, <1>7 DEF CommitOutbox, SimulateOrder, ConsumeOperation, Steps
  <1>10. ASSUME NEW r \in Requests,
                Reject(r) \/ RepeatedKey(r) \/ Abort(r) \/ RefuseOperation(r)
                \/ NoTrader(r) \/ RecordAnswer(r) \/ RecordUncertain(r) \/ PerformOperation(r)
         PROVE  LockInv'
    <2>1. UNCHANGED <<approval, req>> /\ \E s \in Steps \ {"created", "authorized"} : Goto(r, s)
      BY <1>10 DEF Reject, RepeatedKey, CreateIntent, Abort, RefuseOperation, NoTrader,
         RecordAnswer, RecordUncertain, PerformOperation, ApprovalsUnchanged, Steps
    <2> QED  BY <2>1, <1>6
  <1>11. ASSUME (\E a \in Approvals : ApprovalExpires(a)) \/ (\E r \in Requests : IntentExpires(r))
         PROVE  LockInv'
    <2>1. UNCHANGED <<approval, req, pc>>
      BY <1>11 DEF ApprovalExpires, IntentExpires, ApprovalsUnchanged, RequestsUnchanged
    <2> QED  BY <2>1, <1>6
  <1>12. ASSUME NEW r \in Requests, CreateIntent(r) PROVE LockInv'
    BY <1>12 DEF CreateIntent, Goto, ApprovalsUnchanged
  <1> QED
    BY <1>1, <1>2, <1>3, <1>4, <1>5, <1>12, <1>8, <1>9, <1>10, <1>11
       DEF Next, Handle, RejectByChecks, RefuseApproval

LEMMA PaidStep ==
    ASSUME IInv, TypeInv', [Next]_vars
    PROVE  PaidInv'
  <1> USE DEF IInv, PaidInv, Paid, Served, TypeInv, TypeOK
  <1>1. CASE UNCHANGED vars
    BY <1>1 DEF vars, rows
  <1>2. ASSUME NEW a \in Approvals, RequestApproval(a) \/ Approve(a) \/ ApprovalExpires(a)
        PROVE  PaidInv'
    BY <1>2 DEF RequestApproval, Approve, ApprovalExpires, IntentsUnchanged, RequestsUnchanged
  <1>3. ASSUME NEW r \in Requests, Receive(r) PROVE PaidInv'
    BY <1>3 DEF Receive, TracesInv, Traceless, Early, Goto, ApprovalsUnchanged, IntentsUnchanged
  <1>4. ASSUME NEW r \in Requests,
               RepeatedKey(r) \/ CreateIntent(r) \/ AuthorizeOrder(r) \/ Abort(r)
               \/ RefuseOperation(r) \/ Reject(r) \/ PerformOperation(r)
        PROVE  PaidInv'
    BY <1>4 DEF RepeatedKey, CreateIntent, AuthorizeOrder, Abort, RefuseOperation, Reject,
       PerformOperation, Goto, ApprovalsUnchanged, IntentsUnchanged
  <1>5. ASSUME NEW r \in Requests,
               NoTrader(r) \/ RecordAnswer(r) \/ RecordUncertain(r) \/ CallBroker(r)
        PROVE  PaidInv'
    BY <1>5 DEF NoTrader, RecordAnswer, RecordUncertain, CallBroker, Mark, Goto,
       ApprovalsUnchanged, IntentsUnchanged
  <1>6. ASSUME NEW r \in Requests, CommitOutbox(r) \/ SimulateOrder(r) \/ ConsumeOperation(r)
        PROVE  PaidInv'
    <2>1. req[r].approval \in Approvals /\ approval[req[r].approval].status = "approved"
      BY <1>6 DEF CommitOutbox, SimulateOrder, ConsumeOperation, LockInv, Begun, Usable, Request
    <2>2. consumedFor[req[r].approval] = None
      BY <2>1 DEF SignedInv
    <2>3. \A q \in Requests : Paid(q) => q # r /\ req[q].approval # req[r].approval
      BY <2>2, NoneAssumption
    <2>4. Paid(r)' /\ \A q \in Requests : Paid(q) => Paid(q)'
      BY <1>6, <2>1, <2>3 DEF CommitOutbox, SimulateOrder, ConsumeOperation, Consume
    <2> QED
      BY <1>6, <2>4 DEF CommitOutbox, SimulateOrder, ConsumeOperation, Goto, IntentsUnchanged
  <1>7. ASSUME NEW r \in Requests, IntentExpires(r) PROVE PaidInv'
    BY <1>7 DEF IntentExpires, ApprovalsUnchanged, RequestsUnchanged
  <1> QED
    BY <1>1, <1>2, <1>3, <1>4, <1>5, <1>6, <1>7
       DEF Next, Handle, RejectByChecks, RefuseApproval

\* A commit of r's intent meets no other transaction on its slot and no
\* living intent of its slot.
LEMMA CommitSlot ==
    ASSUME IInv, NEW r \in Requests, InFirstTx(r),
           NEW st \in {"pending", "submitted", "rejected"}, CommitIntent(r, st),
           NEW s \in Steps \ {"idle", "created", "authorized"}, Goto(r, s), req' = req
    PROVE  SlotInv'
  <1> USE DEF IInv, SlotInv, TypeInv, TypeOK, InFirstTx, SlotLocked, ActiveIntent
  <1>1. req[r] \in Request /\ Slot(r) \in Slots
    BY DEF Begun, Slot, Slots, Request
  <1>2. \A q \in Requests \ {r} : q \in window => Slot(q) # Slot(r)
    BY NoneAssumption
  <1>3. \A q \in Requests \ {r} : InFirstTx(q) => Slot(q) # Slot(r)
    OBVIOUS
  <1>4. \A q \in Requests : Slot(q)' = Slot(q)
    BY DEF Slot
  <1>5. ASSUME NEW q \in Requests, q \in window' PROVE pc'[q] # "idle" /\ latest'[Slot(q)] = q
    BY <1>1, <1>2, <1>5 DEF CommitIntent, Goto
  <1>6. ASSUME NEW q \in Requests, InFirstTx(q)' PROVE ~ActiveIntent(q)' /\ ~SlotLocked(q)'
    <2>1. q # r /\ InFirstTx(q) /\ \A t \in Requests : InFirstTx(t)' => InFirstTx(t)
      BY <1>6 DEF Goto
    <2>2. Slot(q) \in Slots /\ Slot(q) # Slot(r)
      BY <1>3, <2>1 DEF Begun, Slot, Slots, Request
    <2>3. latest'[Slot(q)] = latest[Slot(q)] /\ latest[Slot(q)] # r
      BY <1>1, <2>2 DEF CommitIntent, TracesInv, Traceless, Early
    <2> QED  BY <1>4, <2>1, <2>3 DEF CommitIntent
  <1> QED  BY <1>4, <1>5, <1>6

LEMMA SlotStep ==
    ASSUME IInv, [Next]_vars
    PROVE  SlotInv'
  <1> USE DEF IInv, SlotInv, TypeInv, TypeOK, InFirstTx, SlotLocked, ActiveIntent
  <1>1. ASSUME UNCHANGED <<window, latest, req>>,
               pc' = pc \/ \E r \in Requests, s \in Steps \ {"idle", "created"} :
                              Goto(r, s) /\ (s = "authorized" => pc[r] = "created")
        PROVE  SlotInv'
    BY <1>1 DEF Goto, Slot
  <1>2. ASSUME NEW r \in Requests, Receive(r) PROVE SlotInv'
    <2>1. r \notin window /\ \A q \in Requests \ {r} : Slot(q)' = Slot(q)
      BY <1>2 DEF Receive, TracesInv, Traceless, Early, Slot
    <2> QED  BY <1>2, <2>1 DEF Receive, Goto, IntentsUnchanged
  <1>3. ASSUME NEW r \in Requests, CreateIntent(r) PROVE SlotInv'
    BY <1>3 DEF CreateIntent, Goto, IntentsUnchanged, Slot
  <1>4. ASSUME NEW r \in Requests, Reject(r), pc[r] = "created" PROVE SlotInv'
    BY <1>4, CommitSlot DEF Reject, Steps
  <1>5. ASSUME NEW r \in Requests, CommitOutbox(r) \/ SimulateOrder(r) PROVE SlotInv'
    BY <1>5, CommitSlot DEF CommitOutbox, SimulateOrder, Steps
  <1>6. ASSUME NEW r \in Requests, IntentExpires(r) PROVE SlotInv'
    BY <1>6 DEF IntentExpires, RequestsUnchanged, Slot
  <1>7. ASSUME NEW r \in Requests, CallBroker(r) PROVE SlotInv'
    <2>1. PICK s \in {"answered", "failed"} : Goto(r, s)
      BY <1>7 DEF CallBroker
    <2> QED  BY <1>7, <2>1, <1>1 DEF CallBroker, IntentsUnchanged, Steps
  <1>8. ASSUME NEW r \in Requests,
               RepeatedKey(r) \/ AuthorizeOrder(r) \/ Abort(r) \/ RefuseOperation(r)
               \/ ConsumeOperation(r) \/ NoTrader(r) \/ RecordAnswer(r)
               \/ RecordUncertain(r) \/ PerformOperation(r)
        PROVE  SlotInv'
    <2>1. /\ UNCHANGED <<window, latest, req>>
          /\ \E s \in Steps \ {"idle", "created"} :
                Goto(r, s) /\ (s = "authorized" => pc[r] = "created")
      BY <1>8 DEF RepeatedKey, AuthorizeOrder, Abort, RefuseOperation, ConsumeOperation,
         NoTrader, RecordAnswer, RecordUncertain, PerformOperation, Mark, IntentsUnchanged, Steps
    <2> QED  BY <2>1, <1>1
  <1>9. ASSUME (\E a \in Approvals : RequestApproval(a) \/ Approve(a) \/ ApprovalExpires(a))
               \/ UNCHANGED vars
        PROVE  SlotInv'
    <2>1. UNCHANGED <<window, latest, req, pc>>
      BY <1>9 DEF RequestApproval, Approve, ApprovalExpires, IntentsUnchanged,
         RequestsUnchanged, vars, rows
    <2> QED  BY <2>1, <1>1
  <1> QED
    BY <1>2, <1>3, <1>4, <1>5, <1>6, <1>7, <1>8, <1>9
       DEF Next, Handle, RejectByChecks, RefuseApproval

LEMMA CallStep ==
    ASSUME IInv, TypeInv', [Next]_vars
    PROVE  CallInv' /\ RowsTellTheTruth'
  <1> USE DEF IInv, CallInv, RowsTellTheTruth, TypeInv, TypeOK, ForBroker
  <1>1. ASSUME UNCHANGED <<intent, outbox, broker, orders, pc, req>>
        PROVE  CallInv' /\ RowsTellTheTruth'
    BY <1>1
  <1>2. ASSUME NEW r \in Requests, Receive(r) PROVE CallInv' /\ RowsTellTheTruth'
    BY <1>2 DEF Receive, Goto, IntentsUnchanged
  <1>3. ASSUME NEW r \in Requests,
               RepeatedKey(r) \/ CreateIntent(r) \/ AuthorizeOrder(r) \/ Abort(r)
               \/ RefuseOperation(r) \/ PerformOperation(r)
        PROVE  CallInv' /\ RowsTellTheTruth'
    BY <1>3 DEF RepeatedKey, CreateIntent, AuthorizeOrder, Abort, RefuseOperation,
       PerformOperation, Goto, IntentsUnchanged
  <1>4. ASSUME NEW r \in Requests, ConsumeOperation(r) PROVE CallInv' /\ RowsTellTheTruth'
    BY <1>4 DEF ConsumeOperation, Goto, IntentsUnchanged, IsOrder, Orders
  <1>5. ASSUME NEW r \in Requests, Reject(r), pc[r] = "created"
        PROVE  CallInv' /\ RowsTellTheTruth'
    BY <1>5 DEF Reject, CommitIntent, Goto, TracesInv, Traceless, Early
  <1>6. ASSUME NEW r \in Requests, CommitOutbox(r) \/ SimulateOrder(r)
        PROVE  CallInv' /\ RowsTellTheTruth'
    BY <1>6 DEF CommitOutbox, SimulateOrder, CommitIntent, Goto, TracesInv, Traceless, Early
  <1>7. ASSUME NEW r \in Requests, NoTrader(r) PROVE CallInv' /\ RowsTellTheTruth'
    BY <1>7 DEF NoTrader, Mark, Goto, BrokerPayloads
  <1>8. ASSUME NEW r \in Requests, CallBroker(r) PROVE CallInv' /\ RowsTellTheTruth'
    BY <1>8 DEF CallBroker, Goto, IntentsUnchanged
  <1>9. ASSUME NEW r \in Requests, RecordAnswer(r) \/ RecordUncertain(r)
        PROVE  CallInv' /\ RowsTellTheTruth'
    BY <1>9 DEF RecordAnswer, RecordUncertain, Mark, Goto
  <1>10. ASSUME (\E a \in Approvals : RequestApproval(a) \/ Approve(a) \/ ApprovalExpires(a))
                \/ (\E r \in Requests : IntentExpires(r)) \/ UNCHANGED vars
         PROVE  CallInv' /\ RowsTellTheTruth'
    <2>1. UNCHANGED <<intent, outbox, broker, orders, pc, req>>
      BY <1>10 DEF RequestApproval, Approve, ApprovalExpires, IntentExpires,
         IntentsUnchanged, RequestsUnchanged, vars, rows
    <2> QED  BY <2>1, <1>1
  <1> QED
    BY <1>2, <1>3, <1>4, <1>5, <1>6, <1>7, <1>8, <1>9, <1>10
       DEF Next, Handle, RejectByChecks, RefuseApproval

LEMMA IInvStep == IInv /\ [Next]_vars => IInv'
  <1> SUFFICES ASSUME IInv, [Next]_vars PROVE IInv'
    OBVIOUS
  <1>1. TypeInv'
    BY TypeInvStep DEF IInv
  <1> QED
    BY <1>1, TracesStep, SignedStep, LockStep, PaidStep, SlotStep, CallStep DEF IInv

LEMMA IInvAlways == Spec => []IInv
  BY IInvInit, IInvStep, PTL DEF Spec

-----------------------------------------------------------------------------
(* The theorems. *)

\* An approval pays for at most one effect, however many handlers race for it.
THEOREM ApprovalsSingleUse == Spec => []SingleUse
  <1>1. IInv => SingleUse
    BY DEF IInv, PaidInv, Paid, SingleUse
  <1> QED  BY <1>1, IInvAlways, PTL

\* Every effect is covered by the consumption of an approval for this payload,
\* asked for by its requester and confirmed by another human.
THEOREM EffectsAuthorized == Spec => []EffectIsAuthorized
  <1>1. IInv => EffectIsAuthorized
    <2> SUFFICES ASSUME IInv, NEW r \in Requests, Served(r)
                 PROVE  LET a == req[r].approval IN
                        /\ a # None /\ consumedFor[a] = r
                        /\ approval[a].status = "consumed"
                        /\ approval[a].payload = req[r].payload
                        /\ approval[a].by = req[r].who
                        /\ approval[a].approver \in Humans \ {req[r].who}
      BY DEF EffectIsAuthorized
    <2>1. Paid(r)
      BY DEF IInv, PaidInv
    <2> QED
      BY <2>1, NoneAssumption DEF Paid, IInv, SignedInv, Binds
  <1> QED  BY <1>1, IInvAlways, PTL

\* An intent key has one living intent, so repeating a request inside the
\* window cannot place a second order.
THEOREM IntentKeysExclusive == Spec => []OneIntentPerWindow
  <1>1. IInv => OneIntentPerWindow
    BY DEF IInv, SlotInv, OneIntentPerWindow, TypeInv, TypeOK
  <1> QED  BY <1>1, IInvAlways, PTL

\* Whatever the interleaving, orders, bookings and operations happen under one
\* approval each, of another human for this request, once per intent window.
THEOREM OrdersAuthorizedOnce == Spec => []OrdersAreAuthorizedOnce
  BY TypeCorrect, ApprovalsSingleUse, EffectsAuthorized, IntentKeysExclusive, PTL
     DEF OrdersAreAuthorizedOnce

\* Intent, outbox, local orders and the broker agree at every step.
THEOREM RowsTruthful == Spec => []RowsTellTheTruth
  <1>1. IInv => RowsTellTheTruth
    BY DEF IInv
  <1> QED  BY <1>1, IInvAlways, PTL

\* A settled intent is never rewritten.
THEOREM IntentsSettleOnce == Spec => IntentMovesOnce
  <1>1. IInv /\ [Next]_vars =>
          [\A r \in Requests : \/ intent'[r] = intent[r]
                               \/ intent[r] = "none"
                               \/ intent[r] = "pending" /\ intent'[r] # "none"]_vars
    <2> SUFFICES ASSUME IInv, Next, NEW q \in Requests
                 PROVE  \/ intent'[q] = intent[q] \/ intent[q] = "none"
                        \/ intent[q] = "pending" /\ intent'[q] # "none"
      OBVIOUS
    <2> USE DEF IInv, TypeInv, TypeOK
    <2>1. ASSUME NEW r \in Requests, NEW st \in {"pending", "submitted", "rejected"},
                 CommitIntent(r, st), InFirstTx(r)
          PROVE  intent'[q] = intent[q] \/ intent[q] = "none"
      BY <2>1 DEF CommitIntent, InFirstTx, TracesInv, Traceless, Early
    <2>2. ASSUME NEW r \in Requests, NoTrader(r) \/ RecordAnswer(r) \/ RecordUncertain(r)
          PROVE  intent'[q] = intent[q] \/ (intent[q] = "pending" /\ intent'[q] # "none")
      BY <2>2 DEF NoTrader, RecordAnswer, RecordUncertain, Mark, CallInv, ForBroker,
         BrokerPayloads
    <2> QED
      BY <2>1, <2>2 DEF Next, Handle, RejectByChecks, RefuseApproval, Reject, InFirstTx,
         RequestApproval, Approve, ApprovalExpires, Receive, RepeatedKey, CreateIntent,
         AuthorizeOrder, Abort, RefuseOperation, CommitOutbox, SimulateOrder, CallBroker,
         ConsumeOperation, PerformOperation, IntentExpires, IntentsUnchanged
  <1> QED  BY <1>1, IInvAlways, PTL DEF Spec, IntentMovesOnce

\* The requests an approval has served, as the contract sees them.
Effects == [a \in Approvals |-> {r \in Requests : Served(r) /\ req[r].approval = a}]
Phase   == [a \in Approvals |-> approval[a].status]

LEMMA PhaseMoves ==
    ASSUME NEW a \in Approvals, NEW p, approval'[a].status = p,
           \A b \in Approvals \ {a} : approval'[b] = approval[b]
    PROVE  Phase' = [Phase EXCEPT ![a] = p]
  BY DEF Phase

\* A step that only marks rows leaves the effects alone.
LEMMA EffectsSame ==
    ASSUME \A r \in Requests : Served(r)' <=> Served(r),
           \A r \in Requests : Served(r) => req'[r] = req[r]
    PROVE  Effects' = Effects
  BY DEF Effects

\* The first effect of a request that has paid.
LEMMA EffectsNew ==
    ASSUME IInv, NEW r \in Requests, ~Served(r), Paid(r), req' = req, Served(r)',
           \A q \in Requests \ {r} : Served(q)' <=> Served(q)
    PROVE  /\ Effects[req[r].approval] = {}
           /\ Effects' = [Effects EXCEPT ![req[r].approval] = {consumedFor[req[r].approval]}]
  <1> DEFINE a == req[r].approval
  <1>1. \A q \in Requests : Served(q) /\ req[q].approval = a => q = r
    BY DEF IInv, PaidInv, Paid
  <1>2. Effects[a] = {}
    BY <1>1 DEF Effects, Paid
  <1>3. Effects'[a] = {r}
    BY <1>1 DEF Effects, Paid
  <1>4. \A b \in Approvals \ {a} : Effects'[b] = Effects[b]
    BY DEF Effects
  <1> QED  BY <1>2, <1>3, <1>4 DEF Effects, Paid

\* Spending: the row, the event that names the request, and at most its effect.
LEMMA SpendStep ==
    ASSUME IInv, TypeInv', NEW r \in Requests, Consume(r), req' = req,
           pc[r] = "authorized" \/ ConsumeOperation(r),
           \A q \in Requests \ {r} : Served(q)' <=> Served(q)
    PROVE  Contract!Next
  <1> DEFINE a == req[r].approval
  <1> USE DEF IInv, TypeInv, TypeOK
  <1>1. a \in Approvals /\ approval[a].status = "approved"
    BY DEF LockInv, Begun, ConsumeOperation, Usable, Request
  <1>2. consumedFor[a] = None /\ approval[a] \in ApprovalRow
    BY <1>1 DEF SignedInv
  <1>3. \A q \in Requests : Served(q) => req[q].approval # a
    BY <1>2, NoneAssumption DEF PaidInv, Paid
  <1>4. ~Served(r)
    BY DEF TracesInv, Traceless, Early, Served, ConsumeOperation
  <1>5. Phase' = [Phase EXCEPT ![a] = "consumed"]
    BY <1>1, <1>2 DEF Phase, Consume, ApprovalRow
  <1>6. consumedFor' = [consumedFor EXCEPT ![a] = r]
    BY DEF Consume
  <1>7. Effects' \in {Effects, [Effects EXCEPT ![a] = {r}]}
    <2>1. CASE Served(r)'
      <3>1. Effects'[a] = {r}
        BY <1>1, <1>3, <2>1 DEF Effects
      <3>2. \A b \in Approvals \ {a} : Effects'[b] = Effects[b]
        BY DEF Effects
      <3>3. Effects' = [Effects EXCEPT ![a] = {r}]
        BY <1>1, <3>1, <3>2 DEF Effects
      <3> QED  BY <3>3
    <2>2. CASE ~Served(r)'
      BY <1>4, <2>2, EffectsSame
    <2> QED  BY <2>1, <2>2
  <1> QED
    BY <1>1, <1>5, <1>6, <1>7
       DEF Contract!Next, Contract!Spend, Contract!Move, Phase, Effects

LEMMA ContractStep ==
    ASSUME IInv, TypeInv', [Next]_vars
    PROVE  [Contract!Next]_(Contract!contractVars)
  <1> USE DEF IInv, TypeInv, TypeOK
  <1>1. ASSUME NEW a \in Approvals, RequestApproval(a) PROVE Contract!Next
    <2>0. approval'[a].status = "requested" /\ \A b \in Approvals \ {a} : approval'[b] = approval[b]
      BY <1>1 DEF RequestApproval
    <2>1. Phase' = [Phase EXCEPT ![a] = "requested"] /\ Phase[a] = "none"
      BY <1>1, <2>0, PhaseMoves DEF RequestApproval, Phase
    <2>2. Effects' = Effects /\ consumedFor' = consumedFor
      BY <1>1 DEF RequestApproval, Effects, Served, IntentsUnchanged, RequestsUnchanged
    <2> QED  BY <2>1, <2>2 DEF Contract!Next, Contract!Request, Contract!Move, Phase, Effects
  <1>2. ASSUME NEW a \in Approvals, Approve(a) PROVE Contract!Next
    <2>1. approval[a] \in ApprovalRow
      OBVIOUS
    <2>0. approval'[a].status = "approved" /\ \A b \in Approvals \ {a} : approval'[b] = approval[b]
      BY <1>2, <2>1 DEF Approve, ApprovalRow
    <2>2. Phase' = [Phase EXCEPT ![a] = "approved"] /\ Phase[a] = "requested"
      BY <1>2, <2>0, PhaseMoves DEF Approve, Phase
    <2>3. Effects' = Effects /\ consumedFor' = consumedFor
      BY <1>2 DEF Approve, Effects, Served, IntentsUnchanged, RequestsUnchanged
    <2> QED  BY <2>2, <2>3 DEF Contract!Next, Contract!Confirm, Contract!Move, Phase, Effects
  <1>3. ASSUME UNCHANGED <<approval, consumedFor>>,
               \A r \in Requests : Served(r)' <=> Served(r),
               \A r \in Requests : Served(r) => req'[r] = req[r]
        PROVE  UNCHANGED Contract!contractVars
    BY <1>3, EffectsSame DEF Contract!contractVars, Effects
  <1>4. ASSUME NEW r \in Requests, Receive(r) PROVE UNCHANGED Contract!contractVars
    <2>1. ~Served(r)
      BY <1>4 DEF Receive, TracesInv, Traceless, Early, Served
    <2> QED
      BY <1>4, <2>1, <1>3 DEF Receive, ApprovalsUnchanged, IntentsUnchanged, Served
  <1>5. ASSUME NEW r \in Requests,
               RepeatedKey(r) \/ CreateIntent(r) \/ AuthorizeOrder(r) \/ Abort(r)
               \/ RefuseOperation(r) \/ Reject(r) \/ NoTrader(r) \/ RecordUncertain(r)
        PROVE  UNCHANGED Contract!contractVars
    BY <1>5, <1>3 DEF RepeatedKey, CreateIntent, AuthorizeOrder, Abort, RefuseOperation,
       Reject, NoTrader, RecordUncertain, ApprovalsUnchanged, IntentsUnchanged, Served
  <1>6. ASSUME NEW r \in Requests, RecordAnswer(r) PROVE UNCHANGED Contract!contractVars
    <2>1. Served(r) /\ Served(r)'
      BY <1>6 DEF RecordAnswer, CallInv, Served
    <2> QED  BY <1>6, <2>1, <1>3 DEF RecordAnswer, ApprovalsUnchanged, Served
  <1>7. ASSUME NEW r \in Requests, CallBroker(r) \/ PerformOperation(r)
        PROVE  Contract!Next \/ UNCHANGED Contract!contractVars
    <2>1. /\ Paid(r) /\ UNCHANGED <<approval, consumedFor, req>> /\ Served(r)'
          /\ \A q \in Requests \ {r} : Served(q)' <=> Served(q)
      BY <1>7 DEF CallBroker, PerformOperation, PaidInv, ApprovalsUnchanged,
         IntentsUnchanged, Served
    <2>2. CASE Served(r)
      BY <2>1, <2>2, <1>3
    <2>3. CASE ~Served(r)
      <3> DEFINE a == req[r].approval
      <3>1. /\ Effects[a] = {} /\ Effects' = [Effects EXCEPT ![a] = {consumedFor[a]}]
        BY <2>1, <2>3, EffectsNew
      <3>2. a \in Approvals /\ Phase[a] = "consumed" /\ Phase' = Phase
        BY <2>1, NoneAssumption DEF Paid, SignedInv, Phase
      <3> QED
        BY <2>1, <3>1, <3>2 DEF Contract!Next, Contract!Effect, Phase, Effects
    <2> QED  BY <2>2, <2>3
  <1>8. ASSUME NEW r \in Requests, CommitOutbox(r) \/ SimulateOrder(r) \/ ConsumeOperation(r)
        PROVE  Contract!Next
    BY <1>8, SpendStep DEF CommitOutbox, SimulateOrder, ConsumeOperation, IntentsUnchanged, Served
  <1>9. ASSUME (\E a \in Approvals : ApprovalExpires(a))
               \/ (\E r \in Requests : IntentExpires(r)) \/ UNCHANGED vars
        PROVE  UNCHANGED Contract!contractVars
    BY <1>9, <1>3 DEF ApprovalExpires, IntentExpires, ApprovalsUnchanged, IntentsUnchanged,
       RequestsUnchanged, Served, vars, rows
  <1> QED
    BY <1>1, <1>2, <1>4, <1>5, <1>6, <1>7, <1>8, <1>9
       DEF Next, Handle, RejectByChecks, RefuseApproval

\* Intents, locks, outbox, broker failures and crashes keep the contract the
\* two signers rely on.
THEOREM ApprovalsImplementContract == Spec => ImplementsApproval
  <1>1. Init => Contract!Init
    BY DEF Init, Contract!Init, Served
  <1>2. IInv /\ IInv' /\ [Next]_vars => [Contract!Next]_(Contract!contractVars)
    BY ContractStep DEF IInv
  <1> QED  BY <1>1, <1>2, IInvAlways, PTL DEF Spec, ImplementsApproval, Contract!Spec
=============================================================================
