--------------------------- MODULE SyntheticLedger ---------------------------
(* SyntheticPaperLedger (app/trade/synthetic_test_ledger.py): the test-only  *)
(* paper account.  Its only state is an append-only list of events; every    *)
(* operation but submit_order first rebuilds the account by folding them,    *)
(* and a fold that breaks an invariant raises, now and ever after.  Prices   *)
(* and cash are in cents, the account trades one stock.                      *)
EXTENDS ShadowRunner, SequencesExt

CONSTANTS
    Requests,      \* [key, side, quantity, limit, cutoff] callers may submit
    Cutoffs, Futures,   \* of the references callers build
    InitialCash,
    MaxEvents      \* bound on the list

ASSUME InitialCashAssumption == InitialCash \in Nat \ {0}
ASSUME MaxEventsAssumption == MaxEvents \in Nat
ASSUME ReferenceAssumption == Cutoffs \subseteq Nat /\ Futures \subseteq Nat
\* submit_order refuses any other side and what is not positive.
ASSUME RequestsAssumption ==
    /\ IsFiniteSet(Requests)
    /\ \A r \in Requests : /\ r.side \in {"BUY", "SELL"}
                          /\ r.quantity \in Nat \ {0} /\ r.limit \in Nat \ {0}

VARIABLES
    events,        \* _events
    idempotency,   \* _idempotency: key -> the request it stands for
    references     \* the execution references built so far

vars == <<events, idempotency, references>>

\* ROUND_HALF_UP to a cent of a tenth of a percent, and never less than a cent.
Fee(notional) == Max({1, (notional + 500) \div 1000})
Slipped(price, side) == IF side = "BUY" THEN price + 1 ELSE price - 1
Reserve(r) == r.limit * r.quantity + Fee(r.limit * r.quantity)

Event(type, r) == [type |-> type, order |-> r, cash |-> 0, frozen |-> 0, quantity |-> 0]

----------------------------------------------------------------------------
(* rebuild: the fold, one event at a time.                                 *)

NewOrder == [status |-> "none", cash |-> 0, quantity |-> 0, released |-> 0]
NewAccount ==
    [sound |-> TRUE, cash |-> InitialCash, frozen |-> 0, total |-> 0,
     available |-> 0, held |-> 0, orders |-> [r \in Requests |-> NewOrder]]

\* _apply_event.
Apply(s, e) ==
    CASE e.type = "submitted" -> [s EXCEPT !.orders[e.order].status = "submitted"]
      [] e.type = "accepted"  -> [s EXCEPT !.orders[e.order].status = "accepted"]
      [] e.type = "rejected"  -> [s EXCEPT !.orders[e.order].status = "rejected"]
      [] e.type = "cash_frozen" ->
            [s EXCEPT !.frozen = @ + e.cash, !.orders[e.order].cash = e.cash]
      [] e.type = "quantity_frozen" ->
            [s EXCEPT !.available = @ - e.quantity, !.held = @ + e.quantity,
                      !.orders[e.order].quantity = e.quantity]
      [] e.type = "unfilled" -> [s EXCEPT !.orders[e.order].status = "unfilled"]
      [] e.type = "filled" ->
            [s EXCEPT !.cash = @ + e.cash, !.frozen = @ + e.frozen,
                      !.total = @ + (IF e.order.side = "BUY" THEN e.quantity ELSE - e.quantity),
                      !.held = @ - (IF e.order.side = "BUY" THEN 0 ELSE e.quantity),
                      !.orders[e.order].status = "filled"]
      [] e.type = "cancelled" ->
            [s EXCEPT !.frozen = @ - e.cash,
                      !.available = @ + e.quantity, !.held = @ - e.quantity,
                      !.orders[e.order] = [@ EXCEPT !.status = "cancelled",
                                                    !.cash = 0, !.quantity = 0]]
      [] e.type = "t1_released" ->
            [s EXCEPT !.available = @ + e.quantity, !.orders[e.order].released = @ + 1]

\* _assert_invariants.
Sound(s) ==
    /\ 0 <= s.frozen /\ s.frozen <= s.cash
    /\ \A n \in {s.total, s.available, s.held} : n >= 0
    /\ s.available + s.held <= s.total

Step(s, e) ==
    IF ~ s.sound THEN s
    ELSE LET next == Apply(s, e) IN [next EXCEPT !.sound = Sound(next)]

Account == FoldLeft(Step, NewAccount, events)

\* What an operation that rebuilds needs, and what it appends.
Room(n) == Len(events) + n <= MaxEvents
Emit(es) == events' = events \o es /\ UNCHANGED <<idempotency, references>>

----------------------------------------------------------------------------
Init == events = <<>> /\ idempotency = <<>> /\ references = {}

\* build_execution_reference: whatever the batch, only what passes is used.
BuildReference(cutoff, scenario, future) ==
    LET batch == Load(cutoff, scenario, future)
    IN /\ Accepts(batch, cutoff)
       /\ references' = references \cup
             {[cutoff |-> cutoff, price |-> ReferencePrice(batch, cutoff)]}
       /\ UNCHANGED <<events, idempotency>>

\* submit_order: a known key with the same request is answered again, with
\* another one it is refused; neither appends anything.
SubmitOrder(r) ==
    /\ Room(1) /\ r.key \notin DOMAIN idempotency
    /\ \E reference \in references : reference.cutoff = r.cutoff
    /\ events' = Append(events, Event("submitted", r))
    /\ idempotency' = [k \in DOMAIN idempotency \cup {r.key} |->
                          IF k = r.key THEN r ELSE idempotency[k]]
    /\ UNCHANGED references

Approvable(s, r) ==
    IF r.side = "BUY" THEN s.cash - s.frozen >= Reserve(r)
    ELSE s.available >= r.quantity

\* approve_order.  The submitter may approve as well when the call declares
\* the single operator, so that who calls decides nothing more.
Approve(s, r) ==
    /\ Room(2) /\ s.orders[r].status = "submitted" /\ Approvable(s, r)
    /\ Emit(<<Event("accepted", r),
              IF r.side = "BUY"
              THEN [Event("cash_frozen", r) EXCEPT !.cash = Reserve(r)]
              ELSE [Event("quantity_frozen", r) EXCEPT !.quantity = r.quantity]>>)

Reject(s, r) ==
    /\ Room(1) /\ s.orders[r].status = "submitted"
    /\ Emit(<<Event("rejected", r)>>)

Executable(r, price) ==
    IF r.side = "BUY" THEN price <= r.limit ELSE price >= r.limit

\* Mutant: a fill frees what it cost and leaves the rest of the reserve frozen.
FillEventLeavesRest(s, r, price) ==
    LET notional == price * r.quantity
        cost == notional + Fee(notional)
    IN [Event("filled", r) EXCEPT
           !.quantity = r.quantity,
           !.cash = IF r.side = "BUY" THEN - cost ELSE notional - Fee(notional),
           !.frozen = IF r.side = "BUY" THEN - cost ELSE 0]

\* execute_order, with the reference the order was submitted for.
FillEvent(s, r, price) ==
    LET notional == price * r.quantity
    IN [Event("filled", r) EXCEPT
           !.quantity = r.quantity,
           !.cash = IF r.side = "BUY" THEN - (notional + Fee(notional))
                    ELSE notional - Fee(notional),
           !.frozen = IF r.side = "BUY" THEN - s.orders[r].cash ELSE 0]

Execute(s, r) ==
    /\ Room(1) /\ s.orders[r].status = "accepted"
    /\ \E reference \in references :
          LET price == Slipped(reference.price, r.side)
          IN /\ reference.cutoff = r.cutoff
             /\ \/ /\ Executable(r, price)
                   /\ r.side = "BUY" => s.orders[r].cash + FillEvent(s, r, price).cash >= 0
                   /\ Emit(<<FillEvent(s, r, price)>>)
                \/ ~ Executable(r, price) /\ Emit(<<Event("unfilled", r)>>)

CancelOrder(s, r) ==
    /\ Room(1) /\ s.orders[r].status \in {"accepted", "unfilled"}
    /\ Emit(<<[Event("cancelled", r) EXCEPT !.cash = s.orders[r].cash,
                                            !.quantity = s.orders[r].quantity]>>)

\* release_t1: a filled buy stays filled, so that it may be released again.
ReleaseT1(s, r) ==
    /\ Room(1) /\ s.orders[r].status = "filled" /\ r.side = "BUY"
    /\ Emit(<<[Event("t1_released", r) EXCEPT !.quantity = r.quantity]>>)

\* The operations that rebuild the account before they append to it.
OnAccount(s) ==
    /\ s.sound
    /\ \E r \in Requests :
          Approve(s, r) \/ Reject(s, r) \/ Execute(s, r) \/ CancelOrder(s, r) \/ ReleaseT1(s, r)

Next ==
    \/ \E cutoff \in Cutoffs, scenario \in Scenarios, future \in Futures :
          BuildReference(cutoff, scenario, future)
    \/ \E r \in Requests : SubmitOrder(r)
    \/ OnAccount(Account)

Spec == Init /\ [][Next]_vars

----------------------------------------------------------------------------
(* Properties.                                                             *)

TypeOK ==
    /\ Len(events) <= MaxEvents
    /\ \A k \in DOMAIN idempotency : idempotency[k] \in Requests
    /\ \A i \in 1 .. Len(events) : events[i].order \in Requests

OrdersOf(s, side, states) ==
    {r \in Requests : r.side = side /\ s.orders[r].status \in states}
ReleasedTwice(s) == \E r \in Requests : s.orders[r].released > 1

\* An order never costs more than was frozen for it, nor is it filled worse
\* than its limit, whatever the reference the caller brings.
FillsStayInsideTheLimit ==
    \A i \in 1 .. Len(events) :
       LET e == events[i] IN
       e.type = "filled" =>
          IF e.order.side = "BUY" THEN - e.cash <= - e.frozen
          ELSE e.cash >= e.order.limit * e.quantity - Fee(e.order.limit * e.quantity)

\* The account the events add up to is sound after any sequence of calls:
\* what is frozen is what open orders reserved, shares are what was bought and
\* not sold, every key stands for one order, and no bought share can be sold
\* before its order was released; and no order is filled outside its limit.  The one way to lose this, and to make every
\* later rebuild raise, is to release the same order twice.
SyntheticAccountIsSound ==
    LET s == Account
        open == {"accepted", "unfilled"}
        quantities(rs) == SumFunctionOnSet([r \in Requests |-> r.quantity], rs)
        bought == OrdersOf(s, "BUY", {"filled"})
        unreleased == {r \in bought : s.orders[r].released = 0}
    IN /\ TypeOK /\ FillsStayInsideTheLimit
       /\ ~ s.sound => ReleasedTwice(s)
       /\ s.sound =>
            /\ s.frozen = SumFunctionOnSet([r \in Requests |-> s.orders[r].cash],
                                           OrdersOf(s, "BUY", open))
            /\ s.held = quantities(OrdersOf(s, "SELL", open))
            /\ s.total = quantities(bought) - quantities(OrdersOf(s, "SELL", {"filled"}))
            /\ Cardinality({r \in Requests : s.orders[r].status # "none"})
               = Cardinality(DOMAIN idempotency)
            /\ ~ ReleasedTwice(s) =>
                  s.available + s.held = s.total - quantities(unreleased)

\* The price of a reference was known at its cutoff: there is one price for a
\* cutoff, whatever the bar after it will say.
ReferencesKnowNoFuture ==
    \A a, b \in references : a.cutoff = b.cutoff => a.price = b.price /\ a.price = 1050
=============================================================================
