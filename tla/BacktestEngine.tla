--------------------------- MODULE BacktestEngine ---------------------------
(***************************************************************************)
(* One run of the trusted backtest engine over one stock: the day loop of  *)
(* BacktestEngine.run with _execute_order, the corporate action it was     *)
(* given and the trading rules of the day.  Prices are in ticks of 0.01,   *)
(* money in the same unit.  Slippage is one tick, an average cost is       *)
(* rounded down to a tick per share; the code keeps fractions.  Stocks     *)
(* share nothing but the cash, which the orders of a day compete for here  *)
(* as well.  What a day's prices and a strategy's indicators are is open.  *)
(***************************************************************************)
EXTENDS Integers, SequencesExt, MarketRules

CONSTANTS
    TradingDays,   \* the certified calendar of the run
    Bars,          \* what a day's bar may be: [open, previous, traded]
    Batches,       \* the sequences of preset signals a day may bring
    StrategyLot,   \* the quantity _qty_from_pct comes to
    Stocks,        \* the security statuses of the stock that are tried
    Actions,       \* the corporate actions that are tried
    Openings,      \* cash and shares a run may start with
    NoBar, Unknown \* no bar on a day; no record-date quantity taken yet

Slippage == 1

VARIABLES
    stock, action,   \* chosen when the run begins
    day, phase,      \* where the day loop is
    cash, quantity, available, cost, realized, income,
    pending,         \* orders waiting for their execution date
    entitled,        \* the quantity held on the record date
    credited, paid,  \* which parts of the entitlement were applied
    bar,             \* the day's bar
    overcharged      \* history: a sale whose fees exceeded its amount

account == <<cash, quantity, available, cost, realized, income>>
chosen  == <<stock, action>>
vars == <<chosen, day, phase, account, pending, entitled, credited, paid, bar,
          overcharged>>

\* next_trading_day: the first trading day after a date, 0 if there is none.
NextTradingDay(d) ==
    LET later == {t \in TradingDays : t > d}
    IN IF later = {} THEN 0 ELSE Min(later)

\* validate_event: the order of the dates of a verified corporate action.
ValidAction(a) ==
    a.record <= a.ex /\ a.ex <= a.payment /\ a.ex <= a.credit

\* calculate_entitlement, for rates per ten shares.
ShareIncrease(q) == (q * action.shares) \div 10
Dividend(q)      == (q * action.dividend) \div 10
Fractional(q)    == (q * action.shares) % 10 # 0

TypeOK ==
    /\ day \in TradingDays \cup {0}
    /\ phase \in {"morning", "trading", "closing", "done", "failed"}
    /\ quantity \in Nat /\ available \in 0 .. quantity /\ cost \in Nat
    /\ income \in Nat /\ {cash, realized} \subseteq Int
    /\ \A i \in 1 .. Len(pending) : pending[i].execute \in TradingDays
    /\ entitled \in Nat \cup {Unknown}
    /\ {credited, paid, overcharged} \subseteq BOOLEAN

Init ==
    /\ stock \in Stocks
    /\ action \in {a \in Actions : ValidAction(a)}
    /\ \E o \in Openings : cash = o.cash /\ quantity = o.quantity /\ cost = o.cost
    /\ available = quantity /\ realized = 0 /\ income = 0
    /\ day = NextTradingDay(0) /\ phase = "morning"
    /\ pending = <<>> /\ bar = NoBar
    /\ entitled = Unknown /\ credited = FALSE /\ paid = FALSE
    /\ overcharged = FALSE

----------------------------------------------------------------------------
(* The morning: what is due of the corporate action, then the T+1 release. *)

CreditDue  == entitled # Unknown /\ action.credit = day /\ ~ credited
PaymentDue == entitled # Unknown /\ action.payment = day /\ ~ paid
Credit     == IF CreditDue THEN ShareIncrease(entitled) ELSE 0

\* Mutant: the dividend is paid on what is held on the payment date.
PaymentOnHolding == IF PaymentDue THEN Dividend(quantity) ELSE 0
Payment    == IF PaymentDue THEN Dividend(entitled) ELSE 0

\* The position has been sold: there is no row to credit the shares to.
PositionDisappeared == Credit > 0 /\ quantity = 0

Morning ==
    /\ phase = "morning" /\ ~ PositionDisappeared
    /\ bar' \in Bars \cup {NoBar}
    /\ quantity' = quantity + Credit
    /\ available' = quantity'
    /\ cash' = cash + Payment
    /\ income' = income + Payment
    /\ credited' = (credited \/ CreditDue)
    /\ paid' = (paid \/ PaymentDue)
    /\ phase' = "trading"
    /\ UNCHANGED <<chosen, day, cost, realized, pending, entitled, overcharged>>

\* "corporate action position disappeared before share credit": the run ends.
MorningFails ==
    /\ phase = "morning" /\ PositionDisappeared
    /\ phase' = "failed"
    /\ UNCHANGED <<chosen, day, account, pending, entitled, credited, paid, bar,
                   overcharged>>

----------------------------------------------------------------------------
(* The orders of the day, one after the other.                             *)

\* day_orders: the places in pending of what is due today.
DueOrders == {i \in DOMAIN pending : pending[i].execute = day}
Rule(type) == RuleValue(type, day, stock)

Up   == LimitUp(bar.previous, Rule("price_limit"))
Down == LimitDown(bar.previous, Rule("price_limit"))

\* _apply_slippage, inside the price limits.
MarketPrice(side) ==
    IF side = "BUY"
    THEN IF bar.open + Slippage <= Up THEN bar.open + Slippage ELSE Up
    ELSE IF bar.open - Slippage >= Down THEN bar.open - Slippage ELSE Down

\* A limit order that is reached fills at its own limit.
Price(o) == IF o.limit = 0 THEN MarketPrice(o.side) ELSE o.limit

Commission(amount) ==
    LET by == (amount * Rule("commission_rate")) \div 100000
    IN IF by >= Rule("minimum_commission") THEN by ELSE Rule("minimum_commission")
Fees(o) ==
    LET amount == Price(o) * o.quantity
    IN Commission(amount) + (amount * Rule("transfer_fee")) \div 100000
       + IF o.side = "SELL" THEN (amount * Rule("stamp_duty_sell")) \div 100000 ELSE 0

Debit(o)    == Price(o) * o.quantity + Fees(o)
Proceeds(o) == Price(o) * o.quantity - Fees(o)

\* The shares sold take their part of the cost along.
Allocated(q) == IF q = quantity THEN cost ELSE (cost \div quantity) * q

\* The reasons _execute_order refuses an order for, in its order.
Tradable(o) ==
    /\ Resolvable(day, stock)
    /\ bar # NoBar /\ bar.traded
    /\ o.quantity > 0
    /\ IF o.side = "BUY" THEN o.quantity % Rule("buy_lot_size") = 0
       ELSE ValidSell(o.quantity, available, Rule("sell_lot_size"))
    /\ IF o.side = "BUY" THEN bar.open < Up ELSE bar.open > Down
    /\ o.limit # 0 => IF o.side = "BUY" THEN MarketPrice("BUY") <= o.limit
                      ELSE MarketPrice("SELL") >= o.limit

Fills(o) == Tradable(o) /\ (o.side = "BUY" => cash >= Debit(o))

Watch(o) == overcharged' = (overcharged \/ (o.side = "SELL" /\ Proceeds(o) < 0))

\* Mutant: what is bought can be sold the same day.
BoughtAtOnce(o) ==
    /\ cash' = cash - Debit(o)
    /\ quantity' = quantity + o.quantity
    /\ available' = available + o.quantity
    /\ cost' = cost + Debit(o)
    /\ UNCHANGED realized

Bought(o) ==
    /\ cash' = cash - Debit(o)
    /\ quantity' = quantity + o.quantity
    /\ cost' = cost + Debit(o)
    /\ UNCHANGED <<available, realized>>

Sold(o) ==
    /\ cash' = cash + Proceeds(o)
    /\ quantity' = quantity - o.quantity
    /\ available' = available - o.quantity
    /\ cost' = cost - Allocated(o.quantity)
    /\ realized' = realized + Proceeds(o) - Allocated(o.quantity)

ExecuteOrder ==
    /\ phase = "trading" /\ DueOrders # {}
    /\ LET first == Min(DueOrders)
           o == pending[first]
       IN
       /\ \/ Fills(o) /\ o.side = "BUY"  /\ Bought(o) /\ Watch(o)
          \/ Fills(o) /\ o.side = "SELL" /\ Sold(o) /\ Watch(o)
          \/ ~ Fills(o) /\ UNCHANGED <<account, overcharged>>
       /\ pending' = RemoveAt(pending, first)
    /\ UNCHANGED <<chosen, day, phase, income, entitled, credited, paid, bar>>

----------------------------------------------------------------------------
(* The close: record-date entitlement, then the day's signals.             *)

TakesRecord == action.record = day /\ entitled = Unknown

\* The built-in strategies buy when they hold nothing, and sell all they hold.
StrategySignal ==
    IF quantity = 0 THEN [side |-> "BUY", quantity |-> StrategyLot, limit |-> 0]
    ELSE [side |-> "SELL", quantity |-> quantity, limit |-> 0]

\* The order a signal becomes: for the next trading day, in whole lots.
OrderFor(signal) ==
    LET next == NextTradingDay(day) IN
    [side |-> signal.side, limit |-> signal.limit, signalled |-> day, execute |-> next,
     quantity |-> Normalised(signal.side, signal.quantity,
                             IF Resolvable(next, stock)
                             THEN RuleValue("buy_lot_size", next, stock) ELSE 100)]

Close ==
    /\ phase = "trading" /\ DueOrders = {}
    /\ ~ (TakesRecord /\ Fractional(quantity))
    /\ entitled' = IF TakesRecord THEN quantity ELSE entitled
    /\ \E batch \in Batches \cup {<<StrategySignal>>} :
          pending' = IF NextTradingDay(day) = 0 THEN pending
                     ELSE pending \o [i \in 1 .. Len(batch) |-> OrderFor(batch[i])]
    /\ day' = NextTradingDay(day)
    /\ phase' = IF NextTradingDay(day) = 0 THEN "done" ELSE "morning"
    /\ bar' = NoBar
    /\ UNCHANGED <<chosen, account, credited, paid, overcharged>>

\* A fraction of a share cannot be allocated: the run ends.
CloseFails ==
    /\ phase = "trading" /\ DueOrders = {}
    /\ TakesRecord /\ Fractional(quantity)
    /\ phase' = "failed"
    /\ UNCHANGED <<chosen, day, account, pending, entitled, credited, paid, bar,
                   overcharged>>

Next == Morning \/ MorningFails \/ ExecuteOrder \/ Close \/ CloseFails

Spec == Init /\ [][Next]_vars

----------------------------------------------------------------------------
(* Properties.                                                             *)

\* Nothing is made or lost: cash and the cost of what is held are the opening
\* amounts plus what sales realised and dividends brought.
BooksBalance ==
    \E o \in Openings : cash + cost = o.cash + o.cost + realized + income

\* The account of BacktestEngine.run is sound: it balances, cash is only
\* negative after a sale whose fees exceeded its amount, and every waiting order is
\* for the trading day that follows its signal, today's or later.
AccountIsSound ==
    /\ TypeOK
    /\ BooksBalance
    /\ cash < 0 => overcharged
    /\ \A i \in 1 .. Len(pending) :
          /\ pending[i].execute = NextTradingDay(pending[i].signalled)
          /\ pending[i].execute >= day

\* The engine only makes the moves of the repository's reference ledgers.
ReferenceLedger == INSTANCE AccountingContract
MatchesReference == ReferenceLedger!Spec

\* A run that ends has applied the corporate action exactly as far as its
\* dates fall on trading days behind the record date: a date on the record
\* date itself or on a holiday is never served.  A run that breaks off does so
\* because the position was sold out before the shares came, or because the
\* record date brought a fraction of a share.
Served(date) == entitled # Unknown /\ date \in TradingDays /\ date > action.record
EntitlementsSettle ==
    /\ phase = "done" => (paid <=> Served(action.payment)) /\ (credited <=> Served(action.credit))
    /\ paid => income = Dividend(entitled)
    /\ phase = "failed" => \/ PositionDisappeared
                           \/ TakesRecord /\ Fractional(quantity)
=============================================================================
