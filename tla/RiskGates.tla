----------------------------- MODULE RiskGates -----------------------------
(***************************************************************************)
(* The risk rules an order meets after the fuse, and what they measure.    *)
(* A check reads in several statements of a READ COMMITTED transaction:    *)
(* the observed quote of its stock, the latest account row, the positions  *)
(* with their observed quotes, the highest total any account row shows,    *)
(* and the orders of the day.  Nothing is reserved by passing: the order   *)
(* is booked later, when other orders may have been booked and the market  *)
(* may have moved.  Meanwhile the worker values the account every 30 s,    *)
(* reconciles it at 16:00 and appends a new account row at 16:30.          *)
(*                                                                         *)
(* One lot of a stock is one unit.  Ratios are percentages.                *)
(*                                                                         *)
(* Sources: risk/checker.py, risk/monitor.py, trade/preflight.py,          *)
(* trade/simulation_trader.py, worker/services/portfolio_sync.py,          *)
(* worker/services/maintenance_ops.py, scripts/init_simulation_account.py. *)
(***************************************************************************)
EXTENDS Integers, FiniteSetsExt, SequencesExt

CONSTANTS
    Orders,         \* simulated orders of one lot that passed the fuse
    Requests,       \* what they ask for: <<side, stock, limit price>>
    Stocks,
    SectorOf,       \* the sector of a stock; none is NULL
    Barred,         \* stocks no rule lets buy: ST, newly listed, too little traded
    Quoted,         \* those the feed still quotes; the others are suspended
    Prices,         \* what a quote may show
    Opening,        \* the quote of a stock at the start
    Slip,           \* what a market order pays above the quote
    Fee,            \* commission, and stamp duty on a sale
    Capital,        \* the total the account starts with
    Held,           \* lots of every stock it starts with
    MaxSingle, MaxTotal, MaxSector, MaxLoss, MaxDrawdown,
    MaxOrders,      \* MAX_ORDER_FREQ
    MaxDay,         \* bound: trading days
    NoLimit         \* the limit price of a market order

ASSUME PricesAssumption == Prices \subseteq Nat \ {0}
ASSUME CostsAssumption == Slip \in Nat /\ Fee \in Nat
ASSUME BooksAssumption ==
    /\ IsFiniteSet(Stocks) /\ IsFiniteSet(Orders) /\ Quoted \subseteq Stocks
    /\ Opening \in [Stocks -> Prices] /\ Capital \in Int /\ Held \in Nat
ASSUME RequestsAssumption ==
    Requests \subseteq {"BUY", "SELL"} \X Stocks \X (Nat \cup {NoLimit}) /\ NoLimit \notin Nat
ASSUME LimitsAssumption ==
    {MaxSingle, MaxTotal, MaxSector, MaxOrders} \subseteq Nat /\ MaxDrawdown \in 0 .. 100

VARIABLES
    price,      \* the latest observed quote on record
    old,        \* stocks whose observed quote is older than 60 s
    shares,     \* positions.total_qty, in lots
    mark,       \* positions.current_price
    rows,       \* trade.account_records of the mode, oldest first
    aged,       \* the latest account row is older than 60 s
    day,        \* the trading day
    sess,       \* the request of every order
    overtaken,  \* history: orders whose inputs changed since they were read
    closings    \* history: what the account showed at the end of every day

market == <<price, old>>
books == <<shares, mark, rows, aged>>
riskVars == <<market, books, day, sess, overtaken, closings>>

Fresh == [pc |-> "new", side |-> "BUY", stock |-> "none", limit |-> NoLimit,
          worth |-> 0, cash |-> 0, day |-> 0]
Account == Last(rows)
Value(s, at) == shares[s] * at[s]
Worth(lots, stocks, at) == SumFunctionOnSet([s \in stocks |-> lots[s] * at[s]], stocks)
ValueOf(stocks, at) == Worth(shares, stocks, at)

\* The initial row, or the rows of an account that trades already.
RiskInit ==
    /\ price = Opening
    /\ old = {}
    /\ shares = [s \in Stocks |-> Held]
    /\ mark = price
    /\ LET worth == ValueOf(Stocks, price)
       IN  rows = <<[cash |-> Capital - worth, total |-> Capital, pnl |-> 0]>>
    /\ aged = FALSE
    /\ day = 1
    /\ sess = [o \in Orders |-> Fresh]
    /\ overtaken = {}
    /\ closings = {}

-----------------------------------------------------------------------------
(* The market. *)

\* Orders between the first statement of their check and their booking.
Underway == {o \in Orders : sess[o].pc \in {"read", "passed"}}

\* A new observed quote is persisted.
QuoteMoves(s) ==
    /\ \E p \in Prices : price' = [price EXCEPT ![s] = p]
    /\ old' = old \ {s}
    /\ price' # price \/ old' # old
    /\ overtaken' = overtaken \cup Underway
    /\ UNCHANGED <<books, day, sess, closings>>

QuoteAges(s) ==
    /\ s \notin old
    /\ old' = old \cup {s}
    /\ UNCHANGED <<price, books, day, sess, overtaken, closings>>

\* Nothing has written the account row for a minute.
AccountAges ==
    /\ ~aged
    /\ aged' = TRUE
    /\ UNCHANGED <<market, shares, mark, rows, day, sess, overtaken, closings>>

-----------------------------------------------------------------------------
(* The worker. *)

\* _recompute_account and recompute_account_assets: the latest row, in place.
Recomputed(cash, at, lots) ==
    [Account EXCEPT !.cash = cash, !.total = cash + Worth(lots, Stocks, at)]

\* sync_portfolio_value: held positions get the cached quote, where there is
\* one, and the latest account row its total.
SyncPortfolio ==
    /\ mark' = [s \in Stocks |-> IF shares[s] > 0 /\ s \notin old
                                 THEN price[s] ELSE mark[s]]
    /\ rows' = [rows EXCEPT ![Len(rows)] = Recomputed(Account.cash, mark', shares)]
    /\ aged' = FALSE
    /\ UNCHANGED <<market, shares, day, sess, overtaken, closings>>

\* Mutant: the snapshot rewrites the latest row.
EodRowsInPlace(row) == [rows EXCEPT ![Len(rows)] = row]

\* The snapshot is a further row; the next day's valuations rewrite it.
EodRows(row) == Append(rows, row)

\* take_eod_snapshot, and midnight: it copies the daily profit it finds.
TakeEodSnapshot ==
    /\ day < MaxDay
    /\ rows' = EodRows(Recomputed(Account.cash, mark, shares))
    /\ closings' = closings \cup {Account.total}
    /\ aged' = FALSE
    /\ day' = day + 1
    /\ overtaken' = overtaken \cup Underway
    /\ UNCHANGED <<market, shares, mark, sess>>

-----------------------------------------------------------------------------
(* PreTradeRiskChecker.check. *)

\* The observed quote of the stock and the account row: either out of date
\* ends the check, as unreadable rules do.
ReadQuoteAndAccount(o, side, s, limit) ==
    /\ sess[o].pc = "new"
    /\ sess' = [sess EXCEPT ![o] =
                   IF s \in old \/ aged
                   THEN [Fresh EXCEPT !.pc = "blocked"]
                   ELSE [pc |-> "read", side |-> side, stock |-> s, limit |-> limit,
                         worth |-> IF limit = NoLimit THEN price[s] ELSE limit,
                         cash |-> Account.cash, day |-> day]]
    /\ UNCHANGED <<market, books, day, overtaken, closings>>

\* get_portfolio_snapshot: total_assets, from the cash read before.
Total(o) == sess[o].cash + ValueOf(Stocks, price)

Exceeds(part, whole, percent) == whole <= 0 \/ 100 * part > percent * whole

\* Mutant: the order's own value is compared with the limit of one stock.
SingleTooLargeAlone(o) == Exceeds(sess[o].worth, Total(o), MaxSingle)

SingleTooLarge(o) ==
    Exceeds(Value(sess[o].stock, price) + sess[o].worth, Total(o), MaxSingle)

TotalTooLarge(o) ==
    Exceeds(ValueOf(Stocks, price) + sess[o].worth, Total(o), MaxTotal)

SectorTooLarge(o) ==
    LET peers == {s \in Stocks : SectorOf[s] = SectorOf[sess[o].stock]}
    IN  Exceeds(ValueOf(peers, price) + sess[o].worth, Total(o), MaxSector)

\* The recorded daily profit of the latest row, as a share of the total.
LossTooLarge(o) == Exceeds(Max({-Account.pnl, 0}), Total(o), MaxLoss)

Peak(o) == Max({rows[i].total : i \in DOMAIN rows} \cup {Total(o)})
DrawdownTooLarge(o) == 100 * (Peak(o) - Total(o)) > MaxDrawdown * Peak(o)

OrdersOf(d) == {o \in Orders : sess[o].pc \in {"booked", "pending"} /\ sess[o].day = d}
TooManyOrders == Cardinality(OrdersOf(day)) >= MaxOrders

\* The stocks without which the account has no value.
Unvalued == {s \in Stocks : shares[s] > 0} \cap old

PurchaseBlocked(o) ==
    \/ sess[o].stock \in Barred
    \/ SingleTooLarge(o) \/ TotalTooLarge(o) \/ SectorTooLarge(o)

Blocked(o) ==
    \/ Unvalued # {}
    \/ sess[o].side = "BUY" /\ PurchaseBlocked(o)
    \/ LossTooLarge(o) \/ DrawdownTooLarge(o) \/ TooManyOrders

\* Positions, peak and orders of the day; an exception blocks as well.
DecideOrder(o) ==
    /\ sess[o].pc = "read"
    /\ \E pc \in (IF Blocked(o) THEN {} ELSE {"passed"}) \cup {"blocked"} :
          sess' = [sess EXCEPT ![o] = IF pc = "passed" THEN [@ EXCEPT !.pc = pc]
                                      ELSE [Fresh EXCEPT !.pc = pc]]
    /\ overtaken' = IF sess'[o].pc = "blocked" THEN overtaken \ {o} ELSE overtaken
    /\ UNCHANGED <<market, books, day, closings>>

-----------------------------------------------------------------------------
(* The simulated trader: one transaction, priced anew. *)

FillPrice(o) ==
    LET q == sess[o]
        p == price[q.stock]
    IN  CASE q.limit = NoLimit /\ q.side = "BUY" -> p + Slip
          [] q.limit = NoLimit -> p - Slip
          [] OTHER -> p

Touched(o) ==
    LET q == sess[o]
    IN  q.limit # NoLimit => IF q.side = "BUY" THEN price[q.stock] <= q.limit
                                               ELSE price[q.stock] >= q.limit

Covered(o) ==
    IF sess[o].side = "BUY" THEN Account.cash >= FillPrice(o) + Fee
                            ELSE shares[sess[o].stock] > 0

\* A limit the market does not touch leaves a row that nothing fills later.
HangOrder(o) ==
    /\ sess[o].pc = "passed" /\ ~Touched(o)
    /\ sess' = [sess EXCEPT ![o] = [Fresh EXCEPT !.pc = "pending", !.day = day]]
    /\ overtaken' = (overtaken \cup Underway) \ {o}
    /\ UNCHANGED <<market, books, day, closings>>

BookOrder(o) ==
    LET q == sess[o]
        buy == q.side = "BUY"
        fill == FillPrice(o)
    IN  /\ q.pc = "passed" /\ Covered(o) /\ Touched(o)
        /\ shares' = [shares EXCEPT ![q.stock] = IF buy THEN @ + 1 ELSE @ - 1]
        /\ mark' = [mark EXCEPT ![q.stock] = fill]
        /\ rows' = [rows EXCEPT ![Len(rows)] =
                       Recomputed(Account.cash + (IF buy THEN -fill ELSE fill) - Fee,
                                  mark', shares')]
        /\ aged' = FALSE
        /\ sess' = [sess EXCEPT ![o] = [Fresh EXCEPT !.pc = "booked", !.day = day]]
        /\ overtaken' = (overtaken \cup Underway) \ {o}
        /\ UNCHANGED <<market, day, closings>>

\* No cash or shares, a rejected approval, a closed market or a stock at its
\* price limit, a lost process.
DropOrder(o) ==
    /\ sess[o].pc = "passed"
    /\ sess' = [sess EXCEPT ![o] = [Fresh EXCEPT !.pc = "blocked"]]
    /\ overtaken' = overtaken \ {o}
    /\ UNCHANGED <<market, books, day, closings>>

RiskNext ==
    \/ \E s \in Quoted : QuoteMoves(s)
    \/ \E s \in Stocks : QuoteAges(s)
    \/ AccountAges \/ SyncPortfolio \/ TakeEodSnapshot
    \/ \E o \in Orders :
          \/ \E r \in Requests : ReadQuoteAndAccount(o, r[1], r[2], r[3])
          \/ DecideOrder(o) \/ HangOrder(o) \/ BookOrder(o) \/ DropOrder(o)

-----------------------------------------------------------------------------
(* Properties. *)

Passes(o) == sess[o].pc = "read" /\ sess'[o].pc = "passed"

\* A purchase leaves its stock, its sector and the whole position within
\* their limits of the assets before it, and the day within its number of
\* orders, unless something else was booked or quoted between its check and
\* its booking: that window is the only way past the limits
\* (PreTradeRiskChecker.check, SimulationTrader.submit_order).
PurchasesKeepLimits ==
    [][\A o \in Orders :
          LET s == sess[o].stock
              assets == Account.cash + ValueOf(Stocks, price)
              peers == {t \in Stocks : SectorOf[t] = SectorOf[s]}
              Keeps(part, percent) == 100 * part <= percent * assets
          IN  /\ sess[o].pc = "passed" /\ sess'[o].pc = "booked"
              /\ o \notin overtaken
              => /\ sess[o].side = "BUY" =>
                       /\ Keeps(shares'[s] * price[s], MaxSingle)
                       /\ Keeps(ValueOf(Stocks, price) + price[s], MaxTotal)
                       /\ Keeps(ValueOf(peers, price) + price[s], MaxSector)
                 /\ Cardinality(OrdersOf(day)') <= MaxOrders]_riskVars

\* No order, purchase or sale, passes while the account is worth less than
\* MaxDrawdown below what it showed at the end of any earlier day, however
\* often its row has been rewritten since (get_portfolio_snapshot's peak,
\* take_eod_snapshot's new row); an order that passes is valued at quotes of
\* the last minute.
DrawdownStopsOrders ==
    [][\A o \in Orders :
          Passes(o) /\ o \notin overtaken =>
             LET assets == Account.cash + ValueOf(Stocks, price)
             IN  \A c \in closings : 100 * assets >= (100 - MaxDrawdown) * c]_riskVars

-----------------------------------------------------------------------------
(* A claim of the repository that the code does not keep. *)

\* "单日亏损超过3%触发熔断" (alembic/versions/001_initial_schema.py:479): no
\* order passes on a day on which the account has lost more than MaxLoss of
\* what it showed when the day before ended.  Nothing ever computes the
\* profit of the day that the check reads.
LossesStopOrders ==
    [][\A o \in Orders :
          Passes(o) /\ o \notin overtaken /\ Len(rows) > 1 =>
             LET opening == rows[Len(rows) - 1].total
             IN  100 * Total(o) >= (100 - MaxLoss) * opening]_riskVars
=============================================================================
