-------------------------- MODULE SimulationLedger --------------------------
(***************************************************************************)
(* The ledger of simulated trading: order rows, positions with a sellable  *)
(* part (T+1), one account row.  A simulated order is one transaction of   *)
(* the request that brings it: priced, checked against cash or sellable    *)
(* shares, inserted as filled, booked into the position and the account.   *)
(* Beside it work the valuation of the worker, every 30 s, the worker's  *)
(* T+1 release of the morning, and the release through the API.            *)
(*                                                                         *)
(* The database is PostgreSQL at READ COMMITTED: a statement sees what is  *)
(* committed and what its own transaction wrote; a written row is locked   *)
(* until its transaction ends.  The account row is only ever the last one  *)
(* a transaction writes, so writing it and committing are one step here.   *)
(*                                                                         *)
(* Sources: trade/simulation_trader.py, trade/account_ledger.py,           *)
(* api/trade.py (release-t1), worker/services/portfolio_sync.py.           *)
(***************************************************************************)
EXTENDS Integers, FiniteSetsExt, Functions

CONSTANTS
    Orders,     \* simulated orders, one request each
    Stocks,
    StockOf,    \* the stock of an order
    Quantity,   \* shares of every order
    Holdings,   \* shares that may be held of a stock at the start, all sellable
    Cash,       \* cash at the start
    Fee,        \* commission, and stamp duty on a sale
    Prices,     \* what the market may show
    Requests,   \* values of force_all that API releases ask for
    MaxDay,     \* bound: trading days
    None

ASSUME QuantityAssumption == Quantity \in Nat \ {0}
ASSUME PricesAssumption == Prices \subseteq Nat \ {0}
\* A sale covers its fees: five yuan of commission on a lot of a stock.
ASSUME FeeAssumption == Fee \in Nat /\ \A p \in Prices : Fee <= p * Quantity
ASSUME StockOfAssumption == StockOf \in [Orders -> Stocks]
ASSUME HoldingsAssumption == Holdings \subseteq Nat
ASSUME RequestsAssumption == Requests \subseteq BOOLEAN
ASSUME CashAssumption == Cash \in Nat /\ MaxDay \in Nat \ {0}
ASSUME FiniteAssumption == IsFiniteSet(Orders) /\ IsFiniteSet(Stocks)
\* What stands for the absence of a row is no row.
ASSUME NoneAssumption ==
    /\ None \notin [total : Nat, available : Nat, value : Nat]
    /\ None \notin [status : {"SUBMITTED", "FILLED", "CANCELLED"}, side : {"BUY", "SELL"},
                   price : Nat, day : Nat]

VARIABLES
    day,        \* the trading day
    order,      \* trade.orders: status, side, fill price and fill day, or None
    position,   \* trade.positions: total, available, market value, or None
    cash,       \* account_records.cash
    assets,     \* account_records.total_assets
    sess,       \* the transaction of every order
    sync,       \* the transaction of the valuation
    release,    \* an API release under way: the stocks it has picked, or None
    released,   \* the worker has released today
    held,       \* history: the shares held of each stock at the start
    overtaken,  \* history: orders that saw another one booked since their check
    unlocked    \* history: <<day, stock>> released after a purchase of that day

tables == <<order, position, cash, assets>>
others == <<sync, release, released, held, unlocked>>
vars == <<day, tables, sess, others, overtaken>>

Sync == "sync"
Idle == [pc |-> "idle", side |-> "BUY", price |-> 0, seen |-> None, row |-> None]
SyncIdle == [pc |-> "idle", todo |-> {}, seen |-> [x \in Stocks |-> 0],
             value |-> [x \in Stocks |-> None], assets |-> 0]
Row(total, available, value) == [total |-> total, available |-> available, value |-> value]

ValueSum(table) ==
    SumFunctionOnSet([x \in Stocks |-> IF table[x] = None THEN 0 ELSE table[x].value], Stocks)

Init ==
    /\ day = 1
    /\ order = [o \in Orders |-> None]
    /\ held \in [Stocks -> Holdings]
    /\ position \in {[x \in Stocks |-> IF held[x] = 0 THEN None
                                       ELSE Row(held[x], held[x], p * held[x])] : p \in Prices}
    /\ cash = Cash
    /\ assets = Cash + ValueSum(position)
    /\ sess = [o \in Orders |-> Idle]
    /\ sync = SyncIdle
    /\ release = None
    /\ released = FALSE
    /\ overtaken = {}
    /\ unlocked = {}

-----------------------------------------------------------------------------
(* submit_order.                                                           *)

Amount(o) == sess[o].price * Quantity
Selling(o) == sess[o].side = "SELL"
Ends(o, pc) == sess' = [sess EXCEPT ![o] = [Idle EXCEPT !.pc = pc]]
Rejected(o) == Ends(o, "failed")

Available(x) == IF position[x] = None THEN 0 ELSE position[x].available

\* The cash or the sellable shares suffice; read without a lock.
Sufficient(o, side, p) ==
    IF side = "SELL" THEN Available(StockOf[o]) >= Quantity ELSE cash >= p * Quantity + Fee

\* The price the market gives, checked against what is there.
Accept(o) ==
    /\ sess[o].pc = "idle"
    /\ \E p \in Prices, side \in {"BUY", "SELL"} :
          /\ Sufficient(o, side, p)
          /\ sess' = [sess EXCEPT ![o].pc = "checked", ![o].side = side, ![o].price = p]
    /\ UNCHANGED <<day, tables, others, overtaken>>

\* No session, lot, tick or quote, the limit board, too little cash or shares.
Refuse(o) ==
    /\ sess[o].pc = "idle"
    /\ Rejected(o)
    /\ UNCHANGED <<day, tables, others, overtaken>>

\* A limit that is not touched: _insert_pending_order.  Nothing in the program
\* fills the order later.
LeaveOpen(o) ==
    /\ sess[o].pc = "idle"
    /\ \E side \in {"BUY", "SELL"} :
          order' = [order EXCEPT ![o] = [status |-> "SUBMITTED", side |-> side,
                                         price |-> 0, day |-> day]]
    /\ Ends(o, "done")
    /\ UNCHANGED <<day, position, cash, assets, others, overtaken>>

\* The order row is inserted; _get_position reads the position again, without
\* a lock.  A sale of a position that has gone is an error.
Read(o) ==
    /\ sess[o].pc = "checked"
    /\ LET x == StockOf[o] IN
       IF Selling(o) /\ position[x] = None THEN Rejected(o)
       ELSE sess' = [sess EXCEPT ![o].pc = "read", ![o].seen = position[x]]
    /\ UNCHANGED <<day, tables, others, overtaken>>

\* Whoever has written the row of a stock and not committed.
Holders(x) ==
    {o \in Orders : sess[o].pc = "written" /\ StockOf[o] = x}
        \cup {s \in {Sync} : sync.value[x] # None}

Max0(n) == IF n < 0 THEN 0 ELSE n

Opened(o) == Row(Quantity, 0, 0)

\* _update_position_buy: the sellable part stays what it is.
Bought(o, old) == Row(sess[o].seen.total + Quantity, old.available, 0)

\* _update_position_sell: both are written from what was read.
Sold(o) == Row(sess[o].seen.total - Quantity, Max0(sess[o].seen.available - Quantity), 0)

Emptied(o) == sess[o].seen.total <= Quantity

Valued(r, p) == [r EXCEPT !.value = r.total * p]

\* The row an UPDATE, INSERT or DELETE leaves, computed from the row the
\* order has read and applied to the row as it is now: a row that has gone is
\* not updated.
Written(o) ==
    LET old == position[StockOf[o]]
        p == sess[o].price
    IN  IF sess[o].seen = None THEN Valued(Opened(o), p)
        ELSE IF old = None THEN None
        ELSE IF ~Selling(o) THEN Valued(Bought(o, old), p)
        ELSE IF Emptied(o) THEN None
        ELSE Valued(Sold(o), p)

\* Inserting a position that another order has inserted breaks the unique
\* key: the transaction is rolled back.
Write(o) ==
    /\ sess[o].pc = "read"
    /\ Holders(StockOf[o]) = {}
    /\ IF sess[o].seen = None /\ position[StockOf[o]] # None THEN Rejected(o)
       ELSE sess' = [sess EXCEPT ![o].pc = "written", ![o].row = Written(o)]
    /\ UNCHANGED <<day, tables, others, overtaken>>

\* Mutant: the fees are not taken from the account.
ProceedsGross(o) == IF Selling(o) THEN Amount(o) ELSE 0 - Amount(o)

Proceeds(o) == IF Selling(o) THEN Amount(o) - Fee ELSE 0 - Amount(o) - Fee

\* recompute_account_assets, after the order's own writes.
AssetsAfter(o) ==
    cash + Proceeds(o) + ValueSum([position EXCEPT ![StockOf[o]] = sess[o].row])

\* The relative update of the cash, recompute_account_assets, the commit.
Book(o) ==
    /\ sess[o].pc = "written"
    /\ position' = [position EXCEPT ![StockOf[o]] = sess[o].row]
    /\ order' = [order EXCEPT ![o] = [status |-> "FILLED", side |-> sess[o].side,
                                      price |-> sess[o].price, day |-> day]]
    /\ cash' = cash + Proceeds(o)
    /\ assets' = AssetsAfter(o)
    /\ Ends(o, "done")
    /\ overtaken' = overtaken \cup
           {q \in Orders \ {o} : sess[q].pc \in {"checked", "read", "written"}}
    /\ UNCHANGED <<day, others>>

\* The process dies or the database fails: nothing of the order remains.
RollBack(o) ==
    /\ sess[o].pc \in {"checked", "read", "written"}
    /\ Rejected(o)
    /\ UNCHANGED <<day, tables, others, overtaken>>

\* cancel_order.
Cancel(o) ==
    /\ order[o] # None /\ order[o].status = "SUBMITTED"
    /\ order' = [order EXCEPT ![o].status = "CANCELLED"]
    /\ UNCHANGED <<day, position, cash, assets, sess, others, overtaken>>

Submit(o) == Accept(o) \/ Refuse(o) \/ LeaveOpen(o) \/ Read(o) \/ Write(o) \/ Book(o)

-----------------------------------------------------------------------------
(* The T+1 releases.                                                       *)

Open(x) == position[x] # None /\ position[x].available < position[x].total
BoughtToday(x) ==
    \E o \in Orders : /\ StockOf[o] = x /\ order[o] # None
                      /\ order[o].status = "FILLED" /\ order[o].side = "BUY"
                      /\ order[o].day = day

\* UPDATE ... SET available_qty = total_qty, for the stocks in xs.
ReleaseAll(xs) ==
    LET opened == {x \in xs : Open(x)} IN
    /\ \A x \in opened : Holders(x) = {}
    /\ position' = [x \in Stocks |-> IF x \in opened
                                     THEN [position[x] EXCEPT !.available = position[x].total]
                                     ELSE position[x]]
    /\ unlocked' = unlocked \cup {<<day, x>> : x \in {y \in opened : BoughtToday(y)}}
    /\ UNCHANGED <<day, order, cash, assets, sess, sync, held, overtaken>>

\* tasks.update_available_quantity, once a day at 09:25 or when a worker gets
\* to it; what was bought today is not told from the rest.
MorningRelease ==
    /\ ~released
    /\ ReleaseAll(Stocks)
    /\ released' = TRUE
    /\ UNCHANGED release

\* release-t1 with force_all: the user asks for the next trading day.
ForcedRelease ==
    /\ TRUE \in Requests
    /\ ReleaseAll(Stocks)
    /\ UNCHANGED <<release, released>>

\* release-t1 without: _maybe_release_t1.  The statement picks its rows, none
\* of a stock with a purchase of today, by what is committed when it starts.
StartRelease ==
    /\ FALSE \in Requests /\ release = None
    /\ release' = {x \in Stocks : Open(x) /\ ~BoughtToday(x)}
    /\ UNCHANGED <<day, tables, sess, sync, released, held, overtaken, unlocked>>

\* It then waits for those rows, and takes them as they have become: only the
\* conditions on the row itself are looked at again.
FinishRelease ==
    /\ release # None
    /\ ReleaseAll(release)
    /\ release' = None
    /\ UNCHANGED released

-----------------------------------------------------------------------------
(* PortfolioSyncService.sync_all, every 30 seconds.                        *)

SyncRead ==
    /\ sync.pc = "idle"
    /\ sync' = [sync EXCEPT !.pc = "rows",
                            !.todo = {x \in Stocks : position[x] # None},
                            !.seen = [x \in Stocks |-> IF position[x] = None THEN 0
                                                       ELSE position[x].total]]
    /\ UNCHANGED <<day, tables, sess, release, released, held, overtaken, unlocked>>

\* A stock without a quote in the cache keeps its value; a row that has gone
\* is not updated.
SyncValue(x) ==
    /\ sync.pc = "rows" /\ x \in sync.todo
    /\ \/ sync' = [sync EXCEPT !.todo = @ \ {x}]
       \/ /\ Holders(x) = {} /\ position[x] # None
          /\ \E p \in Prices :
                sync' = [sync EXCEPT !.todo = @ \ {x}, !.value[x] = p * sync.seen[x]]
    /\ UNCHANGED <<day, tables, sess, release, released, held, overtaken, unlocked>>

\* The positions as the valuation sees them: the committed ones and its own.
Repriced ==
    [x \in Stocks |-> IF sync.value[x] = None THEN position[x]
                      ELSE [position[x] EXCEPT !.value = sync.value[x]]]

\* Mutant: the sum of the values is taken before the new ones are written.
SyncAssetsBefore(table) == cash + ValueSum(position)

SyncAssets(table) == cash + ValueSum(table)

\* _recompute_account reads cash and values ...
SyncSum ==
    /\ sync.pc = "rows" /\ sync.todo = {}
    /\ sync' = [sync EXCEPT !.pc = "summed", !.assets = SyncAssets(Repriced)]
    /\ UNCHANGED <<day, tables, sess, release, released, held, overtaken, unlocked>>

\* ... and writes their sum.
SyncBook ==
    /\ sync.pc = "summed"
    /\ position' = Repriced
    /\ assets' = sync.assets
    /\ sync' = SyncIdle
    /\ UNCHANGED <<day, order, cash, sess, release, released, held, overtaken, unlocked>>

Valuation == SyncRead \/ (\E x \in Stocks : SyncValue(x)) \/ SyncSum \/ SyncBook

-----------------------------------------------------------------------------
\* Nothing spans midnight here; the worker's release may have been lost.
NextDay ==
    /\ day < MaxDay
    /\ \A o \in Orders : sess[o].pc \in {"idle", "done", "failed"}
    /\ release = None /\ sync.pc = "idle"
    /\ day' = day + 1
    /\ released' = FALSE
    /\ UNCHANGED <<tables, sess, sync, release, held, overtaken, unlocked>>

Next ==
    \/ \E o \in Orders : Submit(o) \/ RollBack(o) \/ Cancel(o)
    \/ MorningRelease \/ ForcedRelease \/ StartRelease \/ FinishRelease
    \/ Valuation
    \/ NextDay

Spec == Init /\ [][Next]_vars

-----------------------------------------------------------------------------
(* Properties.                                                             *)

FilledIn(x) == {o \in Orders : StockOf[o] = x /\ order[o] # None /\ order[o].status = "FILLED"}
Filled == UNION {FilledIn(x) : x \in Stocks}
Sales(os) == {o \in os : order[o].side = "SELL"}
Shares(os) == Quantity * (Cardinality(os \ Sales(os)) - Cardinality(Sales(os)))
Total(x) == IF position[x] = None THEN 0 ELSE position[x].total

TypeOK ==
    /\ day \in 1 .. MaxDay
    /\ \A o \in Orders :
          /\ order[o] # None => /\ order[o].status \in {"SUBMITTED", "FILLED", "CANCELLED"}
                                /\ order[o].side \in {"BUY", "SELL"}
                                /\ order[o].price \in Prices \cup {0}
                                /\ order[o].day \in 1 .. day
          /\ sess[o].pc \in {"idle", "checked", "read", "written", "done", "failed"}
    /\ \A x \in Stocks : position[x] # None =>
          /\ position[x].total \in Nat \ {0}
          /\ position[x].available \in Nat
          /\ position[x].value \in Nat
    /\ cash \in Int /\ assets \in Int
    /\ sync.pc \in {"idle", "rows", "summed"} /\ sync.todo \subseteq Stocks
    /\ release = None \/ release \subseteq Stocks

\* Money is never made or lost: cash is the start capital less what the
\* filled order rows cost, whatever failed or raced (_execute_fill_transaction).
CashMatchesOrders ==
    LET flow == [o \in Filled |-> (IF order[o].side = "SELL" THEN 1 ELSE 0 - 1)
                                    * order[o].price * Quantity - Fee]
    IN  cash = Cash + SumFunctionOnSet(flow, Filled)

\* Orders of one stock that did not overlap leave the position their rows
\* add up to, no more of it sellable than there is, and no short sale; orders
\* that did not overlap at all leave no debt.
SerialOrdersAddUp ==
    /\ \A x \in Stocks : {o \in overtaken : StockOf[o] = x} = {} =>
          /\ Total(x) = held[x] + Shares(FilledIn(x))
          /\ Available(x) <= Total(x)
    /\ overtaken = {} => cash >= 0

\* What was bought on a day is not sold on it, unless a release unlocked it
\* or orders overlapped (T+1; _update_position_buy, submit_order).
SoldSameDay(x, d) ==
    LET before == {o \in FilledIn(x) : order[o].day < d}
        sold   == {o \in Sales(FilledIn(x)) : order[o].day = d}
    IN  held[x] + Shares(before \cup sold) < 0

SameDaySaleHasACause ==
    \A x \in Stocks, d \in 1 .. day :
        SoldSameDay(x, d) => <<d, x>> \in unlocked \/ \E o \in overtaken : StockOf[o] = x

\* The books of simulated trading add up, whatever failed or raced: cash and
\* the order rows always, positions and T+1 but for the overlaps and releases
\* that are known to break them.
BooksAddUp == TypeOK /\ CashMatchesOrders /\ SerialOrdersAddUp /\ SameDaySaleHasACause

\* The recorded total does not drift: after the last order it comes to agree
\* with cash and positions and stays so (recompute_account_assets).
AssetsSettle == <>[](assets = cash + ValueSum(position))
=============================================================================
