----------------------------- MODULE OrderSync -----------------------------
(***************************************************************************)
(* Bringing the broker's fills into the local books in mode live: the      *)
(* session that submits an order and inserts its row, polls over all open  *)
(* rows, the bridge that handles broker callbacks, cancels, and the daily  *)
(* copy of the broker's positions.  Each runs in one READ COMMITTED        *)
(* transaction of its own, in several processes: a read sees committed     *)
(* rows, a write waits for the row lock and keeps it to the end, and a     *)
(* cycle of waits ends with the abort of one session.                      *)
(*                                                                         *)
(* Money is counted in shares: an amount stands for the price times the    *)
(* shares of one fill.  Fees, average costs and available_qty are left out.*)
(*                                                                         *)
(* Sources: trade/order_sync.py, trade/order_event_bridge.py,              *)
(* trade/live_trader.py, trade/order_manager.py (cancel_order).            *)
(***************************************************************************)
EXTENDS Integers, FiniteSets, Functions

CONSTANTS
    Orders,      \* live orders; an order also names the session submitting it
    Stocks,
    StockOf,     \* [Orders -> Stocks]
    Sells,       \* the orders whose side is SELL
    Quantity,    \* shares of every order
    Holding,     \* [Stocks -> Nat]: the positions before
    Polls,       \* workers that run sync_open_orders
    Callbacks,   \* broker events that reach the bridge
    Cancels,     \* runs of cancel_order
    Copies,      \* runs of sync_positions
    Lags,        \* open or FILLED statuses that reports may show late or early
    Prices,      \* {TRUE}, or BOOLEAN when reports may lack the fill price
    MaxLost,     \* bound: sessions lost to a crash or an error
    None

ASSUME QuantityAssumption == Quantity \in Nat \ {0} /\ MaxLost \in Nat
ASSUME StockAssumption == StockOf \in [Orders -> Stocks] /\ Holding \in [Stocks -> Nat]
ASSUME SidesAssumption == Sells \subseteq Orders
ASSUME ReportsAssumption ==
    /\ Lags \subseteq {"SUBMITTED", "PARTIAL", "FILLED"}
    /\ Prices \subseteq BOOLEAN /\ TRUE \in Prices

Sessions == Orders \cup Polls \cup Callbacks \cup Cancels \cup Copies

\* A session is of one kind, and only an order can be one that is submitted.
ASSUME SessionsAssumption ==
    /\ IsFiniteSet(Orders)
    /\ Orders \cap (Polls \cup Callbacks \cup Cancels \cup Copies) = {}
    /\ Polls \cap (Callbacks \cup Cancels \cup Copies) = {}
    /\ Copies \cap (Callbacks \cup Cancels) = {} /\ Callbacks \cap Cancels = {}

VARIABLES
    broker,      \* what the broker has made of each order
    row,         \* trade.orders, committed
    position,    \* trade.positions.total_qty, committed; 0 is no row
    paid,        \* account cash, committed, split by the order that moved it
    sess,        \* the sessions: place, data read, writes not yet committed
    emitted,     \* orders whose event, pushed after the insert, is under way
    overwritten, \* history: stocks whose position a session wrote from an older one
    early,       \* history: stocks copied while the rows lacked some of the fills
    short,       \* history: orders of sales that met fewer shares than they sold
    gone,        \* history: orders of sales that met no position at all
    lost         \* how many sessions were lost

history == <<overwritten, early, short, gone>>
vars == <<broker, row, position, paid, sess, emitted, overwritten, early, short, gone, lost>>

Open     == {"PENDING", "SUBMITTED", "PARTIAL"}
Terminal == {"FILLED", "CANCELLED", "FAILED"}
Report   == [status : Open \cup Terminal, filled : 0..Quantity, priced : BOOLEAN]
Message  == [report : Report, cumulative : BOOLEAN, read : Report]
ASSUME NoneAssumption ==
    /\ None \notin Report \cup Message \cup Nat \cup Orders
    /\ None \notin [status : Open \cup Terminal, filled : 0..Quantity]
Places   == {"idle", "inserting", "lookup", "query", "apply", "read", "write",
             "account", "push", "next", "copy", "done"}

Session == [at    : Places,
            todo  : SUBSET Orders,               \* rows a poll has still to do
            order : Orders \cup {None},
            view  : [Orders -> Report \cup {None}],  \* rows as read
            snap  : Report \cup {None},          \* the snapshot being applied
            msg   : Message \cup {None},         \* a callback, with the row it met
            base  : Nat,                         \* the position as read
            held  : [Stocks -> Nat \cup {None}],    \* broker positions still to copy
            rows  : [Orders -> Report \cup {None}],  \* orders written
            pos   : [Stocks -> Nat \cup {None}],     \* positions written
            money : [Orders -> Nat \cup {None}]]     \* cash moved

Fresh == [at |-> "idle", todo |-> {}, order |-> None,
          view |-> [o \in Orders |-> None], snap |-> None, msg |-> None, base |-> 0,
          held |-> [x \in Stocks |-> None],
          rows |-> [o \in Orders |-> None], pos |-> [x \in Stocks |-> None],
          money |-> [o \in Orders |-> None]]
\* Beat starts a poll again; every other session runs once.
Ended(s) == IF s \in Polls THEN Fresh ELSE [Fresh EXCEPT !.at = "done"]

TypeOK ==
    /\ broker \in [Orders -> Report \cup {None}]
    /\ row \in [Orders -> Report \cup {None}]
    /\ position \in [Stocks -> Nat]
    /\ paid \in [Orders -> Nat]
    /\ sess \in [Sessions -> Session]
    /\ emitted \subseteq Orders /\ overwritten \subseteq Stocks /\ early \subseteq Stocks
    /\ short \subseteq Sells /\ gone \subseteq Sells
    /\ lost \in 0..MaxLost

Init ==
    /\ broker = [o \in Orders |-> None] /\ row = [o \in Orders |-> None]
    /\ position = Holding
    /\ paid = [o \in Orders |-> 0]
    /\ sess = [s \in Sessions |-> Fresh]
    /\ emitted = {} /\ lost = 0
    /\ overwritten = {} /\ early = {} /\ short = {} /\ gone = {}

-----------------------------------------------------------------------------
(* The broker (external): it fills, cancels and fails orders as it likes,  *)
(* and what it answers or pushes may be behind.                            *)

BookUnchanged == UNCHANGED <<row, position, paid>>

Filled(o)  == broker[o].filled
Working(o) == broker[o] # None /\ broker[o].status \in Open
\* Nothing trades any more when the positions are copied (15:35).
Trading    == \A c \in Copies : sess[c].at = "idle"

BrokerStatus(o, status, filled) ==
    /\ broker' = [broker EXCEPT ![o] = [status |-> status, filled |-> filled,
                                        priced |-> TRUE]]
    /\ BookUnchanged /\ UNCHANGED <<sess, emitted, history, lost>>

BrokerFills(o) ==
    /\ Working(o) /\ Trading
    /\ BrokerStatus(o, IF Filled(o) + 1 = Quantity THEN "FILLED" ELSE "PARTIAL",
                    Filled(o) + 1)
BrokerCancels(o) == Working(o) /\ BrokerStatus(o, "CANCELLED", Filled(o))
BrokerFails(o)   == Working(o) /\ Filled(o) = 0 /\ BrokerStatus(o, "FAILED", 0)

\* Cumulative reports: today's, or one whose fills or status lag behind, or
\* whose status runs ahead of its fills.  CANCELLED and FAILED come with the
\* final fills.
Reports(o) ==
    {broker[o]} \cup
    {r \in [status : Lags, filled : 0..Filled(o), priced : Prices] :
        /\ r.filled = 0 => r.priced /\ r.status # "PARTIAL"
        /\ r.status = "FILLED" => broker[o].status = "FILLED"}

\* on_stock_trade reports the volume of one trade as if it were an order.
TradeReports(o) == [status : {"FILLED"}, filled : 1..Filled(o), priced : {TRUE}]

-----------------------------------------------------------------------------
(* Row locks: a written row is locked until its session ends. *)

Others(s) == Sessions \ {s}
OrderLocked(s, o)    == \E q \in Others(s) : sess[q].rows[o] # None
PositionLocked(s, x) == \E q \in Others(s) : sess[q].pos[x] # None
AccountLocked(s)     == \E q \in Others(s), o \in Orders : sess[q].money[o] # None

\* A session done with its order keeps only what it has written.
Settled(s) == [sess[s] EXCEPT !.at = "next", !.order = None, !.view[sess[s].order] = None,
                              !.snap = None, !.msg = None, !.base = 0]

Step(s, next) == sess' = [sess EXCEPT ![s] = next]
Quiet == UNCHANGED <<broker, emitted, history, lost>>

-----------------------------------------------------------------------------
(* LiveTrader.submit_order: the broker first, then the row. *)

Submit(o) ==
    /\ sess[o].at = "idle" /\ broker[o] = None
    /\ broker' = [broker EXCEPT ![o] = [status |-> "SUBMITTED", filled |-> 0,
                                        priced |-> TRUE]]
    /\ Step(o, [sess[o] EXCEPT !.at = "inserting", !.order = o])
    /\ BookUnchanged /\ UNCHANGED <<emitted, history, lost>>

\* FILLED with fills missing, and open states with some fills, are PARTIAL.
Normalised(r) ==
    IF r.status = "FILLED" /\ r.filled # Quantity
    THEN [r EXCEPT !.status = IF r.filled > 0 THEN "PARTIAL" ELSE "SUBMITTED"]
    ELSE IF r.status \in {"PENDING", "SUBMITTED"} /\ r.filled \in 1..(Quantity - 1)
    THEN [r EXCEPT !.status = "PARTIAL"]
    ELSE r

\* The INSERT, of what a query found 0.3 s after the order was placed.
InsertOrder(o) ==
    /\ sess[o].at = "inserting"
    /\ \E r \in Reports(o) :
          Step(o, [sess[o] EXCEPT !.rows[o] = Normalised(r),
                                  !.at = IF r.filled > 0 THEN "read" ELSE "push"])
    /\ BookUnchanged /\ Quiet

\* emit_order_event, after the INSERT and before the commit.
PushEvent(o) ==
    /\ sess[o].at = "push"
    /\ Step(o, [sess[o] EXCEPT !.at = "next", !.order = None])
    /\ emitted' = emitted \cup {o}
    /\ BookUnchanged /\ UNCHANGED <<broker, history, lost>>

-----------------------------------------------------------------------------
(* Where snapshots come from: polls, cancels, callbacks. *)

\* Mutant: partly filled orders are not looked at again.
OpenRowsWithoutFills == {o \in Orders : row[o] # None /\ row[o].status \in {"PENDING", "SUBMITTED"}}

\* sync_open_orders reads all open rows first, the 200 oldest of them, which here
\* are all; it processes them one by one.
OpenRows == {o \in Orders : row[o] # None /\ row[o].status \in Open}
StartPoll(p) ==
    /\ sess[p].at = "idle" /\ OpenRows # {}
    /\ Step(p, [sess[p] EXCEPT !.at = "next", !.todo = OpenRows,
                  !.view = [o \in Orders |-> IF o \in OpenRows THEN row[o] ELSE None]])
    /\ BookUnchanged /\ Quiet

NextOrder(p) ==
    /\ sess[p].at = "next"
    /\ \E o \in sess[p].todo :
          Step(p, [sess[p] EXCEPT !.at = "query", !.order = o, !.todo = @ \ {o}])
    /\ BookUnchanged /\ Quiet

\* cancel_order: refused for a terminal row; otherwise the broker is asked to
\* cancel, which it does when it does, and refusal ends the session.
StartCancel(x) ==
    /\ sess[x].at = "idle"
    /\ \E o \in Orders :
          /\ row[o] # None
          /\ \/ Step(x, Ended(x))
             \/ /\ row[o].status \in Open /\ Working(o)
                /\ Step(x, [sess[x] EXCEPT !.at = "query", !.order = o, !.view[o] = row[o]])
    /\ BookUnchanged /\ Quiet

\* asyncio.Lock: the bridge handles one event at a time.
BridgeFree(c) == \A d \in Callbacks \ {c} : sess[d].at \in {"idle", "done"}

\* handle_broker_order, its first read; the message is m.
Meet(c, o, report, cumulative) ==
    IF row[o] = None THEN Step(c, Ended(c))
    ELSE Step(c, [sess[c] EXCEPT !.at = "lookup", !.order = o,
                                 !.msg = [report |-> report, cumulative |-> cumulative,
                                          read |-> row[o]]])

\* An event of the SDK: any report, in any order, any number of times.
BrokerEvent(c) ==
    /\ sess[c].at = "idle" /\ BridgeFree(c)
    /\ \E o \in Orders :
          /\ broker[o] # None
          /\ \/ \E r \in Reports(o) : Meet(c, o, r, TRUE)
             \/ \E r \in TradeReports(o) : Meet(c, o, r, FALSE)
    /\ BookUnchanged /\ Quiet

\* The event that submit_order pushed.
PushedEvent(c) ==
    /\ sess[c].at = "idle" /\ BridgeFree(c)
    /\ \E o \in emitted :
          /\ \E r \in Reports(o) : Meet(c, o, r, TRUE)
          /\ emitted' = emitted \ {o}
    /\ BookUnchanged /\ UNCHANGED <<broker, history, lost>>

\* sync_order_by_id reads the row again.
Lookup(c) ==
    /\ sess[c].at = "lookup"
    /\ LET o == sess[c].order IN
       Step(c, [sess[c] EXCEPT !.at = "query", !.view[o] = row[o]])
    /\ BookUnchanged /\ Quiet

-----------------------------------------------------------------------------
(* _sync_one and apply_broker_snapshot. *)

\* Mutant: an unchanged order is asked about again.
UnchangedAsksAgain(s) == [sess[s] EXCEPT !.at = "query", !.snap = None]

\* The session after an unchanged result.  The bridge falls back on the
\* callback itself, with the row it read first, if that is cumulative.
Unchanged(s) ==
    LET m == sess[s].msg IN
    IF /\ m # None /\ m.cumulative
       /\ m.report.status # m.read.status \/ m.report.filled # m.read.filled
    THEN [sess[s] EXCEPT !.at = "apply", !.view[sess[s].order] = m.read,
                         !.snap = m.report, !.msg = None]
    ELSE Settled(s)

\* The adapter's answer is the broker's record as it is.
QueryCurrent(s, o) ==
    /\ sess[s].at = "query" /\ sess[s].order = o /\ sess[s].view[o].status \in Open
    /\ Step(s, [sess[s] EXCEPT !.at = "apply", !.snap = broker[o]])
    /\ BookUnchanged /\ Quiet

\* A terminal row is not asked about; an order may be unknown to the adapter.
\* The adapter's mapping of the broker's codes to statuses is taken as given.
Query(s) ==
    /\ sess[s].at = "query"
    /\ LET o == sess[s].order IN
       \/ Step(s, Unchanged(s))
       \/ /\ sess[s].view[o].status \in Open
          /\ \E r \in Reports(o) : Step(s, [sess[s] EXCEPT !.at = "apply", !.snap = r])
    /\ BookUnchanged /\ Quiet

\* What a snapshot r makes of a row.
Target(old, r) == [Normalised(r) EXCEPT !.priced = r.priced \/ old.priced]

\* The early returns: terminal row, fills that went back, nothing new, and new
\* fills whose price cannot be told.
Meaningless(old, r) ==
    \/ old.status \in Terminal
    \/ r.filled < old.filled
    \/ Target(old, r).status = old.status /\ r.filled = old.filled
    \/ r.filled > old.filled /\ ~(r.priced /\ (old.filled > 0 => old.priced))

\* Mutant: the UPDATE has no condition on status and fills.
MatchesAlways(o, old) == TRUE

\* WHERE status = :old_status AND filled_quantity = :old_filled_quantity.
Matches(o, old) == row[o].status = old.status /\ row[o].filled = old.filled

\* The compare-and-set of the row, once its lock is free.
Apply(s) ==
    /\ sess[s].at = "apply"
    /\ LET o   == sess[s].order
           old == sess[s].view[o]
           r   == sess[s].snap
       IN
       \/ Meaningless(old, r) /\ Step(s, Unchanged(s))
       \/ /\ ~Meaningless(old, r) /\ ~OrderLocked(s, o)
          /\ IF Matches(o, old)
             THEN IF r.filled > old.filled
                  THEN Step(s, [sess[s] EXCEPT !.rows[o] = Target(old, r), !.at = "read",
                                               !.snap = None, !.msg = None])
                  ELSE Step(s, [Settled(s) EXCEPT !.rows[o] = Target(old, r)])
             ELSE Step(s, Unchanged(s))
    /\ BookUnchanged /\ Quiet

-----------------------------------------------------------------------------
(* _sync_fill_to_local: the position by read and absolute write, the cash  *)
(* by a relative update, and recompute_account_assets.                     *)

\* A row that was not there counts as no fills.
Before(s) ==
    LET o == sess[s].order IN IF sess[s].view[o] = None THEN 0 ELSE sess[s].view[o].filled
Delta(s) == sess[s].rows[sess[s].order].filled - Before(s)

Current(s, x) == IF sess[s].pos[x] # None THEN sess[s].pos[x] ELSE position[x]

\* A sale of a stock there is no position in returns before any write.
ReadPosition(s) ==
    /\ sess[s].at = "read"
    /\ LET o == sess[s].order
           x == StockOf[o]
           none == o \in Sells /\ Current(s, x) = 0 IN
       /\ Step(s, [sess[s] EXCEPT !.base = Current(s, x),
                     !.at = IF none THEN "account" ELSE "write"])
       /\ gone' = IF none THEN gone \cup {o} ELSE gone
    /\ BookUnchanged /\ UNCHANGED <<broker, emitted, overwritten, early, short, lost>>

Overwrites(x, stale) == overwritten' = IF stale THEN overwritten \cup {x} ELSE overwritten

\* Of two INSERTs of a stock's first position the second fails and takes its
\* session with it; an UPDATE of a row deleted since changes nothing.
WritePosition(s) ==
    /\ sess[s].at = "write"
    /\ LET o   == sess[s].order
           x   == StockOf[o]
           old == sess[s].base
           new == IF o \notin Sells THEN old + Delta(s)
                  ELSE IF old > Delta(s) THEN old - Delta(s) ELSE 0
           isRow == Current(s, x) > 0
       IN
       /\ ~PositionLocked(s, x)
       /\ short' = IF o \in Sells /\ old < Delta(s) THEN short \cup {o} ELSE short
       /\ \/ old = 0 /\ isRow /\ Step(s, Ended(s)) /\ UNCHANGED overwritten
          \/ /\ (old > 0) = isRow
             /\ Step(s, [sess[s] EXCEPT !.at = "account", !.pos[x] = new])
             /\ Overwrites(x, old # Current(s, x))
          \/ /\ old > 0 /\ ~isRow
             /\ Step(s, [sess[s] EXCEPT !.at = "account"])
             /\ Overwrites(x, TRUE)
    /\ BookUnchanged /\ UNCHANGED <<broker, emitted, early, gone, lost>>

\* Mutant: the account is charged for all fills of the order so far.
CumulativeAmount(s) == sess[s].rows[sess[s].order].filled

\* Shares paid for: none without a price, which only submit books, and none
\* for a sale from nothing.
Amount(s) ==
    LET o == sess[s].order IN
    IF sess[s].rows[o].priced /\ ~(o \in Sells /\ sess[s].base = 0) THEN Delta(s) ELSE 0

UpdateAccount(s) ==
    /\ sess[s].at = "account" /\ ~AccountLocked(s)
    /\ Step(s, [Settled(s) EXCEPT !.money[sess[s].order] = Amount(s),
                                  !.at = IF s \in Orders THEN "push" ELSE "next"])
    /\ BookUnchanged /\ Quiet

-----------------------------------------------------------------------------
(* sync_positions: the broker's positions over the local ones. *)

Shares(o) == IF row[o] = None THEN 0 ELSE row[o].filled
Bought(x) == {o \in Orders \ Sells : StockOf[o] = x}
Sold(x)   == {o \in Sells : StockOf[o] = x}
Executed(o) == IF broker[o] = None THEN 0 ELSE Filled(o)
\* What fills, given for each order, make of the position held before.
After(fills, x) == Holding[x] + SumFunctionOnSet(fills, Bought(x))
                              - SumFunctionOnSet(fills, Sold(x))
AtBroker(x) == After([o \in Orders |-> Executed(o)], x)

\* get_positions: the adapter leaves out what is sold out.
StartCopy(c) ==
    /\ sess[c].at = "idle"
    /\ Step(c, [sess[c] EXCEPT !.at = "copy",
                  !.held = [x \in Stocks |-> IF AtBroker(x) > 0 THEN AtBroker(x) ELSE None]])
    /\ BookUnchanged /\ Quiet

ToCopy(c) == {x \in Stocks : sess[c].held[x] # None}
NextCopied(c) == CHOOSE x \in ToCopy(c) : TRUE

\* INSERT ... ON CONFLICT DO UPDATE, one stock after the other.
CopyPosition(c) ==
    /\ sess[c].at = "copy" /\ ToCopy(c) # {}
    /\ LET x == NextCopied(c) IN
       /\ ~PositionLocked(c, x)
       /\ Step(c, [sess[c] EXCEPT !.pos[x] = sess[c].held[x], !.held[x] = None])
    /\ BookUnchanged /\ Quiet

\* recompute_account_assets updates the account last, so that and the commit
\* are one step.  The copy replaces what sessions have overwritten.
FinishCopy(c) ==
    /\ sess[c].at = "copy" /\ ToCopy(c) = {} /\ ~AccountLocked(c)
    /\ position' = [x \in Stocks |-> Current(c, x)]
    /\ LET copied == {x \in Stocks : sess[c].pos[x] # None}
           ahead  == {x \in copied : \E o \in Bought(x) \cup Sold(x) : Executed(o) # Shares(o)} IN
       /\ early' = (early \ copied) \cup ahead
       /\ overwritten' = overwritten \ copied
    /\ Step(c, Ended(c))
    /\ UNCHANGED <<row, paid, broker, emitted, short, gone, lost>>

-----------------------------------------------------------------------------
(* How sessions end. *)

\* get_db commits what the session has written.
Commit(s) ==
    /\ sess[s].at = "next" /\ sess[s].todo = {}
    /\ row' = [o \in Orders |-> IF sess[s].rows[o] # None THEN sess[s].rows[o] ELSE row[o]]
    /\ position' = [x \in Stocks |-> Current(s, x)]
    /\ paid' = [o \in Orders |-> IF sess[s].money[o] # None
                                 THEN paid[o] + sess[s].money[o] ELSE paid[o]]
    /\ Step(s, Ended(s)) /\ Quiet

Active(s) == sess[s].at \notin {"idle", "done"}

\* The process dies, or a statement fails: a poll swallows the error of one
\* order, but its transaction is aborted and nothing of it is kept.
Crash(s) ==
    /\ Active(s) /\ lost < MaxLost
    /\ Step(s, Ended(s)) /\ BookUnchanged
    /\ lost' = lost + 1 /\ UNCHANGED <<broker, emitted, history>>

\* The sessions s waits for: those that hold the row lock its next write needs.
WaitsFor(s) ==
    LET o == sess[s].order
        writes == sess[s].at = "apply" /\ ~Meaningless(sess[s].view[o], sess[s].snap)
    IN
    {q \in Others(s) :
        \/ writes /\ sess[q].rows[o] # None
        \/ sess[s].at = "write" /\ sess[q].pos[StockOf[o]] # None
        \/ sess[s].at = "copy" /\ ToCopy(s) # {} /\ sess[q].pos[NextCopied(s)] # None
        \/ (sess[s].at = "account" \/ (sess[s].at = "copy" /\ ToCopy(s) = {}))
           /\ \E p \in Orders : sess[q].money[p] # None}

\* s is on a cycle of waits.
Deadlocked(s) ==
    /\ WaitsFor(s) # {}
    /\ \E C \in SUBSET Sessions :
        /\ s \in C
        /\ \A q \in C : WaitsFor(q) \cap C # {} /\ \E p \in C : q \in WaitsFor(p)

\* The database breaks a cycle by failing one of its sessions.
BreakDeadlock(s) ==
    /\ Deadlocked(s)
    /\ Step(s, Ended(s))
    /\ BookUnchanged /\ Quiet

-----------------------------------------------------------------------------

BrokerMoves(o) == BrokerFills(o) \/ BrokerCancels(o) \/ BrokerFails(o)
Start(s) ==
    \/ s \in Orders /\ Submit(s)
    \/ s \in Polls /\ StartPoll(s)
    \/ s \in Cancels /\ StartCancel(s)
    \/ s \in Copies /\ StartCopy(s)
    \/ s \in Callbacks /\ (BrokerEvent(s) \/ PushedEvent(s))
Proceed(s) ==
    \/ s \in Orders /\ (InsertOrder(s) \/ PushEvent(s))
    \/ NextOrder(s) \/ Lookup(s) \/ Query(s) \/ Apply(s)
    \/ ReadPosition(s) \/ WritePosition(s) \/ UpdateAccount(s)
    \/ CopyPosition(s) \/ FinishCopy(s)
    \/ Commit(s) \/ BreakDeadlock(s)

Next ==
    \/ \E o \in Orders : BrokerMoves(o)
    \/ \E s \in Sessions : Start(s) \/ Proceed(s) \/ Crash(s)

Spec == Init /\ [][Next]_vars

\* Coroutines run on, statements return, a released row lock goes to the first
\* session that waits for it, and the database detects deadlocks.  Nobody need
\* submit, poll, cancel or push, and no broker need fill.
Fairness == \A s \in Sessions :
    WF_vars(Proceed(s)) /\ SF_vars(\/ Apply(s) \/ WritePosition(s) \/ UpdateAccount(s)
                                     \/ CopyPosition(s) \/ FinishCopy(s))
FairSpec == Spec /\ Fairness

\* Beat starts a poll every 15 s (celery_app.py:63), and a broker asked about an
\* order again and again answers with its record as it is again and again.
PollFairness == \A p \in Polls :
    WF_vars(StartPoll(p)) /\ \A o \in Orders : SF_vars(QueryCurrent(p, o))
PollSpec == FairSpec /\ PollFairness

-----------------------------------------------------------------------------
(* Properties. *)

\* Reports that are behind, repeated or of single trades never push a row past
\* the broker, and a row is closed only as the broker closed it: same status,
\* same fills (apply_broker_snapshot's guards, the bridge's fallback).
RowNeverAhead ==
    \A o \in Orders : row[o] # None =>
        /\ row[o].filled <= broker[o].filled
        /\ row[o].status \in Terminal =>
              row[o].status = broker[o].status /\ row[o].filled = broker[o].filled

\* Polls, callbacks, cancels and submits that see the same fills pay for no
\* booked share twice, crash or not, and if reports have prices for every share
\* once (the compare-and-set, and cash moved by the new fills only), with one
\* exception: a sale that meets no position moves none (_sync_fill_to_local).
CashMatchesRows ==
    \A o \in Orders : row[o] # None =>
        /\ paid[o] <= row[o].filled
        /\ Prices = {TRUE} /\ o \notin gone => paid[o] = row[o].filled

\* What the opening position and the rows make of a position.
Booked(x) == After([o \in Orders |-> Shares(o)], x)

\* The stocks of which a session wrote the position from an older one than it
\* met (_sync_fill_to_local), which were copied from the broker while fills of
\* the stock were not booked, which are then counted again (sync_positions), or
\* of which more was sold than the position had.
Astray == overwritten \cup early \cup {StockOf[o] : o \in short \cup gone}

\* A position is what was held before, plus bought, minus sold shares, but for
\* those three causes.
PositionsMatchRows == \A x \in Stocks \ Astray : position[x] = Booked(x)

\* A position is overwritten only by sessions of several orders of its stock,
\* or by one that read it before a copy.
OverwritingTakesTwo ==
    \A x \in overwritten :
        Cardinality({o \in Orders : StockOf[o] = x}) > 1 \/ ~Trading

\* A sale finds its shares, as long as what was held covers the orders to sell
\* and no copy has replaced the position.
SalesFindTheirShares ==
    \A o \in short \cup gone :
        \/ SumFunctionOnSet([p \in Orders |-> Quantity], Sold(StockOf[o])) > Holding[StockOf[o]]
        \/ ~Trading

\* The books follow the broker: no row runs ahead, and cash and positions agree
\* with the rows but for the causes named, whichever sessions race, crash or are
\* broken out of a deadlock.
BooksFollowTheBroker ==
    /\ TypeOK /\ RowNeverAhead /\ CashMatchesRows /\ PositionsMatchRows
    /\ OverwritingTakesTwo /\ SalesFindTheirShares

\* A session that starts ends: neither row locks nor the bridge's lock nor the
\* fallback of the bridge keep it for ever.
EverySessionEnds == \A s \in Sessions : []<>~Active(s)

\* Polling alone brings every order the broker has closed to its final status
\* and fills, whatever callbacks, lost races and broken deadlocks do before.
Closed(o)   == row[o] # None /\ broker[o].status \in Terminal
CaughtUp(o) == row[o] # None /\ row[o].status = broker[o].status
                             /\ row[o].filled = broker[o].filled
RowsCatchUp == \A o \in Orders : []<>(Closed(o) => CaughtUp(o))

Contract == INSTANCE FillContract WITH
    book <- [o \in Orders |-> IF row[o] = None THEN None
                              ELSE [status |-> row[o].status, filled |-> row[o].filled]],
    unpaid <- gone
\* The books only move forward, and every booked share is paid for in the step
\* that books it, but fills of sales that met no position.
ImplementsFills == Contract!Spec
=============================================================================
