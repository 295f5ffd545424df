---------------------------- MODULE MarketRules ----------------------------
(***************************************************************************)
(* The registry of A-share trading rules the trusted backtest resolves for *)
(* each day and stock (backtest/market_rules.py).  A date is the number    *)
(* yyyymmdd, a price is in ticks of 0.01, a rate in hundred-thousandths.   *)
(* The sources a rule cites are left out.                                  *)
(***************************************************************************)
EXTENDS Integers

Forever == 99999999

\* _build_rules: the rules of both exchanges, every board, normal status.
CommonRules ==
    [type : {"buy_lot_size", "sell_lot_size"}, from : {20230410}, value : {100}]
    \cup {[type |-> "minimum_price_tick", from |-> 20230410, value |-> 1],
          [type |-> "t_plus_one",         from |-> 20230410, value |-> 1],
          [type |-> "commission_rate",    from |-> 20230828, value |-> 300],
          [type |-> "minimum_commission", from |-> 20230828, value |-> 500],
          [type |-> "stamp_duty_sell",    from |-> 20230828, value |-> 50],
          [type |-> "transfer_fee",       from |-> 20220429, value |-> 1]}

Limit(exchange, board, status, from, to, rate) ==
    [type |-> "price_limit", exchange |-> exchange, board |-> board,
     status |-> status, from |-> from, to |-> to, value |-> rate]

\* _build_rules: the price limits, by exchange, board and status.
LimitRules ==
    {Limit("SZ", "GEM",  "NORMAL", 20200824, Forever, 20000),
     Limit("SZ", "MAIN", "NORMAL", 20230410, Forever, 10000),
     Limit("SZ", "MAIN", "ST",     20230410, 20260705, 5000),
     Limit("SH", "MAIN", "NORMAL", 20230410, Forever, 10000),
     Limit("SH", "STAR", "NORMAL", 20190722, Forever, 20000),
     Limit("SH", "MAIN", "ST",     20230410, 20260705, 5000),
     Limit("SH", "MAIN", "ST",     20260706, Forever, 10000)}

Rules ==
    LimitRules \cup
    {[type |-> c.type, exchange |-> e, board |-> "*", status |-> "NORMAL",
      from |-> c.from, to |-> Forever, value |-> c.value] :
        c \in CommonRules, e \in {"SH", "SZ"}}

RuleTypes == {c.type : c \in CommonRules} \cup {"price_limit"}

\* _find: the rules for the very status, or else those for normal status.
Matches(type, day, stock) ==
    LET all == {r \in Rules : /\ r.type = type /\ r.exchange = stock.exchange
                              /\ r.from <= day /\ day <= r.to
                              /\ r.board \in {"*", stock.board}
                              /\ r.status \in {"NORMAL", stock.status}}
        exact == {r \in all : r.status = stock.status}
    IN IF exact # {} THEN exact ELSE all

\* resolve: one rule of every type, for a status that is covered.  The statuses
\* cover every day, and every day has a price limit and a valid previous close.
Resolvable(day, stock) ==
    /\ stock.status \in {"NORMAL", "ST"}
    /\ \A type \in RuleTypes :
         LET matching == Matches(type, day, stock)
         IN \E rule \in matching : matching = {rule}

RuleValue(type, day, stock) == (CHOOSE r \in Matches(type, day, stock) : TRUE).value

\* price_limits: the previous close times one plus or minus the rate, rounded
\* half up to the tick.
HalfUp(num, den) == (2 * num + den) \div (2 * den)
LimitUp(previous, rate)   == HalfUp(previous * (100000 + rate), 100000)
LimitDown(previous, rate) == HalfUp(previous * (100000 - rate), 100000)

\* _valid_sell_quantity under FULL_ODD_LOT_ONLY: whole lots, or with the whole
\* odd lot.
ValidSell(quantity, available, lot) ==
    /\ 0 < quantity /\ quantity <= available
    /\ \/ quantity % lot = 0
       \/ quantity % lot = available % lot

\* _normalize_order_quantity: purchases of a lot or more are floored to lots.
Normalised(side, quantity, lot) ==
    IF quantity <= 0 THEN 0
    ELSE IF side = "SELL" \/ quantity < lot THEN quantity
    ELSE (quantity \div lot) * lot
=============================================================================
