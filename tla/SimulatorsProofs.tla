-------------------------- MODULE SimulatorsProofs --------------------------
(***************************************************************************)
(* Proofs about Simulators: the backtest engine for any calendar, prices,  *)
(* signals and corporate action, and its refinement of the accounting      *)
(* contract; what references and reviews may know; the library's folds,    *)
(* with sums over finite sets; the paper account for any requests; and the *)
(* virtual account of the free observation for any files and candidates.   *)
(***************************************************************************)
EXTENDS Simulators, FiniteSetTheorems, SequenceTheorems, WellFoundedInduction, TLAPS

-----------------------------------------------------------------------------
(* The backtest engine: its invariant.                                     *)

\* Orders that wait, each for the trading day after its signal.
WaitingOrder ==
    {o \in [side : {"BUY", "SELL"}, limit : Nat, signalled : Nat, execute : TradingDays,
            quantity : Nat] : o.execute = Engine!NextTradingDay(o.signalled)}

EngineTypes ==
    /\ action \in Actions
    /\ day \in TradingDays \cup {0}
    /\ phase \in {"morning", "trading", "done", "failed"} /\ (phase = "done" <=> day = 0)
    /\ quantity \in Nat /\ available \in 0 .. quantity /\ cost \in Nat
    /\ cash \in Int /\ realized \in Int /\ income \in Nat
    /\ pending \in Seq(WaitingOrder)
    /\ entitled \in Nat \cup {NotTaken}
    /\ bar \in Bars \cup {NoBar}
    /\ credited \in BOOLEAN /\ paid \in BOOLEAN /\ overcharged \in BOOLEAN

NothingOverdue == \A i \in DOMAIN pending : pending[i].execute >= day

MoneyKept ==
    /\ Engine!BooksBalance
    /\ cash < 0 => overcharged

\* The morning of a date, and its close, are behind.
MorningPassed(d) ==
    d \in TradingDays /\ (phase = "done" \/ d < day \/ (d = day /\ phase = "trading"))
ClosePassed(d) == d \in TradingDays /\ (phase = "done" \/ d < day)

Taken == entitled # NotTaken
AfterRecord(d) == Taken /\ action.record < d /\ MorningPassed(d)

EntitlementServed ==
    /\ phase # "failed" =>
          /\ Taken <=> ClosePassed(action.record)
          /\ paid <=> AfterRecord(action.payment)
          /\ credited <=> AfterRecord(action.credit)
    /\ paid => Taken
    /\ income = IF paid THEN Engine!Dividend(entitled) ELSE 0
    /\ phase = "failed" => \/ Engine!PositionDisappeared
                           \/ Engine!TakesRecord /\ Engine!Fractional(quantity)

EngineInv == EngineTypes /\ NothingOverdue /\ MoneyKept /\ EntitlementServed

-----------------------------------------------------------------------------
(* Dates, rules and amounts.                                               *)

LEMMA LeastNatural ==
    ASSUME NEW S, S \in SUBSET Nat, S # {}
    PROVE  \E x \in S : \A y \in S : x <= y
  <1>1. PICK x \in S : \A y \in S : <<y, x>> \notin OpToRel(<, Nat)
    BY WFMin, NatLessThanWellFounded, Zenon
  <1>2. \A y \in S : ~ (y < x)
    BY <1>1, Zenon DEF OpToRel
  <1>3. x \in Nat /\ \A y \in S : y \in Nat
    BY <1>1
  <1>4. \A y \in S : x <= y
    BY <1>2, <1>3
  <1> QED  BY <1>4

\* The next trading day is the first after a date, and 0 says there is none.
LEMMA NextDay ==
    ASSUME NEW d \in Nat
    PROVE  \/ /\ Engine!NextTradingDay(d) \in TradingDays /\ Engine!NextTradingDay(d) > d
              /\ \A t \in TradingDays : t > d => Engine!NextTradingDay(d) <= t
           \/ Engine!NextTradingDay(d) = 0 /\ \A t \in TradingDays : ~ (t > d)
  <1>1. PICK later : later = {t \in TradingDays : t > d}
    OBVIOUS
  <1>2. CASE later = {}
    <2>1. Engine!NextTradingDay(d) = 0
      BY <1>1, <1>2 DEF Engine!NextTradingDay
    <2> QED  BY <1>1, <1>2, <2>1
  <1>3. CASE later # {}
    <2>1. PICK x \in later : \A y \in later : x <= y
      BY <1>1, <1>3, EngineAssumption, LeastNatural
    <2>2. Engine!NextTradingDay(d) = CHOOSE m \in later : \A y \in later : m <= y
      BY <1>1, <1>3 DEF Engine!NextTradingDay, Engine!Min
    <2>3. /\ Engine!NextTradingDay(d) \in later
          /\ \A y \in later : Engine!NextTradingDay(d) <= y
      BY <2>1, <2>2
    <2> QED  BY <1>1, <2>3
  <1> QED  BY <1>2, <1>3

LEMMA RuleFacts ==
    ASSUME NEW type \in Engine!RuleTypes, NEW d, NEW s, Engine!Resolvable(d, s)
    PROVE  /\ Engine!RuleValue(type, d, s) \in Nat \ {0}
  <1>1. PICK M : M = Engine!Matches(type, d, s)
    OBVIOUS
  <1>2. \E rule \in M : M = {rule}
    BY <1>1 DEF Engine!Resolvable
  <1>3. M # {}
    BY <1>2
  <1>4. M \subseteq Engine!Rules
    BY <1>1 DEF Engine!Matches
  <1>5. \A c \in Engine!CommonRules : c.value \in Nat \ {0}
    BY SMT DEF Engine!CommonRules
  <1>6. \A c \in Engine!LimitRules : c.value \in Nat \ {0}
    BY SMT DEF Engine!LimitRules, Engine!Limit
  <1>7. \A r \in Engine!Rules : r.value \in Nat \ {0}
    BY <1>5, <1>6, SMT DEF Engine!Rules
  <1> QED  BY <1>1, <1>3, <1>4, <1>7 DEF Engine!RuleValue

LEMMA TypesCovered ==
    {"buy_lot_size", "sell_lot_size", "minimum_commission", "commission_rate", "transfer_fee",
     "stamp_duty_sell", "price_limit"} \subseteq Engine!RuleTypes
  <1>1. PICK common : common = Engine!CommonRules
    OBVIOUS
  <1>2. /\ [type |-> "buy_lot_size", from |-> 20230410, value |-> 100] \in common
        /\ [type |-> "sell_lot_size", from |-> 20230410, value |-> 100] \in common
        /\ [type |-> "minimum_commission", from |-> 20230828, value |-> 500] \in common
        /\ [type |-> "commission_rate", from |-> 20230828, value |-> 300] \in common
        /\ [type |-> "transfer_fee", from |-> 20220429, value |-> 1] \in common
        /\ [type |-> "stamp_duty_sell", from |-> 20230828, value |-> 50] \in common
    BY <1>1, SMT DEF Engine!CommonRules
  <1>3. PICK types : types = {c.type : c \in common}
    OBVIOUS
  <1>4. {"buy_lot_size", "sell_lot_size", "minimum_commission", "commission_rate",
         "transfer_fee", "stamp_duty_sell"} \subseteq types
    BY <1>2, <1>3, SMT
  <1>5. Engine!RuleTypes = types \cup {"price_limit"}
    BY <1>1, <1>3 DEF Engine!RuleTypes
  <1> QED  BY <1>4, <1>5

LEMMA NaturalAmounts ==
    /\ \A a, b \in Nat : a * b \in Nat
    /\ \A a, b \in Int : a * b \in Int
    /\ \A a \in Nat : a \div 100000 \in Nat /\ a \div 10 \in Nat
    /\ \A a \in Int : a \div 100000 \in Int /\ a \div 200000 \in Int
  OBVIOUS

LEMMA LimitsAreIntegers ==
    ASSUME EngineTypes, NEW o, Engine!Tradable(o)
    PROVE  /\ bar \in Bars /\ bar.open \in Nat
           /\ Engine!Up \in Int /\ Engine!Down \in Int
           /\ \A type \in Engine!RuleTypes : Engine!Rule(type) \in Nat \ {0}
  <1>1. bar \in Bars /\ bar \in [open : Nat, previous : Nat, traded : BOOLEAN]
        /\ Engine!Resolvable(day, stock)
    BY EngineAssumption DEF Engine!Tradable, EngineTypes
  <1>2. \A type \in Engine!RuleTypes : Engine!Rule(type) \in Nat \ {0}
    BY <1>1, RuleFacts DEF Engine!Rule
  <1>3. "price_limit" \in Engine!RuleTypes
    BY TypesCovered
  <1>4. PICK p, r : p = bar.previous /\ r = Engine!Rule("price_limit")
    OBVIOUS
  <1>5. p \in Int /\ r \in Int
    BY <1>1, <1>2, <1>3, <1>4
  <1>6. PICK up, down : up = p * (100000 + r) /\ down = p * (100000 - r)
    OBVIOUS
  <1>7. up \in Int /\ down \in Int
    BY <1>5, <1>6, NaturalAmounts
  <1>8. (2 * up + 100000) \div (2 * 100000) \in Int
        /\ (2 * down + 100000) \div (2 * 100000) \in Int
    BY <1>7
  <1>9. Engine!Up \in Int /\ Engine!Down \in Int
    BY <1>4, <1>6, <1>8 DEF Engine!Up, Engine!Down, Engine!LimitUp, Engine!LimitDown, Engine!HalfUp
  <1> QED  BY <1>1, <1>2, <1>9

LEMMA FeesAre ==
    ASSUME EngineTypes, NEW o \in WaitingOrder, Engine!Tradable(o), Engine!Price(o) \in Int
    PROVE  /\ Engine!Fees(o) \in Int
           /\ o.side = "BUY" /\ Engine!Price(o) \in Nat => Engine!Fees(o) \in Nat \ {0}
  <1>1. PICK amount, min, rate, transfer, stamp :
           /\ amount = Engine!Price(o) * o.quantity
           /\ min = Engine!Rule("minimum_commission")
           /\ rate = Engine!Rule("commission_rate")
           /\ transfer = Engine!Rule("transfer_fee")
           /\ stamp = Engine!Rule("stamp_duty_sell")
    OBVIOUS
  <1>2. {"minimum_commission", "commission_rate", "transfer_fee", "stamp_duty_sell"}
           \subseteq Engine!RuleTypes
    BY TypesCovered
  <1>3. min \in Nat \ {0} /\ rate \in Nat \ {0} /\ transfer \in Nat \ {0} /\ stamp \in Nat \ {0}
    BY <1>1, <1>2, LimitsAreIntegers
  <1>4. o.quantity \in Nat
    BY DEF WaitingOrder
  <1>5. amount \in Int /\ (Engine!Price(o) \in Nat => amount \in Nat)
    BY <1>1, <1>4, NaturalAmounts
  <1>6. PICK by, moved, stamped : /\ by = (amount * rate) \div 100000
                                  /\ moved = (amount * transfer) \div 100000
                                  /\ stamped = (amount * stamp) \div 100000
    OBVIOUS
  <1>7. /\ by \in Int /\ moved \in Int /\ stamped \in Int
        /\ amount \in Nat => by \in Nat /\ moved \in Nat
    BY <1>3, <1>5, <1>6, NaturalAmounts
  <1>8. PICK commission : commission = Engine!Commission(amount)
    OBVIOUS
  <1>9. commission = IF by >= min THEN by ELSE min
    BY <1>1, <1>6, <1>8 DEF Engine!Commission
  <1>10. commission \in Nat \ {0}
    BY <1>3, <1>7, <1>9
  <1>11. Engine!Fees(o) = commission + moved + IF o.side = "SELL" THEN stamped ELSE 0
    BY <1>1, <1>6, <1>8 DEF Engine!Fees
  <1> QED  BY <1>5, <1>7, <1>10, <1>11

\* A purchase that is filled costs something, and no more than the cash.
LEMMA BuyFacts ==
    ASSUME EngineTypes, NEW o \in WaitingOrder, Engine!Fills(o), o.side = "BUY"
    PROVE  /\ o.quantity \in Nat \ {0}
           /\ Engine!Debit(o) \in Nat \ {0} /\ Engine!Debit(o) <= cash
  <1>1. Engine!Tradable(o) /\ cash >= Engine!Debit(o)
    BY DEF Engine!Fills
  <1>2. o.quantity \in Nat \ {0} /\ o.limit \in Nat
    BY <1>1 DEF Engine!Tradable, WaitingOrder
  <1>3. bar.open \in Nat /\ Engine!Up \in Int
    BY <1>1, LimitsAreIntegers
  <1>4. bar.open < Engine!Up
    BY <1>1 DEF Engine!Tradable
  <1>5. Engine!MarketPrice("BUY") \in Nat
    BY <1>3, <1>4 DEF Engine!MarketPrice, Engine!Slippage
  <1>6. Engine!Price(o) \in Nat
    BY <1>2, <1>5 DEF Engine!Price
  <1>7. Engine!Fees(o) \in Nat \ {0}
    BY <1>1, <1>6, FeesAre
  <1>8. PICK amount : amount = Engine!Price(o) * o.quantity
    OBVIOUS
  <1>9. amount \in Nat
    BY <1>2, <1>6, <1>8, NaturalAmounts
  <1>10. Engine!Debit(o) = amount + Engine!Fees(o)
    BY <1>8 DEF Engine!Debit
  <1>11. Engine!Debit(o) \in Nat \ {0}
    BY <1>7, <1>9, <1>10
  <1> QED  BY <1>1, <1>2, <1>6, <1>11 DEF EngineTypes

\* What is sold takes its share of the cost, and not more than there is.
LEMMA ShareOfCost ==
    ASSUME NEW c \in Nat, NEW n \in Nat \ {0}, NEW q \in 0 .. n
    PROVE  (c \div n) * q \in 0 .. c
  <1>1. PICK k, r : k = c \div n /\ r = n - q
    OBVIOUS
  <1>2. k \in Nat /\ r \in Nat /\ q \in Nat /\ n = q + r
    BY <1>1
  <1>3. n * k <= c
    BY <1>1
  <1>4. k * q \in Nat /\ k * r \in Nat /\ n * k = k * q + k * r
    BY <1>2
  <1>5. k * q <= c
    BY <1>2, <1>3, <1>4
  <1> QED  BY <1>1, <1>4, <1>5

LEMMA SellFacts ==
    ASSUME EngineTypes, NEW o \in WaitingOrder, Engine!Fills(o), o.side = "SELL"
    PROVE  /\ o.quantity \in Nat \ {0} /\ o.quantity <= available
           /\ Engine!Proceeds(o) \in Int
           /\ Engine!Allocated(o.quantity) \in 0 .. cost
           /\ o.quantity = quantity => Engine!Allocated(o.quantity) = cost
  <1>1. Engine!Tradable(o)
    BY DEF Engine!Fills
  <1>2. o.quantity \in Nat \ {0} /\ o.limit \in Nat
    BY <1>1 DEF Engine!Tradable, WaitingOrder
  <1>3. o.quantity <= available
    BY <1>1 DEF Engine!Tradable, Engine!ValidSell
  <1>4. bar.open \in Nat /\ Engine!Down \in Int
    BY <1>1, LimitsAreIntegers
  <1>5. Engine!MarketPrice("SELL") \in Int
    BY <1>4 DEF Engine!MarketPrice, Engine!Slippage
  <1>6. Engine!Price(o) \in Int
    BY <1>2, <1>4, <1>5 DEF Engine!Price
  <1>7. Engine!Fees(o) \in Int
    BY <1>1, <1>6, FeesAre
  <1>8. PICK amount : amount = Engine!Price(o) * o.quantity
    OBVIOUS
  <1>9. amount \in Int
    BY <1>2, <1>6, <1>8, NaturalAmounts
  <1>10. Engine!Proceeds(o) = amount - Engine!Fees(o)
    BY <1>8 DEF Engine!Proceeds
  <1>11. Engine!Proceeds(o) \in Int
    BY <1>7, <1>9, <1>10
  <1>12. quantity \in Nat \ {0} /\ o.quantity \in 0 .. quantity /\ cost \in Nat
    BY <1>2, <1>3 DEF EngineTypes
  <1>13. (cost \div quantity) * o.quantity \in 0 .. cost
    BY <1>12, ShareOfCost
  <1>14. Engine!Allocated(o.quantity) \in 0 .. cost
         /\ (o.quantity = quantity => Engine!Allocated(o.quantity) = cost)
    BY <1>12, <1>13 DEF Engine!Allocated
  <1> QED  BY <1>2, <1>3, <1>6, <1>11, <1>14

-----------------------------------------------------------------------------
(* The steps of the engine.                                                *)

LEMMA EngineStarts == Engine!Init => EngineInv
  <1> SUFFICES ASSUME Engine!Init  PROVE EngineInv
    OBVIOUS
  <1> USE DEF Engine!Init
  <1>1. PICK o \in Openings : cash = o.cash /\ quantity = o.quantity /\ cost = o.cost
    OBVIOUS
  <1>2. o \in [cash : Nat \ {0}, quantity : Nat, cost : Nat]
    BY EngineAssumption
  <1>3. day = Engine!NextTradingDay(0)
    OBVIOUS
  <1>4. day \in TradingDays /\ day \in Nat \ {0} /\ \A t \in TradingDays : day <= t /\ t \in Nat
    <2>1. PICK t0 \in TradingDays : TRUE
      BY EngineAssumption
    <2>2. \A t \in TradingDays : t \in Nat /\ t > 0
      BY EngineAssumption
    <2>3. \/ day \in TradingDays /\ \A t \in TradingDays : t > 0 => day <= t
          \/ day = 0 /\ \A t \in TradingDays : ~ (t > 0)
      BY <1>3, NextDay
    <2> QED  BY <2>1, <2>2, <2>3
  <1>5. pending \in Seq(WaitingOrder) /\ DOMAIN pending = {}
    BY EmptySeq
  <1>6. EngineTypes
    <2>1. action \in Actions /\ phase = "morning" /\ bar = NoBar /\ entitled = NotTaken
      OBVIOUS
    <2>2. quantity \in Nat /\ available = quantity /\ cost \in Nat /\ cash \in Int
          /\ realized = 0 /\ income = 0
      BY <1>1, <1>2
    <2>3. credited = FALSE /\ paid = FALSE /\ overcharged = FALSE
      OBVIOUS
    <2>4. available \in 0 .. quantity /\ realized \in Int /\ income \in Nat
      BY <2>2
    <2>5. pending \in Seq(WaitingOrder) /\ (phase = "done" <=> day = 0)
      BY <1>4, <1>5, <2>1
    <2> HIDE DEF Engine!Init
    <2> QED  BY <1>4, <2>1, <2>2, <2>3, <2>4, <2>5 DEF EngineTypes
  <1>7. Engine!BooksBalance
    <2>1. cash + cost = o.cash + o.cost + realized + income
      BY <1>1, <1>2
    <2> QED  BY <2>1 DEF Engine!BooksBalance
  <1>8. MoneyKept
    BY <1>1, <1>2, <1>7 DEF MoneyKept
  <1>9. ~ ClosePassed(action.record)
    <2>1. phase # "done"
      OBVIOUS
    <2>2. \A t \in TradingDays : ~ (t < day)
      BY <1>4
    <2> QED  BY <2>1, <2>2 DEF ClosePassed
  <1>10. EntitlementServed
    BY <1>9 DEF EntitlementServed, Taken, AfterRecord
  <1> QED  BY <1>5, <1>6, <1>8, <1>10 DEF EngineInv, NothingOverdue

LEMMA ActionFields ==
    ASSUME EngineTypes
    PROVE  /\ action.record \in Nat /\ action.payment \in Nat /\ action.credit \in Nat
           /\ \A q \in Nat : Engine!ShareIncrease(q) \in Nat /\ Engine!Dividend(q) \in Nat
  <1>1. action \in [record : Nat, ex : Nat, payment : Nat, credit : Nat,
                    dividend : Nat, shares : Nat]
    BY EngineAssumption DEF EngineTypes
  <1>2. PICK more, each : more = action.shares /\ each = action.dividend
    OBVIOUS
  <1>3. more \in Nat /\ each \in Nat
    BY <1>1, <1>2
  <1>4. \A q \in Nat : (q * more) \div 10 \in Nat /\ (q * each) \div 10 \in Nat
    BY <1>3, NaturalAmounts
  <1> QED  BY <1>1, <1>2, <1>4 DEF Engine!ShareIncrease, Engine!Dividend

\* A morning serves what falls on its date, once.
LEMMA MorningStep ==
    ASSUME EngineInv, Engine!Morning
    PROVE  EngineInv'
  <1> USE DEF EngineInv
  <1>1. UNCHANGED <<stock, action, day, cost, realized, pending, entitled, overcharged>>
        /\ phase = "morning" /\ phase' = "trading"
    BY DEF Engine!Morning, Engine!chosen
  <1>2. PICK c, p : c = Engine!Credit /\ p = Engine!Payment
    OBVIOUS
  <1>3. /\ Engine!PaymentDue <=> Taken /\ action.payment = day /\ ~ paid
        /\ Engine!CreditDue <=> Taken /\ action.credit = day /\ ~ credited
    BY DEF Engine!PaymentDue, Engine!CreditDue, Taken
  <1>4. entitled \in Nat \cup {NotTaken}
    BY DEF EngineTypes
  <1>5. c \in Nat /\ p \in Nat
    BY <1>2, <1>3, <1>4, ActionFields DEF Engine!Credit, Engine!Payment, Taken
  <1>6. /\ quantity' = quantity + c /\ available' = quantity' /\ cash' = cash + p
        /\ income' = income + p /\ bar' \in Bars \cup {NoBar}
        /\ paid' = (paid \/ Engine!PaymentDue) /\ credited' = (credited \/ Engine!CreditDue)
    BY <1>2 DEF Engine!Morning
  <1>7. day \in TradingDays /\ day \in Nat /\ day # 0
    BY <1>1, EngineAssumption DEF EngineTypes
  <1>8. paid' \in BOOLEAN /\ credited' \in BOOLEAN
    BY <1>6
  <1>9. quantity' \in Nat /\ available' \in 0 .. quantity' /\ cash' \in Int /\ income' \in Nat
    BY <1>5, <1>6 DEF EngineTypes
  <1>10. EngineTypes'
    BY <1>1, <1>6, <1>7, <1>8, <1>9 DEF EngineTypes
  <1>11. NothingOverdue'
    BY <1>1 DEF NothingOverdue
  <1>12. MoneyKept'
    <2>1. PICK o \in Openings : cash + cost = o.cash + o.cost + realized + income
      BY DEF MoneyKept, Engine!BooksBalance
    <2>2. o \in [cash : Nat \ {0}, quantity : Nat, cost : Nat]
      BY EngineAssumption
    <2>3. cash' + cost' = o.cash + o.cost + realized' + income'
      <3>1. cash \in Int /\ cost \in Int /\ realized \in Int /\ income \in Int /\ p \in Int
        BY <1>5 DEF EngineTypes
      <3>2. cash' = cash + p /\ income' = income + p /\ UNCHANGED <<cost, realized>>
        BY <1>1, <1>6
      <3> QED  BY <2>1, <2>2, <3>1, <3>2
    <2>4. Engine!BooksBalance'
      BY <2>3 DEF Engine!BooksBalance
    <2> QED  BY <1>1, <1>5, <1>6, <2>4 DEF MoneyKept, EngineTypes
  <1>13. ASSUME NEW d \in Nat
         PROVE  /\ MorningPassed(d)' <=> MorningPassed(d) \/ d = day
                /\ d = day => ~ MorningPassed(d)
                /\ ClosePassed(d)' <=> ClosePassed(d)
    BY <1>1, <1>7 DEF MorningPassed, ClosePassed
  <1>14. action.record \in Nat /\ action.payment \in Nat /\ action.credit \in Nat
    BY ActionFields
  <1>15. Taken' = Taken /\ action' = action
    BY <1>1 DEF Taken
  <1>16. Taken <=> ClosePassed(action.record)
    BY <1>1 DEF EntitlementServed
  <1>17. Taken => action.record < day
    BY <1>1, <1>7, <1>16 DEF ClosePassed
  <1>18. /\ paid' <=> AfterRecord(action.payment)'
         /\ credited' <=> AfterRecord(action.credit)'
    <2>1. /\ paid <=> AfterRecord(action.payment)
          /\ credited <=> AfterRecord(action.credit)
      BY <1>1 DEF EntitlementServed
    <2>2. /\ MorningPassed(action.payment)' <=> MorningPassed(action.payment) \/ action.payment = day
          /\ MorningPassed(action.credit)' <=> MorningPassed(action.credit) \/ action.credit = day
      BY <1>13, <1>14, <1>15 DEF MorningPassed
    <2>3. /\ AfterRecord(action.payment)' <=> Taken /\ action.record < action.payment
                                              /\ MorningPassed(action.payment)'
          /\ AfterRecord(action.credit)' <=> Taken /\ action.record < action.credit
                                              /\ MorningPassed(action.credit)'
      BY <1>15 DEF AfterRecord
    <2> QED  BY <1>3, <1>6, <1>17, <2>1, <2>2, <2>3 DEF AfterRecord
  <1>19. income' = IF paid' THEN Engine!Dividend(entitled)' ELSE 0
    <2>1. Engine!Dividend(entitled)' = Engine!Dividend(entitled)
      BY <1>1 DEF Engine!Dividend
    <2>2. income = IF paid THEN Engine!Dividend(entitled) ELSE 0
      BY DEF EntitlementServed
    <2>3. p = IF Engine!PaymentDue THEN Engine!Dividend(entitled) ELSE 0
      BY <1>2 DEF Engine!Payment
    <2>4. Taken => Engine!Dividend(entitled) \in Nat
      BY <1>4, ActionFields DEF Taken
    <2>5. PICK dividend : dividend = Engine!Dividend(entitled)
      OBVIOUS
    <2>6. CASE Engine!PaymentDue
      <3>1. ~ paid /\ Taken /\ paid'
        BY <1>3, <1>6, <2>6
      <3>2. income = 0 /\ p = dividend /\ dividend \in Nat
        BY <2>2, <2>3, <2>4, <2>5, <2>6, <3>1
      <3>3. income' = dividend
        BY <1>6, <3>2
      <3> QED  BY <2>1, <2>5, <3>1, <3>3
    <2>7. CASE ~ Engine!PaymentDue
      <3>1. paid' <=> paid
        BY <1>6, <2>7
      <3>2. p = 0 /\ income \in Nat
        BY <2>3, <2>7 DEF EngineTypes
      <3>3. income' = income
        BY <1>6, <3>2
      <3> QED  BY <2>1, <2>2, <3>1, <3>3
    <2> QED  BY <2>6, <2>7
  <1>20. EntitlementServed'
    <2>1. Taken' <=> ClosePassed(action.record)'
      BY <1>1, <1>15, <1>16 DEF ClosePassed
    <2>2. paid' => Taken'
      BY <1>3, <1>6, <1>15 DEF EntitlementServed
    <2>3. phase' # "failed"
      BY <1>1
    <2> QED  BY <1>18, <1>19, <2>1, <2>2, <2>3 DEF EntitlementServed
  <1> QED  BY <1>10, <1>11, <1>12, <1>20

\* A run that breaks off keeps everything as it was.
LEMMA FailureStep ==
    ASSUME EngineInv, Engine!MorningFails \/ Engine!CloseFails
    PROVE  EngineInv'
  <1> USE DEF EngineInv
  <1>1. /\ UNCHANGED <<stock, action, day, cash, quantity, available, cost, realized, income,
                       pending, entitled, credited, paid, bar, overcharged>>
        /\ phase \in {"morning", "trading"} /\ phase' = "failed"
        /\ Engine!PositionDisappeared \/ (Engine!TakesRecord /\ Engine!Fractional(quantity))
    BY DEF Engine!MorningFails, Engine!CloseFails, Engine!chosen, Engine!account
  <1>2. EngineTypes' /\ NothingOverdue'
    BY <1>1 DEF EngineTypes, NothingOverdue
  <1>3. MoneyKept'
    BY <1>1 DEF MoneyKept, Engine!BooksBalance
  <1>4. (Engine!PositionDisappeared \/ (Engine!TakesRecord /\ Engine!Fractional(quantity)))'
    BY <1>1 DEF Engine!PositionDisappeared, Engine!Credit, Engine!CreditDue, Engine!ShareIncrease,
                Engine!TakesRecord, Engine!Fractional
  <1>5. income' = IF paid' THEN Engine!Dividend(entitled)' ELSE 0
    BY <1>1 DEF EntitlementServed, Engine!Dividend
  <1>6. EntitlementServed'
    BY <1>1, <1>4, <1>5 DEF EntitlementServed, Taken
  <1> QED  BY <1>2, <1>3, <1>6

LEMMA Joined ==
    ASSUME NEW S, NEW a \in Seq(S), NEW b \in Seq(S)
    PROVE  /\ a \o b \in Seq(S) /\ Len(a \o b) = Len(a) + Len(b)
           /\ DOMAIN (a \o b) = 1 .. Len(a) + Len(b)
           /\ \A j \in 1 .. Len(a) + Len(b) :
                 (a \o b)[j] = IF j <= Len(a) THEN a[j] ELSE b[j - Len(a)]
  <1>1. /\ a \o b \in Seq(S) /\ Len(a \o b) = Len(a) + Len(b)
    BY ConcatProperties
  <1>2. DOMAIN (a \o b) = 1 .. Len(a) + Len(b)
    BY <1>1, LenProperties
  <1> QED  BY <1>1, <1>2, ConcatProperties

LEMMA Shifted ==
    ASSUME NEW n \in Nat, NEW i \in 1 .. n, NEW j \in 1 .. n - 1, j > i - 1
    PROVE  /\ j - (i - 1) \in 1 .. n - i /\ i + (j - (i - 1)) \in 1 .. n
           /\ ~ (j <= i - 1)
  OBVIOUS

Without(s, i) == SubSeq(s, 1, i - 1) \o SubSeq(s, i + 1, Len(s))
TakenFrom(t, s) == \A j \in DOMAIN t : \E k \in DOMAIN s : t[j] = s[k]

LEMMA Slice ==
    ASSUME NEW S, NEW s, NEW m \in Int, NEW n \in Int, \A k \in m .. n : s[k] \in S,
           NEW c, c = SubSeq(s, m, n)
    PROVE  /\ c \in Seq(S) /\ Len(c) = IF m <= n THEN n - m + 1 ELSE 0
           /\ \A k \in 1 .. n - m + 1 : c[k] = s[m + k - 1]
  <1>1. /\ SubSeq(s, m, n) \in Seq(S)
        /\ Len(SubSeq(s, m, n)) = IF m <= n THEN n - m + 1 ELSE 0
        /\ \A k \in 1 .. n - m + 1 : SubSeq(s, m, n)[k] = s[m + k - 1]
    BY SubSeqProperties
  <1> QED  BY <1>1, Zenon

LEMMA RemovedFrom ==
    ASSUME NEW S, NEW s \in Seq(S), NEW i \in DOMAIN s
    PROVE  Without(s, i) \in Seq(S) /\ TakenFrom(Without(s, i), s)
  <1>0. PICK t : t = Without(s, i)
    OBVIOUS
  <1>1. Len(s) \in Nat /\ DOMAIN s = 1 .. Len(s) /\ i \in 1 .. Len(s)
    BY LenProperties
  <1>2. PICK a, b : a = SubSeq(s, 1, i - 1) /\ b = SubSeq(s, i + 1, Len(s))
    OBVIOUS
  <1>3. PICK n : n = Len(s)
    OBVIOUS
  <1>4. n \in Nat /\ i \in Nat /\ 1 <= i /\ i <= n /\ DOMAIN s = 1 .. n /\ \A k \in 1 .. n : s[k] \in S
    BY <1>1, <1>3, ElementOfSeq
  <1>5. i - 1 \in Nat /\ i - 1 \in Int /\ n - i \in Nat /\ i + 1 \in Int /\ n \in Int
    BY <1>4
  <1>6. /\ a \in Seq(S) /\ Len(a) = i - 1 /\ \A k \in 1 .. i - 1 : a[k] = s[k]
    <2>1. \A k \in 1 .. i - 1 : s[k] \in S
      BY <1>4
    <2>2. PICK m, l : m = 1 /\ l = i - 1
      OBVIOUS
    <2>3. m \in Int /\ l \in Int /\ a = SubSeq(s, m, l) /\ \A k \in m .. l : s[k] \in S
      BY <1>2, <1>5, <2>1, <2>2
    <2>4. /\ a \in Seq(S) /\ Len(a) = IF m <= l THEN l - m + 1 ELSE 0
          /\ \A k \in 1 .. l - m + 1 : a[k] = s[m + k - 1]
      BY <2>3, Slice
    <2>5. l - m + 1 = i - 1 /\ (~ (m <= l) => i - 1 = 0)
      BY <1>5, <2>2
    <2>6. Len(a) = i - 1
      BY <2>4, <2>5, Zenon
    <2>7. \A k \in 1 .. i - 1 : k \in 1 .. l - m + 1 /\ m + k - 1 = k
      BY <1>5, <2>2, <2>5
    <2>8. \A k \in 1 .. i - 1 : a[k] = s[k]
      BY <2>4, <2>7, Zenon
    <2> QED  BY <2>4, <2>6, <2>8, Zenon
  <1>7. /\ b \in Seq(S) /\ Len(b) = n - i /\ \A k \in 1 .. n - i : b[k] = s[i + k]
    <2>1. \A k \in i + 1 .. n : s[k] \in S
      BY <1>4
    <2>2. PICK m : m = i + 1
      OBVIOUS
    <2>3. m \in Int /\ n \in Int /\ b = SubSeq(s, m, n) /\ \A k \in m .. n : s[k] \in S
      BY <1>2, <1>3, <1>5, <2>1, <2>2
    <2>4. /\ b \in Seq(S) /\ Len(b) = IF m <= n THEN n - m + 1 ELSE 0
          /\ \A k \in 1 .. n - m + 1 : b[k] = s[m + k - 1]
      BY <2>3, Slice
    <2>5. n - m + 1 = n - i /\ (~ (m <= n) => n - i = 0)
      BY <1>4, <2>2
    <2>6. Len(b) = n - i
      BY <2>4, <2>5, Zenon
    <2>7. \A k \in 1 .. n - i : k \in 1 .. n - m + 1 /\ m + k - 1 = i + k
      BY <1>4, <2>2, <2>5
    <2>8. \A k \in 1 .. n - i : b[k] = s[i + k]
      BY <2>4, <2>7, Zenon
    <2> QED  BY <2>4, <2>6, <2>8, Zenon
  <1>8. /\ t \in Seq(S) /\ Len(t) = i - 1 + (n - i)
        /\ \A j \in 1 .. i - 1 + (n - i) : t[j] = IF j <= i - 1 THEN a[j] ELSE b[j - (i - 1)]
    <2>1. t = a \o b
      BY <1>0, <1>2 DEF Without
    <2>2. a \in Seq(S) /\ b \in Seq(S)
      BY <1>6, <1>7
    <2>3. /\ a \o b \in Seq(S) /\ Len(a \o b) = Len(a) + Len(b)
          /\ \A j \in 1 .. Len(a) + Len(b) :
                (a \o b)[j] = IF j <= Len(a) THEN a[j] ELSE b[j - Len(a)]
      BY <2>2, Joined, Zenon
    <2> QED  BY <1>6, <1>7, <2>1, <2>3, Zenon
  <1>9. DOMAIN t = 1 .. n - 1 /\ i - 1 + (n - i) = n - 1
    <2>1. i - 1 + (n - i) = n - 1
      BY <1>4
    <2> QED  BY <1>8, <2>1, LenProperties
  <1>10. ASSUME NEW j \in 1 .. n - 1
         PROVE  \E k \in 1 .. n : t[j] = s[k]
    <2>1. CASE j <= i - 1
      <3>1. j \in 1 .. i - 1 /\ j \in 1 .. n
        BY <1>4, <2>1
      <3>2. t[j] = s[j]
        BY <1>6, <1>8, <1>9, <2>1, <3>1
      <3> QED  BY <3>1, <3>2
    <2>2. CASE j > i - 1
      <3>1. PICK k : k = j - (i - 1)
        OBVIOUS
      <3>2. k \in 1 .. n - i /\ i + k \in 1 .. n /\ ~ (j <= i - 1)
        <4>1. n \in Nat /\ i \in 1 .. n
          BY <1>4
        <4> QED  BY <2>2, <3>1, <4>1, Shifted
      <3>3. t[j] = b[k]
        BY <1>8, <1>9, <3>1, <3>2
      <3>4. t[j] = s[i + k]
        BY <1>7, <3>2, <3>3
      <3> QED  BY <3>2, <3>4
    <2>3. j <= i - 1 \/ j > i - 1
      BY <1>4
    <2> QED  BY <2>1, <2>2, <2>3
  <1> QED  BY <1>0, <1>4, <1>8, <1>9, <1>10 DEF TakenFrom

\* Orders that are neither the first of the day nor new stay as they are.
LEMMA OneOrderLess ==
    ASSUME EngineTypes, NothingOverdue, Engine!DueOrders # {},
           pending' = Engine!RemoveAt(pending, Engine!Min(Engine!DueOrders)), day' = day
    PROVE  /\ pending[Engine!Min(Engine!DueOrders)] \in WaitingOrder
           /\ pending' \in Seq(WaitingOrder) /\ NothingOverdue'
  <1>1. pending \in Seq(WaitingOrder) /\ Len(pending) \in Nat /\ DOMAIN pending = 1 .. Len(pending)
    BY LenProperties DEF EngineTypes
  <1>2. PICK due : due = Engine!DueOrders
    OBVIOUS
  <1>3. due # {} /\ due \subseteq DOMAIN pending /\ due \in SUBSET Nat
    BY <1>1, <1>2 DEF Engine!DueOrders
  <1>4. PICK x \in due : \A y \in due : x <= y
    BY <1>3, LeastNatural
  <1>5. PICK i : i = Engine!Min(Engine!DueOrders)
    OBVIOUS
  <1>6. i \in due
    BY <1>2, <1>4, <1>5 DEF Engine!Min
  <1>7. i \in DOMAIN pending
    BY <1>3, <1>6
  <1>8. PICK t : t = Without(pending, i)
    OBVIOUS
  <1>9. pending' = t
    BY <1>5, <1>8 DEF Engine!RemoveAt, Without
  <1>10. t \in Seq(WaitingOrder) /\ \A j \in DOMAIN t : \E k \in DOMAIN pending : t[j] = pending[k]
    <2>1. pending \in Seq(WaitingOrder)
      BY <1>1
    <2>2. Without(pending, i) \in Seq(WaitingOrder) /\ TakenFrom(Without(pending, i), pending)
      BY <1>7, <2>1, RemovedFrom, Zenon
    <2> QED  BY <1>8, <2>2 DEF TakenFrom
  <1>11. \A j \in DOMAIN t : t[j].execute >= day
    BY <1>10 DEF NothingOverdue
  <1>12. pending[i] \in WaitingOrder
    BY <1>1, <1>7, ElementOfSeq
  <1> QED  BY <1>5, <1>9, <1>10, <1>11, <1>12 DEF NothingOverdue

\* An order is filled inside the limits and on the books, or refused.
LEMMA ExecuteStep ==
    ASSUME EngineInv, Engine!ExecuteOrder
    PROVE  EngineInv'
  <1> USE DEF EngineInv
  <1>1. /\ UNCHANGED <<stock, action, day, phase, income, entitled, credited, paid, bar>>
        /\ phase = "trading" /\ Engine!DueOrders # {}
    BY DEF Engine!ExecuteOrder, Engine!chosen
  <1>2. PICK o : o = pending[Engine!Min(Engine!DueOrders)]
    OBVIOUS
  <1>3. /\ \/ Engine!Fills(o) /\ o.side = "BUY"  /\ Engine!Bought(o) /\ Engine!Watch(o)
           \/ Engine!Fills(o) /\ o.side = "SELL" /\ Engine!Sold(o) /\ Engine!Watch(o)
           \/ /\ ~ Engine!Fills(o)
              /\ UNCHANGED <<cash, quantity, available, cost, realized, overcharged>>
        /\ pending' = Engine!RemoveAt(pending, Engine!Min(Engine!DueOrders))
    BY <1>2 DEF Engine!ExecuteOrder, Engine!account
  <1>4. o \in WaitingOrder /\ pending' \in Seq(WaitingOrder) /\ NothingOverdue'
    BY <1>1, <1>2, <1>3, OneOrderLess
  <1>5. PICK x \in Openings : cash + cost = x.cash + x.cost + realized + income
    BY DEF MoneyKept, Engine!BooksBalance
  <1>6. x \in [cash : Nat \ {0}, quantity : Nat, cost : Nat]
    BY EngineAssumption
  <1>7. /\ quantity' \in Nat /\ available' \in 0 .. quantity' /\ cost' \in Nat
        /\ cash' \in Int /\ realized' \in Int /\ overcharged' \in BOOLEAN
        /\ cash' + cost' = x.cash + x.cost + realized' + income'
        /\ cash' < 0 => overcharged'
    <2>1. CASE Engine!Fills(o) /\ o.side = "BUY" /\ Engine!Bought(o) /\ Engine!Watch(o)
      <3>1. PICK q, debit : q = o.quantity /\ debit = Engine!Debit(o)
        OBVIOUS
      <3>2. q \in Nat \ {0} /\ debit \in Nat \ {0} /\ debit <= cash
        BY <1>4, <2>1, <3>1, BuyFacts
      <3>3. /\ cash' = cash - debit /\ quantity' = quantity + q /\ cost' = cost + debit
            /\ UNCHANGED <<available, realized>>
        BY <2>1, <3>1 DEF Engine!Bought
      <3>4. overcharged' = overcharged
        BY <2>1, <3>2 DEF Engine!Watch, EngineTypes
      <3> QED  BY <1>1, <1>5, <1>6, <3>2, <3>3, <3>4 DEF EngineTypes, MoneyKept
    <2>2. CASE Engine!Fills(o) /\ o.side = "SELL" /\ Engine!Sold(o) /\ Engine!Watch(o)
      <3>1. PICK q, proceeds, part0 : /\ q = o.quantity /\ proceeds = Engine!Proceeds(o)
                                      /\ part0 = Engine!Allocated(o.quantity)
        OBVIOUS
      <3>2. q \in Nat \ {0} /\ q <= available /\ proceeds \in Int /\ part0 \in 0 .. cost
        BY <1>4, <2>2, <3>1, SellFacts
      <3>3. /\ cash' = cash + proceeds /\ quantity' = quantity - q /\ available' = available - q
            /\ cost' = cost - part0 /\ realized' = realized + proceeds - part0
        BY <2>2, <3>1 DEF Engine!Sold
      <3>4. overcharged' = (overcharged \/ proceeds < 0)
        BY <2>2, <3>1, <3>2 DEF Engine!Watch, EngineTypes
      <3>5. /\ quantity \in Nat /\ available \in Nat /\ available <= quantity /\ cost \in Nat
            /\ cash \in Int /\ realized \in Int /\ income \in Nat /\ overcharged \in BOOLEAN
        BY DEF EngineTypes
      <3>6. part0 \in Nat /\ part0 <= cost /\ q \in Nat
        BY <3>2, <3>5
      <3>7. quantity' \in Nat /\ available' \in 0 .. quantity'
        BY <3>2, <3>3, <3>5, <3>6
      <3>8. cost' \in Nat /\ cash' \in Int /\ realized' \in Int
        BY <3>2, <3>3, <3>5, <3>6
      <3>9. cash' + cost' = x.cash + x.cost + realized' + income'
        BY <1>1, <1>5, <1>6, <3>2, <3>3, <3>5, <3>6
      <3>10. cash' < 0 => overcharged'
        <4>1. cash < 0 => overcharged
          BY DEF MoneyKept
        <4>2. cash' < 0 => cash < 0 \/ proceeds < 0
          BY <3>2, <3>3, <3>5
        <4> QED  BY <3>4, <4>1, <4>2
      <3>11. overcharged' \in BOOLEAN
        BY <3>4, <3>5 DEF EngineTypes, MoneyKept
      <3> QED  BY <3>7, <3>8, <3>9, <3>10, <3>11
    <2>3. CASE UNCHANGED <<cash, quantity, available, cost, realized, overcharged>>
      BY <1>1, <1>5, <2>3 DEF EngineTypes, MoneyKept
    <2> QED  BY <1>3, <2>1, <2>2, <2>3
  <1>8. EngineTypes'
    BY <1>1, <1>4, <1>7 DEF EngineTypes
  <1>9. MoneyKept'
    BY <1>5, <1>7 DEF MoneyKept, Engine!BooksBalance
  <1>10. income' = IF paid' THEN Engine!Dividend(entitled)' ELSE 0
    BY <1>1 DEF EntitlementServed, Engine!Dividend
  <1>11. EntitlementServed'
    BY <1>1, <1>10 DEF EntitlementServed, Taken, AfterRecord, MorningPassed, ClosePassed
  <1> QED  BY <1>4, <1>8, <1>9, <1>11

\* What a day's signals become waits for the next trading day.
LEMMA NewOrders ==
    ASSUME EngineTypes, Engine!NextTradingDay(day) \in TradingDays,
           NEW batch \in Batches \cup {<<Engine!StrategySignal>>}
    PROVE  /\ batch \in Seq([side : {"BUY", "SELL"}, quantity : Int, limit : Nat])
           /\ \A i \in 1 .. Len(batch) :
                 /\ Engine!OrderFor(batch[i]) \in WaitingOrder
                 /\ Engine!OrderFor(batch[i]).execute = Engine!NextTradingDay(day)
  <1>1. PICK Signals : Signals = [side : {"BUY", "SELL"}, quantity : Int, limit : Nat]
    OBVIOUS
  <1>2. Engine!StrategySignal \in Signals
    BY <1>1, EngineAssumption DEF Engine!StrategySignal, EngineTypes
  <1>3. batch \in Seq(Signals)
    <2>1. CASE batch \in Batches
      BY <1>1, <2>1, EngineAssumption
    <2>2. CASE batch = <<Engine!StrategySignal>>
      <3>1. PICK x : x = Engine!StrategySignal
        OBVIOUS
      <3>2. <<x>> \in Seq(Signals)
        BY <1>2, <3>1
      <3> QED  BY <2>2, <3>1, <3>2
    <2> QED  BY <2>1, <2>2
  <1>4. ASSUME NEW i \in 1 .. Len(batch)
        PROVE  /\ Engine!OrderFor(batch[i]) \in WaitingOrder
               /\ Engine!OrderFor(batch[i]).execute = Engine!NextTradingDay(day)
    <2>1. PICK s : s = batch[i]
      OBVIOUS
    <2>2. s \in Signals
      BY <1>3, <2>1, ElementOfSeq
    <2>3. PICK next : next = Engine!NextTradingDay(day)
      OBVIOUS
    <2>4. PICK lot : lot = IF Engine!Resolvable(next, stock)
                           THEN Engine!RuleValue("buy_lot_size", next, stock) ELSE 100
      OBVIOUS
    <2>5. "buy_lot_size" \in Engine!RuleTypes
      BY TypesCovered
    <2>6. lot \in Nat \ {0}
      BY <2>4, <2>5, RuleFacts
    <2>7. PICK n : n = Engine!Normalised(s.side, s.quantity, lot)
      OBVIOUS
    <2>8. PICK q : q = s.quantity
      OBVIOUS
    <2>9. q \in Int
      BY <1>1, <2>2, <2>8
    <2>10. n \in Nat
      <3>1. q > 0 => q \div lot \in Nat
        BY <2>6, <2>9
      <3>2. q > 0 => (q \div lot) * lot \in Nat
        BY <2>6, <3>1, NaturalAmounts
      <3> QED  BY <2>7, <2>8, <2>9, <3>2 DEF Engine!Normalised
    <2>11. Engine!OrderFor(s) = [side |-> s.side, limit |-> s.limit, signalled |-> day,
                                 execute |-> next, quantity |-> n]
      BY <2>3, <2>4, <2>7 DEF Engine!OrderFor
    <2>12. day \in Nat
      BY EngineAssumption DEF EngineTypes
    <2> QED  BY <1>1, <2>1, <2>2, <2>3, <2>10, <2>11, <2>12 DEF WaitingOrder
  <1> QED  BY <1>1, <1>3, <1>4

\* A close takes the record-date quantity and passes the day's signals on.
LEMMA CloseStep ==
    ASSUME EngineInv, Engine!Close
    PROVE  EngineInv'
  <1> USE DEF EngineInv
  <1>1. /\ UNCHANGED <<stock, action, cash, quantity, available, cost, realized, income,
                       credited, paid, overcharged>>
        /\ phase = "trading" /\ Engine!DueOrders = {} /\ bar' = NoBar
    BY DEF Engine!Close, Engine!chosen, Engine!account
  <1>2. PICK next : next = Engine!NextTradingDay(day)
    OBVIOUS
  <1>3. /\ day' = next /\ phase' = (IF next = 0 THEN "done" ELSE "morning")
        /\ entitled' = IF Engine!TakesRecord THEN quantity ELSE entitled
    BY <1>2 DEF Engine!Close
  <1>4. day \in TradingDays /\ day \in Nat \ {0} /\ TradingDays \subseteq Nat \ {0}
    BY <1>1, EngineAssumption DEF EngineTypes
  <1>5. \/ /\ next \in TradingDays /\ next > day
           /\ \A t \in TradingDays : t > day => next <= t
        \/ next = 0 /\ \A t \in TradingDays : ~ (t > day)
    BY <1>2, <1>4, NextDay
  <1>6. next \in Nat /\ (next = 0 \/ next \in TradingDays)
    <2>1. next \in TradingDays => next \in Nat
      BY <1>4
    <2>2. next = 0 \/ next \in TradingDays
      BY <1>5
    <2> QED  BY <2>1, <2>2
  <1>7. \A i \in DOMAIN pending : pending[i].execute \in TradingDays /\ pending[i].execute > day
    <2> SUFFICES ASSUME NEW i \in DOMAIN pending
                 PROVE  pending[i].execute \in TradingDays /\ pending[i].execute > day
      OBVIOUS
    <2>1. pending[i] \in WaitingOrder
      BY ElementOfSeq, LenProperties DEF EngineTypes
    <2>2. pending[i].execute \in TradingDays
      BY <2>1 DEF WaitingOrder
    <2>3. pending[i].execute # day
      BY <1>1 DEF Engine!DueOrders
    <2>4. PICK e : e = pending[i].execute
      OBVIOUS
    <2>5. e \in Nat /\ e >= day /\ e # day
      BY <1>4, <2>2, <2>3, <2>4 DEF NothingOverdue
    <2>6. e > day
      BY <1>4, <2>5
    <2> QED  BY <2>2, <2>4, <2>6
  <1>8. pending' \in Seq(WaitingOrder) /\ \A i \in DOMAIN pending' : pending'[i].execute >= next
    <2>1. PICK batch \in Batches \cup {<<Engine!StrategySignal>>} :
             pending' = IF next = 0 THEN pending
                        ELSE pending \o [i \in 1 .. Len(batch) |-> Engine!OrderFor(batch[i])]
      BY <1>2 DEF Engine!Close
    <2>2. CASE next = 0
      <3>1. \A i \in DOMAIN pending : pending[i].execute >= 0
        <4>1. \A e \in TradingDays : e >= 0
          BY <1>4
        <4> QED  BY <1>7, <4>1
      <3> QED  BY <2>1, <2>2, <3>1 DEF EngineTypes
    <2>3. CASE next # 0
      <3>1. PICK new : new = [i \in 1 .. Len(batch) |-> Engine!OrderFor(batch[i])]
        OBVIOUS
      <3>2. /\ batch \in Seq([side : {"BUY", "SELL"}, quantity : Int, limit : Nat])
            /\ \A i \in 1 .. Len(batch) : /\ Engine!OrderFor(batch[i]) \in WaitingOrder
                                          /\ Engine!OrderFor(batch[i]).execute = next
        BY <1>2, <1>6, <2>3, NewOrders
      <3>3. Len(batch) \in Nat
        BY <3>2, LenProperties
      <3>4. /\ new \in Seq(WaitingOrder) /\ Len(new) = Len(batch)
            /\ \A i \in 1 .. Len(new) : new[i].execute = next
        BY <3>1, <3>2, <3>3
      <3>5. PICK old : old = pending
        OBVIOUS
      <3>6. /\ old \in Seq(WaitingOrder) /\ Len(old) \in Nat /\ DOMAIN old = 1 .. Len(old)
            /\ \A i \in 1 .. Len(old) : old[i].execute >= next
        <4>1. old \in Seq(WaitingOrder) /\ Len(old) \in Nat /\ DOMAIN old = 1 .. Len(old)
          BY <3>5, LenProperties DEF EngineTypes
        <4>2. \A t \in TradingDays : t > day => t >= next
          BY <1>4, <1>5, <1>6, <2>3
        <4> QED  BY <1>7, <3>5, <4>1, <4>2
      <3>7. PICK all : all = old \o new
        OBVIOUS
      <3>8. /\ all \in Seq(WaitingOrder) /\ Len(all) = Len(old) + Len(new)
            /\ DOMAIN all = 1 .. Len(old) + Len(new)
            /\ \A i \in 1 .. Len(old) + Len(new) :
                  all[i] = IF i <= Len(old) THEN old[i] ELSE new[i - Len(old)]
        <4>1. /\ all \in Seq(WaitingOrder) /\ Len(all) = Len(old) + Len(new)
              /\ \A i \in 1 .. Len(old) + Len(new) :
                    all[i] = IF i <= Len(old) THEN old[i] ELSE new[i - Len(old)]
          <5>1. old \in Seq(WaitingOrder) /\ new \in Seq(WaitingOrder)
            BY <3>4, <3>6
          <5>2. /\ old \o new \in Seq(WaitingOrder) /\ Len(old \o new) = Len(old) + Len(new)
                /\ \A i \in 1 .. Len(old) + Len(new) :
                      (old \o new)[i] = IF i <= Len(old) THEN old[i] ELSE new[i - Len(old)]
            BY <5>1, Joined, Zenon
          <5> QED  BY <3>7, <5>2, Zenon
        <4>2. DOMAIN all = 1 .. Len(all)
          BY <4>1, LenProperties
        <4> QED  BY <4>1, <4>2
      <3>9. ASSUME NEW i \in DOMAIN all  PROVE all[i].execute >= next
        <4>1. CASE i <= Len(old)
          BY <3>6, <3>8, <4>1
        <4>2. CASE i > Len(old)
          <5>1. i - Len(old) \in 1 .. Len(new) /\ all[i] = new[i - Len(old)]
            BY <3>3, <3>4, <3>6, <3>8, <4>2
          <5>2. all[i].execute = next
            BY <3>4, <5>1
          <5> QED  BY <1>6, <5>2
        <4> QED  BY <3>6, <3>8, <4>1, <4>2
      <3> QED  BY <2>1, <2>3, <3>1, <3>5, <3>7, <3>8, <3>9
    <2> QED  BY <2>2, <2>3
  <1>9. entitled' \in Nat \cup {NotTaken}
    BY <1>3 DEF EngineTypes
  <1>10. EngineTypes'
    BY <1>1, <1>3, <1>6, <1>8, <1>9, <1>4 DEF EngineTypes
  <1>11. NothingOverdue'
    BY <1>3, <1>8 DEF NothingOverdue
  <1>12. MoneyKept'
    BY <1>1 DEF MoneyKept, Engine!BooksBalance
  <1>13. ASSUME NEW d \in Nat
         PROVE  /\ MorningPassed(d)' <=> MorningPassed(d)
                /\ ClosePassed(d)' <=> ClosePassed(d) \/ d = day
                /\ MorningPassed(d) <=> ClosePassed(d) \/ d = day
    <2>1. MorningPassed(d) <=> d \in TradingDays /\ d <= day
      BY <1>1, <1>4 DEF MorningPassed
    <2>2. ClosePassed(d) <=> d \in TradingDays /\ d < day
      BY <1>1, <1>4 DEF ClosePassed
    <2>3. d \in TradingDays => ((next = 0 \/ d < next) <=> d <= day)
      BY <1>4, <1>5, <1>6
    <2>4. MorningPassed(d)' <=> d \in TradingDays /\ (next = 0 \/ d < next)
      BY <1>3 DEF MorningPassed
    <2>5. ClosePassed(d)' <=> d \in TradingDays /\ (next = 0 \/ d < next)
      BY <1>3 DEF ClosePassed
    <2> QED  BY <1>4, <2>1, <2>2, <2>3, <2>4, <2>5
  <1>14. PICK r, x, y : r = action.record /\ x = action.payment /\ y = action.credit
    OBVIOUS
  <1>15. r \in Nat /\ x \in Nat /\ y \in Nat
    BY <1>14, ActionFields
  <1>16. action'.record = r /\ action'.payment = x /\ action'.credit = y
    BY <1>1, <1>14
  <1>17. /\ Taken <=> ClosePassed(r)
         /\ paid <=> AfterRecord(x)
         /\ credited <=> AfterRecord(y)
    BY <1>1, <1>14 DEF EntitlementServed
  <1>18. Taken' <=> Taken \/ r = day
    BY <1>3, <1>14, EngineAssumption DEF Taken, Engine!TakesRecord, EngineTypes
  <1>19. Taken' <=> ClosePassed(r)'
    BY <1>13, <1>15, <1>17, <1>18
  <1>20. ASSUME NEW d \in Nat
         PROVE  AfterRecord(d)' <=> AfterRecord(d)
    <2>1. AfterRecord(d)' <=> Taken' /\ r < d /\ MorningPassed(d)
      BY <1>13, <1>16 DEF AfterRecord
    <2>2. AfterRecord(d) <=> Taken /\ r < d /\ MorningPassed(d)
      BY <1>14 DEF AfterRecord
    <2>3. r = day /\ MorningPassed(d) => ~ (r < d)
      BY <1>1, <1>4 DEF MorningPassed
    <2> QED  BY <1>18, <2>1, <2>2, <2>3
  <1>21. paid' <=> AfterRecord(x)'
    BY <1>1, <1>15, <1>17, <1>20
  <1>22. credited' <=> AfterRecord(y)'
    BY <1>1, <1>15, <1>17, <1>20
  <1>23. paid => entitled' = entitled
    BY <1>3 DEF EntitlementServed, Taken, Engine!TakesRecord
  <1>24. income' = IF paid' THEN Engine!Dividend(entitled)' ELSE 0
    BY <1>1, <1>23 DEF EntitlementServed, Engine!Dividend
  <1>25. paid' => Taken'
    BY <1>1, <1>18 DEF EntitlementServed
  <1>26. EntitlementServed'
    BY <1>3, <1>16, <1>19, <1>21, <1>22, <1>24, <1>25 DEF EntitlementServed
  <1> QED  BY <1>10, <1>11, <1>12, <1>26

LEMMA EngineStep ==
    ASSUME EngineInv, [Engine!Next]_EngineVars
    PROVE  EngineInv'
  <1>1. CASE UNCHANGED EngineVars
    <2>1. EngineTypes' /\ NothingOverdue'
      BY <1>1 DEF EngineInv, EngineVars, EngineTypes, NothingOverdue
    <2>2. MoneyKept'
      BY <1>1 DEF EngineInv, EngineVars, MoneyKept, Engine!BooksBalance
    <2>3. EntitlementServed'
      BY <1>1 DEF EngineInv, EngineVars, EntitlementServed, Taken, AfterRecord, MorningPassed,
           ClosePassed, Engine!Dividend, Engine!PositionDisappeared, Engine!Credit,
           Engine!CreditDue, Engine!ShareIncrease, Engine!TakesRecord, Engine!Fractional
    <2> QED  BY <2>1, <2>2, <2>3 DEF EngineInv
  <1> QED  BY <1>1, MorningStep, FailureStep, ExecuteStep, CloseStep DEF Engine!Next

\* The invariant says what the property does.
LEMMA EngineSound == EngineInv => BacktestAccountAddsUp
  <1> SUFFICES ASSUME EngineInv  PROVE BacktestAccountAddsUp
    OBVIOUS
  <1> USE DEF EngineInv
  <1>1. /\ Len(pending) \in Nat /\ DOMAIN pending = 1 .. Len(pending)
        /\ \A i \in 1 .. Len(pending) : pending[i] \in WaitingOrder
    BY ElementOfSeq, LenProperties DEF EngineTypes
  <1>2. Engine!TypeOK
    BY <1>1 DEF Engine!TypeOK, EngineTypes, WaitingOrder
  <1>3. Engine!AccountIsSound
    BY <1>1, <1>2 DEF Engine!AccountIsSound, MoneyKept, NothingOverdue, WaitingOrder
  <1>4. action.record \in Nat /\ action.payment \in Nat /\ action.credit \in Nat
    BY ActionFields
  <1>5. ASSUME NEW d \in Nat, phase = "done"
        PROVE  AfterRecord(d) <=> Engine!Served(d)
    BY <1>4, <1>5 DEF AfterRecord, Engine!Served, MorningPassed, Taken
  <1>6. Engine!EntitlementsSettle
    BY <1>4, <1>5 DEF Engine!EntitlementsSettle, EntitlementServed
  <1> QED  BY <1>3, <1>6 DEF BacktestAccountAddsUp

\* The account of a backtest adds up day after day, for any calendar, bars,
\* signals and rules, and a corporate action is settled as far as its dates
\* fall on trading days behind the record date (BacktestEngine.run).
THEOREM BacktestAlwaysAddsUp == SimulatorsSpec => []BacktestAccountAddsUp
  <1>1. SimulatorsInit => EngineInv
    BY EngineStarts DEF SimulatorsInit
  <1>2. EngineInv /\ [SimulatorsNext]_SimulatorsVars => EngineInv'
    BY EngineStep DEF SimulatorsNext, SimulatorsVars
  <1> QED  BY <1>1, <1>2, EngineSound, PTL DEF SimulatorsSpec

-----------------------------------------------------------------------------
(* The engine implements the accounting contract.                          *)

LEMMA OpeningIsAllowed == Engine!Init => Engine!ReferenceLedger!Opening
  <1> SUFFICES ASSUME Engine!Init  PROVE Engine!ReferenceLedger!Opening
    OBVIOUS
  <1>1. PICK o \in Openings : cash = o.cash /\ quantity = o.quantity /\ cost = o.cost
    BY DEF Engine!Init
  <1>2. o \in [cash : Nat \ {0}, quantity : Nat, cost : Nat]
    BY EngineAssumption
  <1>3. available = quantity /\ realized = 0 /\ income = 0
    BY DEF Engine!Init
  <1> QED  BY <1>1, <1>2, <1>3 DEF Engine!ReferenceLedger!Opening

ReferenceStep ==
    Engine!ReferenceLedger!Morning \/ Engine!ReferenceLedger!Buy \/ Engine!ReferenceLedger!Sell

LEMMA StepIsAllowed ==
    ASSUME EngineInv, [Engine!Next]_EngineVars
    PROVE  ReferenceStep \/ UNCHANGED Engine!ReferenceLedger!account
  <1> USE DEF EngineInv
  <1>1. CASE Engine!Morning
    <2>1. PICK c, p : c = Engine!Credit /\ p = Engine!Payment
      OBVIOUS
    <2>2. entitled \in Nat \cup {NotTaken}
      BY DEF EngineTypes
    <2>3. c \in Nat /\ p \in Nat
      BY <2>1, <2>2, ActionFields
         DEF Engine!Credit, Engine!Payment, Engine!CreditDue, Engine!PaymentDue
    <2>4. /\ quantity' = quantity + c /\ available' = quantity' /\ cash' = cash + p
          /\ income' = income + p /\ cost' = cost /\ realized' = realized
      BY <1>1, <2>1 DEF Engine!Morning
    <2>5. quantity \in Nat /\ cash \in Int /\ income \in Nat
      BY DEF EngineTypes
    <2>6. quantity' >= quantity /\ income' >= income /\ cash' - cash = income' - income
      BY <2>3, <2>4, <2>5
    <2> QED  BY <2>4, <2>6 DEF ReferenceStep, Engine!ReferenceLedger!Morning
  <1>2. CASE Engine!ExecuteOrder
    <2>1. PICK o : o = pending[Engine!Min(Engine!DueOrders)]
      OBVIOUS
    <2>2. /\ \/ Engine!Fills(o) /\ o.side = "BUY"  /\ Engine!Bought(o)
             \/ Engine!Fills(o) /\ o.side = "SELL" /\ Engine!Sold(o)
             \/ UNCHANGED <<cash, quantity, available, cost, realized>>
          /\ Engine!DueOrders # {} /\ day' = day /\ income' = income
          /\ pending' = Engine!RemoveAt(pending, Engine!Min(Engine!DueOrders))
      BY <1>2, <2>1 DEF Engine!ExecuteOrder, Engine!account
    <2>3. o \in WaitingOrder
      BY <2>1, <2>2, OneOrderLess
    <2>4. quantity \in Nat /\ available \in 0 .. quantity /\ cash \in Int /\ cost \in Nat
          /\ realized \in Int
      BY DEF EngineTypes
    <2>5. CASE Engine!Fills(o) /\ o.side = "BUY"  /\ Engine!Bought(o)
      <3>1. PICK q, debit : q = o.quantity /\ debit = Engine!Debit(o)
        OBVIOUS
      <3>2. q \in Nat \ {0} /\ debit \in Nat \ {0} /\ debit <= cash
        BY <2>3, <2>5, <3>1, BuyFacts
      <3>3. /\ cash' = cash - debit /\ quantity' = quantity + q /\ cost' = cost + debit
            /\ available' = available /\ realized' = realized
        BY <2>5, <3>1 DEF Engine!Bought
      <3>4. quantity' > quantity /\ cash' >= 0 /\ cash' < cash /\ cost' = cost + (cash - cash')
        BY <2>4, <3>2, <3>3
      <3> QED  BY <2>2, <3>3, <3>4 DEF ReferenceStep, Engine!ReferenceLedger!Buy
    <2>6. CASE Engine!Fills(o) /\ o.side = "SELL" /\ Engine!Sold(o)
      <3>1. PICK q, proceeds, taken : /\ q = o.quantity /\ proceeds = Engine!Proceeds(o)
                                      /\ taken = Engine!Allocated(o.quantity)
        OBVIOUS
      <3>2. /\ q \in Nat \ {0} /\ q <= available /\ proceeds \in Int /\ taken \in 0 .. cost
            /\ q = quantity => taken = cost
        BY <2>3, <2>6, <3>1, SellFacts
      <3>3. /\ cash' = cash + proceeds /\ quantity' = quantity - q /\ available' = available - q
            /\ cost' = cost - taken /\ realized' = realized + proceeds - taken
        BY <2>6, <3>1 DEF Engine!Sold
      <3>4. PICK sold : sold = quantity - quantity'
        OBVIOUS
      <3>5. taken \in Nat /\ taken <= cost /\ q \in Nat
        BY <2>4, <3>2
      <3>6. sold = q /\ 0 < sold /\ sold <= available /\ available' = available - sold
        BY <2>4, <3>2, <3>3, <3>4, <3>5
      <3>7. (quantity' = 0 => cost' = 0) /\ 0 <= cost' /\ cost' <= cost
        BY <2>4, <3>2, <3>3, <3>5
      <3>8. realized' = realized + (cash' - cash) - (cost - cost')
        BY <2>4, <3>2, <3>3, <3>5
      <3> QED  BY <2>2, <3>4, <3>6, <3>7, <3>8 DEF ReferenceStep, Engine!ReferenceLedger!Sell
    <2> QED  BY <2>2, <2>5, <2>6 DEF Engine!ReferenceLedger!account
  <1>3. CASE Engine!MorningFails \/ Engine!CloseFails \/ Engine!Close
    BY <1>3 DEF Engine!MorningFails, Engine!CloseFails, Engine!Close, Engine!account,
                Engine!ReferenceLedger!account
  <1>4. CASE UNCHANGED EngineVars
    BY <1>4 DEF EngineVars, Engine!ReferenceLedger!account
  <1> QED  BY <1>1, <1>2, <1>3, <1>4 DEF Engine!Next

\* The engine moves cash, shares, cost and income only as the repository's
\* reference ledgers do, fill by fill, for any calendar, prices, signals and
\* rules: BacktestEngine implements AccountingContract.
THEOREM BacktestImplementsReference == SimulatorsSpec => MatchesReference
  <1>1. SimulatorsInit => EngineInv /\ Engine!ReferenceLedger!Opening
    BY EngineStarts, OpeningIsAllowed DEF SimulatorsInit
  <1>2. EngineInv /\ [SimulatorsNext]_SimulatorsVars => EngineInv'
    BY EngineStep DEF SimulatorsNext, SimulatorsVars
  <1>3. EngineInv /\ [SimulatorsNext]_SimulatorsVars =>
           [Engine!ReferenceLedger!Morning \/ Engine!ReferenceLedger!Buy
              \/ Engine!ReferenceLedger!Sell]_(Engine!ReferenceLedger!account)
    BY StepIsAllowed DEF SimulatorsNext, SimulatorsVars, ReferenceStep
  <1> QED  BY <1>1, <1>2, <1>3, PTL
           DEF SimulatorsSpec, MatchesReference, Engine!MatchesReference,
               Engine!ReferenceLedger!Spec

-----------------------------------------------------------------------------
(* Finite sets: a smallest counterexample, and the largest member.         *)

LEMMA SmallestSet ==
    ASSUME NEW S, IsFiniteSet(S), NEW B \in SUBSET (SUBSET S), B # {}
    PROVE  \E t \in B : \A u \in SUBSET t : u # t => u \notin B
  <1>1. PICK T : T = {Cardinality(t) : t \in B}
    OBVIOUS
  <1>2. \A t \in SUBSET S : IsFiniteSet(t) /\ Cardinality(t) \in Nat
    BY FS_Subset, FS_CardinalityType
  <1>3. T \in SUBSET Nat /\ T # {}
    BY <1>1, <1>2
  <1>4. PICK x \in T : \A y \in T : x <= y
    BY <1>3, LeastNatural
  <1>5. PICK t \in B : x = Cardinality(t)
    BY <1>1, <1>4
  <1>6. ASSUME NEW u \in SUBSET t, u # t  PROVE u \notin B
    <2>1. Cardinality(u) < Cardinality(t)
      BY <1>2, <1>6, FS_Subset
    <2>2. Cardinality(u) \in Nat /\ Cardinality(t) \in Nat
      BY <1>2
    <2> QED  BY <1>1, <1>4, <1>5, <2>1, <2>2
  <1> QED  BY <1>5, <1>6

LEMMA MaxExists ==
    ASSUME NEW S \in SUBSET Int, IsFiniteSet(S), S # {}
    PROVE  Max(S) \in S /\ \A y \in S : Max(S) >= y
  <1> DEFINE HasMax(T) == \E x \in T : \A y \in T : x >= y
  <1>1. HasMax(S)
    <2> SUFFICES ASSUME ~HasMax(S)  PROVE FALSE
      OBVIOUS
    <2>1. PICK B : B = {T \in SUBSET S : T # {} /\ ~HasMax(T)}
      OBVIOUS
    <2>2. B \in SUBSET (SUBSET S) /\ B # {}
      BY <2>1
    <2> HIDE DEF HasMax
    <2>3. PICK T \in B : \A u \in SUBSET T : u # T => u \notin B
      BY <2>2, SmallestSet
    <2>4. T \in SUBSET S /\ T # {} /\ ~HasMax(T) /\ T \in SUBSET Int
      BY <2>1
    <2>5. PICK p \in T : TRUE
      BY <2>4
    <2>6. PICK rest : rest = T \ {p}
      OBVIOUS
    <2>7. rest \in SUBSET T /\ rest # T /\ rest \in SUBSET S
      BY <2>4, <2>6
    <2>8. CASE rest = {}
      <3>1. \A y \in T : y = p /\ p \in Int
        BY <2>4, <2>6, <2>8
      <3>2. \A y \in T : p >= y
        BY <3>1
      <3> QED  BY <2>4, <3>2 DEF HasMax
    <2>9. CASE rest # {}
      <3>1. HasMax(rest)
        BY <2>1, <2>3, <2>7, <2>9
      <3>2. PICK m \in rest : \A y \in rest : m >= y
        BY <3>1 DEF HasMax
      <3>3. m \in Int /\ p \in Int /\ m \in T /\ \A y \in T : y = p \/ y \in rest
        BY <2>4, <2>6, <3>2
      <3>4. CASE p >= m
        <4>1. \A y \in T : p >= y
          BY <2>4, <3>2, <3>3, <3>4
        <4> QED  BY <2>4, <4>1 DEF HasMax
      <3>5. CASE ~(p >= m)
        <4>1. \A y \in T : m >= y
          BY <2>4, <3>2, <3>3, <3>5
        <4> QED  BY <2>4, <3>3, <4>1 DEF HasMax
      <3> QED  BY <3>4, <3>5
    <2> QED  BY <2>8, <2>9
  <1> QED  BY <1>1 DEF Max

LEMMA ImageFinite ==
    ASSUME NEW f, NEW S, IsFiniteSet(S)
    PROVE  IsFiniteSet({f[x] : x \in S})
  <1>1. PICK T : T = {f[x] : x \in S}
    OBVIOUS
  <1>2. PICK g : g = [x \in S |-> f[x]]
    OBVIOUS
  <1>3. g \in Surjection(S, T)
    BY <1>1, <1>2 DEF Surjection
  <1> QED  BY <1>1, <1>3, FS_Surjection

-----------------------------------------------------------------------------
(* What a reference of the paper account, and a review, rest on.           *)

\* Only the ordinary batch passes every check, and what it makes visible ends
\* with its second bar.
LEMMA OnlyOrdinaryBatches ==
    ASSUME NEW cutoff \in Nat, NEW scenario \in Scenarios, NEW future \in Nat,
           Accepts(Load(cutoff, scenario, future), cutoff)
    PROVE  ReferencePrice(Load(cutoff, scenario, future), cutoff) = 1050
  <1>1. PICK batch : batch = Load(cutoff, scenario, future)
    OBVIOUS
  <1>2. PICK b : b = ShadowBars(cutoff, future)
    OBVIOUS
  <1>3. /\ b = <<Bar(cutoff - 120, 1000), Bar(cutoff - 60, 1050), Bar(cutoff + 60, future)>>
        /\ b[1] = Bar(cutoff - 120, 1000) /\ b[2] = Bar(cutoff - 60, 1050)
        /\ b[3] = Bar(cutoff + 60, future)
    BY <1>2 DEF ShadowBars
  <1>4. /\ \A i \in 1 .. Len(batch.bars) : BarIsFit(batch.bars[i], cutoff)
        /\ InOrder(batch.bars) /\ batch.bars # <<>> /\ batch.content /\ batch.manifest
        /\ batch.fetched <= batch.received /\ Fresh(batch, cutoff)
    BY <1>1 DEF Accepts
  <1>5. /\ batch.fetched = cutoff - (IF scenario = "time_regression" THEN 1 ELSE 2)
        /\ batch.received = cutoff - (IF scenario = "time_regression" THEN 2 ELSE 1)
        /\ batch.content = (scenario # "hash_mismatch")
        /\ batch.manifest = (scenario # "manifest_hash_mismatch")
    BY <1>1 DEF Load
  <1>6. /\ scenario # "hash_mismatch" /\ scenario # "manifest_hash_mismatch"
        /\ scenario # "time_regression"
    <2>1. scenario # "hash_mismatch" /\ scenario # "manifest_hash_mismatch"
      BY <1>4, <1>5, Zenon
    <2>2. ASSUME scenario = "time_regression"  PROVE FALSE
      <3>1. batch.fetched = cutoff - 1 /\ batch.received = cutoff - 2
        BY <1>5, <2>2
      <3> QED  BY <1>4, <3>1
    <2> QED  BY <2>1, <2>2
  <1>7. scenario # "missing"
    BY <1>1, <1>4 DEF Load
  <1>8. scenario # "available_at_missing"
    <2> SUFFICES ASSUME scenario = "available_at_missing"  PROVE FALSE
      OBVIOUS
    <2>1. batch.bars = [b EXCEPT ![1].seen = Unknown]
      BY <1>1, <1>2 DEF Load
    <2>2. Len(batch.bars) = 3 /\ batch.bars[1].seen = Unknown
      BY <1>3, <2>1 DEF Bar
    <2> QED  BY <1>4, <2>2 DEF BarIsFit
  <1>9. scenario # "lineage_missing"
    <2> SUFFICES ASSUME scenario = "lineage_missing"  PROVE FALSE
      OBVIOUS
    <2>1. batch.bars = [b EXCEPT ![1].lineage = FALSE]
      BY <1>1, <1>2 DEF Load
    <2>2. Len(batch.bars) = 3 /\ ~ batch.bars[1].lineage
      BY <1>3, <2>1 DEF Bar
    <2> QED  BY <1>4, <2>2 DEF BarIsFit
  <1>10. scenario # "row_hash_mismatch"
    <2> SUFFICES ASSUME scenario = "row_hash_mismatch"  PROVE FALSE
      OBVIOUS
    <2>1. batch.bars = [b EXCEPT ![1].row = FALSE]
      BY <1>1, <1>2 DEF Load
    <2>2. Len(batch.bars) = 3 /\ ~ batch.bars[1].row
      BY <1>3, <2>1 DEF Bar
    <2> QED  BY <1>4, <2>2 DEF BarIsFit
  <1>11. scenario # "duplicate"
    <2> SUFFICES ASSUME scenario = "duplicate"  PROVE FALSE
      OBVIOUS
    <2>1. batch.bars = <<b[1], b[2], b[2], b[3]>>
      BY <1>1, <1>2 DEF Load
    <2>2. Len(batch.bars) = 4 /\ batch.bars[2] = b[2] /\ batch.bars[3] = b[2]
      BY <2>1
    <2>3. batch.bars[3].at > batch.bars[2].at
      BY <1>4, <2>2 DEF InOrder
    <2>4. b[2].at = cutoff - 60
      BY <1>3 DEF Bar
    <2> QED  BY <2>2, <2>3, <2>4
  <1>12. scenario # "row_time_regression"
    <2> SUFFICES ASSUME scenario = "row_time_regression"  PROVE FALSE
      OBVIOUS
    <2>1. batch.bars = <<b[2], b[1], b[3]>>
      BY <1>1, <1>2 DEF Load
    <2>2. Len(batch.bars) = 3 /\ batch.bars[1] = b[2] /\ batch.bars[2] = b[1]
      BY <2>1
    <2>3. batch.bars[2].at > batch.bars[1].at
      BY <1>4, <2>2 DEF InOrder
    <2>4. b[2].at = cutoff - 60 /\ b[1].at = cutoff - 120
      BY <1>3 DEF Bar
    <2> QED  BY <2>2, <2>3, <2>4
  <1>13. scenario # "stale"
    <2> SUFFICES ASSUME scenario = "stale"  PROVE FALSE
      OBVIOUS
    <2>1. batch.bars = [i \in 1 .. 3 |-> Bar(b[i].at - 3600, b[i].close)]
      BY <1>1, <1>2 DEF Load
    <2>2. PICK seen : seen = {batch.bars[i].seen : i \in Visible(batch, cutoff)}
      OBVIOUS
    <2>3. \A i \in 1 .. 3 : b[i].at \in {cutoff - 120, cutoff - 60, cutoff + 60}
      BY <1>3 DEF Bar
    <2>4. \A i \in 1 .. 3 : /\ batch.bars[i].seen = b[i].at - 3600
                            /\ batch.bars[i].at = b[i].at - 3600
      BY <2>1 DEF Bar
    <2>5. DOMAIN batch.bars = 1 .. 3
      BY <2>1
    <2>6. Visible(batch, cutoff) = 1 .. 3
      BY <2>3, <2>4, <2>5 DEF Visible
    <2>7. \A x \in seen : x \in Int /\ cutoff - x > MaxAge
      BY <2>2, <2>3, <2>4, <2>6 DEF MaxAge
    <2>8. batch.bars[3].seen \in seen /\ \A x \in seen : batch.bars[3].seen >= x
      <3>1. b[1].at = cutoff - 120 /\ b[2].at = cutoff - 60 /\ b[3].at = cutoff + 60
        BY <1>3 DEF Bar
      <3>2. \A i \in 1 .. 3 : batch.bars[3].seen >= batch.bars[i].seen
        BY <2>4, <3>1
      <3> QED  BY <2>2, <2>6, <3>2
    <2>9. Max(seen) \in seen
      BY <2>8 DEF Max
    <2>10. cutoff - Max(seen) <= MaxAge
      BY <1>4, <2>2 DEF Fresh
    <2> QED  BY <2>7, <2>9, <2>10 DEF MaxAge
  <1>14. scenario = "normal"
    BY <1>6, <1>7, <1>8, <1>9, <1>10, <1>11, <1>12, <1>13 DEF Scenarios
  <1>15. batch.bars = b
    BY <1>1, <1>2, <1>14 DEF Load
  <1>16. Visible(batch, cutoff) = {1, 2}
    <2>1. DOMAIN b = 1 .. 3
      BY <1>3
    <2>2. /\ b[1].at = cutoff - 120 /\ b[1].seen = cutoff - 120
          /\ b[2].at = cutoff - 60 /\ b[2].seen = cutoff - 60
          /\ b[3].at = cutoff + 60
      BY <1>3 DEF Bar
    <2> QED  BY <1>15, <2>1, <2>2 DEF Visible
  <1>17. Max({1, 2}) = 2
    BY DEF Max
  <1>18. b[2].close = 1050
    BY <1>3 DEF Bar
  <1> QED  BY <1>1, <1>15, <1>16, <1>17, <1>18 DEF ReferencePrice

ReferencesInv == \A reference \in references : reference.price = 1050

FetchedBatch == [date : Nat \ {0}, rows : [Codes -> Nat]]
FilesTyped == files \in Seq(FetchedBatch)

LEMMA FileTyped == ASSUME FilesTyped, NEW i \in DOMAIN files
                   PROVE  files[i] \in FetchedBatch
  BY DEF FilesTyped

\* The batches of a document were there when it was made, and each of its
\* candidates has a row in one of them.
FromFiles(doc, fs) ==
    /\ doc.observed \in 1 .. Len(fs)
    /\ IsFiniteSet(doc.inputs)
    /\ \A b \in doc.inputs : \E j \in 1 .. doc.observed : fs[j] = b
    /\ DOMAIN doc.actions \in SUBSET Codes
    /\ \A s \in DOMAIN doc.actions :
          /\ \E b \in doc.inputs : b.rows[s] > 0
          /\ doc.actions[s] \in {"HOLD", "BUY", "SELL"}

ReviewsInv == FilesTyped /\ \A doc \in documents : FromFiles(doc, files)

LEMMA BatchTyped ==
    ASSUME FilesTyped, NEW doc, FromFiles(doc, files), NEW b \in doc.inputs
    PROVE  b \in FetchedBatch
  <1>1. PICK j \in 1 .. doc.observed : files[j] = b
    BY DEF FromFiles
  <1>2. Len(files) \in Nat /\ DOMAIN files = 1 .. Len(files)
    BY DEF FilesTyped
  <1>3. j \in DOMAIN files
    BY <1>1, <1>2 DEF FromFiles
  <1> QED  BY <1>1, <1>3, FileTyped

\* The baseline is the latest row of the candidate's own batches.
LEMMA BaselineExists ==
    ASSUME FilesTyped, NEW doc, FromFiles(doc, files), NEW s \in DOMAIN doc.actions
    PROVE  /\ Baseline(doc, s) \in doc.inputs /\ Baseline(doc, s).rows[s] \in Nat \ {0}
           /\ Baseline(doc, s).date \in Nat \ {0}
           /\ \A c \in doc.inputs : c.rows[s] > 0 => c.date <= Baseline(doc, s).date
  <1>1. PICK with : with = {b \in doc.inputs : b.rows[s] > 0}
    OBVIOUS
  <1>2. with \in SUBSET doc.inputs /\ IsFiniteSet(with) /\ with # {}
    BY <1>1, FS_Subset DEF FromFiles
  <1>3. s \in Codes
    BY DEF FromFiles
  <1>4. \A b \in doc.inputs : b.date \in Nat \ {0} /\ b.rows[s] \in Nat
    BY <1>3, BatchTyped DEF FetchedBatch
  <1>5. PICK dates : dates = {b.date : b \in with}
    OBVIOUS
  <1>6. IsFiniteSet(dates)
    <2>1. PICK date : date = [b \in with |-> b.date]
      OBVIOUS
    <2>2. dates = {date[b] : b \in with}
      BY <1>5, <2>1
    <2> QED  BY <1>2, <2>2, ImageFinite
  <1>7. dates # {} /\ dates \in SUBSET Int
    BY <1>2, <1>4, <1>5
  <1>8. Max(dates) \in dates /\ \A y \in dates : Max(dates) >= y
    BY <1>6, <1>7, MaxExists
  <1>9. PICK b \in with : b.date = Max(dates)
    BY <1>5, <1>8
  <1>10. \A c \in with : c.date <= b.date
    <2> TAKE c \in with
    <2>1. c.date \in dates /\ c.date \in Nat /\ b.date \in Nat
      BY <1>2, <1>4, <1>5, <1>9
    <2> QED  BY <1>8, <1>9, <2>1
  <1>11. \E x \in doc.inputs : x.rows[s] > 0 /\ \A c \in doc.inputs :
                                 c.rows[s] > 0 => c.date <= x.date
    BY <1>1, <1>9, <1>10
  <1>12. /\ Baseline(doc, s) \in doc.inputs /\ Baseline(doc, s).rows[s] > 0
         /\ \A c \in doc.inputs : c.rows[s] > 0 => c.date <= Baseline(doc, s).date
    BY <1>11 DEF Baseline
  <1> QED  BY <1>4, <1>12

LEMMA EvaluateStep ==
    ASSUME ReviewsInv, NEW batches \in SUBSET DOMAIN files, Evaluate(batches)
    PROVE  ReviewsInv'
  <1> USE DEF ReviewsInv
  <1>1. PICK stocks : stocks = {s \in Codes : \E i \in batches : files[i].rows[s] > 0}
    OBVIOUS
  <1>2. PICK doc : /\ doc = [inputs   |-> {files[i] : i \in batches},
                             observed |-> Max(batches),
                             actions  |-> [s \in stocks |-> WouldAction(Closes(batches, s))]]
                   /\ documents' = documents \cup {doc}
    BY <1>1 DEF Evaluate
  <1>3. files' = files /\ batches # {}
    BY DEF Evaluate
  <1>4. DOMAIN files = 1 .. Len(files) /\ Len(files) \in Nat
    BY DEF FilesTyped
  <1>5. IsFiniteSet(batches) /\ batches \in SUBSET Int /\ batches \in SUBSET (1 .. Len(files))
    <2>1. IsFiniteSet(1 .. Len(files))
      BY <1>4, FS_Interval
    <2> QED  BY <1>4, <2>1, FS_Subset
  <1>6. Max(batches) \in batches /\ \A i \in batches : Max(batches) >= i
    BY <1>3, <1>5, MaxExists
  <1>7. doc.observed \in 1 .. Len(files)
    BY <1>2, <1>5, <1>6
  <1>8. IsFiniteSet(doc.inputs)
    BY <1>2, <1>5, ImageFinite
  <1>9. \A b \in doc.inputs : \E j \in 1 .. doc.observed : files[j] = b
    BY <1>2, <1>5, <1>6
  <1>10. DOMAIN doc.actions = stocks
    BY <1>2
  <1>11. \A s \in stocks : doc.actions[s] \in {"HOLD", "BUY", "SELL"}
    <2>1. \A closes : WouldAction(closes) \in {"HOLD", "BUY", "SELL"}
      BY DEF WouldAction
    <2> QED  BY <1>2, <2>1
  <1>12. \A s \in stocks : s \in Codes /\ \E b \in doc.inputs : b.rows[s] > 0
    BY <1>1, <1>2
  <1>13. FromFiles(doc, files)
    BY <1>7, <1>8, <1>9, <1>10, <1>11, <1>12 DEF FromFiles
  <1> QED  BY <1>2, <1>3, <1>13 DEF FilesTyped

LEMMA FetchStep ==
    ASSUME ReviewsInv, NEW date \in Dates, NEW content \in Contents, Fetch(date, content)
    PROVE  ReviewsInv'
  <1> USE DEF ReviewsInv
  <1>1. PICK batch : batch = [date |-> date, rows |-> content]
    OBVIOUS
  <1>2. batch \in FetchedBatch
    BY <1>1, FilesAssumption DEF FetchedBatch
  <1>3. files' = Append(files, batch) /\ documents' = documents
    BY <1>1 DEF Fetch
  <1>4. files' \in Seq(FetchedBatch) /\ Len(files') = Len(files) + 1
        /\ \A j \in 1 .. Len(files) : files'[j] = files[j]
    BY <1>2, <1>3 DEF FilesTyped
  <1>5. Len(files) \in Nat
    BY DEF FilesTyped
  <1>6. ASSUME NEW doc \in documents  PROVE FromFiles(doc, files')
    <2>1. FromFiles(doc, files)
      BY <1>6
    <2>2. doc.observed \in 1 .. Len(files') /\ doc.observed <= Len(files) /\ doc.observed \in Nat
      BY <1>4, <1>5, <2>1 DEF FromFiles
    <2>3. \A j \in 1 .. doc.observed : files'[j] = files[j]
      BY <1>4, <1>5, <2>2
    <2> QED  BY <2>1, <2>2, <2>3 DEF FromFiles
  <1> QED  BY <1>3, <1>4, <1>6 DEF FilesTyped

LEMMA ReviewsStep ==
    ASSUME ReviewsInv, [ObservationNext]_observationVars
    PROVE  ReviewsInv'
  <1>1. CASE \E date \in Dates, content \in Contents : Fetch(date, content)
    BY <1>1, FetchStep
  <1>2. CASE \E batches \in SUBSET DOMAIN files : Evaluate(batches)
    BY <1>2, EvaluateStep
  <1>3. CASE \E doc \in documents, prior \in 0 .. Len(ledgers) : ApplyLedger(doc, prior)
    <2>1. files' = files /\ documents' = documents
      BY <1>3 DEF ApplyLedger
    <2> QED  BY <2>1 DEF ReviewsInv, FilesTyped, FromFiles
  <1>4. CASE UNCHANGED observationVars
    <2>1. files' = files /\ documents' = documents
      BY <1>4 DEF observationVars
    <2> QED  BY <2>1 DEF ReviewsInv, FilesTyped, FromFiles
  <1> QED  BY <1>1, <1>2, <1>3, <1>4 DEF ObservationNext

LEMMA ReferencesStep ==
    ASSUME ReferencesInv, [Next]_vars
    PROVE  ReferencesInv'
  <1>1. ASSUME NEW cutoff \in Cutoffs, NEW scenario \in Scenarios, NEW future \in Futures,
               BuildReference(cutoff, scenario, future)
        PROVE  ReferencesInv'
    <2>1. cutoff \in Nat /\ future \in Nat
      BY ReferenceAssumption
    <2>2. PICK batch : batch = Load(cutoff, scenario, future)
      OBVIOUS
    <2>3. /\ Accepts(batch, cutoff)
          /\ references' = references \cup
                {[cutoff |-> cutoff, price |-> ReferencePrice(batch, cutoff)]}
      BY <1>1, <2>2 DEF BuildReference
    <2>4. ReferencePrice(batch, cutoff) = 1050
      BY <2>1, <2>2, <2>3, OnlyOrdinaryBatches
    <2> QED  BY <2>3, <2>4 DEF ReferencesInv
  <1>2. ASSUME UNCHANGED references  PROVE ReferencesInv'
    BY <1>2 DEF ReferencesInv
  <1>3. CASE UNCHANGED vars
    BY <1>2, <1>3 DEF vars
  <1>4. CASE \E r \in Requests : SubmitOrder(r)
    BY <1>2, <1>4 DEF SubmitOrder
  <1>5. CASE OnAccount(Account)
    BY <1>2, <1>5 DEF OnAccount, Approve, Reject, Execute, CancelOrder, ReleaseT1, Emit
  <1> QED  BY <1>1, <1>3, <1>4, <1>5 DEF Next

LEMMA NoHindsight == ReviewsInv => ReviewsKnowNoHindsight
  <1> SUFFICES ASSUME ReviewsInv, NEW doc \in documents, NEW batches \in SUBSET DOMAIN files,
                      Reviewable(doc, batches),
                      NEW s \in DOMAIN doc.actions, NEW i \in Realizations(doc, batches, s)
               PROVE  /\ Verdict(doc, s, i) # "not_scored" => doc.actions[s] # "HOLD"
                      /\ \A b \in doc.inputs : /\ b.rows[s] > 0 => b.date < files[i].date
                                               /\ \E j \in 1 .. i - 1 : files[j] = b
    BY DEF ReviewsKnowNoHindsight
  <1>1. FilesTyped /\ FromFiles(doc, files)
    BY DEF ReviewsInv
  <1>2. /\ i \in DOMAIN files /\ i > doc.observed
        /\ files[i].date > Baseline(doc, s).date
    BY DEF Realizations, LaterRows
  <1>3. i \in Nat /\ files[i].date \in Nat
    <2>1. files[i] \in FetchedBatch
      BY <1>1, <1>2, FileTyped
    <2>2. DOMAIN files = 1 .. Len(files) /\ Len(files) \in Nat
      BY <1>1 DEF FilesTyped
    <2> QED  BY <1>2, <2>1, <2>2 DEF FetchedBatch
  <1>4. Verdict(doc, s, i) # "not_scored" => doc.actions[s] # "HOLD"
    BY DEF Verdict
  <1>5. /\ Baseline(doc, s).date \in Nat
        /\ \A b \in doc.inputs : b.rows[s] > 0 => b.date <= Baseline(doc, s).date
    BY <1>1, BaselineExists
  <1>6. \A b \in doc.inputs : b.date \in Nat
    BY <1>1, BatchTyped DEF FetchedBatch
  <1>7. \A b \in doc.inputs : b.rows[s] > 0 => b.date < files[i].date
    BY <1>2, <1>3, <1>5, <1>6
  <1>8. doc.observed \in Nat /\ \A b \in doc.inputs : \E j \in 1 .. doc.observed : files[j] = b
    BY <1>1 DEF FromFiles, FilesTyped
  <1>9. \A b \in doc.inputs : \E j \in 1 .. i - 1 : files[j] = b
    BY <1>2, <1>3, <1>8
  <1> QED  BY <1>4, <1>7, <1>9

\* Whatever batches are loaded, fetched and evaluated in whatever order, a
\* reference never holds a price from after its cutoff, and no verdict on a
\* candidate rests on a row that its documents could have known
\* (shadow/runner.py, data/free_observation_review.py).
THEOREM NothingEverKnowsTheFuture == SimulatorsSpec => []NothingKnowsTheFuture
  <1>1. SimulatorsInit => ReferencesInv /\ ReviewsInv
    BY FilesAssumption
       DEF SimulatorsInit, Init, ObservationInit, ReferencesInv, ReviewsInv, FilesTyped, FetchedBatch
  <1>2. ReferencesInv /\ ReviewsInv /\ [SimulatorsNext]_SimulatorsVars
           => ReferencesInv' /\ ReviewsInv'
    <2> SUFFICES ASSUME ReferencesInv, ReviewsInv, [SimulatorsNext]_SimulatorsVars
                 PROVE  ReferencesInv' /\ ReviewsInv'
      OBVIOUS
    <2>1. [Next]_vars /\ [ObservationNext]_observationVars
      BY DEF SimulatorsNext, SimulatorsVars
    <2> QED  BY <2>1, ReferencesStep, ReviewsStep
  <1>3. ReferencesInv /\ ReviewsInv => NothingKnowsTheFuture
    BY NoHindsight DEF NothingKnowsTheFuture, ReferencesKnowNoFuture, ReferencesInv
  <1> QED  BY <1>1, <1>2, <1>3, PTL DEF SimulatorsSpec

-----------------------------------------------------------------------------
(* Folds.  The library's folds choose a recursive function on the subsets  *)
(* of what is folded.  That there is one, and what it gives when the       *)
(* element taken last is left out, is shown once for the four folds of     *)
(* this module: a sum, the paper account over its events, the virtual      *)
(* account over its events, and the candidates of a document.              *)

FoldBase(kind, c) ==
    CASE kind = "sum"      -> 0
      [] kind = "account"  -> NewAccount
      [] kind = "ledger"   -> VirtualAccount
      [] kind = "document" -> [refused |-> FALSE, events |-> <<>>, account |-> c.account]

FoldStep(kind, c, x, a) ==
    CASE kind = "sum"      -> c[x] + a
      [] kind = "account"  -> Step(a, c[x])
      [] kind = "ledger"   -> Booked(a, c[x])
      [] kind = "document" -> Considered(a, c.doc, x)

FoldPick(kind, s) == IF kind = "sum" THEN CHOOSE x \in s : TRUE ELSE Max(s)
Foldable(kind, S) == IsFiniteSet(S) /\ (kind = "sum" \/ S \in SUBSET Int)

FoldsUp(kind, c, S, g) ==
    g = [s \in SUBSET S |->
            IF s = {} THEN FoldBase(kind, c)
            ELSE FoldStep(kind, c, FoldPick(kind, s), g[s \ {FoldPick(kind, s)}])]
FoldOn(kind, c, S) == CHOOSE g : FoldsUp(kind, c, S, g)
Folded(kind, c, S) == FoldOn(kind, c, S)[S]

LEMMA FoldPicks ==
    ASSUME NEW kind, NEW S, Foldable(kind, S), NEW s \in SUBSET S, s # {}
    PROVE  FoldPick(kind, s) \in s
  <1>1. CASE kind = "sum"
    BY <1>1 DEF FoldPick
  <1>2. CASE kind # "sum"
    <2>1. s \in SUBSET Int /\ IsFiniteSet(s)
      BY <1>2, FS_Subset DEF Foldable
    <2> QED  BY <1>2, <2>1, MaxExists DEF FoldPick
  <1> QED  BY <1>1, <1>2

LEMMA FoldablePart ==
    ASSUME NEW kind, NEW S, Foldable(kind, S), NEW s \in SUBSET S
    PROVE  Foldable(kind, s)
  BY FS_Subset DEF Foldable

\* Folds of collections that agree on what is folded agree.
LEMMA FoldsAgree ==
    ASSUME NEW kind, NEW c, NEW d, NEW S, Foldable(kind, S), NEW T \in SUBSET S,
           NEW g, NEW h, FoldsUp(kind, c, S, g), FoldsUp(kind, d, T, h),
           FoldBase(kind, c) = FoldBase(kind, d),
           \A x \in T : \A a : FoldStep(kind, c, x, a) = FoldStep(kind, d, x, a)
    PROVE  \A t \in SUBSET T : g[t] = h[t]
  <1> SUFFICES ASSUME ~ \A t \in SUBSET T : g[t] = h[t]  PROVE FALSE
    OBVIOUS
  <1>1. PICK B : B = {t \in SUBSET T : g[t] # h[t]}
    OBVIOUS
  <1>2. B \in SUBSET (SUBSET S) /\ B # {}
    BY <1>1
  <1>3. PICK t \in B : \A u \in SUBSET t : u # t => u \notin B
    BY <1>2, SmallestSet DEF Foldable
  <1>4. t \in SUBSET T /\ t \in SUBSET S /\ g[t] # h[t]
    BY <1>1
  <1>5. PICK p : p = FoldPick(kind, t)
    OBVIOUS
  <1>6. /\ g[t] = IF t = {} THEN FoldBase(kind, c) ELSE FoldStep(kind, c, p, g[t \ {p}])
        /\ h[t] = IF t = {} THEN FoldBase(kind, d) ELSE FoldStep(kind, d, p, h[t \ {p}])
    BY <1>4, <1>5 DEF FoldsUp
  <1>7. t # {}
    BY <1>4, <1>6
  <1>8. p \in t
    BY <1>4, <1>5, <1>7, FoldPicks
  <1>9. g[t \ {p}] = h[t \ {p}]
    BY <1>1, <1>3, <1>4, <1>8
  <1>10. FoldStep(kind, c, p, g[t \ {p}]) = FoldStep(kind, d, p, g[t \ {p}])
    BY <1>4, <1>8
  <1> QED  BY <1>4, <1>6, <1>7, <1>9, <1>10, Zenon

LEMMA FoldsOneWay ==
    ASSUME NEW kind, NEW c, NEW S, Foldable(kind, S), NEW T \in SUBSET S,
           NEW g, NEW h, FoldsUp(kind, c, S, g), FoldsUp(kind, c, T, h)
    PROVE  \A t \in SUBSET T : g[t] = h[t]
  <1>1. PICK d : d = c
    OBVIOUS
  <1>2. FoldsUp(kind, d, T, h) /\ FoldBase(kind, c) = FoldBase(kind, d)
    BY <1>1
  <1>3. \A x \in T : \A a : FoldStep(kind, c, x, a) = FoldStep(kind, d, x, a)
    BY <1>1
  <1> QED  BY <1>2, <1>3, FoldsAgree

LEMMA FoldsExist ==
    ASSUME NEW kind, NEW c, NEW S, Foldable(kind, S)
    PROVE  FoldsUp(kind, c, S, FoldOn(kind, c, S))
  <1> SUFFICES ASSUME ~ FoldsUp(kind, c, S, FoldOn(kind, c, S))  PROVE FALSE
    OBVIOUS
  <1>1. PICK B : B = {s \in SUBSET S : ~ FoldsUp(kind, c, s, FoldOn(kind, c, s))}
    OBVIOUS
  <1>2. B \in SUBSET (SUBSET S) /\ B # {}
    BY <1>1
  <1>3. PICK s \in B : \A u \in SUBSET s : u # s => u \notin B
    BY <1>2, SmallestSet DEF Foldable
  <1>4. s \in SUBSET S /\ ~ FoldsUp(kind, c, s, FoldOn(kind, c, s)) /\ Foldable(kind, s)
    BY <1>1, FoldablePart
  <1>5. \A u \in SUBSET s : u # s => FoldsUp(kind, c, u, FoldOn(kind, c, u))
    BY <1>1, <1>3, <1>4
  <1> DEFINE but(t) == t \ {FoldPick(kind, t)}
  <1>6. PICK G : G = [t \in SUBSET s |->
                        IF t = {} THEN FoldBase(kind, c)
                        ELSE FoldStep(kind, c, FoldPick(kind, t), Folded(kind, c, but(t)))]
    OBVIOUS
  <1>7. \A t \in SUBSET s : t # {} =>
           but(t) \in SUBSET s /\ but(t) \in SUBSET t /\ but(t) # s /\ but(t) # t
    <2> TAKE t \in SUBSET s
    <2>1. CASE t # {}
      <3>1. FoldPick(kind, t) \in t
        BY <1>4, <2>1, FoldPicks
      <3> QED  BY <3>1
    <2> QED  BY <2>1
  <1>8. ASSUME NEW u \in SUBSET s, u # s  PROVE G[u] = Folded(kind, c, u)
    <2>1. PICK f : f = FoldOn(kind, c, u)
      OBVIOUS
    <2>2. FoldsUp(kind, c, u, f)
      BY <1>5, <1>8, <2>1
    <2>3. f[u] = IF u = {} THEN FoldBase(kind, c)
                 ELSE FoldStep(kind, c, FoldPick(kind, u), f[but(u)])
      <3>1. u \in SUBSET u
        OBVIOUS
      <3> QED  BY <2>2, <3>1 DEF FoldsUp
    <2>4. CASE u = {}
      BY <1>6, <1>8, <2>1, <2>3, <2>4 DEF Folded
    <2>5. CASE u # {}
      <3>1. but(u) \in SUBSET u /\ but(u) \in SUBSET s /\ but(u) # s
        BY <1>7, <1>8, <2>5
      <3>2. PICK w : w = but(u)
        OBVIOUS
      <3>3. PICK h : h = FoldOn(kind, c, w)
        OBVIOUS
      <3>4. FoldsUp(kind, c, w, h) /\ Foldable(kind, u)
        BY <1>4, <1>5, <1>8, <3>1, <3>2, <3>3, FoldablePart
      <3>5. \A t \in SUBSET w : f[t] = h[t]
        BY <2>2, <3>1, <3>2, <3>4, FoldsAgree
      <3>6. f[w] = Folded(kind, c, w)
        <4>1. w \in SUBSET w
          OBVIOUS
        <4> QED  BY <3>3, <3>5, <4>1 DEF Folded
      <3>7. G[u] = FoldStep(kind, c, FoldPick(kind, u), Folded(kind, c, w))
        BY <1>6, <1>8, <2>5, <3>2
      <3> QED  BY <2>1, <2>3, <2>5, <3>2, <3>6, <3>7, Zenon DEF Folded
    <2> QED  BY <2>4, <2>5
  <1>9. \A t \in SUBSET s : t # {} => G[but(t)] = Folded(kind, c, but(t))
    BY <1>7, <1>8
  <1>10. FoldsUp(kind, c, s, G)
    <2>1. \A t \in SUBSET s : G[t] = IF t = {} THEN FoldBase(kind, c)
                              ELSE FoldStep(kind, c, FoldPick(kind, t), G[but(t)])
      BY <1>6, <1>9, Zenon
    <2>2. G = [t \in SUBSET s |-> G[t]]
      BY <1>6
    <2> QED  BY <2>1, <2>2 DEF FoldsUp
  <1> QED  BY <1>4, <1>10 DEF FoldOn

LEMMA FoldNone == ASSUME NEW kind, NEW c  PROVE Folded(kind, c, {}) = FoldBase(kind, c)
  <1>1. Foldable(kind, {})
    BY FS_EmptySet DEF Foldable
  <1>2. FoldsUp(kind, c, {}, FoldOn(kind, c, {}))
    BY <1>1, FoldsExist
  <1> QED  BY <1>2 DEF FoldsUp, Folded

LEMMA FoldSame ==
    ASSUME NEW kind, NEW c, NEW d, NEW S, Foldable(kind, S),
           FoldBase(kind, c) = FoldBase(kind, d),
           \A x \in S : \A a : FoldStep(kind, c, x, a) = FoldStep(kind, d, x, a)
    PROVE  Folded(kind, c, S) = Folded(kind, d, S)
  <1>1. FoldsUp(kind, c, S, FoldOn(kind, c, S)) /\ FoldsUp(kind, d, S, FoldOn(kind, d, S))
    BY FoldsExist
  <1>2. S \in SUBSET S
    OBVIOUS
  <1>3. \A t \in SUBSET S : FoldOn(kind, c, S)[t] = FoldOn(kind, d, S)[t]
    BY <1>1, <1>2, FoldsAgree
  <1> QED  BY <1>2, <1>3 DEF Folded

LEMMA FoldTake ==
    ASSUME NEW kind, NEW c, NEW S, Foldable(kind, S), S # {}
    PROVE  /\ FoldPick(kind, S) \in S
           /\ Folded(kind, c, S) = FoldStep(kind, c, FoldPick(kind, S),
                                            Folded(kind, c, S \ {FoldPick(kind, S)}))
  <1>1. PICK p, rest : p = FoldPick(kind, S) /\ rest = S \ {p}
    OBVIOUS
  <1>2. rest \in SUBSET S /\ rest \in SUBSET rest /\ S \in SUBSET S /\ Foldable(kind, rest)
    BY <1>1, FoldablePart
  <1>3. PICK g, h : g = FoldOn(kind, c, S) /\ h = FoldOn(kind, c, rest)
    OBVIOUS
  <1>4. FoldsUp(kind, c, S, g) /\ FoldsUp(kind, c, rest, h)
    BY <1>2, <1>3, FoldsExist
  <1>5. g[rest] = h[rest]
    BY <1>2, <1>4, FoldsOneWay
  <1>6. g[S] = FoldStep(kind, c, p, g[rest])
    BY <1>1, <1>2, <1>4 DEF FoldsUp
  <1>7. p \in S
    BY <1>1, <1>2, FoldPicks
  <1> QED  BY <1>1, <1>3, <1>5, <1>6, <1>7, Zenon DEF Folded

\* Each fold of the module is one of these.
SumUp(F, S, g) ==
    g = [s \in SUBSET S |-> IF s = {} THEN 0
                            ELSE F[CHOOSE x \in s : TRUE] + g[s \ {CHOOSE x \in s : TRUE}]]
Sum(F, S) == SumFunctionOnSet(F, S)

LEMMA SumIsFold ==
    ASSUME NEW F, NEW S, IsFiniteSet(S)  PROVE Sum(F, S) = Folded("sum", F, S)
  <1>1. \A g : FoldsUp("sum", F, S, g) <=> SumUp(F, S, g)
    BY DEF FoldsUp, SumUp, FoldBase, FoldStep, FoldPick
  <1>2. PICK h : h = FoldOn("sum", F, S)
    OBVIOUS
  <1>3. Foldable("sum", S) /\ FoldsUp("sum", F, S, h)
    BY <1>2, FoldsExist DEF Foldable
  <1>4. PICK g : g = CHOOSE f : SumUp(F, S, f)
    OBVIOUS
  <1>5. FoldsUp("sum", F, S, g)
    BY <1>1, <1>3, <1>4
  <1>6. Sum(F, S) = g[S]
    BY <1>4 DEF Sum, SumFunctionOnSet, FoldFunctionOnSet, MapThenFoldSet, SumUp
  <1>7. S \in SUBSET S
    OBVIOUS
  <1>8. g[S] = h[S]
    BY <1>3, <1>5, <1>7, FoldsOneWay
  <1> QED  BY <1>2, <1>6, <1>8 DEF Folded

AccountUp(es, g) ==
    g = [s \in SUBSET DOMAIN es |-> IF s = {} THEN NewAccount
                                    ELSE Step(g[s \ {Max(s)}], es[Max(s)])]
AccountOf(es) == FoldLeft(Step, NewAccount, es)

LEMMA AccountIsFold ==
    ASSUME NEW es, Foldable("account", DOMAIN es)
    PROVE  AccountOf(es) = Folded("account", es, DOMAIN es)
  <1>1. \A g : FoldsUp("account", es, DOMAIN es, g) <=> AccountUp(es, g)
    BY DEF FoldsUp, AccountUp, FoldBase, FoldStep, FoldPick
  <1>2. PICK h : h = FoldOn("account", es, DOMAIN es)
    OBVIOUS
  <1>3. FoldsUp("account", es, DOMAIN es, h)
    BY <1>2, FoldsExist
  <1>4. PICK g : g = CHOOSE f : AccountUp(es, f)
    OBVIOUS
  <1>5. FoldsUp("account", es, DOMAIN es, g)
    BY <1>1, <1>3, <1>4
  <1>6. AccountOf(es) = g[DOMAIN es]
    BY <1>4 DEF AccountOf, FoldLeft, MapThenFoldSet, AccountUp
  <1>7. DOMAIN es \in SUBSET DOMAIN es
    OBVIOUS
  <1>8. g[DOMAIN es] = h[DOMAIN es]
    BY <1>3, <1>5, <1>7, FoldsOneWay
  <1> QED  BY <1>2, <1>6, <1>8 DEF Folded

RebuiltUp(es, g) ==
    g = [s \in SUBSET DOMAIN es |-> IF s = {} THEN VirtualAccount
                                    ELSE Booked(g[s \ {Max(s)}], es[Max(s)])]

LEMMA RebuiltIsFold ==
    ASSUME NEW es, Foldable("ledger", DOMAIN es)
    PROVE  Rebuilt(es) = Folded("ledger", es, DOMAIN es)
  <1>1. \A g : FoldsUp("ledger", es, DOMAIN es, g) <=> RebuiltUp(es, g)
    BY DEF FoldsUp, RebuiltUp, FoldBase, FoldStep, FoldPick
  <1>2. PICK h : h = FoldOn("ledger", es, DOMAIN es)
    OBVIOUS
  <1>3. FoldsUp("ledger", es, DOMAIN es, h)
    BY <1>2, FoldsExist
  <1>4. PICK g : g = CHOOSE f : RebuiltUp(es, f)
    OBVIOUS
  <1>5. FoldsUp("ledger", es, DOMAIN es, g)
    BY <1>1, <1>3, <1>4
  <1>6. Rebuilt(es) = g[DOMAIN es]
    BY <1>4 DEF Rebuilt, FoldLeft, MapThenFoldSet, RebuiltUp
  <1>7. DOMAIN es \in SUBSET DOMAIN es
    OBVIOUS
  <1>8. g[DOMAIN es] = h[DOMAIN es]
    BY <1>3, <1>5, <1>7, FoldsOneWay
  <1> QED  BY <1>2, <1>6, <1>8 DEF Folded

Candidates(account, doc) == [account |-> account, doc |-> doc]
AppliedUp(account, doc, g) ==
    g = [s \in SUBSET DOMAIN doc.actions |->
            IF s = {} THEN [refused |-> FALSE, events |-> <<>>, account |-> account]
            ELSE Considered(g[s \ {Max(s)}], doc, Max(s))]

LEMMA AppliedIsFold ==
    ASSUME NEW account, NEW doc, Foldable("document", DOMAIN doc.actions)
    PROVE  Applied(account, doc)
           = Folded("document", Candidates(account, doc), DOMAIN doc.actions)
  <1>1. PICK c : c = Candidates(account, doc)
    OBVIOUS
  <1>2. c.account = account /\ c.doc = doc
    BY <1>1 DEF Candidates
  <1>3. \A g : FoldsUp("document", c, DOMAIN doc.actions, g) <=> AppliedUp(account, doc, g)
    BY <1>2 DEF FoldsUp, AppliedUp, FoldBase, FoldStep, FoldPick
  <1>4. PICK h : h = FoldOn("document", c, DOMAIN doc.actions)
    OBVIOUS
  <1>5. FoldsUp("document", c, DOMAIN doc.actions, h)
    BY <1>4, FoldsExist
  <1>6. PICK g : g = CHOOSE f : AppliedUp(account, doc, f)
    OBVIOUS
  <1>7. FoldsUp("document", c, DOMAIN doc.actions, g)
    BY <1>3, <1>5, <1>6
  <1>8. Applied(account, doc) = g[DOMAIN doc.actions]
    BY <1>6 DEF Applied, MapThenFoldSet, AppliedUp
  <1>9. DOMAIN doc.actions \in SUBSET DOMAIN doc.actions
    OBVIOUS
  <1>10. g[DOMAIN doc.actions] = h[DOMAIN doc.actions]
    BY <1>5, <1>7, <1>9, FoldsOneWay
  <1> QED  BY <1>1, <1>4, <1>8, <1>10 DEF Folded

\* Folding a sequence to which something is appended.
LEMMA SequenceFoldable ==
    ASSUME NEW S, NEW es \in Seq(S), NEW kind
    PROVE  Foldable(kind, DOMAIN es)
  <1>1. Len(es) \in Nat /\ DOMAIN es = 1 .. Len(es)
    OBVIOUS
  <1>2. IsFiniteSet(1 .. Len(es)) /\ 1 .. Len(es) \in SUBSET Int
    BY <1>1, FS_Interval
  <1> QED  BY <1>1, <1>2 DEF Foldable

LEMMA FoldAppend ==
    ASSUME NEW kind, kind # "sum", NEW es, NEW longer, NEW m \in Nat,
           DOMAIN es = 1 .. m, DOMAIN longer = 1 .. m + 1,
           FoldBase(kind, es) = FoldBase(kind, longer),
           \A x \in 1 .. m : \A a : FoldStep(kind, es, x, a) = FoldStep(kind, longer, x, a)
    PROVE  Folded(kind, longer, 1 .. m + 1)
           = FoldStep(kind, longer, m + 1, Folded(kind, es, 1 .. m))
  <1>1. Foldable(kind, 1 .. m + 1) /\ Foldable(kind, 1 .. m)
    BY FS_Interval DEF Foldable
  <1>2. PICK n : n = m + 1
    OBVIOUS
  <1>3. n \in Nat /\ n \in 1 .. n /\ \A y \in 1 .. n : n >= y
    BY <1>2
  <1>4. Max(1 .. n) = n
    <2>1. \A x \in 1 .. n : (\A y \in 1 .. n : x >= y) => x = n
      BY <1>3
    <2> QED  BY <1>3, <2>1 DEF Max
  <1>5. FoldPick(kind, 1 .. n) = n
    BY <1>4 DEF FoldPick
  <1>6. 1 .. n # {} /\ (1 .. n) \ {n} = 1 .. m
    BY <1>2
  <1>7. Folded(kind, longer, 1 .. n) = FoldStep(kind, longer, n, Folded(kind, longer, 1 .. m))
    BY <1>1, <1>2, <1>5, <1>6, FoldTake
  <1>8. Folded(kind, es, 1 .. m) = Folded(kind, longer, 1 .. m)
    BY <1>1, FoldSame
  <1> QED  BY <1>2, <1>7, <1>8

LEMMA AccountAppend ==
    ASSUME NEW S, NEW es \in Seq(S), NEW e \in S
    PROVE  AccountOf(Append(es, e)) = Step(AccountOf(es), e)
  <1>1. PICK longer : longer = Append(es, e)
    OBVIOUS
  <1>2. longer \in Seq(S) /\ longer[Len(es) + 1] = e
        /\ \A x \in DOMAIN es : longer[x] = es[x]
    BY <1>1
  <1>3. Foldable("account", DOMAIN longer) /\ Foldable("account", DOMAIN es)
    BY <1>2, SequenceFoldable
  <1>4. FoldBase("account", es) = FoldBase("account", longer)
    BY DEF FoldBase
  <1>5. \A x \in DOMAIN es : \A a :
           FoldStep("account", es, x, a) = FoldStep("account", longer, x, a)
    BY <1>2, Zenon DEF FoldStep
  <1>6. Folded("account", longer, DOMAIN longer)
        = FoldStep("account", longer, Len(es) + 1, Folded("account", es, DOMAIN es))
    <2>1. PICK m \in Nat : m = Len(es) /\ DOMAIN es = 1 .. m /\ DOMAIN longer = 1 .. m + 1
      BY <1>1
    <2> QED  BY <1>4, <1>5, <2>1, FoldAppend
  <1>7. \A a : FoldStep("account", longer, Len(es) + 1, a) = Step(a, e)
    BY <1>2 DEF FoldStep
  <1> QED  BY <1>1, <1>3, <1>6, <1>7, AccountIsFold

LEMMA AccountNone == AccountOf(<<>>) = NewAccount
  <1>1. DOMAIN << >> = {} /\ Foldable("account", {})
    BY FS_EmptySet DEF Foldable
  <1>2. PICK none : none = << >>
    OBVIOUS
  <1>3. DOMAIN none = {}
    BY <1>1, <1>2
  <1>4. AccountOf(none) = Folded("account", none, {})
    BY <1>1, <1>3, AccountIsFold
  <1> QED  BY <1>2, <1>4, FoldNone DEF FoldBase

LEMMA RebuiltAppend ==
    ASSUME NEW S, NEW es \in Seq(S), NEW e \in S
    PROVE  Rebuilt(Append(es, e)) = Booked(Rebuilt(es), e)
  <1>1. PICK longer : longer = Append(es, e)
    OBVIOUS
  <1>2. longer \in Seq(S) /\ longer[Len(es) + 1] = e
        /\ \A x \in DOMAIN es : longer[x] = es[x]
    BY <1>1
  <1>3. Foldable("ledger", DOMAIN longer) /\ Foldable("ledger", DOMAIN es)
    BY <1>2, SequenceFoldable
  <1>4. FoldBase("ledger", es) = FoldBase("ledger", longer)
    BY DEF FoldBase
  <1>5. \A x \in DOMAIN es : \A a :
           FoldStep("ledger", es, x, a) = FoldStep("ledger", longer, x, a)
    BY <1>2, Zenon DEF FoldStep
  <1>6. Folded("ledger", longer, DOMAIN longer)
        = FoldStep("ledger", longer, Len(es) + 1, Folded("ledger", es, DOMAIN es))
    <2>1. PICK m \in Nat : m = Len(es) /\ DOMAIN es = 1 .. m /\ DOMAIN longer = 1 .. m + 1
      BY <1>1
    <2> QED  BY <1>4, <1>5, <2>1, FoldAppend
  <1>7. \A a : FoldStep("ledger", longer, Len(es) + 1, a) = Booked(a, e)
    BY <1>2 DEF FoldStep
  <1> QED  BY <1>1, <1>3, <1>6, <1>7, RebuiltIsFold

LEMMA RebuiltNone == Rebuilt(<<>>) = VirtualAccount
  <1>1. DOMAIN << >> = {} /\ Foldable("ledger", {})
    BY FS_EmptySet DEF Foldable
  <1>2. PICK none : none = << >>
    OBVIOUS
  <1>3. DOMAIN none = {}
    BY <1>1, <1>2
  <1>4. Rebuilt(none) = Folded("ledger", none, {})
    BY <1>1, <1>3, RebuiltIsFold
  <1> QED  BY <1>2, <1>4, FoldNone DEF FoldBase

-----------------------------------------------------------------------------
(* Sums over finite sets.                                                  *)

LEMMA SumEmpty == ASSUME NEW F  PROVE Sum(F, {}) = 0
  BY FS_EmptySet, SumIsFold, FoldNone DEF FoldBase

LEMMA SumPick ==
    ASSUME NEW F, NEW S, IsFiniteSet(S), S # {}
    PROVE  \E p \in S : Sum(F, S) = F[p] + Sum(F, S \ {p})
  <1>1. PICK p, rest : p = FoldPick("sum", S) /\ rest = S \ {p}
    OBVIOUS
  <1>2. Foldable("sum", S) /\ IsFiniteSet(rest)
    BY <1>1, FS_Subset DEF Foldable
  <1>3. p \in S /\ Folded("sum", F, S) = FoldStep("sum", F, p, Folded("sum", F, rest))
    BY <1>1, <1>2, FoldTake
  <1>4. Sum(F, S) = Folded("sum", F, S) /\ Sum(F, rest) = Folded("sum", F, rest)
    BY <1>2, SumIsFold
  <1>5. \A a : FoldStep("sum", F, p, a) = F[p] + a
    BY DEF FoldStep
  <1> QED  BY <1>1, <1>3, <1>4, <1>5

LEMMA SumSame ==
    ASSUME NEW F, NEW G, NEW S, IsFiniteSet(S), \A x \in S : F[x] = G[x]
    PROVE  Sum(F, S) = Sum(G, S)
  <1>1. PICK kind : kind = "sum"
    OBVIOUS
  <1>2. Foldable(kind, S)
    BY <1>1 DEF Foldable
  <1>3. FoldBase(kind, F) = FoldBase(kind, G)
    BY <1>1 DEF FoldBase
  <1>4. \A x \in S : \A a : FoldStep(kind, F, x, a) = FoldStep(kind, G, x, a)
    BY <1>1, Zenon DEF FoldStep
  <1>5. Folded(kind, F, S) = Folded(kind, G, S)
    BY <1>2, <1>3, <1>4, FoldSame
  <1> QED  BY <1>1, <1>5, SumIsFold

LEMMA SumType ==
    ASSUME NEW F, NEW S, IsFiniteSet(S), \A x \in S : F[x] \in Int
    PROVE  Sum(F, S) \in Int /\ ((\A x \in S : F[x] >= 0) => Sum(F, S) >= 0)
  <1> DEFINE good(s) == Sum(F, s) \in Int /\ ((\A x \in s : F[x] >= 0) => Sum(F, s) >= 0)
  <1> SUFFICES ASSUME ~ good(S)  PROVE FALSE
    OBVIOUS
  <1>1. PICK B : B = {s \in SUBSET S : ~ good(s)}
    OBVIOUS
  <1>2. B \in SUBSET (SUBSET S) /\ B # {}
    BY <1>1
  <1> HIDE DEF good
  <1>3. PICK s \in B : \A u \in SUBSET s : u # s => u \notin B
    BY <1>2, SmallestSet
  <1>4. s \in SUBSET S /\ ~ good(s) /\ IsFiniteSet(s)
    BY <1>1, FS_Subset
  <1>5. s # {}
    BY <1>4, SumEmpty DEF good
  <1>6. PICK p \in s : Sum(F, s) = F[p] + Sum(F, s \ {p})
    BY <1>4, <1>5, SumPick
  <1>7. PICK rest : rest = s \ {p}
    OBVIOUS
  <1>8. good(rest)
    BY <1>1, <1>3, <1>4, <1>6, <1>7
  <1>9. F[p] \in Int /\ Sum(F, rest) \in Int /\ Sum(F, s) = F[p] + Sum(F, rest)
        /\ ((\A x \in rest : F[x] >= 0) => Sum(F, rest) >= 0)
    BY <1>4, <1>6, <1>7, <1>8 DEF good
  <1>10. good(s)
    <2>1. Sum(F, s) \in Int
      BY <1>9
    <2>2. ASSUME \A x \in s : F[x] >= 0  PROVE Sum(F, s) >= 0
      <3>1. Sum(F, rest) >= 0 /\ F[p] >= 0
        BY <1>6, <1>7, <1>9, <2>2
      <3> QED  BY <1>9, <3>1
    <2> QED  BY <2>1, <2>2 DEF good
  <1> QED  BY <1>4, <1>10

\* Any member may be taken out.
LEMMA SumTake ==
    ASSUME NEW F, NEW S, IsFiniteSet(S), \A x \in S : F[x] \in Int, NEW y \in S
    PROVE  Sum(F, S) = F[y] + Sum(F, S \ {y})
  <1> DEFINE splits(s) == \A x \in s : Sum(F, s) = F[x] + Sum(F, s \ {x})
  <1> SUFFICES ASSUME ~ splits(S)  PROVE FALSE
    OBVIOUS
  <1> HIDE DEF splits
  <1>1. PICK B : B = {s \in SUBSET S : ~ splits(s)}
    OBVIOUS
  <1>2. B \in SUBSET (SUBSET S) /\ B # {}
    BY <1>1
  <1>3. PICK s \in B : \A u \in SUBSET s : u # s => u \notin B
    BY <1>2, SmallestSet
  <1>4. s \in SUBSET S /\ ~ splits(s)
    BY <1>1
  <1>5. \A u \in SUBSET s : u # s => splits(u)
    BY <1>1, <1>3, <1>4
  <1>6. \A u \in SUBSET s : IsFiniteSet(u) /\ Sum(F, u) \in Int
    BY <1>4, FS_Subset, SumType
  <1>7. PICK x \in s : Sum(F, s) # F[x] + Sum(F, s \ {x})
    BY <1>4 DEF splits
  <1>8. IsFiniteSet(s) /\ s # {}
    BY <1>6, <1>7
  <1>9. PICK p \in s : Sum(F, s) = F[p] + Sum(F, s \ {p})
    BY <1>8, SumPick
  <1>10. x # p
    BY <1>7, <1>9
  <1>11. splits(s \ {p}) /\ splits(s \ {x})
    BY <1>5, <1>7, <1>9
  <1>12. PICK rest : rest = (s \ {p}) \ {x}
    OBVIOUS
  <1>13. rest = (s \ {x}) \ {p} /\ rest \in SUBSET s
    BY <1>12
  <1>14. Sum(F, s \ {p}) = F[x] + Sum(F, rest) /\ Sum(F, s \ {x}) = F[p] + Sum(F, rest)
    BY <1>7, <1>9, <1>10, <1>11, <1>12, <1>13 DEF splits
  <1>15. F[x] \in Int /\ F[p] \in Int /\ Sum(F, rest) \in Int
    BY <1>4, <1>6, <1>7, <1>9, <1>13
  <1>16. Sum(F, s) = F[x] + Sum(F, s \ {x})
    BY <1>9, <1>14, <1>15
  <1> QED  BY <1>7, <1>16

\* Something may be put in, and none is more than the sum.
LEMMA SumPut ==
    ASSUME NEW F, NEW S, IsFiniteSet(S), NEW y, y \notin S,
           \A x \in S \cup {y} : F[x] \in Int
    PROVE  Sum(F, S \cup {y}) = Sum(F, S) + F[y]
  <1>1. PICK more : more = S \cup {y}
    OBVIOUS
  <1>2. IsFiniteSet(more) /\ y \in more /\ more \ {y} = S
    BY <1>1, FS_AddElement
  <1>3. Sum(F, more) = F[y] + Sum(F, S)
    BY <1>1, <1>2, SumTake
  <1>4. Sum(F, S) \in Int /\ F[y] \in Int
    BY SumType
  <1> QED  BY <1>1, <1>3, <1>4

LEMMA SumCovers ==
    ASSUME NEW F, NEW S, IsFiniteSet(S), \A x \in S : F[x] \in Nat, NEW y \in S
    PROVE  F[y] <= Sum(F, S)
  <1>1. PICK rest : rest = S \ {y}
    OBVIOUS
  <1>2. IsFiniteSet(rest) /\ \A x \in rest : F[x] \in Int /\ F[x] >= 0
    BY <1>1, FS_Subset
  <1>3. Sum(F, rest) \in Int /\ Sum(F, rest) >= 0
    BY <1>2, SumType
  <1>4. Sum(F, S) = F[y] + Sum(F, rest)
    BY <1>1, SumTake
  <1> QED  BY <1>3, <1>4

-----------------------------------------------------------------------------
(* The paper account: what the orders add up to.                           *)

OrderState ==
    [status : {"none", "submitted", "accepted", "rejected", "unfilled", "filled", "cancelled"},
     cash : Nat, quantity : Nat, released : Nat]
AccountState ==
    [sound : BOOLEAN, cash : Int, frozen : Int, total : Int, available : Int, held : Int,
     orders : [Requests -> OrderState]]

OpenStates == {"accepted", "unfilled"}
Asks == [r \in Requests |-> r.quantity]
Reserved(s) == [r \in Requests |-> s.orders[r].cash]
Unreleased(s) == {r \in OrdersOf(s, "BUY", {"filled"}) : s.orders[r].released = 0}

FrozenSum(s)  == Sum(Reserved(s), OrdersOf(s, "BUY", OpenStates))
HeldSum(s)    == Sum(Asks, OrdersOf(s, "SELL", OpenStates))
BoughtSum(s)  == Sum(Asks, OrdersOf(s, "BUY", {"filled"}))
SoldSum(s)    == Sum(Asks, OrdersOf(s, "SELL", {"filled"}))
WaitingSum(s) == Sum(Asks, Unreleased(s))

\* What one order puts into each of them.
FrozenOf(r, o)  == IF r.side = "BUY" /\ o.status \in OpenStates THEN o.cash ELSE 0
HeldOf(r, o)    == IF r.side = "SELL" /\ o.status \in OpenStates THEN r.quantity ELSE 0
BoughtOf(r, o)  == IF r.side = "BUY" /\ o.status = "filled" THEN r.quantity ELSE 0
SoldOf(r, o)    == IF r.side = "SELL" /\ o.status = "filled" THEN r.quantity ELSE 0
WaitingOf(r, o) ==
    IF r.side = "BUY" /\ o.status = "filled" /\ o.released = 0 THEN r.quantity ELSE 0

\* When one element enters, leaves or changes.
LEMMA SumMoved ==
    ASSUME NEW A, NEW B, IsFiniteSet(A), IsFiniteSet(B), NEW r, A \ {r} = B \ {r},
           NEW F, NEW G, \A x \in A : F[x] \in Int, \A x \in B : G[x] \in Int,
           \A x \in A \ {r} : F[x] = G[x]
    PROVE  Sum(G, B) = Sum(F, A) - (IF r \in A THEN F[r] ELSE 0) + (IF r \in B THEN G[r] ELSE 0)
  <1>1. PICK rest : rest = A \ {r}
    OBVIOUS
  <1>2. rest = B \ {r} /\ IsFiniteSet(rest) /\ \A x \in rest : F[x] = G[x] /\ F[x] \in Int
    BY <1>1, FS_RemoveElement
  <1>3. Sum(F, rest) = Sum(G, rest) /\ Sum(F, rest) \in Int
    BY <1>2, SumSame, SumType
  <1>4. Sum(F, A) = Sum(F, rest) + (IF r \in A THEN F[r] ELSE 0)
    <2>1. CASE r \in A
      <3>1. Sum(F, A) = F[r] + Sum(F, rest) /\ F[r] \in Int
        BY <1>1, <2>1, SumTake
      <3> QED  BY <1>3, <2>1, <3>1
    <2>2. CASE r \notin A
      <3>1. A = rest
        BY <1>1, <2>2
      <3> QED  BY <1>3, <2>2, <3>1
    <2> QED  BY <2>1, <2>2
  <1>5. Sum(G, B) = Sum(G, rest) + (IF r \in B THEN G[r] ELSE 0)
    <2>1. CASE r \in B
      <3>1. Sum(G, B) = G[r] + Sum(G, rest) /\ G[r] \in Int
        BY <1>2, <2>1, SumTake
      <3> QED  BY <1>3, <2>1, <3>1
    <2>2. CASE r \notin B
      <3>1. B = rest
        BY <1>2, <2>2
      <3> QED  BY <1>3, <2>2, <3>1
    <2> QED  BY <2>1, <2>2
  <1>6. (IF r \in A THEN F[r] ELSE 0) \in Int /\ (IF r \in B THEN G[r] ELSE 0) \in Int
    OBVIOUS
  <1> QED  BY <1>3, <1>4, <1>5, <1>6

LEMMA AsksAre == \A r \in Requests : Asks[r] = r.quantity /\ Asks[r] \in Nat \ {0}
  BY RequestsAssumption DEF Asks

LEMMA OrdersFinite ==
    ASSUME NEW s, NEW side, NEW states
    PROVE  IsFiniteSet(OrdersOf(s, side, states)) /\ OrdersOf(s, side, states) \in SUBSET Requests
  BY RequestsAssumption, FS_Subset DEF OrdersOf

LEMMA AskSums ==
    ASSUME NEW A \in SUBSET Requests
    PROVE  /\ IsFiniteSet(A) /\ Sum(Asks, A) \in Nat
           /\ \A r \in A : r.quantity <= Sum(Asks, A)
  <1>1. IsFiniteSet(A)
    BY RequestsAssumption, FS_Subset
  <1>2. \A x \in A : Asks[x] \in Int /\ Asks[x] >= 0 /\ Asks[x] \in Nat
    BY AsksAre
  <1>3. Sum(Asks, A) \in Int /\ Sum(Asks, A) >= 0
    BY <1>1, <1>2, SumType
  <1>4. \A r \in A : Asks[r] <= Sum(Asks, A)
    BY <1>1, <1>2, SumCovers
  <1> QED  BY <1>1, <1>3, <1>4, AsksAre

LEMMA Totals ==
    ASSUME NEW s \in AccountState, NEW r \in Requests
    PROVE  /\ FrozenSum(s) \in Nat /\ HeldSum(s) \in Nat /\ BoughtSum(s) \in Nat
           /\ SoldSum(s) \in Nat /\ WaitingSum(s) \in Nat
           /\ FrozenOf(r, s.orders[r]) <= FrozenSum(s) /\ HeldOf(r, s.orders[r]) <= HeldSum(s)
           /\ WaitingOf(r, s.orders[r]) <= WaitingSum(s)
  <1>1. PICK A : A = OrdersOf(s, "BUY", OpenStates)
    OBVIOUS
  <1>2. IsFiniteSet(A) /\ A \in SUBSET Requests
    BY <1>1, OrdersFinite
  <1>3. PICK F : F = Reserved(s)
    OBVIOUS
  <1>4. \A x \in Requests : F[x] = s.orders[x].cash /\ F[x] \in Nat
    BY <1>3 DEF Reserved, AccountState, OrderState
  <1>5. Sum(F, A) \in Int /\ Sum(F, A) >= 0
    <2>1. \A x \in A : F[x] \in Int /\ F[x] >= 0
      BY <1>2, <1>4
    <2> QED  BY <1>2, <2>1, SumType
  <1>6. \A x \in A : F[x] <= Sum(F, A)
    BY <1>2, <1>4, SumCovers
  <1>7. FrozenOf(r, s.orders[r]) <= FrozenSum(s)
    <2>1. CASE r \in A
      BY <1>1, <1>3, <1>4, <1>5, <1>6, <2>1 DEF FrozenSum, FrozenOf
    <2>2. CASE r \notin A
      <3>1. FrozenOf(r, s.orders[r]) = 0
        BY <1>1, <2>2 DEF FrozenOf, OrdersOf
      <3> QED  BY <1>1, <1>3, <1>5, <3>1 DEF FrozenSum
    <2> QED  BY <2>1, <2>2
  <1>8. FrozenSum(s) \in Nat
    BY <1>1, <1>3, <1>5 DEF FrozenSum
  <1>9. /\ HeldSum(s) \in Nat /\ BoughtSum(s) \in Nat /\ SoldSum(s) \in Nat
        /\ WaitingSum(s) \in Nat
    BY OrdersFinite, AskSums DEF HeldSum, BoughtSum, SoldSum, WaitingSum, Unreleased
  <1>10. HeldOf(r, s.orders[r]) <= HeldSum(s)
    <2>1. PICK H : H = OrdersOf(s, "SELL", OpenStates)
      OBVIOUS
    <2>2. H \in SUBSET Requests
      BY <2>1, OrdersFinite
    <2>3. CASE r \in H
      <3>1. r.quantity <= Sum(Asks, H) /\ HeldOf(r, s.orders[r]) = r.quantity
        BY <2>1, <2>2, <2>3, AskSums DEF HeldOf, OrdersOf
      <3> QED  BY <2>1, <3>1 DEF HeldSum
    <2>4. CASE r \notin H
      <3>1. HeldOf(r, s.orders[r]) = 0
        BY <2>1, <2>4 DEF HeldOf, OrdersOf
      <3> QED  BY <1>9, <3>1
    <2> QED  BY <2>3, <2>4
  <1>11. WaitingOf(r, s.orders[r]) <= WaitingSum(s)
    <2>1. PICK H : H = Unreleased(s)
      OBVIOUS
    <2>2. H \in SUBSET Requests
      BY <2>1 DEF Unreleased, OrdersOf
    <2>3. CASE r \in H
      <3>1. r.quantity <= Sum(Asks, H) /\ WaitingOf(r, s.orders[r]) = r.quantity
        BY <2>1, <2>2, <2>3, AskSums DEF WaitingOf, OrdersOf, Unreleased
      <3> QED  BY <2>1, <3>1 DEF WaitingSum
    <2>4. CASE r \notin H
      <3>1. WaitingOf(r, s.orders[r]) = 0
        BY <2>1, <2>4 DEF WaitingOf, OrdersOf, Unreleased
      <3> QED  BY <1>9, <3>1
    <2> QED  BY <2>3, <2>4
  <1> QED  BY <1>7, <1>8, <1>9, <1>10, <1>11

LEMMA OrderMoved ==
    ASSUME NEW s \in AccountState, NEW n \in AccountState, NEW r \in Requests,
           NEW o \in OrderState, n.orders = [s.orders EXCEPT ![r] = o]
    PROVE  /\ FrozenSum(n) = FrozenSum(s) - FrozenOf(r, s.orders[r]) + FrozenOf(r, o)
           /\ HeldSum(n) = HeldSum(s) - HeldOf(r, s.orders[r]) + HeldOf(r, o)
           /\ BoughtSum(n) = BoughtSum(s) - BoughtOf(r, s.orders[r]) + BoughtOf(r, o)
           /\ SoldSum(n) = SoldSum(s) - SoldOf(r, s.orders[r]) + SoldOf(r, o)
           /\ WaitingSum(n) = WaitingSum(s) - WaitingOf(r, s.orders[r]) + WaitingOf(r, o)
  <1>1. /\ n.orders[r] = o /\ \A x \in Requests : x # r => n.orders[x] = s.orders[x]
        /\ \A x \in Requests : s.orders[x] \in OrderState /\ n.orders[x] \in OrderState
    BY DEF AccountState
  <1>2. \A side, states : OrdersOf(n, side, states) \ {r} = OrdersOf(s, side, states) \ {r}
    BY <1>1 DEF OrdersOf
  <1>3. ASSUME NEW A \in SUBSET Requests, NEW B \in SUBSET Requests, A \ {r} = B \ {r}
        PROVE  Sum(Asks, B) = Sum(Asks, A) - (IF r \in A THEN r.quantity ELSE 0)
                                           + (IF r \in B THEN r.quantity ELSE 0)
    <2>1. IsFiniteSet(A) /\ IsFiniteSet(B)
      BY AskSums
    <2>2. \A x \in Requests : Asks[x] \in Int
      BY AsksAre
    <2>3. Sum(Asks, B) = Sum(Asks, A) - (IF r \in A THEN Asks[r] ELSE 0)
                                      + (IF r \in B THEN Asks[r] ELSE 0)
      BY <1>3, <2>1, <2>2, SumMoved
    <2> QED  BY <2>3, AsksAre
  <1>4. FrozenSum(n) = FrozenSum(s) - FrozenOf(r, s.orders[r]) + FrozenOf(r, o)
    <2>1. PICK A, B : A = OrdersOf(s, "BUY", OpenStates) /\ B = OrdersOf(n, "BUY", OpenStates)
      OBVIOUS
    <2>2. PICK F, G : F = Reserved(s) /\ G = Reserved(n)
      OBVIOUS
    <2>3. /\ \A x \in Requests : F[x] = s.orders[x].cash /\ G[x] = n.orders[x].cash
          /\ \A x \in Requests : F[x] \in Int /\ G[x] \in Int
      BY <1>1, <2>2 DEF Reserved, OrderState
    <2>4. /\ IsFiniteSet(A) /\ IsFiniteSet(B) /\ A \ {r} = B \ {r}
          /\ A \in SUBSET Requests /\ B \in SUBSET Requests
      BY <1>2, <2>1, OrdersFinite
    <2>5. \A x \in A \ {r} : F[x] = G[x]
      BY <1>1, <2>3, <2>4
    <2>6. Sum(G, B) = Sum(F, A) - (IF r \in A THEN F[r] ELSE 0) + (IF r \in B THEN G[r] ELSE 0)
      BY <2>3, <2>4, <2>5, SumMoved
    <2>7. /\ (IF r \in A THEN F[r] ELSE 0) = FrozenOf(r, s.orders[r])
          /\ (IF r \in B THEN G[r] ELSE 0) = FrozenOf(r, o)
      BY <1>1, <2>1, <2>3 DEF FrozenOf, OrdersOf
    <2> QED  BY <2>1, <2>2, <2>6, <2>7 DEF FrozenSum
  <1>5. HeldSum(n) = HeldSum(s) - HeldOf(r, s.orders[r]) + HeldOf(r, o)
    <2>1. PICK A, B : A = OrdersOf(s, "SELL", OpenStates) /\ B = OrdersOf(n, "SELL", OpenStates)
      OBVIOUS
    <2>2. A \in SUBSET Requests /\ B \in SUBSET Requests /\ A \ {r} = B \ {r}
      BY <1>2, <2>1, OrdersFinite
    <2>3. /\ (IF r \in A THEN r.quantity ELSE 0) = HeldOf(r, s.orders[r])
          /\ (IF r \in B THEN r.quantity ELSE 0) = HeldOf(r, o)
      BY <1>1, <2>1 DEF HeldOf, OrdersOf
    <2> QED  BY <1>3, <2>1, <2>2, <2>3 DEF HeldSum
  <1>6. BoughtSum(n) = BoughtSum(s) - BoughtOf(r, s.orders[r]) + BoughtOf(r, o)
    <2>1. PICK A, B : A = OrdersOf(s, "BUY", {"filled"}) /\ B = OrdersOf(n, "BUY", {"filled"})
      OBVIOUS
    <2>2. A \in SUBSET Requests /\ B \in SUBSET Requests /\ A \ {r} = B \ {r}
      BY <1>2, <2>1, OrdersFinite
    <2>3. /\ (IF r \in A THEN r.quantity ELSE 0) = BoughtOf(r, s.orders[r])
          /\ (IF r \in B THEN r.quantity ELSE 0) = BoughtOf(r, o)
      BY <1>1, <2>1 DEF BoughtOf, OrdersOf
    <2> QED  BY <1>3, <2>1, <2>2, <2>3 DEF BoughtSum
  <1>7. SoldSum(n) = SoldSum(s) - SoldOf(r, s.orders[r]) + SoldOf(r, o)
    <2>1. PICK A, B : A = OrdersOf(s, "SELL", {"filled"}) /\ B = OrdersOf(n, "SELL", {"filled"})
      OBVIOUS
    <2>2. A \in SUBSET Requests /\ B \in SUBSET Requests /\ A \ {r} = B \ {r}
      BY <1>2, <2>1, OrdersFinite
    <2>3. /\ (IF r \in A THEN r.quantity ELSE 0) = SoldOf(r, s.orders[r])
          /\ (IF r \in B THEN r.quantity ELSE 0) = SoldOf(r, o)
      BY <1>1, <2>1 DEF SoldOf, OrdersOf
    <2> QED  BY <1>3, <2>1, <2>2, <2>3 DEF SoldSum
  <1>8. WaitingSum(n) = WaitingSum(s) - WaitingOf(r, s.orders[r]) + WaitingOf(r, o)
    <2>1. PICK A, B : A = Unreleased(s) /\ B = Unreleased(n)
      OBVIOUS
    <2>2. A \in SUBSET Requests /\ B \in SUBSET Requests
      BY <2>1 DEF Unreleased, OrdersOf
    <2>3. A \ {r} = B \ {r}
      BY <1>1, <2>1 DEF Unreleased, OrdersOf
    <2>4. /\ (IF r \in A THEN r.quantity ELSE 0) = WaitingOf(r, s.orders[r])
          /\ (IF r \in B THEN r.quantity ELSE 0) = WaitingOf(r, o)
      BY <1>1, <2>1 DEF WaitingOf, Unreleased, OrdersOf
    <2> QED  BY <1>3, <2>1, <2>2, <2>3, <2>4 DEF WaitingSum
  <1> QED  BY <1>4, <1>5, <1>6, <1>7, <1>8

-----------------------------------------------------------------------------
(* The paper account: one event.                                           *)

\* What an order holds for its status.
OrderOK(r, o) ==
    /\ o.status \in {"none", "submitted", "rejected", "cancelled"} => o.cash = 0 /\ o.quantity = 0
    /\ o.status \in OpenStates => IF r.side = "BUY" THEN o.quantity = 0
                                  ELSE o.cash = 0 /\ o.quantity = r.quantity
    /\ ~ (o.status = "filled" /\ r.side = "BUY") => o.released = 0

Good(s) ==
    /\ s \in AccountState /\ s.sound /\ Sound(s)
    /\ s.frozen = FrozenSum(s) /\ s.held = HeldSum(s) /\ s.total = BoughtSum(s) - SoldSum(s)
    /\ ~ ReleasedTwice(s) => s.available + s.held = s.total - WaitingSum(s)
    /\ \A r \in Requests : OrderOK(r, s.orders[r])

LEMMA Changed ==
    ASSUME NEW s, Good(s), NEW r \in Requests, NEW old, old = s.orders[r],
           NEW o \in OrderState, OrderOK(r, o), o.released = old.released,
           NEW n \in AccountState, n.sound, n.orders = [s.orders EXCEPT ![r] = o],
           n.frozen = s.frozen - FrozenOf(r, old) + FrozenOf(r, o),
           n.held = s.held - HeldOf(r, old) + HeldOf(r, o),
           n.total = s.total - BoughtOf(r, old) + BoughtOf(r, o) + SoldOf(r, old) - SoldOf(r, o),
           n.available + n.held - n.total + WaitingOf(r, o)
             = s.available + s.held - s.total + WaitingOf(r, old),
           WaitingOf(r, old) <= WaitingOf(r, o),
           n.available >= 0, n.frozen <= n.cash
    PROVE  Good(n)
  <1>1. /\ s \in AccountState /\ Sound(s)
        /\ s.frozen = FrozenSum(s) /\ s.held = HeldSum(s) /\ s.total = BoughtSum(s) - SoldSum(s)
        /\ ~ ReleasedTwice(s) => s.available + s.held = s.total - WaitingSum(s)
        /\ \A x \in Requests : OrderOK(x, s.orders[x])
    BY DEF Good
  <1>2. /\ FrozenSum(n) = FrozenSum(s) - FrozenOf(r, old) + FrozenOf(r, o)
        /\ HeldSum(n) = HeldSum(s) - HeldOf(r, old) + HeldOf(r, o)
        /\ BoughtSum(n) = BoughtSum(s) - BoughtOf(r, old) + BoughtOf(r, o)
        /\ SoldSum(n) = SoldSum(s) - SoldOf(r, old) + SoldOf(r, o)
        /\ WaitingSum(n) = WaitingSum(s) - WaitingOf(r, old) + WaitingOf(r, o)
    BY <1>1, OrderMoved
  <1>3. /\ FrozenSum(s) \in Nat /\ HeldSum(s) \in Nat /\ BoughtSum(s) \in Nat
        /\ SoldSum(s) \in Nat /\ WaitingSum(s) \in Nat
        /\ FrozenSum(n) \in Nat /\ HeldSum(n) \in Nat /\ BoughtSum(n) \in Nat
        /\ SoldSum(n) \in Nat /\ WaitingSum(n) \in Nat
    BY <1>1, Totals
  <1>4. r.quantity \in Nat
    BY RequestsAssumption
  <1>5. old \in OrderState
    BY <1>1 DEF AccountState
  <1>6. /\ FrozenOf(r, old) \in Int /\ FrozenOf(r, o) \in Int
        /\ HeldOf(r, old) \in Int /\ HeldOf(r, o) \in Int
        /\ BoughtOf(r, old) \in Int /\ BoughtOf(r, o) \in Int
        /\ SoldOf(r, old) \in Int /\ SoldOf(r, o) \in Int
        /\ WaitingOf(r, old) \in Int /\ WaitingOf(r, o) \in Int
    BY <1>4, <1>5 DEF FrozenOf, HeldOf, BoughtOf, SoldOf, WaitingOf, OrderState
  <1>7. /\ s.cash \in Int /\ s.available \in Int
        /\ n.cash \in Int /\ n.frozen \in Int /\ n.total \in Int /\ n.available \in Int
        /\ n.held \in Int
    BY <1>1 DEF AccountState
  <1>8. n.frozen = FrozenSum(n)
    BY <1>1, <1>2, <1>3, <1>6
  <1>9. n.held = HeldSum(n)
    BY <1>1, <1>2, <1>3, <1>6
  <1>10. n.total = BoughtSum(n) - SoldSum(n)
    BY <1>1, <1>2, <1>3, <1>6
  <1>11. ReleasedTwice(n) <=> ReleasedTwice(s)
    <2>1. \A x \in Requests : n.orders[x].released = s.orders[x].released
      BY <1>1 DEF AccountState
    <2> QED  BY <2>1 DEF ReleasedTwice
  <1>12. ~ ReleasedTwice(n) => n.available + n.held = n.total - WaitingSum(n)
    BY <1>1, <1>2, <1>3, <1>6, <1>7, <1>8, <1>9, <1>10, <1>11
  <1>13. s.available + s.held <= s.total /\ s.total \in Int /\ s.held \in Int
    BY <1>1 DEF Sound, AccountState
  <1>14. n.available + n.held <= n.total
    BY <1>6, <1>7, <1>13
  <1>15. Sound(n)
    <2>1. n.frozen >= 0 /\ n.held >= 0
      BY <1>3, <1>8, <1>9
    <2>2. n.total >= 0
      BY <1>7, <1>14, <2>1
    <2> QED  BY <1>14, <2>1, <2>2 DEF Sound
  <1>16. \A x \in Requests : OrderOK(x, n.orders[x])
    BY <1>1 DEF AccountState
  <1> QED  BY <1>8, <1>9, <1>10, <1>12, <1>15, <1>16 DEF Good

\* An event after which the account is good leaves it sound.
LEMMA StepGood ==
    ASSUME NEW s, s.sound, NEW e, NEW m, m = Apply(s, e), Good(m)
    PROVE  Step(s, e) = m
  <1>1. m \in AccountState /\ m.sound = TRUE /\ Sound(m) = TRUE
    BY DEF Good, AccountState, Sound
  <1>2. Step(s, e) = [m EXCEPT !.sound = Sound(m)]
    BY DEF Step
  <1>3. [m EXCEPT !.sound = TRUE] = m
    BY <1>1 DEF AccountState
  <1> QED  BY <1>1, <1>2, <1>3

LEMMA GoodOrder ==
    ASSUME NEW s, Good(s), NEW r \in Requests
    PROVE  /\ s.orders[r] \in OrderState /\ OrderOK(r, s.orders[r])
           /\ r.quantity \in Nat \ {0} /\ r.limit \in Nat \ {0} /\ r.side \in {"BUY", "SELL"}
           /\ s.cash \in Int /\ s.frozen \in Int /\ s.total \in Int /\ s.available \in Int
           /\ s.held \in Int /\ s.frozen >= 0 /\ s.frozen <= s.cash /\ s.total >= 0
           /\ s.available >= 0 /\ s.held >= 0 /\ s.available + s.held <= s.total
           /\ FrozenOf(r, s.orders[r]) <= s.frozen /\ HeldOf(r, s.orders[r]) <= s.held
  <1>1. s \in AccountState /\ Sound(s) /\ OrderOK(r, s.orders[r])
    BY DEF Good
  <1>2. FrozenOf(r, s.orders[r]) <= s.frozen /\ HeldOf(r, s.orders[r]) <= s.held
    BY <1>1, Totals DEF Good
  <1> QED  BY <1>1, <1>2, RequestsAssumption DEF AccountState, Sound

\* Becoming submitted, rejected or unfilled moves nothing.
LEMMA Relabelled ==
    ASSUME NEW s, Good(s), NEW r \in Requests, NEW e, e.order = r,
           \/ e.type = "submitted" /\ s.orders[r].status = "none"
           \/ e.type = "rejected" /\ s.orders[r].status = "submitted"
           \/ e.type = "unfilled" /\ s.orders[r].status = "accepted"
    PROVE  /\ Good(Step(s, e))
           /\ Step(s, e).orders = [s.orders EXCEPT ![r].status = e.type]
  <1>1. PICK old, o, n : /\ old = s.orders[r] /\ o = [old EXCEPT !.status = e.type]
                         /\ n = Apply(s, e)
    OBVIOUS
  <1>2. s \in AccountState /\ s.sound
    BY DEF Good
  <1>3. old \in OrderState /\ OrderOK(r, old)
    BY <1>1, GoodOrder
  <1>4. n = [s EXCEPT !.orders[r].status = e.type]
    BY <1>1 DEF Apply
  <1>5. /\ n.orders = [s.orders EXCEPT ![r] = o] /\ n.frozen = s.frozen /\ n.held = s.held
        /\ n.total = s.total /\ n.available = s.available /\ n.cash = s.cash /\ n.sound
    BY <1>1, <1>2, <1>4 DEF AccountState
  <1>6. /\ o \in OrderState /\ o.status = e.type /\ o.cash = old.cash
        /\ o.quantity = old.quantity /\ o.released = old.released
    BY <1>1, <1>3 DEF OrderState
  <1>7. n \in AccountState
    BY <1>1, <1>2, <1>4, <1>6 DEF AccountState
  <1>8. OrderOK(r, o)
    BY <1>1, <1>3, <1>6 DEF OrderOK, OpenStates
  <1>9. /\ FrozenOf(r, o) = FrozenOf(r, old) /\ HeldOf(r, o) = HeldOf(r, old)
        /\ BoughtOf(r, o) = 0 /\ SoldOf(r, o) = 0 /\ WaitingOf(r, o) = 0
        /\ BoughtOf(r, old) = 0 /\ SoldOf(r, old) = 0 /\ WaitingOf(r, old) = 0
    BY <1>1, <1>3, <1>6 DEF FrozenOf, HeldOf, BoughtOf, SoldOf, WaitingOf, OpenStates
  <1>10. FrozenOf(r, o) \in Int /\ HeldOf(r, o) \in Int
    BY <1>6, GoodOrder DEF FrozenOf, HeldOf, OrderState
  <1>11. Good(n)
    <2>1. /\ s.cash \in Int /\ s.frozen \in Int /\ s.total \in Int /\ s.available \in Int
          /\ s.held \in Int /\ s.frozen <= s.cash /\ s.available >= 0
      BY GoodOrder
    <2>2. /\ n.frozen = s.frozen - FrozenOf(r, old) + FrozenOf(r, o)
          /\ n.held = s.held - HeldOf(r, old) + HeldOf(r, o)
      BY <1>5, <1>9, <1>10, <2>1
    <2>3. n.total = s.total - BoughtOf(r, old) + BoughtOf(r, o) + SoldOf(r, old) - SoldOf(r, o)
      BY <1>5, <1>9, <2>1
    <2>4. n.available + n.held - n.total + WaitingOf(r, o)
             = s.available + s.held - s.total + WaitingOf(r, old)
          /\ WaitingOf(r, old) <= WaitingOf(r, o)
      BY <1>5, <1>9, <2>1
    <2>5. n.available >= 0 /\ n.frozen <= n.cash
      BY <1>5, <2>1
    <2>6. /\ old = s.orders[r] /\ n.orders = [s.orders EXCEPT ![r] = o] /\ n.sound
          /\ o.released = old.released
      BY <1>1, <1>5, <1>6
    <2> QED  BY <1>6, <1>7, <1>8, <2>2, <2>3, <2>4, <2>5, <2>6, Changed
  <1>12. Step(s, e) = n
    BY <1>1, <1>2, <1>11, StepGood
  <1> QED  BY <1>2, <1>4, <1>11, <1>12 DEF AccountState

\* A fee is at most what it is taken from, and what is left grows with it.
LEMMA FeeIs ==
    ASSUME NEW a \in Nat \ {0}
    PROVE  Fee(a) = IF (a + 500) \div 1000 >= 1 THEN (a + 500) \div 1000 ELSE 1
  <1>1. PICK f : f = (a + 500) \div 1000
    OBVIOUS
  <1>2. f \in Int
    BY <1>1
  <1>3. Fee(a) = Max({1, f})
    BY <1>1 DEF Fee
  <1>4. CASE f >= 1
    <2>1. \A x \in {1, f} : (\A y \in {1, f} : x >= y) <=> x = f
      BY <1>2, <1>4
    <2>2. Max({1, f}) = f
      BY <2>1 DEF Max
    <2> QED  BY <1>1, <1>3, <1>4, <2>2
  <1>5. CASE ~ (f >= 1)
    <2>1. \A x \in {1, f} : (\A y \in {1, f} : x >= y) <=> x = 1
      BY <1>2, <1>5
    <2>2. Max({1, f}) = 1
      BY <2>1 DEF Max
    <2> QED  BY <1>1, <1>3, <1>5, <2>2
  <1> QED  BY <1>4, <1>5

LEMMA FeeFacts ==
    ASSUME NEW a \in Nat \ {0}, NEW b \in Nat \ {0}, a <= b
    PROVE  Fee(a) \in Nat /\ 1 <= Fee(a) /\ Fee(a) <= a /\ a - Fee(a) <= b - Fee(b)
           /\ Fee(b) \in Nat
  BY FeeIs

LEMMA Notional ==
    ASSUME NEW p \in Nat \ {0}, NEW q \in Nat \ {0}, NEW l \in Nat \ {0}
    PROVE  /\ p * q \in Nat \ {0} /\ l * q \in Nat \ {0} /\ Fee(p * q) \in Nat
           /\ Fee(p * q) <= p * q
           /\ p >= l => p * q - Fee(p * q) >= l * q - Fee(l * q)
  <1>1. p * q \in Nat \ {0} /\ l * q \in Nat \ {0}
    <2>1. \A x, y \in Nat \ {0} : x * y \in Nat \ {0}
      OBVIOUS
    <2> QED  BY <2>1
  <1>2. p >= l => p * q >= l * q
    <2>1. ASSUME p >= l  PROVE p * q >= l * q
      <3>1. PICK k \in Nat : p = l + k
        <4>1. p - l \in Nat /\ p = l + (p - l)
          BY <2>1
        <4> QED  BY <4>1
      <3>2. p * q = l * q + k * q /\ k * q \in Nat
        BY <3>1
      <3> QED  BY <1>1, <3>2
    <2> QED  BY <2>1
  <1>3. PICK a, b : a = p * q /\ b = l * q
    OBVIOUS
  <1>4. a \in Nat \ {0} /\ b \in Nat \ {0}
    BY <1>1, <1>3
  <1>5. Fee(a) \in Nat /\ Fee(a) <= a
    <2>1. a <= a
      BY <1>4
    <2> QED  BY <1>4, <2>1, FeeFacts
  <1>6. a >= b => a - Fee(a) >= b - Fee(b)
    <2>1. ASSUME a >= b  PROVE a - Fee(a) >= b - Fee(b)
      <3>1. b <= a
        BY <1>4, <2>1
      <3>2. b - Fee(b) <= a - Fee(a) /\ Fee(a) \in Nat /\ Fee(b) \in Nat
        BY <1>4, <3>1, FeeFacts
      <3> QED  BY <1>4, <3>2
    <2> QED  BY <2>1
  <1> QED  BY <1>1, <1>2, <1>3, <1>5, <1>6

LEMMA ReserveIs == ASSUME NEW r \in Requests  PROVE Reserve(r) \in Nat
  <1>1. r.limit \in Nat \ {0} /\ r.quantity \in Nat \ {0}
    BY RequestsAssumption
  <1>2. PICK a : a = r.limit * r.quantity
    OBVIOUS
  <1>3. a \in Nat \ {0} /\ Fee(a) \in Nat
    BY <1>1, <1>2, Notional
  <1> QED  BY <1>2, <1>3 DEF Reserve

LEMMA StepSound ==
    ASSUME NEW s, s.sound, NEW e, NEW m, m = Apply(s, e), m \in AccountState, m.sound, Sound(m)
    PROVE  Step(s, e) = m
  <1>1. m.sound = TRUE /\ Sound(m) = TRUE
    BY DEF AccountState, Sound
  <1>2. Step(s, e) = [m EXCEPT !.sound = Sound(m)]
    BY DEF Step
  <1>3. [m EXCEPT !.sound = TRUE] = m
    BY <1>1 DEF AccountState
  <1> QED  BY <1>1, <1>2, <1>3

\* What approve_order appends.
AcceptEvent(r) == Event("accepted", r)
FreezeEvent(r) ==
    IF r.side = "BUY" THEN [Event("cash_frozen", r) EXCEPT !.cash = Reserve(r)]
    ELSE [Event("quantity_frozen", r) EXCEPT !.quantity = r.quantity]

LEMMA Approved ==
    ASSUME NEW s, Good(s), NEW r \in Requests, s.orders[r].status = "submitted", Approvable(s, r)
    PROVE  LET n == Step(Step(s, AcceptEvent(r)), FreezeEvent(r))
           IN  Good(n) /\ \E o \in OrderState : /\ n.orders = [s.orders EXCEPT ![r] = o]
                                                /\ o.status = "accepted"
  <1>1. PICK old, e1, e2, m : /\ old = s.orders[r] /\ e1 = AcceptEvent(r) /\ e2 = FreezeEvent(r)
                              /\ m = Apply(s, e1)
    OBVIOUS
  <1>2. s \in AccountState /\ s.sound
    BY DEF Good
  <1>3. /\ old \in OrderState /\ OrderOK(r, old) /\ old.status = "submitted"
        /\ r.quantity \in Nat \ {0} /\ r.side \in {"BUY", "SELL"}
    BY <1>1, GoodOrder
  <1>4. e1.type = "accepted" /\ e1.order = r
    BY <1>1 DEF AcceptEvent, Event
  <1>5. m = [s EXCEPT !.orders[r].status = "accepted"]
    BY <1>1, <1>4 DEF Apply
  <1>6. PICK a : a = [old EXCEPT !.status = "accepted"]
    OBVIOUS
  <1>7. a \in OrderState /\ a.status = "accepted" /\ a.cash = old.cash
        /\ a.quantity = old.quantity /\ a.released = old.released
    BY <1>3, <1>6 DEF OrderState
  <1>8. /\ m.orders = [s.orders EXCEPT ![r] = a] /\ m.frozen = s.frozen /\ m.held = s.held
        /\ m.total = s.total /\ m.available = s.available /\ m.cash = s.cash /\ m.sound
    BY <1>1, <1>2, <1>5, <1>6 DEF AccountState
  <1>9. m \in AccountState
    BY <1>1, <1>2, <1>5, <1>6, <1>7 DEF AccountState
  <1>10. Sound(m)
    BY <1>8 DEF Sound, Good
  <1>11. Step(s, e1) = m
    BY <1>1, <1>2, <1>8, <1>9, <1>10, StepSound
  <1>12. m.orders[r] = a
    BY <1>2, <1>8 DEF AccountState
  <1>13. PICK n : n = Apply(m, e2)
    OBVIOUS
  <1>14. old.cash = 0 /\ old.quantity = 0 /\ old.released = 0
    BY <1>3 DEF OrderOK
  <1>15. PICK o : o = IF r.side = "BUY" THEN [a EXCEPT !.cash = Reserve(r)]
                      ELSE [a EXCEPT !.quantity = r.quantity]
    OBVIOUS
  <1>16. Reserve(r) \in Nat
    BY ReserveIs
  <1>17. /\ o \in OrderState /\ o.status = "accepted" /\ o.released = 0
         /\ r.side = "BUY" => o.cash = Reserve(r) /\ o.quantity = 0
         /\ r.side = "SELL" => o.cash = 0 /\ o.quantity = r.quantity
    BY <1>3, <1>7, <1>14, <1>15, <1>16 DEF OrderState
  <1>18. OrderOK(r, o)
    BY <1>3, <1>17 DEF OrderOK, OpenStates
  <1>19. /\ n.orders = [s.orders EXCEPT ![r] = o] /\ n.sound /\ n \in AccountState
         /\ n.cash = s.cash /\ n.total = s.total
         /\ r.side = "BUY" => /\ n.frozen = s.frozen + Reserve(r) /\ n.held = s.held
                              /\ n.available = s.available
         /\ r.side = "SELL" => /\ n.frozen = s.frozen /\ n.held = s.held + r.quantity
                               /\ n.available = s.available - r.quantity
    <2>1. CASE r.side = "BUY"
      <3>1. e2.type = "cash_frozen" /\ e2.order = r /\ e2.cash = Reserve(r)
        BY <1>1, <2>1 DEF FreezeEvent, Event
      <3>2. n = [m EXCEPT !.frozen = @ + Reserve(r), !.orders[r].cash = Reserve(r)]
        BY <1>13, <3>1 DEF Apply
      <3>3. o = [a EXCEPT !.cash = Reserve(r)]
        BY <1>15, <2>1
      <3>4. n.orders = [m.orders EXCEPT ![r] = o]
        BY <1>9, <1>12, <3>2, <3>3 DEF AccountState
      <3>5. n.orders = [s.orders EXCEPT ![r] = o]
        BY <1>2, <1>8, <3>4 DEF AccountState
      <3>6. /\ n.frozen = s.frozen + Reserve(r) /\ n.held = s.held /\ n.available = s.available
            /\ n.cash = s.cash /\ n.total = s.total /\ n.sound
        BY <1>8, <1>9, <3>2 DEF AccountState
      <3>7. n \in AccountState
        <4>1. n.orders \in [Requests -> OrderState]
          BY <1>9, <1>17, <3>4 DEF AccountState
        <4>2. n = [m EXCEPT !.frozen = n.frozen, !.orders = n.orders]
          BY <1>9, <3>2 DEF AccountState
        <4>3. n.frozen \in Int
          BY <1>2, <1>16, <3>6 DEF AccountState
        <4> QED  BY <1>9, <4>1, <4>2, <4>3 DEF AccountState
      <3> QED  BY <2>1, <3>5, <3>6, <3>7
    <2>2. CASE r.side = "SELL"
      <3>1. e2.type = "quantity_frozen" /\ e2.order = r /\ e2.quantity = r.quantity
        BY <1>1, <2>2 DEF FreezeEvent, Event
      <3>2. n = [m EXCEPT !.available = @ - r.quantity, !.held = @ + r.quantity,
                          !.orders[r].quantity = r.quantity]
        BY <1>13, <3>1 DEF Apply
      <3>3. o = [a EXCEPT !.quantity = r.quantity]
        BY <1>15, <2>2
      <3>4. n.orders = [m.orders EXCEPT ![r] = o]
        BY <1>9, <1>12, <3>2, <3>3 DEF AccountState
      <3>5. n.orders = [s.orders EXCEPT ![r] = o]
        BY <1>2, <1>8, <3>4 DEF AccountState
      <3>6. /\ n.frozen = s.frozen /\ n.held = s.held + r.quantity
            /\ n.available = s.available - r.quantity
            /\ n.cash = s.cash /\ n.total = s.total /\ n.sound
        BY <1>8, <1>9, <3>2 DEF AccountState
      <3>7. n \in AccountState
        <4>1. n.orders \in [Requests -> OrderState]
          BY <1>9, <1>17, <3>4 DEF AccountState
        <4>2. n = [m EXCEPT !.available = n.available, !.held = n.held, !.orders = n.orders]
          BY <1>9, <3>2 DEF AccountState
        <4>3. n.available \in Int /\ n.held \in Int
          BY <1>2, <1>3, <3>6 DEF AccountState
        <4> QED  BY <1>9, <4>1, <4>2, <4>3 DEF AccountState
      <3> QED  BY <2>2, <3>5, <3>6, <3>7
    <2> QED  BY <1>3, <2>1, <2>2
  <1>20. /\ FrozenOf(r, old) = 0 /\ HeldOf(r, old) = 0 /\ BoughtOf(r, old) = 0
         /\ SoldOf(r, old) = 0 /\ WaitingOf(r, old) = 0
         /\ BoughtOf(r, o) = 0 /\ SoldOf(r, o) = 0 /\ WaitingOf(r, o) = 0
         /\ FrozenOf(r, o) = (IF r.side = "BUY" THEN Reserve(r) ELSE 0)
         /\ HeldOf(r, o) = (IF r.side = "SELL" THEN r.quantity ELSE 0)
    BY <1>3, <1>17 DEF FrozenOf, HeldOf, BoughtOf, SoldOf, WaitingOf, OpenStates
  <1>21. Good(n)
    <2>1. /\ s.cash \in Int /\ s.frozen \in Int /\ s.total \in Int /\ s.available \in Int
          /\ s.held \in Int /\ s.frozen <= s.cash /\ s.available >= 0
      BY GoodOrder
    <2>2. /\ n.frozen = s.frozen - FrozenOf(r, old) + FrozenOf(r, o)
          /\ n.held = s.held - HeldOf(r, old) + HeldOf(r, o)
      BY <1>3, <1>16, <1>19, <1>20, <2>1
    <2>3. n.total = s.total - BoughtOf(r, old) + BoughtOf(r, o) + SoldOf(r, old) - SoldOf(r, o)
      BY <1>19, <1>20, <2>1
    <2>4. n.available + n.held - n.total + WaitingOf(r, o)
             = s.available + s.held - s.total + WaitingOf(r, old)
          /\ WaitingOf(r, old) <= WaitingOf(r, o)
      BY <1>3, <1>19, <1>20, <2>1
    <2>5. n.available >= 0 /\ n.frozen <= n.cash
      BY <1>3, <1>16, <1>19, <2>1 DEF Approvable
    <2>6. o.released = old.released
      BY <1>14, <1>17
    <2> QED  BY <1>1, <1>17, <1>18, <1>19, <2>2, <2>3, <2>4, <2>5, <2>6, Changed
  <1>22. Step(m, e2) = n
    BY <1>8, <1>13, <1>21, StepGood
  <1>23. Step(Step(s, AcceptEvent(r)), FreezeEvent(r)) = n
    BY <1>1, <1>11, <1>22
  <1> QED  BY <1>17, <1>19, <1>21, <1>23

OrderFilled(s, n, r) ==
    \E o \in OrderState : n.orders = [s.orders EXCEPT ![r] = o] /\ o.status = "filled"

\* A fill costs no more than was frozen, or pays out what is left of its worth.
LEMMA Filled ==
    ASSUME NEW s, Good(s), NEW r \in Requests, s.orders[r].status = "accepted",
           NEW price \in Nat \ {0},
           r.side = "BUY" => s.orders[r].cash + FillEvent(s, r, price).cash >= 0
    PROVE  LET n == Step(s, FillEvent(s, r, price))
           IN  Good(n) /\ OrderFilled(s, n, r)
  <1>1. PICK old, o, e, n : /\ old = s.orders[r] /\ o = [old EXCEPT !.status = "filled"]
                            /\ e = FillEvent(s, r, price) /\ n = Apply(s, e)
    OBVIOUS
  <1>2. s \in AccountState /\ s.sound
    BY DEF Good
  <1>3. /\ old \in OrderState /\ OrderOK(r, old) /\ old.status = "accepted"
        /\ r.quantity \in Nat \ {0} /\ r.limit \in Nat \ {0} /\ r.side \in {"BUY", "SELL"}
    BY <1>1, GoodOrder
  <1>4. PICK a : a = price * r.quantity
    OBVIOUS
  <1>5. a \in Nat \ {0} /\ Fee(a) \in Nat /\ Fee(a) <= a
    BY <1>3, <1>4, Notional
  <1>6. PICK q : q = r.quantity
    OBVIOUS
  <1>7. /\ e.type = "filled" /\ e.order = r /\ e.quantity = q
        /\ r.side = "BUY" => e.cash = - (a + Fee(a)) /\ e.frozen = - old.cash
        /\ r.side = "SELL" => e.cash = a - Fee(a) /\ e.frozen = 0
    BY <1>1, <1>4, <1>6 DEF FillEvent, Event
  <1>8. n = [s EXCEPT !.cash = @ + e.cash, !.frozen = @ + e.frozen,
                      !.total = @ + (IF r.side = "BUY" THEN q ELSE - q),
                      !.held = @ - (IF r.side = "BUY" THEN 0 ELSE q),
                      !.orders[r].status = "filled"]
    BY <1>1, <1>7 DEF Apply
  <1>9. /\ o \in OrderState /\ o.status = "filled" /\ o.cash = old.cash
        /\ o.quantity = old.quantity /\ o.released = old.released /\ old.cash \in Nat
    BY <1>1, <1>3 DEF OrderState
  <1>10. /\ n.orders = [s.orders EXCEPT ![r] = o] /\ n.sound
         /\ n.cash = s.cash + e.cash /\ n.frozen = s.frozen + e.frozen
         /\ n.total = s.total + (IF r.side = "BUY" THEN q ELSE - q)
         /\ n.held = s.held - (IF r.side = "BUY" THEN 0 ELSE q)
         /\ n.available = s.available
    BY <1>1, <1>2, <1>8 DEF AccountState
  <1>11. /\ s.cash \in Int /\ s.frozen \in Int /\ s.total \in Int /\ s.available \in Int
         /\ s.held \in Int /\ s.frozen <= s.cash /\ s.available >= 0 /\ q \in Nat
    BY <1>3, <1>6, GoodOrder
  <1>12. e.cash \in Int /\ e.frozen \in Int
    BY <1>3, <1>5, <1>7, <1>9
  <1>13. n \in AccountState
    <2>1. n.orders \in [Requests -> OrderState]
      BY <1>2, <1>9, <1>10 DEF AccountState
    <2>2. n = [s EXCEPT !.cash = n.cash, !.frozen = n.frozen, !.total = n.total,
                        !.held = n.held, !.orders = n.orders]
      BY <1>2, <1>8 DEF AccountState
    <2>3. n.cash \in Int /\ n.frozen \in Int /\ n.total \in Int /\ n.held \in Int
      BY <1>10, <1>11, <1>12
    <2> QED  BY <1>2, <2>1, <2>2, <2>3 DEF AccountState
  <1>14. OrderOK(r, o) /\ o.released = 0
    BY <1>3, <1>9 DEF OrderOK, OpenStates
  <1>15. /\ FrozenOf(r, old) = (IF r.side = "BUY" THEN old.cash ELSE 0)
         /\ HeldOf(r, old) = (IF r.side = "SELL" THEN q ELSE 0)
         /\ BoughtOf(r, old) = 0 /\ SoldOf(r, old) = 0 /\ WaitingOf(r, old) = 0
         /\ FrozenOf(r, o) = 0 /\ HeldOf(r, o) = 0
         /\ BoughtOf(r, o) = (IF r.side = "BUY" THEN q ELSE 0)
         /\ SoldOf(r, o) = (IF r.side = "SELL" THEN q ELSE 0)
         /\ WaitingOf(r, o) = (IF r.side = "BUY" THEN q ELSE 0)
    BY <1>3, <1>6, <1>9, <1>14 DEF FrozenOf, HeldOf, BoughtOf, SoldOf, WaitingOf, OpenStates
  <1>16. Good(n)
    <2>1. /\ n.frozen = s.frozen - FrozenOf(r, old) + FrozenOf(r, o)
          /\ n.held = s.held - HeldOf(r, old) + HeldOf(r, o)
      BY <1>3, <1>7, <1>9, <1>10, <1>11, <1>15
    <2>2. n.total = s.total - BoughtOf(r, old) + BoughtOf(r, o) + SoldOf(r, old) - SoldOf(r, o)
      BY <1>3, <1>10, <1>11, <1>15
    <2>3. n.available + n.held - n.total + WaitingOf(r, o)
             = s.available + s.held - s.total + WaitingOf(r, old)
          /\ WaitingOf(r, old) <= WaitingOf(r, o)
      BY <1>3, <1>10, <1>11, <1>15
    <2>4. n.available >= 0 /\ n.frozen <= n.cash
      <3>1. CASE r.side = "BUY"
        <4>1. old.cash + e.cash >= 0
          BY <1>1, <3>1
        <4> QED  BY <1>7, <1>9, <1>10, <1>11, <1>12, <3>1, <4>1
      <3>2. CASE r.side = "SELL"
        BY <1>5, <1>7, <1>10, <1>11, <3>2
      <3> QED  BY <1>3, <3>1, <3>2
    <2>5. old = s.orders[r] /\ n.orders = [s.orders EXCEPT ![r] = o] /\ n.sound
      BY <1>1, <1>10
    <2> QED  BY <1>9, <1>13, <1>14, <2>1, <2>2, <2>3, <2>4, <2>5, Changed
  <1>17. Step(s, e) = n
    BY <1>1, <1>2, <1>16, StepGood
  <1> QED  BY <1>1, <1>9, <1>10, <1>16, <1>17 DEF OrderFilled

LEMMA FilledTo ==
    ASSUME NEW s, Good(s), NEW r \in Requests, s.orders[r].status = "accepted",
           NEW price \in Nat \ {0}, NEW e, e = FillEvent(s, r, price),
           r.side = "BUY" => s.orders[r].cash + e.cash >= 0,
           NEW n, n = Step(s, e)
    PROVE  Good(n) /\ OrderFilled(s, n, r)
  <1>1. r.side = "BUY" => s.orders[r].cash + FillEvent(s, r, price).cash >= 0
    OBVIOUS
  <1>2. Good(Step(s, FillEvent(s, r, price))) /\ OrderFilled(s, Step(s, FillEvent(s, r, price)), r)
    BY <1>1, Filled
  <1> QED  BY <1>2

\* What cancel_order appends.
CancelEvent(s, r) ==
    [Event("cancelled", r) EXCEPT !.cash = s.orders[r].cash, !.quantity = s.orders[r].quantity]

LEMMA Cancelled ==
    ASSUME NEW s, Good(s), NEW r \in Requests, s.orders[r].status \in OpenStates
    PROVE  LET n == Step(s, CancelEvent(s, r))
           IN  Good(n) /\ \E o \in OrderState : /\ n.orders = [s.orders EXCEPT ![r] = o]
                                                /\ o.status = "cancelled"
  <1>1. PICK old, o, e, n : /\ old = s.orders[r] /\ e = CancelEvent(s, r) /\ n = Apply(s, e)
                            /\ o = [old EXCEPT !.status = "cancelled", !.cash = 0, !.quantity = 0]
    OBVIOUS
  <1>2. s \in AccountState /\ s.sound
    BY DEF Good
  <1>3. /\ old \in OrderState /\ OrderOK(r, old) /\ old.status \in OpenStates
        /\ r.quantity \in Nat \ {0} /\ r.side \in {"BUY", "SELL"}
    BY <1>1, GoodOrder
  <1>4. /\ e.type = "cancelled" /\ e.order = r /\ e.cash = old.cash /\ e.quantity = old.quantity
    BY <1>1 DEF CancelEvent, Event
  <1>5. n = [s EXCEPT !.frozen = @ - e.cash, !.available = @ + e.quantity,
                      !.held = @ - e.quantity,
                      !.orders[r] = [@ EXCEPT !.status = "cancelled", !.cash = 0, !.quantity = 0]]
    BY <1>1, <1>4 DEF Apply
  <1>6. /\ o \in OrderState /\ o.status = "cancelled" /\ o.cash = 0 /\ o.quantity = 0
        /\ o.released = old.released /\ old.cash \in Nat /\ old.quantity \in Nat
    BY <1>1, <1>3 DEF OrderState
  <1>7. /\ n.orders = [s.orders EXCEPT ![r] = o] /\ n.sound
        /\ n.cash = s.cash /\ n.frozen = s.frozen - old.cash /\ n.total = s.total
        /\ n.held = s.held - old.quantity /\ n.available = s.available + old.quantity
    BY <1>1, <1>2, <1>4, <1>5 DEF AccountState
  <1>8. /\ s.cash \in Int /\ s.frozen \in Int /\ s.total \in Int /\ s.available \in Int
        /\ s.held \in Int /\ s.frozen <= s.cash /\ s.available >= 0
    BY GoodOrder
  <1>9. n \in AccountState
    <2>1. n.orders \in [Requests -> OrderState]
      BY <1>2, <1>6, <1>7 DEF AccountState
    <2>2. n = [s EXCEPT !.frozen = n.frozen, !.available = n.available,
                        !.held = n.held, !.orders = n.orders]
      BY <1>2, <1>5 DEF AccountState
    <2>3. n.frozen \in Int /\ n.available \in Int /\ n.held \in Int
      BY <1>6, <1>7, <1>8
    <2> QED  BY <1>2, <2>1, <2>2, <2>3 DEF AccountState
  <1>10. OrderOK(r, o)
    BY <1>3, <1>6 DEF OrderOK, OpenStates
  <1>11. /\ r.side = "BUY" => old.quantity = 0
         /\ r.side = "SELL" => old.cash = 0 /\ old.quantity = r.quantity
    BY <1>3 DEF OrderOK
  <1>12. /\ FrozenOf(r, old) = old.cash /\ HeldOf(r, old) = old.quantity
         /\ BoughtOf(r, old) = 0 /\ SoldOf(r, old) = 0 /\ WaitingOf(r, old) = 0
         /\ FrozenOf(r, o) = 0 /\ HeldOf(r, o) = 0
         /\ BoughtOf(r, o) = 0 /\ SoldOf(r, o) = 0 /\ WaitingOf(r, o) = 0
    BY <1>3, <1>6, <1>11 DEF FrozenOf, HeldOf, BoughtOf, SoldOf, WaitingOf, OpenStates
  <1>13. Good(n)
    <2>1. /\ n.frozen = s.frozen - FrozenOf(r, old) + FrozenOf(r, o)
          /\ n.held = s.held - HeldOf(r, old) + HeldOf(r, o)
          /\ n.total = s.total - BoughtOf(r, old) + BoughtOf(r, o) + SoldOf(r, old) - SoldOf(r, o)
      BY <1>6, <1>7, <1>8, <1>12
    <2>2. n.available + n.held - n.total + WaitingOf(r, o)
             = s.available + s.held - s.total + WaitingOf(r, old)
          /\ WaitingOf(r, old) <= WaitingOf(r, o)
      BY <1>6, <1>7, <1>8, <1>12
    <2>3. n.available >= 0 /\ n.frozen <= n.cash
      BY <1>6, <1>7, <1>8
    <2>4. old = s.orders[r] /\ n.orders = [s.orders EXCEPT ![r] = o] /\ n.sound
      BY <1>1, <1>7
    <2> QED  BY <1>6, <1>9, <1>10, <2>1, <2>2, <2>3, <2>4, Changed
  <1>14. Step(s, e) = n
    BY <1>1, <1>2, <1>13, StepGood
  <1> QED  BY <1>1, <1>6, <1>7, <1>13, <1>14

\* What release_t1 appends: the first release of an order frees what it
\* bought, a second one may claim more than there is.
ReleaseEvent(r) == [Event("t1_released", r) EXCEPT !.quantity = r.quantity]

LEMMA ReleasedOnceOrBroken ==
    ASSUME NEW s, Good(s), NEW r \in Requests, s.orders[r].status = "filled", r.side = "BUY"
    PROVE  LET n == Step(s, ReleaseEvent(r))
           IN  /\ n \in AccountState
               /\ Good(n) \/ (~ n.sound /\ ReleasedTwice(n))
               /\ \E o \in OrderState : /\ n.orders = [s.orders EXCEPT ![r] = o]
                                        /\ o.status = "filled"
  <1>1. PICK old, o, e, m : /\ old = s.orders[r] /\ e = ReleaseEvent(r) /\ m = Apply(s, e)
                            /\ o = [old EXCEPT !.released = @ + 1]
    OBVIOUS
  <1>2. s \in AccountState /\ s.sound /\ Sound(s)
    BY DEF Good
  <1>3. /\ old \in OrderState /\ OrderOK(r, old) /\ old.status = "filled"
        /\ r.quantity \in Nat \ {0}
    BY <1>1, GoodOrder
  <1>4. e.type = "t1_released" /\ e.order = r /\ e.quantity = r.quantity
    BY <1>1 DEF ReleaseEvent, Event
  <1>5. m = [s EXCEPT !.available = @ + r.quantity, !.orders[r].released = @ + 1]
    BY <1>1, <1>4 DEF Apply
  <1>6. /\ o \in OrderState /\ o.status = "filled" /\ o.cash = old.cash
        /\ o.quantity = old.quantity /\ o.released = old.released + 1 /\ old.released \in Nat
    BY <1>1, <1>3 DEF OrderState
  <1>7. /\ m.orders = [s.orders EXCEPT ![r] = o] /\ m.sound = TRUE
        /\ m.cash = s.cash /\ m.frozen = s.frozen /\ m.total = s.total
        /\ m.held = s.held /\ m.available = s.available + r.quantity
    BY <1>1, <1>2, <1>5 DEF AccountState
  <1>8. /\ s.cash \in Int /\ s.frozen \in Int /\ s.total \in Int /\ s.available \in Int
        /\ s.held \in Int /\ s.frozen <= s.cash /\ s.available >= 0 /\ s.frozen >= 0
        /\ s.held >= 0 /\ s.total >= 0
    BY GoodOrder
  <1>9. m \in AccountState
    <2>1. m.orders \in [Requests -> OrderState]
      BY <1>2, <1>6, <1>7 DEF AccountState
    <2>2. m = [s EXCEPT !.available = m.available, !.orders = m.orders]
      BY <1>2, <1>5 DEF AccountState
    <2>3. m.available \in Int
      BY <1>3, <1>7, <1>8
    <2> QED  BY <1>2, <2>1, <2>2, <2>3 DEF AccountState
  <1>10. /\ m.orders[r] = o /\ \A x \in Requests : x # r => m.orders[x] = s.orders[x]
    BY <1>2, <1>7 DEF AccountState
  <1>11. /\ FrozenSum(m) = FrozenSum(s) - FrozenOf(r, old) + FrozenOf(r, o)
         /\ HeldSum(m) = HeldSum(s) - HeldOf(r, old) + HeldOf(r, o)
         /\ BoughtSum(m) = BoughtSum(s) - BoughtOf(r, old) + BoughtOf(r, o)
         /\ SoldSum(m) = SoldSum(s) - SoldOf(r, old) + SoldOf(r, o)
         /\ WaitingSum(m) = WaitingSum(s) - WaitingOf(r, old) + WaitingOf(r, o)
    BY <1>1, <1>2, <1>6, <1>7, <1>9, OrderMoved
  <1>12. /\ FrozenOf(r, old) = 0 /\ HeldOf(r, old) = 0 /\ SoldOf(r, old) = 0
         /\ FrozenOf(r, o) = 0 /\ HeldOf(r, o) = 0 /\ SoldOf(r, o) = 0
         /\ BoughtOf(r, old) = r.quantity /\ BoughtOf(r, o) = r.quantity
         /\ WaitingOf(r, o) = 0
         /\ WaitingOf(r, old) = (IF old.released = 0 THEN r.quantity ELSE 0)
    BY <1>3, <1>6 DEF FrozenOf, HeldOf, BoughtOf, SoldOf, WaitingOf, OpenStates
  <1>13. /\ FrozenSum(s) \in Nat /\ HeldSum(s) \in Nat /\ BoughtSum(s) \in Nat
         /\ SoldSum(s) \in Nat /\ WaitingSum(s) \in Nat /\ WaitingSum(m) \in Nat
    BY <1>2, <1>9, Totals
  <1>14. m.frozen = FrozenSum(m) /\ m.held = HeldSum(m) /\ m.total = BoughtSum(m) - SoldSum(m)
    BY <1>3, <1>7, <1>11, <1>12, <1>13 DEF Good
  <1>15. ReleasedTwice(s) => ReleasedTwice(m)
    <2>1. ASSUME NEW x \in Requests, s.orders[x].released > 1  PROVE m.orders[x].released > 1
      <3>1. CASE x = r
        <4>1. m.orders[x].released = old.released + 1 /\ old.released > 1
          BY <1>1, <1>6, <1>10, <2>1, <3>1
        <4> QED  BY <1>6, <4>1
      <3>2. CASE x # r
        BY <1>10, <2>1, <3>2
      <3> QED  BY <3>1, <3>2
    <2> QED  BY <2>1 DEF ReleasedTwice
  <1>16. ASSUME ~ ReleasedTwice(m)
         PROVE  m.available + m.held = m.total - WaitingSum(m)
    <2>1. old.released = 0
      BY <1>6, <1>10, <1>16 DEF ReleasedTwice
    <2>2. s.available + s.held = s.total - WaitingSum(s)
      BY <1>15, <1>16 DEF Good
    <2>3. WaitingSum(m) = WaitingSum(s) - r.quantity
      BY <1>3, <1>11, <1>12, <1>13, <2>1
    <2> QED  BY <1>3, <1>7, <1>8, <1>13, <2>2, <2>3
  <1>17. ~ ReleasedTwice(m) => Sound(m)
    <2>1. ASSUME ~ ReleasedTwice(m)  PROVE Sound(m)
      <3>1. m.available + m.held <= m.total
        BY <1>3, <1>7, <1>8, <1>13, <1>16, <2>1
      <3> QED  BY <1>3, <1>7, <1>8, <3>1 DEF Sound
    <2> QED  BY <2>1
  <1>18. \A x \in Requests : OrderOK(x, m.orders[x])
    <2>1. OrderOK(r, o)
      BY <1>6 DEF OrderOK, OpenStates
    <2> QED  BY <1>10, <2>1 DEF Good
  <1>19. Step(s, e) = [m EXCEPT !.sound = Sound(m)]
    BY <1>1, <1>2 DEF Step
  <1>20. CASE Sound(m)
    <2>1. Good(m)
      BY <1>7, <1>9, <1>14, <1>16, <1>18, <1>20 DEF Good
    <2>2. Step(s, e) = m
      BY <1>1, <1>2, <2>1, StepGood
    <2>3. \E p \in OrderState : m.orders = [s.orders EXCEPT ![r] = p] /\ p.status = "filled"
      BY <1>6, <1>7
    <2>4. Step(s, ReleaseEvent(r)) = m
      BY <1>1, <2>2
    <2>5. Good(m) \/ (~ m.sound /\ ReleasedTwice(m))
      BY <2>1
    <2> QED  BY <1>9, <2>3, <2>4, <2>5, Zenon
  <1>21. CASE ~ Sound(m)
    <2>1. PICK n : n = [m EXCEPT !.sound = FALSE]
      OBVIOUS
    <2>2. Sound(m) = FALSE
      BY <1>21 DEF Sound
    <2>3. Step(s, e) = n
      BY <1>19, <2>1, <2>2
    <2>4. n \in AccountState /\ n.orders = m.orders /\ n.sound = FALSE
      BY <1>9, <2>1 DEF AccountState
    <2>5. ReleasedTwice(n)
      BY <1>17, <1>21, <2>4 DEF ReleasedTwice
    <2>6. \E p \in OrderState : n.orders = [s.orders EXCEPT ![r] = p] /\ p.status = "filled"
      BY <1>6, <1>7, <2>4
    <2>7. Step(s, ReleaseEvent(r)) = n
      BY <1>1, <2>3
    <2>8. ~ n.sound
      BY <2>4
    <2> QED  BY <2>4, <2>5, <2>6, <2>7, <2>8, Zenon
  <1> QED  BY <1>20, <1>21

-----------------------------------------------------------------------------
(* The paper account: its invariant.  As long as the events fold without   *)
(* raising, the account is good and the keys name the orders submitted; it *)
(* raises only once an order was released twice.                           *)

EventSet ==
    [type : {"submitted", "accepted", "rejected", "cash_frozen", "quantity_frozen", "unfilled",
             "filled", "cancelled", "t1_released"},
     order : Requests, cash : Int, frozen : Int, quantity : Int]

FillKeepsLimit(e) ==
    e.type = "filled" =>
       IF e.order.side = "BUY" THEN - e.cash <= - e.frozen
       ELSE e.cash >= e.order.limit * e.quantity - Fee(e.order.limit * e.quantity)

KeysKept(s, keys) ==
    \A r \in Requests :
       (s.orders[r].status # "none") <=> (r.key \in DOMAIN keys /\ keys[r.key] = r)

Kept(s, keys) ==
    /\ s \in AccountState
    /\ s.sound => Good(s) /\ KeysKept(s, keys)
    /\ ~ s.sound => ReleasedTwice(s)

EventsInv ==
    /\ events \in Seq(EventSet) /\ Len(events) <= MaxEvents
    /\ \A i \in 1 .. Len(events) : FillKeepsLimit(events[i])
KeysInv == \A k \in DOMAIN idempotency : idempotency[k] \in Requests /\ idempotency[k].key = k

PaperInv == EventsInv /\ KeysInv /\ ReferencesInv /\ Kept(Account, idempotency)

LEMMA AccountIs == Account = AccountOf(events) /\ Account' = AccountOf(events')
  BY DEF Account, AccountOf

LEMMA EventTyped ==
    ASSUME NEW r \in Requests,
           NEW type \in {"submitted", "accepted", "rejected", "unfilled", "filled", "cancelled",
                         "t1_released", "cash_frozen", "quantity_frozen"},
           NEW c \in Int, NEW f \in Int, NEW q \in Int
    PROVE  [type |-> type, order |-> r, cash |-> c, frozen |-> f, quantity |-> q] \in EventSet
  BY DEF EventSet

LEMMA AppendedOne ==
    ASSUME EventsInv, Len(events) + 1 <= MaxEvents, NEW e \in EventSet, FillKeepsLimit(e),
           events' = Append(events, e)
    PROVE  EventsInv' /\ Account' = Step(Account, e)
  <1>1. events \in Seq(EventSet) /\ \A i \in 1 .. Len(events) : FillKeepsLimit(events[i])
    BY DEF EventsInv
  <1>2. /\ events' \in Seq(EventSet) /\ Len(events') = Len(events) + 1
        /\ events'[Len(events) + 1] = e /\ \A i \in 1 .. Len(events) : events'[i] = events[i]
        /\ Len(events) \in Nat
    BY <1>1
  <1>3. \A i \in 1 .. Len(events') : FillKeepsLimit(events'[i])
    <2> SUFFICES ASSUME NEW i \in 1 .. Len(events')  PROVE FillKeepsLimit(events'[i])
      OBVIOUS
    <2>1. CASE i = Len(events) + 1
      BY <1>2, <2>1
    <2>2. CASE i # Len(events) + 1
      <3>1. i \in 1 .. Len(events)
        BY <1>2, <2>2
      <3>2. events'[i] = events[i] /\ FillKeepsLimit(events[i])
        BY <1>1, <1>2, <3>1
      <3> QED  BY <3>2
    <2> QED  BY <2>1, <2>2
  <1>4. EventsInv'
    BY <1>2, <1>3 DEF EventsInv
  <1>5. AccountOf(events') = Step(AccountOf(events), e)
    BY <1>1, AccountAppend
  <1> QED  BY <1>4, <1>5, AccountIs

LEMMA AppendedTwo ==
    ASSUME EventsInv, Len(events) + 2 <= MaxEvents, NEW e \in EventSet, NEW d \in EventSet,
           FillKeepsLimit(e), FillKeepsLimit(d), events' = events \o <<e, d>>
    PROVE  EventsInv' /\ Account' = Step(Step(Account, e), d)
  <1>1. events \in Seq(EventSet) /\ \A i \in 1 .. Len(events) : FillKeepsLimit(events[i])
    BY DEF EventsInv
  <1>2. PICK half : half = Append(events, e)
    OBVIOUS
  <1>3. half \in Seq(EventSet) /\ events' = Append(half, d)
    BY <1>1, <1>2
  <1>4. /\ events' \in Seq(EventSet) /\ Len(events') = Len(events) + 2
        /\ events'[Len(events) + 1] = e /\ events'[Len(events) + 2] = d
        /\ \A i \in 1 .. Len(events) : events'[i] = events[i]
        /\ Len(events) \in Nat
    BY <1>1
  <1>5. \A i \in 1 .. Len(events') : FillKeepsLimit(events'[i])
    <2> SUFFICES ASSUME NEW i \in 1 .. Len(events')  PROVE FillKeepsLimit(events'[i])
      OBVIOUS
    <2>1. i = Len(events) + 1 \/ i = Len(events) + 2 \/ i \in 1 .. Len(events)
      BY <1>4
    <2>2. CASE i = Len(events) + 1
      BY <1>4, <2>2
    <2>3. CASE i = Len(events) + 2
      BY <1>4, <2>3
    <2>4. CASE i \in 1 .. Len(events)
      <3>1. events'[i] = events[i] /\ FillKeepsLimit(events[i])
        BY <1>1, <1>4, <2>4
      <3> QED  BY <3>1
    <2> QED  BY <2>1, <2>2, <2>3, <2>4
  <1>6. EventsInv'
    BY <1>4, <1>5 DEF EventsInv
  <1>7. AccountOf(half) = Step(AccountOf(events), e)
    BY <1>1, <1>2, AccountAppend
  <1>8. AccountOf(events') = Step(AccountOf(half), d)
    BY <1>3, AccountAppend
  <1> QED  BY <1>6, <1>7, <1>8, AccountIs

LEMMA KeysAfter ==
    ASSUME NEW s \in AccountState, NEW n, NEW keys, KeysKept(s, keys), NEW r \in Requests,
           s.orders[r].status # "none",
           \E o \in OrderState : n.orders = [s.orders EXCEPT ![r] = o] /\ o.status # "none"
    PROVE  KeysKept(n, keys)
  <1>1. PICK o \in OrderState : n.orders = [s.orders EXCEPT ![r] = o] /\ o.status # "none"
    OBVIOUS
  <1>2. n.orders[r] = o /\ \A x \in Requests : x # r => n.orders[x] = s.orders[x]
    BY <1>1 DEF AccountState
  <1> QED  BY <1>1, <1>2 DEF KeysKept

LEMMA SubmitStep ==
    ASSUME PaperInv, NEW r \in Requests, SubmitOrder(r)
    PROVE  PaperInv'
  <1>1. PICK s, e : s = Account /\ e = Event("submitted", r)
    OBVIOUS
  <1>2. /\ Len(events) + 1 <= MaxEvents /\ events' = Append(events, e)
        /\ r.key \notin DOMAIN idempotency /\ references' = references
        /\ idempotency' = [k \in DOMAIN idempotency \cup {r.key} |->
                              IF k = r.key THEN r ELSE idempotency[k]]
    BY <1>1 DEF SubmitOrder, Room
  <1>3. e.type = "submitted" /\ e.order = r /\ e \in EventSet /\ FillKeepsLimit(e)
    BY <1>1, EventTyped DEF Event, FillKeepsLimit
  <1>4. EventsInv' /\ Account' = Step(s, e)
    BY <1>1, <1>2, <1>3, AppendedOne DEF PaperInv
  <1>5. KeysInv'
    BY <1>2 DEF PaperInv, KeysInv
  <1>6. ReferencesInv'
    BY <1>2 DEF PaperInv, ReferencesInv
  <1>7. Kept(s, idempotency)
    BY <1>1 DEF PaperInv
  <1>8. Kept(Step(s, e), idempotency')
    <2>1. CASE s.sound
      <3>1. Good(s) /\ KeysKept(s, idempotency) /\ s \in AccountState
        BY <1>7, <2>1 DEF Kept
      <3>2. s.orders[r].status = "none"
        BY <1>2, <3>1 DEF KeysKept
      <3>3. PICK n : n = Step(s, e)
        OBVIOUS
      <3>4. Good(n) /\ n.orders = [s.orders EXCEPT ![r].status = "submitted"]
        BY <1>3, <3>1, <3>2, <3>3, Relabelled
      <3>5. n.orders[r].status = "submitted" /\ \A x \in Requests : x # r => n.orders[x] = s.orders[x]
        BY <3>1, <3>4 DEF AccountState, OrderState
      <3>6. ASSUME NEW x \in Requests
            PROVE  (n.orders[x].status # "none")
                   <=> (x.key \in DOMAIN idempotency' /\ idempotency'[x.key] = x)
        <4>1. CASE x = r
          BY <1>2, <3>5, <4>1
        <4>2. CASE x # r
          <5>1. (s.orders[x].status # "none")
                <=> (x.key \in DOMAIN idempotency /\ idempotency[x.key] = x)
            BY <3>1 DEF KeysKept
          <5>2. n.orders[x] = s.orders[x]
            BY <3>5, <4>2
          <5>3. CASE x.key = r.key
            BY <1>2, <4>2, <5>1, <5>2, <5>3
          <5>4. CASE x.key # r.key
            BY <1>2, <5>1, <5>2, <5>4
          <5> QED  BY <5>3, <5>4
        <4> QED  BY <4>1, <4>2
      <3>7. KeysKept(n, idempotency')
        BY <3>6 DEF KeysKept
      <3> QED  BY <3>3, <3>4, <3>7 DEF Kept, Good
    <2>2. CASE ~ s.sound
      <3>1. Step(s, e) = s
        BY <2>2 DEF Step
      <3> QED  BY <1>7, <2>2, <3>1 DEF Kept
    <2> QED  BY <2>1, <2>2
  <1> QED  BY <1>4, <1>5, <1>6, <1>8 DEF PaperInv

\* Of the orders only r changes, and it is not lost.
OrderReplaced(s, n, r) ==
    \E o \in OrderState : n.orders = [s.orders EXCEPT ![r] = o] /\ o.status # "none"

\* What the operations that rebuild leave alone, and what is left to show.
LEMMA OperationKeeps ==
    ASSUME PaperInv, idempotency' = idempotency, references' = references, EventsInv',
           NEW s, s = Account, s.sound, NEW n, n = Account', NEW r \in Requests,
           s.orders[r].status # "none",
           n \in AccountState, Good(n) \/ (~ n.sound /\ ReleasedTwice(n)),
           OrderReplaced(s, n, r)
    PROVE  PaperInv'
  <1>1. s \in AccountState /\ Good(s) /\ KeysKept(s, idempotency)
    BY DEF PaperInv, Kept
  <1>2. KeysKept(n, idempotency)
    BY <1>1, KeysAfter DEF OrderReplaced
  <1>3. Kept(n, idempotency)
    BY <1>2 DEF Kept, Good
  <1>4. KeysInv' /\ ReferencesInv'
    BY DEF PaperInv, KeysInv, ReferencesInv
  <1> QED  BY <1>3, <1>4 DEF PaperInv

LEMMA ApproveStep ==
    ASSUME PaperInv, NEW r \in Requests, Account.sound, Approve(Account, r)
    PROVE  PaperInv'
  <1>1. PICK s : s = Account
    OBVIOUS
  <1>2. PICK e, d : e = AcceptEvent(r) /\ d = FreezeEvent(r)
    OBVIOUS
  <1>3. /\ s.orders[r].status = "submitted" /\ Approvable(s, r) /\ Len(events) + 2 <= MaxEvents
        /\ events' = events \o <<e, d>>
        /\ idempotency' = idempotency /\ references' = references
    BY <1>1, <1>2 DEF Approve, Emit, Room, AcceptEvent, FreezeEvent
  <1>4. Good(s) /\ s.sound
    BY <1>1 DEF PaperInv, Kept
  <1>5. e \in EventSet /\ e.type = "accepted"
    BY <1>2, EventTyped DEF AcceptEvent, Event
  <1>6. d \in EventSet /\ d.type # "filled"
    <2>1. Reserve(r) \in Int /\ r.quantity \in Int
      BY ReserveIs, RequestsAssumption
    <2>2. CASE r.side = "BUY"
      <3>1. d = [type |-> "cash_frozen", order |-> r, cash |-> Reserve(r), frozen |-> 0,
                 quantity |-> 0]
        BY <1>2, <2>2 DEF FreezeEvent, Event
      <3> QED  BY <2>1, <3>1, EventTyped
    <2>3. CASE r.side # "BUY"
      <3>1. d = [type |-> "quantity_frozen", order |-> r, cash |-> 0, frozen |-> 0,
                 quantity |-> r.quantity]
        BY <1>2, <2>3 DEF FreezeEvent, Event
      <3> QED  BY <2>1, <3>1, EventTyped
    <2> QED  BY <2>2, <2>3
  <1>7. FillKeepsLimit(e) /\ FillKeepsLimit(d)
    BY <1>5, <1>6 DEF FillKeepsLimit
  <1>8. PICK n : n = Account'
    OBVIOUS
  <1>9. EventsInv' /\ n = Step(Step(s, e), d)
    BY <1>1, <1>3, <1>5, <1>6, <1>7, <1>8, AppendedTwo DEF PaperInv
  <1>10. /\ Good(n)
         /\ \E o \in OrderState : n.orders = [s.orders EXCEPT ![r] = o] /\ o.status = "accepted"
    <2>1. s.orders[r].status = "submitted" /\ Approvable(s, r)
      BY <1>3
    <2>2. n = Step(Step(s, AcceptEvent(r)), FreezeEvent(r))
      BY <1>2, <1>9
    <2> QED  BY <1>4, <2>1, <2>2, Approved
  <1>11. OrderReplaced(s, n, r)
    BY <1>10 DEF OrderReplaced
  <1>12. n \in AccountState /\ s.orders[r].status # "none"
    BY <1>3, <1>10 DEF Good
  <1>13. idempotency' = idempotency /\ references' = references
    BY <1>3
  <1> QED  BY <1>1, <1>4, <1>8, <1>9, <1>10, <1>11, <1>12, <1>13, OperationKeeps

LEMMA RejectStep ==
    ASSUME PaperInv, NEW r \in Requests, Account.sound, Reject(Account, r)
    PROVE  PaperInv'
  <1>1. PICK s, e, n : s = Account /\ e = Event("rejected", r) /\ n = Account'
    OBVIOUS
  <1>2. /\ s.orders[r].status = "submitted" /\ Len(events) + 1 <= MaxEvents
        /\ events' = events \o <<e>>
        /\ idempotency' = idempotency /\ references' = references
    BY <1>1 DEF Reject, Emit, Room
  <1>3. Good(s) /\ s.sound /\ s \in AccountState
    BY <1>1 DEF PaperInv, Kept
  <1>4. e \in EventSet /\ e.type = "rejected" /\ e.order = r /\ FillKeepsLimit(e)
    BY <1>1, EventTyped DEF Event, FillKeepsLimit
  <1>5. events' = Append(events, e)
    BY <1>2, <1>4 DEF PaperInv, EventsInv
  <1>6. EventsInv' /\ n = Step(s, e)
    BY <1>1, <1>2, <1>4, <1>5, AppendedOne DEF PaperInv
  <1>7. Good(n) /\ n.orders = [s.orders EXCEPT ![r].status = "rejected"]
    <2>1. s.orders[r].status = "submitted"
      BY <1>2
    <2>2. n = Step(s, e)
      BY <1>6
    <2>3. Good(Step(s, e)) /\ Step(s, e).orders = [s.orders EXCEPT ![r].status = e.type]
      BY <1>3, <1>4, <2>1, Relabelled
    <2> QED  BY <1>4, <2>2, <2>3
  <1>8. PICK o : o = [s.orders[r] EXCEPT !.status = "rejected"]
    OBVIOUS
  <1>9. o \in OrderState /\ o.status = "rejected" /\ n.orders = [s.orders EXCEPT ![r] = o]
    BY <1>3, <1>7, <1>8 DEF AccountState, OrderState
  <1>10. n \in AccountState /\ s.orders[r].status # "none"
    BY <1>2, <1>7 DEF Good
  <1>11. OrderReplaced(s, n, r)
    BY <1>9 DEF OrderReplaced
  <1> QED  BY <1>1, <1>2, <1>3, <1>6, <1>7, <1>10, <1>11, OperationKeeps

LEMMA CancelStep ==
    ASSUME PaperInv, NEW r \in Requests, Account.sound, CancelOrder(Account, r)
    PROVE  PaperInv'
  <1>1. PICK s, e, n : s = Account /\ e = CancelEvent(s, r) /\ n = Account'
    OBVIOUS
  <1>2. /\ s.orders[r].status \in OpenStates /\ Len(events) + 1 <= MaxEvents
        /\ events' = events \o <<e>>
        /\ idempotency' = idempotency /\ references' = references
    BY <1>1 DEF CancelOrder, Emit, Room, CancelEvent, OpenStates
  <1>3. Good(s) /\ s.sound /\ s \in AccountState
    BY <1>1 DEF PaperInv, Kept
  <1>4. s.orders[r].cash \in Int /\ s.orders[r].quantity \in Int
    BY <1>3 DEF AccountState, OrderState
  <1>5. e = [type |-> "cancelled", order |-> r, cash |-> s.orders[r].cash, frozen |-> 0,
             quantity |-> s.orders[r].quantity]
    BY <1>1 DEF CancelEvent, Event
  <1>6. e \in EventSet /\ FillKeepsLimit(e)
    BY <1>4, <1>5, EventTyped DEF FillKeepsLimit
  <1>7. events' = Append(events, e)
    BY <1>2, <1>6 DEF PaperInv, EventsInv
  <1>8. EventsInv' /\ n = Step(s, e)
    BY <1>1, <1>2, <1>6, <1>7, AppendedOne DEF PaperInv
  <1>9. /\ Good(n)
        /\ \E o \in OrderState : n.orders = [s.orders EXCEPT ![r] = o] /\ o.status = "cancelled"
    <2>1. s.orders[r].status \in OpenStates
      BY <1>2
    <2>2. n = Step(s, CancelEvent(s, r))
      BY <1>1, <1>8
    <2> QED  BY <1>3, <2>1, <2>2, Cancelled
  <1>10. OrderReplaced(s, n, r)
    BY <1>9 DEF OrderReplaced
  <1>11. n \in AccountState /\ s.orders[r].status # "none"
    BY <1>2, <1>9 DEF Good, OpenStates
  <1> QED  BY <1>1, <1>2, <1>3, <1>8, <1>9, <1>10, <1>11, OperationKeeps

LEMMA ReleaseStep ==
    ASSUME PaperInv, NEW r \in Requests, Account.sound, ReleaseT1(Account, r)
    PROVE  PaperInv'
  <1>1. PICK s, e, n : s = Account /\ e = ReleaseEvent(r) /\ n = Account'
    OBVIOUS
  <1>2. /\ s.orders[r].status = "filled" /\ r.side = "BUY" /\ Len(events) + 1 <= MaxEvents
        /\ events' = events \o <<e>>
        /\ idempotency' = idempotency /\ references' = references
    BY <1>1 DEF ReleaseT1, Emit, Room, ReleaseEvent
  <1>3. Good(s) /\ s.sound /\ s \in AccountState
    BY <1>1 DEF PaperInv, Kept
  <1>4. r.quantity \in Int
    BY RequestsAssumption
  <1>5. e = [type |-> "t1_released", order |-> r, cash |-> 0, frozen |-> 0,
             quantity |-> r.quantity]
    BY <1>1 DEF ReleaseEvent, Event
  <1>6. e \in EventSet /\ FillKeepsLimit(e)
    BY <1>4, <1>5, EventTyped DEF FillKeepsLimit
  <1>7. events' = Append(events, e)
    BY <1>2, <1>6 DEF PaperInv, EventsInv
  <1>8. EventsInv' /\ n = Step(s, e)
    BY <1>1, <1>2, <1>6, <1>7, AppendedOne DEF PaperInv
  <1>9. /\ n \in AccountState
        /\ Good(n) \/ (~ n.sound /\ ReleasedTwice(n))
        /\ \E o \in OrderState : n.orders = [s.orders EXCEPT ![r] = o] /\ o.status = "filled"
    <2>1. s.orders[r].status = "filled" /\ r.side = "BUY"
      BY <1>2
    <2>2. n = Step(s, ReleaseEvent(r))
      BY <1>1, <1>8
    <2> QED  BY <1>3, <2>1, <2>2, ReleasedOnceOrBroken
  <1>10. OrderReplaced(s, n, r)
    BY <1>9 DEF OrderReplaced
  <1>11. s.orders[r].status # "none"
    BY <1>2
  <1> QED  BY <1>1, <1>2, <1>3, <1>8, <1>9, <1>10, <1>11, OperationKeeps

LEMMA ExecuteOrderStep ==
    ASSUME PaperInv, NEW r \in Requests, Account.sound, Execute(Account, r)
    PROVE  PaperInv'
  <1>1. PICK s, n : s = Account /\ n = Account'
    OBVIOUS
  <1>2. PICK reference \in references :
          LET price == Slipped(reference.price, r.side)
          IN /\ \/ /\ Executable(r, price)
                   /\ r.side = "BUY" => s.orders[r].cash + FillEvent(s, r, price).cash >= 0
                   /\ Emit(<<FillEvent(s, r, price)>>)
                \/ ~ Executable(r, price) /\ Emit(<<Event("unfilled", r)>>)
    BY <1>1 DEF Execute
  <1>3. PICK price : price = Slipped(reference.price, r.side)
    OBVIOUS
  <1>4. reference.price = 1050
    BY DEF PaperInv, ReferencesInv
  <1>5. price \in Nat \ {0}
    BY <1>3, <1>4 DEF Slipped
  <1>6. Good(s) /\ s.sound /\ s \in AccountState /\ s.orders[r].status = "accepted"
        /\ Len(events) + 1 <= MaxEvents
    BY <1>1 DEF PaperInv, Kept, Execute, Room
  <1>7. r.side \in {"BUY", "SELL"} /\ r.quantity \in Nat \ {0} /\ r.limit \in Nat \ {0}
    BY RequestsAssumption
  <1>8. CASE Emit(<<Event("unfilled", r)>>)
    <2>1. PICK e : e = Event("unfilled", r)
      OBVIOUS
    <2>2. e \in EventSet /\ e.type = "unfilled" /\ e.order = r /\ FillKeepsLimit(e)
      BY <2>1, EventTyped DEF Event, FillKeepsLimit
    <2>3. events' = Append(events, e) /\ idempotency' = idempotency /\ references' = references
      BY <1>8, <2>1, <2>2 DEF PaperInv, EventsInv, Emit
    <2>4. EventsInv' /\ n = Step(s, e)
      BY <1>1, <1>6, <2>2, <2>3, AppendedOne DEF PaperInv
    <2>5. Good(n) /\ n.orders = [s.orders EXCEPT ![r].status = "unfilled"]
      BY <1>6, <2>2, <2>4, Relabelled
    <2>6. PICK o : o = [s.orders[r] EXCEPT !.status = "unfilled"]
      OBVIOUS
    <2>7. o \in OrderState /\ o.status = "unfilled" /\ n.orders = [s.orders EXCEPT ![r] = o]
      BY <1>6, <2>5, <2>6 DEF AccountState, OrderState
    <2>8. n \in AccountState /\ s.orders[r].status # "none"
      BY <1>6, <2>5 DEF Good
    <2>9. OrderReplaced(s, n, r)
      BY <2>7 DEF OrderReplaced
    <2>10. idempotency' = idempotency /\ references' = references /\ EventsInv' /\ s.sound
      BY <1>6, <2>3, <2>4
    <2>11. Good(n) \/ (~ n.sound /\ ReleasedTwice(n))
      BY <2>5
    <2> QED  BY <1>1, <2>8, <2>9, <2>10, <2>11, OperationKeeps
  <1>9. CASE /\ Executable(r, price)
             /\ r.side = "BUY" => s.orders[r].cash + FillEvent(s, r, price).cash >= 0
             /\ Emit(<<FillEvent(s, r, price)>>)
    <2>1. PICK e : e = FillEvent(s, r, price)
      OBVIOUS
    <2>2. PICK a, l, frozen : /\ a = price * r.quantity /\ l = r.limit * r.quantity
                              /\ frozen = s.orders[r].cash
      OBVIOUS
    <2>3. /\ a \in Nat \ {0} /\ Fee(a) \in Nat
          /\ price >= r.limit => a - Fee(a) >= l - Fee(l)
      BY <1>5, <1>7, <2>2, Notional
    <2>4. frozen \in Nat
      BY <1>6, <2>2 DEF AccountState, OrderState
    <2>5. /\ e.type = "filled" /\ e.order = r /\ e.quantity = r.quantity
          /\ r.side = "BUY" => e.cash = - (a + Fee(a)) /\ e.frozen = - frozen
          /\ r.side = "SELL" => e.cash = a - Fee(a) /\ e.frozen = 0
          /\ e = [type |-> "filled", order |-> r, cash |-> e.cash, frozen |-> e.frozen,
                  quantity |-> r.quantity]
      BY <2>1, <2>2 DEF FillEvent, Event
    <2>6. e.cash \in Int /\ e.frozen \in Int /\ r.quantity \in Int
      BY <1>7, <2>3, <2>4, <2>5
    <2>7. e \in EventSet
      BY <2>5, <2>6, EventTyped
    <2>8. FillKeepsLimit(e)
      <3>1. CASE r.side = "BUY"
        <4>1. frozen + e.cash >= 0
          BY <1>9, <2>1, <2>2, <3>1
        <4>2. - e.cash <= - e.frozen
          BY <2>3, <2>4, <2>5, <3>1, <4>1
        <4> QED  BY <2>5, <3>1, <4>2 DEF FillKeepsLimit
      <3>2. CASE r.side = "SELL"
        <4>1. price >= r.limit
          BY <1>9, <3>2 DEF Executable
        <4>2. e.cash >= l - Fee(l)
          BY <2>3, <2>5, <3>2, <4>1
        <4> QED  BY <2>2, <2>5, <3>2, <4>2 DEF FillKeepsLimit
      <3> QED  BY <1>7, <3>1, <3>2
    <2>9. events' = Append(events, e) /\ idempotency' = idempotency /\ references' = references
      BY <1>9, <2>1, <2>7 DEF PaperInv, EventsInv, Emit
    <2>10. EventsInv' /\ n = Step(s, e)
      BY <1>1, <1>6, <2>7, <2>8, <2>9, AppendedOne DEF PaperInv
    <2>11. Good(n) /\ OrderFilled(s, n, r)
      <3>1. r.side = "BUY" => s.orders[r].cash + e.cash >= 0
        BY <1>9, <2>1
      <3>2. Good(s) /\ s.orders[r].status = "accepted"
        BY <1>6
      <3>3. n = Step(s, e)
        BY <2>10
      <3> QED  BY <1>5, <2>1, <3>1, <3>2, <3>3, FilledTo
    <2>12. OrderReplaced(s, n, r)
      BY <2>11 DEF OrderReplaced, OrderFilled
    <2>13. n \in AccountState /\ s.orders[r].status # "none"
      BY <1>6, <2>11 DEF Good
    <2>14. idempotency' = idempotency /\ references' = references /\ s.sound
      BY <1>6, <2>9
    <2> QED  BY <1>1, <2>10, <2>11, <2>12, <2>13, <2>14, OperationKeeps
  <1> QED  BY <1>2, <1>3, <1>8, <1>9

LEMMA PaperStarts == Init => PaperInv
  <1> SUFFICES ASSUME Init  PROVE PaperInv
    OBVIOUS
  <1>1. events = << >> /\ idempotency = << >> /\ references = {}
    BY DEF Init
  <1>2. EventsInv
    BY <1>1, MaxEventsAssumption DEF EventsInv
  <1>3. KeysInv /\ ReferencesInv
    BY <1>1 DEF KeysInv, ReferencesInv
  <1>4. PICK s : s = NewAccount
    OBVIOUS
  <1>5. Account = s
    BY <1>1, <1>4, AccountNone, AccountIs
  <1>6. NewOrder \in OrderState /\ NewOrder.status = "none" /\ NewOrder.released = 0
        /\ NewOrder.cash = 0 /\ NewOrder.quantity = 0
    BY DEF NewOrder, OrderState
  <1>7. /\ s.sound = TRUE /\ s.cash = InitialCash /\ s.frozen = 0 /\ s.total = 0
        /\ s.available = 0 /\ s.held = 0 /\ s.orders = [r \in Requests |-> NewOrder]
    BY <1>4 DEF NewAccount
  <1>8. s \in AccountState
    BY <1>4, <1>6, InitialCashAssumption DEF NewAccount, AccountState
  <1>9. Sound(s)
    BY <1>7, InitialCashAssumption DEF Sound
  <1>10. \A r \in Requests : s.orders[r] = NewOrder
    BY <1>7
  <1>11. \A side, states : "none" \notin states => OrdersOf(s, side, states) = {}
    BY <1>6, <1>10 DEF OrdersOf
  <1>12. /\ FrozenSum(s) = 0 /\ HeldSum(s) = 0 /\ BoughtSum(s) = 0 /\ SoldSum(s) = 0
         /\ WaitingSum(s) = 0
    <2>1. /\ OrdersOf(s, "BUY", OpenStates) = {} /\ OrdersOf(s, "SELL", OpenStates) = {}
          /\ OrdersOf(s, "BUY", {"filled"}) = {} /\ OrdersOf(s, "SELL", {"filled"}) = {}
      BY <1>11 DEF OpenStates
    <2>2. Unreleased(s) = {}
      BY <2>1 DEF Unreleased
    <2> QED  BY <2>1, <2>2, SumEmpty DEF FrozenSum, HeldSum, BoughtSum, SoldSum, WaitingSum
  <1>13. \A r \in Requests : OrderOK(r, s.orders[r])
    BY <1>6, <1>10 DEF OrderOK, OpenStates
  <1>14. Good(s)
    BY <1>7, <1>8, <1>9, <1>12, <1>13 DEF Good
  <1>15. KeysKept(s, idempotency)
    BY <1>1, <1>6, <1>10 DEF KeysKept
  <1>16. Kept(s, idempotency)
    BY <1>7, <1>8, <1>14, <1>15 DEF Kept
  <1> QED  BY <1>2, <1>3, <1>5, <1>16 DEF PaperInv

LEMMA PaperStep ==
    ASSUME PaperInv, [Next]_vars
    PROVE  PaperInv'
  <1>1. ASSUME NEW cutoff \in Cutoffs, NEW scenario \in Scenarios, NEW future \in Futures,
               BuildReference(cutoff, scenario, future)
        PROVE  PaperInv'
    <2>1. events' = events /\ idempotency' = idempotency
      BY <1>1 DEF BuildReference
    <2>2. ReferencesInv'
      BY ReferencesStep DEF PaperInv
    <2>3. Account' = Account
      BY <2>1, AccountIs
    <2> QED  BY <2>1, <2>2, <2>3 DEF PaperInv, EventsInv, KeysInv
  <1>2. CASE UNCHANGED vars
    <2>1. events' = events /\ idempotency' = idempotency /\ references' = references
      BY <1>2 DEF vars
    <2>2. Account' = Account
      BY <2>1, AccountIs
    <2> QED  BY <2>1, <2>2 DEF PaperInv, EventsInv, KeysInv, ReferencesInv
  <1>3. CASE \E r \in Requests : SubmitOrder(r)
    BY <1>3, SubmitStep
  <1>4. CASE OnAccount(Account)
    BY <1>4, ApproveStep, RejectStep, ExecuteOrderStep, CancelStep, ReleaseStep DEF OnAccount
  <1> QED  BY <1>1, <1>2, <1>3, <1>4 DEF Next

LEMMA PaperSound == PaperInv => SyntheticAccountIsSound
  <1> SUFFICES ASSUME PaperInv  PROVE SyntheticAccountIsSound
    OBVIOUS
  <1>1. PICK s : s = Account
    OBVIOUS
  <1>2. Kept(s, idempotency) /\ EventsInv /\ KeysInv
    BY <1>1 DEF PaperInv
  <1>3. TypeOK
    <2>1. \A i \in 1 .. Len(events) : events[i] \in EventSet
      BY <1>2 DEF EventsInv
    <2> QED  BY <1>2, <2>1 DEF EventsInv, KeysInv, TypeOK, EventSet
  <1>4. FillsStayInsideTheLimit
    BY <1>2 DEF EventsInv, FillsStayInsideTheLimit, FillKeepsLimit
  <1>5. ~ s.sound => ReleasedTwice(s)
    BY <1>2 DEF Kept
  <1>6. ASSUME s.sound
        PROVE  /\ s.frozen = FrozenSum(s) /\ s.held = HeldSum(s)
               /\ s.total = BoughtSum(s) - SoldSum(s)
               /\ ~ ReleasedTwice(s) => s.available + s.held = s.total - WaitingSum(s)
               /\ KeysKept(s, idempotency)
    BY <1>2, <1>6 DEF Kept, Good
  <1>7. ASSUME s.sound
        PROVE  Cardinality({r \in Requests : s.orders[r].status # "none"})
               = Cardinality(DOMAIN idempotency)
    <2>1. PICK A : A = {r \in Requests : s.orders[r].status # "none"}
      OBVIOUS
    <2>2. IsFiniteSet(A)
      BY <2>1, RequestsAssumption, FS_Subset
    <2>3. PICK f : f = [r \in A |-> r.key]
      OBVIOUS
    <2>4. \A r \in A : r.key \in DOMAIN idempotency /\ idempotency[r.key] = r
      BY <1>6, <1>7, <2>1 DEF KeysKept
    <2>5. \A k \in DOMAIN idempotency : idempotency[k] \in A /\ idempotency[k].key = k
      BY <1>2, <1>6, <1>7, <2>1 DEF KeysKept, KeysInv
    <2>6. f \in Bijection(A, DOMAIN idempotency)
      BY <2>3, <2>4, <2>5 DEF Bijection, Injection, Surjection, IsInjective
    <2>7. ExistsBijection(A, DOMAIN idempotency)
      BY <2>6 DEF ExistsBijection
    <2> QED  BY <2>1, <2>2, <2>7, FS_Bijection
  <1> QED  BY <1>1, <1>3, <1>4, <1>5, <1>6, <1>7
           DEF SyntheticAccountIsSound, FrozenSum, HeldSum, BoughtSum, SoldSum, WaitingSum,
               Unreleased, OpenStates, Sum, Asks, Reserved

\* Whatever is submitted, approved, executed, cancelled and released in
\* whatever order and again, the paper account is the sum of its orders, fills
\* stay inside their limits, and a rebuild raises only once an order was
\* released twice (synthetic_test_ledger.py).
THEOREM SyntheticAccountAlwaysSound == SimulatorsSpec => []SyntheticAccountIsSound
  <1>1. SimulatorsInit => PaperInv
    BY PaperStarts DEF SimulatorsInit
  <1>2. PaperInv /\ [SimulatorsNext]_SimulatorsVars => PaperInv'
    BY PaperStep DEF SimulatorsNext, SimulatorsVars
  <1> QED  BY <1>1, <1>2, PaperSound, PTL DEF SimulatorsSpec

-----------------------------------------------------------------------------
(* The virtual account of the free observation.                            *)

LedgerEvent ==
    [type : {"held", "already_open", "insufficient_cash", "opened",
             "no_open_position", "t_plus_one", "closed"},
     date : Nat, stock : Codes, lots : Nat, amount : Nat]
VirtualState == [cash : Nat, held : [Codes -> [lots : Nat, since : Nat]], last : Nat]

Of(es, type, s) == {k \in DOMAIN es : es[k].type = type /\ es[k].stock = s}
Before(S, k) == {j \in S : j < k}
Amounts(es, type) ==
    Sum([k \in DOMAIN es |-> es[k].amount], {k \in DOMAIN es : es[k].type = type})

\* What is closed was opened before, on an earlier date, and is closed once.
Closing(es, s, k) ==
    LET opened == Before(Of(es, "opened", s), k)
    IN  /\ Cardinality(opened) = 1 + Cardinality(Before(Of(es, "closed", s), k))
        /\ es[Max(opened)].date < es[k].date
        /\ es[Max(opened)].lots = es[k].lots

\* What is held is what was opened last and not closed since.
Holding(es, position, s) ==
    LET opened == Of(es, "opened", s)
        closed == Of(es, "closed", s)
    IN  IF position.lots = 0 THEN Cardinality(opened) = Cardinality(closed)
        ELSE /\ Cardinality(opened) = 1 + Cardinality(closed)
             /\ es[Max(opened)].lots = position.lots
             /\ es[Max(opened)].date = position.since

\* The account a that the events es rebuild.
Coherent(es, a) ==
    /\ es \in Seq(LedgerEvent) /\ a \in VirtualState /\ a = Rebuilt(es)
    /\ a.cash = VirtualCash - Amounts(es, "opened") + Amounts(es, "closed")
    /\ \A k \in DOMAIN es : es[k].date <= a.last
    /\ \A k \in 2 .. Len(es) : es[k - 1].date <= es[k].date
    /\ \A s \in Codes : /\ Holding(es, a.held[s], s)
                        /\ \A k \in Of(es, "closed", s) : Closing(es, s, k)

\* An event that may be booked.
Fits(a, e) ==
    /\ e \in LedgerEvent /\ e.date >= a.last
    /\ e.type = "opened" => a.held[e.stock].lots = 0 /\ e.lots > 0 /\ e.amount <= a.cash
    /\ e.type = "closed" => /\ e.lots > 0 /\ a.held[e.stock].lots = e.lots
                            /\ a.held[e.stock].since < e.date

\* longer is es with e after its m events.
Adds(es, longer, m, e) ==
    /\ m \in Nat /\ DOMAIN es = 1 .. m /\ DOMAIN longer = 1 .. m + 1
    /\ longer[m + 1] = e /\ \A k \in 1 .. m : longer[k] = es[k]

LEMMA Appending ==
    ASSUME NEW S, NEW es \in Seq(S), NEW e \in S
    PROVE  Adds(es, Append(es, e), Len(es), e) /\ Append(es, e) \in Seq(S)
           /\ Len(Append(es, e)) = Len(es) + 1
  BY DEF Adds

LEMMA OfPart ==
    ASSUME NEW es, NEW m \in Nat, DOMAIN es = 1 .. m, NEW type, NEW s
    PROVE  /\ Of(es, type, s) \in SUBSET (1 .. m)
           /\ IsFiniteSet(Of(es, type, s)) /\ Cardinality(Of(es, type, s)) \in Nat
  <1>1. Of(es, type, s) \in SUBSET (1 .. m) /\ IsFiniteSet(1 .. m)
    BY FS_Interval DEF Of
  <1> QED  BY <1>1, FS_Subset, FS_CardinalityType

LEMMA OfAdded ==
    ASSUME NEW es, NEW longer, NEW m, NEW e, Adds(es, longer, m, e), NEW type, NEW s
    PROVE  /\ e.type = type /\ e.stock = s =>
                 /\ Of(longer, type, s) = Of(es, type, s) \cup {m + 1}
                 /\ Cardinality(Of(longer, type, s)) = Cardinality(Of(es, type, s)) + 1
           /\ ~(e.type = type /\ e.stock = s) => Of(longer, type, s) = Of(es, type, s)
           /\ Before(Of(longer, type, s), m + 1) = Of(es, type, s)
           /\ \A k \in 1 .. m : Before(Of(longer, type, s), k) = Before(Of(es, type, s), k)
  <1>1. m \in Nat /\ DOMAIN es = 1 .. m /\ DOMAIN longer = 1 .. m + 1
        /\ longer[m + 1] = e /\ \A k \in 1 .. m : longer[k] = es[k]
    BY DEF Adds
  <1>2. PICK o, p : o = Of(es, type, s) /\ p = Of(longer, type, s)
    OBVIOUS
  <1>3. \A k : k \in p <=> (k \in 1 .. m + 1 /\ longer[k].type = type /\ longer[k].stock = s)
    BY <1>1, <1>2 DEF Of
  <1>4. \A k : k \in o <=> (k \in 1 .. m /\ es[k].type = type /\ es[k].stock = s)
    BY <1>1, <1>2 DEF Of
  <1>5. \A k : k \in 1 .. m + 1 <=> (k \in 1 .. m \/ k = m + 1)
    BY <1>1
  <1>6. m + 1 \notin 1 .. m
    BY <1>1
  <1>7. \A k : k \in p <=> (k \in o \/ (k = m + 1 /\ e.type = type /\ e.stock = s))
    BY <1>1, <1>3, <1>4, <1>5, Zenon
  <1>8. e.type = type /\ e.stock = s => p = o \cup {m + 1}
    BY <1>7
  <1>9. ~(e.type = type /\ e.stock = s) => p = o
    BY <1>7
  <1>10. IsFiniteSet(o) /\ m + 1 \notin o
    BY <1>1, <1>2, <1>4, <1>6, OfPart
  <1>11. Cardinality(o \cup {m + 1}) = Cardinality(o) + 1
    BY <1>10, FS_AddElement
  <1>12. \A k \in o : k \in 1 .. m /\ k < m + 1
    BY <1>1, <1>4
  <1>13. Before(p, m + 1) = o
    <2>1. ~(m + 1 < m + 1)
      BY <1>1
    <2> QED  BY <1>7, <1>12, <2>1 DEF Before
  <1>14. \A k \in 1 .. m : Before(p, k) = Before(o, k)
    <2>1. \A k \in 1 .. m : ~(m + 1 < k)
      BY <1>1
    <2> QED  BY <1>7, <2>1 DEF Before
  <1> QED  BY <1>2, <1>8, <1>9, <1>11, <1>13, <1>14

LEMMA AmountsAdded ==
    ASSUME NEW es, NEW longer, NEW m, NEW e, Adds(es, longer, m, e),
           \A k \in DOMAIN longer : longer[k].amount \in Nat, NEW type
    PROVE  /\ Amounts(es, type) \in Int
           /\ Amounts(longer, type) = Amounts(es, type) + (IF e.type = type THEN e.amount ELSE 0)
  <1>1. m \in Nat /\ DOMAIN es = 1 .. m /\ DOMAIN longer = 1 .. m + 1
        /\ longer[m + 1] = e /\ \A k \in 1 .. m : longer[k] = es[k]
    BY DEF Adds
  <1>2. PICK F, G, o, p : /\ F = [k \in DOMAIN es |-> es[k].amount]
                          /\ G = [k \in DOMAIN longer |-> longer[k].amount]
                          /\ o = {k \in DOMAIN es : es[k].type = type}
                          /\ p = {k \in DOMAIN longer : longer[k].type = type}
    OBVIOUS
  <1>3. \A k : k \in 1 .. m + 1 <=> (k \in 1 .. m \/ k = m + 1)
    BY <1>1
  <1>4. m + 1 \notin 1 .. m
    BY <1>1
  <1>5. \A k : k \in p <=> (k \in o \/ (k = m + 1 /\ e.type = type))
    BY <1>1, <1>2, <1>3
  <1>6. o \in SUBSET (1 .. m) /\ IsFiniteSet(o) /\ m + 1 \notin o
    <2>1. o \in SUBSET (1 .. m) /\ IsFiniteSet(1 .. m)
      BY <1>1, <1>2, FS_Interval
    <2> QED  BY <1>4, <2>1, FS_Subset
  <1>7. \A k \in 1 .. m + 1 : G[k] = longer[k].amount /\ G[k] \in Int
    BY <1>1, <1>2
  <1>8. \A k \in o : F[k] = G[k] /\ G[k] \in Int
    BY <1>1, <1>2, <1>3, <1>6, <1>7
  <1>9. Sum(F, o) = Sum(G, o) /\ Sum(G, o) \in Int
    BY <1>6, <1>8, SumSame, SumType
  <1>10. G[m + 1] = e.amount /\ G[m + 1] \in Int
    BY <1>1, <1>3, <1>7
  <1>11. CASE e.type = type
    <2>1. p = o \cup {m + 1}
      BY <1>5, <1>11
    <2>2. Sum(G, o \cup {m + 1}) = Sum(G, o) + G[m + 1]
      <3>1. PICK y : y = m + 1
        OBVIOUS
      <3>2. IsFiniteSet(o) /\ y \notin o /\ \A k \in o \cup {y} : G[k] \in Int
        BY <1>6, <1>8, <1>10, <3>1
      <3>3. Sum(G, o \cup {y}) = Sum(G, o) + G[y]
        BY <3>2, SumPut
      <3> QED  BY <3>1, <3>3
    <2> QED  BY <1>2, <1>9, <1>10, <1>11, <2>1, <2>2 DEF Amounts
  <1>12. CASE e.type # type
    <2>1. p = o
      BY <1>5, <1>12
    <2>2. Amounts(es, type) = Sum(G, o) /\ Amounts(longer, type) = Sum(G, o)
      BY <1>2, <1>9, <2>1 DEF Amounts
    <2> QED  BY <1>9, <1>12, <2>2
  <1> QED  BY <1>11, <1>12

LEMMA LastOf ==
    ASSUME NEW m \in Nat, NEW o \in SUBSET (1 .. m), IsFiniteSet(o), NEW n \in Nat,
           Cardinality(o) = 1 + n
    PROVE  Max(o) \in 1 .. m
  <1>1. o # {}
    BY FS_EmptySet
  <1>2. o \in SUBSET Int
    OBVIOUS
  <1> QED  BY <1>1, <1>2, MaxExists

LEMMA NewestIsMax ==
    ASSUME NEW m \in Nat, NEW o \in SUBSET (1 .. m)
    PROVE  Max(o \cup {m + 1}) = m + 1
  <1>1. \A y \in o \cup {m + 1} : y \in Nat /\ m + 1 >= y
    OBVIOUS
  <1>2. \A x \in o \cup {m + 1} : (\A y \in o \cup {m + 1} : x >= y) => x = m + 1
    BY <1>1
  <1> QED  BY <1>1, <1>2 DEF Max

LEMMA LaterOfTwo ==
    ASSUME NEW x \in Nat, NEW y \in Nat, y >= x  PROVE Max({x, y}) = y
  <1>1. \A z \in {x, y} : (\A w \in {x, y} : z >= w) => z = y
    OBVIOUS
  <1>2. \A w \in {x, y} : y >= w
    OBVIOUS
  <1> QED  BY <1>1, <1>2 DEF Max

LEMMA BookedIs ==
    ASSUME NEW a \in VirtualState, NEW e, Fits(a, e)
    PROVE  LET n == Booked(a, e)
           IN  /\ n \in VirtualState /\ n.last = e.date
               /\ \A s \in Codes : s # e.stock => n.held[s] = a.held[s]
               /\ e.type = "opened" => /\ n.cash = a.cash - e.amount
                                       /\ n.held[e.stock] = [lots |-> e.lots, since |-> e.date]
               /\ e.type = "closed" => /\ n.cash = a.cash + e.amount
                                       /\ n.held[e.stock] = Nobody
               /\ e.type \notin {"opened", "closed"} => n.cash = a.cash /\ n.held = a.held
  <1>1. /\ e \in LedgerEvent /\ e.date \in Nat /\ a.last \in Nat /\ e.date >= a.last
        /\ e.amount \in Nat /\ e.lots \in Nat /\ e.stock \in Codes /\ a.cash \in Nat
        /\ a.held \in [Codes -> [lots : Nat, since : Nat]]
    BY DEF Fits, LedgerEvent, VirtualState
  <1>2. Max({a.last, e.date}) = e.date
    BY <1>1, LaterOfTwo
  <1>3. PICK d : d = [a EXCEPT !.last = e.date]
    OBVIOUS
  <1>4. d \in VirtualState /\ d.cash = a.cash /\ d.held = a.held /\ d.last = e.date
    BY <1>1, <1>3 DEF VirtualState
  <1>5. CASE e.type = "opened"
    <2>1. PICK n : n = [d EXCEPT !.cash = @ - e.amount,
                                 !.held[e.stock] = [lots |-> e.lots, since |-> e.date]]
      OBVIOUS
    <2>2. Booked(a, e) = n
      BY <1>2, <1>3, <1>5, <2>1 DEF Booked
    <2>3. n.last = e.date /\ n.cash = a.cash - e.amount
          /\ n.held = [a.held EXCEPT ![e.stock] = [lots |-> e.lots, since |-> e.date]]
          /\ n = [d EXCEPT !.cash = n.cash, !.held = n.held]
      BY <1>4, <2>1 DEF VirtualState
    <2>4. n.cash \in Nat
      BY <1>1, <1>5, <2>3 DEF Fits
    <2>5. n.held \in [Codes -> [lots : Nat, since : Nat]]
      BY <1>1, <2>3
    <2>6. n \in VirtualState
      BY <1>4, <2>3, <2>4, <2>5 DEF VirtualState
    <2>7. n.held[e.stock] = [lots |-> e.lots, since |-> e.date]
          /\ \A s \in Codes : s # e.stock => n.held[s] = a.held[s]
      BY <1>1, <2>3
    <2> QED  BY <1>5, <2>2, <2>3, <2>6, <2>7
  <1>6. CASE e.type = "closed"
    <2>1. PICK n : n = [d EXCEPT !.cash = @ + e.amount, !.held[e.stock] = Nobody]
      OBVIOUS
    <2>2. Booked(a, e) = n
      BY <1>2, <1>3, <1>6, <2>1 DEF Booked
    <2>3. n.last = e.date /\ n.cash = a.cash + e.amount
          /\ n.held = [a.held EXCEPT ![e.stock] = Nobody]
          /\ n = [d EXCEPT !.cash = n.cash, !.held = n.held]
      BY <1>4, <2>1 DEF VirtualState
    <2>4. n.cash \in Nat
      BY <1>1, <2>3
    <2>5. n.held \in [Codes -> [lots : Nat, since : Nat]]
      BY <1>1, <2>3 DEF Nobody
    <2>6. n \in VirtualState
      BY <1>4, <2>3, <2>4, <2>5 DEF VirtualState
    <2>7. n.held[e.stock] = Nobody /\ \A s \in Codes : s # e.stock => n.held[s] = a.held[s]
      BY <1>1, <2>3
    <2> QED  BY <1>6, <2>2, <2>3, <2>6, <2>7
  <1>7. CASE e.type \notin {"opened", "closed"}
    <2>1. Booked(a, e) = d
      BY <1>2, <1>3, <1>7 DEF Booked
    <2> QED  BY <1>4, <1>7, <2>1
  <1> QED  BY <1>5, <1>6, <1>7

LEMMA EntryTyped ==
    ASSUME NEW es \in Seq(LedgerEvent), NEW k \in DOMAIN es
    PROVE  /\ es[k] \in LedgerEvent /\ es[k].date \in Nat /\ es[k].amount \in Nat
           /\ es[k].lots \in Nat /\ es[k].stock \in Codes
  <1>1. es[k] \in LedgerEvent
    OBVIOUS
  <1> QED  BY <1>1 DEF LedgerEvent

\* Booking an event on a position and appending it keep the two together.
LEMMA PositionKept ==
    ASSUME NEW es \in Seq(LedgerEvent), NEW a \in VirtualState, NEW e, Fits(a, e),
           NEW longer \in Seq(LedgerEvent), NEW m, Adds(es, longer, m, e),
           NEW s \in Codes, Holding(es, a.held[s], s),
           \A k \in Of(es, "closed", s) : Closing(es, s, k)
    PROVE  /\ Holding(longer, Booked(a, e).held[s], s)
           /\ \A k \in Of(longer, "closed", s) : Closing(longer, s, k)
  <1>1. PICK n, h, g : n = Booked(a, e) /\ h = a.held[s] /\ g = n.held[s]
    OBVIOUS
  <1>2. PICK o, c, p, d : /\ o = Of(es, "opened", s) /\ p = Of(longer, "opened", s)
                          /\ c = Of(es, "closed", s) /\ d = Of(longer, "closed", s)
    OBVIOUS
  <1>3. m \in Nat /\ DOMAIN es = 1 .. m /\ longer[m + 1] = e
        /\ \A k \in 1 .. m : longer[k] = es[k]
    BY DEF Adds
  <1>4. h \in [lots : Nat, since : Nat] /\ h.lots \in Nat /\ h.since \in Nat
    BY <1>1 DEF VirtualState
  <1>5. /\ o \in SUBSET (1 .. m) /\ c \in SUBSET (1 .. m) /\ IsFiniteSet(o) /\ IsFiniteSet(c)
        /\ Cardinality(o) \in Nat /\ Cardinality(c) \in Nat
    BY <1>2, <1>3, OfPart
  <1>6. /\ e.type = "opened" /\ e.stock = s =>
              p = o \cup {m + 1} /\ Cardinality(p) = Cardinality(o) + 1
        /\ ~(e.type = "opened" /\ e.stock = s) => p = o
        /\ Before(p, m + 1) = o /\ \A k \in 1 .. m : Before(p, k) = Before(o, k)
    BY <1>2, OfAdded
  <1>7. /\ e.type = "closed" /\ e.stock = s =>
              d = c \cup {m + 1} /\ Cardinality(d) = Cardinality(c) + 1
        /\ ~(e.type = "closed" /\ e.stock = s) => d = c
        /\ Before(d, m + 1) = c /\ \A k \in 1 .. m : Before(d, k) = Before(c, k)
    BY <1>2, OfAdded
  <1>8. /\ h.lots = 0 => Cardinality(o) = Cardinality(c)
        /\ h.lots # 0 => /\ Cardinality(o) = 1 + Cardinality(c)
                         /\ es[Max(o)].lots = h.lots /\ es[Max(o)].date = h.since
    BY <1>1, <1>2 DEF Holding
  <1>9. h.lots # 0 => longer[Max(o)] = es[Max(o)]
    BY <1>3, <1>5, <1>8, LastOf
  <1>10. /\ e.stock # s => g = h
         /\ e.type = "opened" => (e.stock = s => g = [lots |-> e.lots, since |-> e.date])
         /\ e.type = "closed" => (e.stock = s => g = Nobody)
         /\ e.type \notin {"opened", "closed"} => g = h
    BY <1>1, BookedIs
  <1>11. \A k \in c : Closing(longer, s, k)
    <2> SUFFICES ASSUME NEW k \in c  PROVE Closing(longer, s, k)
      OBVIOUS
    <2>1. PICK q, r : q = Before(o, k) /\ r = Before(c, k)
      OBVIOUS
    <2>2. k \in 1 .. m /\ longer[k] = es[k] /\ Before(p, k) = q /\ Before(d, k) = r
      BY <1>3, <1>5, <1>6, <1>7, <2>1
    <2>3. Cardinality(q) = 1 + Cardinality(r) /\ es[Max(q)].date < es[k].date
          /\ es[Max(q)].lots = es[k].lots
      BY <1>2, <2>1 DEF Closing
    <2>4. q \in SUBSET (1 .. m) /\ IsFiniteSet(q) /\ IsFiniteSet(r) /\ Cardinality(r) \in Nat
      BY <1>5, <2>1, FS_Subset, FS_CardinalityType DEF Before
    <2>5. longer[Max(q)] = es[Max(q)]
      BY <1>3, <2>3, <2>4, LastOf
    <2> QED  BY <1>2, <2>2, <2>3, <2>5 DEF Closing
  <1>12. CASE e.type = "opened" /\ e.stock = s
    <2>1. h.lots = 0 /\ e.lots > 0
      BY <1>1, <1>12 DEF Fits
    <2>2. g.lots = e.lots /\ g.since = e.date /\ d = c /\ p = o \cup {m + 1}
          /\ Cardinality(p) = Cardinality(o) + 1
      BY <1>6, <1>7, <1>10, <1>12
    <2>3. Max(p) = m + 1
      BY <1>3, <1>5, <2>2, NewestIsMax
    <2>4. longer[Max(p)] = e /\ Cardinality(p) = 1 + Cardinality(d)
      BY <1>3, <1>5, <1>8, <2>1, <2>2, <2>3
    <2>5. g.lots # 0
      BY <2>1, <2>2 DEF Fits, LedgerEvent
    <2>6. Holding(longer, g, s)
      BY <1>2, <2>2, <2>4, <2>5 DEF Holding
    <2> QED  BY <1>1, <1>2, <1>11, <2>2, <2>6
  <1>13. CASE e.type = "closed" /\ e.stock = s
    <2>1. h.lots = e.lots /\ e.lots > 0 /\ h.since < e.date
      BY <1>1, <1>13 DEF Fits
    <2>2. h.lots # 0
      BY <1>4, <2>1
    <2>3. g.lots = 0 /\ p = o /\ d = c \cup {m + 1} /\ Cardinality(d) = Cardinality(c) + 1
      BY <1>6, <1>7, <1>10, <1>13 DEF Nobody
    <2>4. Cardinality(p) = Cardinality(d)
      BY <1>5, <1>8, <2>2, <2>3
    <2>5. Holding(longer, g, s)
      BY <1>2, <2>3, <2>4 DEF Holding
    <2>6. Closing(longer, s, m + 1)
      <3>1. /\ Before(p, m + 1) = o /\ Before(d, m + 1) = c /\ longer[m + 1] = e
            /\ longer[Max(o)] = es[Max(o)]
        BY <1>3, <1>6, <1>7, <1>9, <2>2
      <3>2. Cardinality(o) = 1 + Cardinality(c) /\ longer[Max(o)].date < e.date
            /\ longer[Max(o)].lots = e.lots
        BY <1>8, <2>1, <2>2, <3>1
      <3> QED  BY <1>2, <3>1, <3>2 DEF Closing
    <2> QED  BY <1>1, <1>2, <1>11, <2>3, <2>5, <2>6
  <1>14. CASE ~(e.stock = s /\ e.type \in {"opened", "closed"})
    <2>1. p = o /\ d = c /\ g = h
      BY <1>6, <1>7, <1>10, <1>14
    <2>2. Holding(longer, g, s)
      BY <1>2, <1>8, <1>9, <2>1 DEF Holding
    <2> QED  BY <1>1, <1>2, <1>11, <2>1, <2>2
  <1> QED  BY <1>12, <1>13, <1>14

LEMMA CoherentAppend ==
    ASSUME NEW es, NEW a, Coherent(es, a), NEW e, Fits(a, e)
    PROVE  Coherent(Append(es, e), Booked(a, e))
  <1>1. PICK longer, n, m : longer = Append(es, e) /\ n = Booked(a, e) /\ m = Len(es)
    OBVIOUS
  <1>2. es \in Seq(LedgerEvent) /\ a \in VirtualState /\ e \in LedgerEvent
    BY DEF Coherent, Fits
  <1>3. longer \in Seq(LedgerEvent) /\ Adds(es, longer, m, e) /\ Len(longer) = m + 1
    BY <1>1, <1>2, Appending
  <1>4. m \in Nat /\ DOMAIN es = 1 .. m /\ DOMAIN longer = 1 .. m + 1
        /\ longer[m + 1] = e /\ \A k \in 1 .. m : longer[k] = es[k]
    BY <1>3 DEF Adds
  <1>5. /\ n \in VirtualState /\ n.last = e.date
        /\ e.type = "opened" => n.cash = a.cash - e.amount
        /\ e.type = "closed" => n.cash = a.cash + e.amount
        /\ e.type \notin {"opened", "closed"} => n.cash = a.cash
    BY <1>1, <1>2, BookedIs
  <1>6. n = Rebuilt(longer)
    BY <1>1, <1>2, RebuiltAppend DEF Coherent
  <1>7. n.cash = VirtualCash - Amounts(longer, "opened") + Amounts(longer, "closed")
    <2>1. \A k \in DOMAIN longer : longer[k].amount \in Nat
      BY <1>3, EntryTyped
    <2>2. \A type : /\ Amounts(es, type) \in Int
                    /\ Amounts(longer, type)
                       = Amounts(es, type) + (IF e.type = type THEN e.amount ELSE 0)
      BY <1>3, <2>1, AmountsAdded
    <2>3. e.amount \in Nat /\ a.cash \in Nat /\ VirtualCash \in Nat
      BY <1>2, FilesAssumption DEF LedgerEvent, VirtualState
    <2>4. PICK o, c : o = Amounts(es, "opened") /\ c = Amounts(es, "closed")
      OBVIOUS
    <2>5. o \in Int /\ c \in Int /\ a.cash = VirtualCash - o + c
      BY <2>2, <2>4 DEF Coherent
    <2>6. /\ Amounts(longer, "opened") = o + (IF e.type = "opened" THEN e.amount ELSE 0)
          /\ Amounts(longer, "closed") = c + (IF e.type = "closed" THEN e.amount ELSE 0)
      BY <2>2, <2>4
    <2> QED  BY <1>5, <2>3, <2>5, <2>6
  <1>8. \A k \in DOMAIN es : es[k].date \in Nat /\ es[k].date <= a.last
    BY <1>2, EntryTyped DEF Coherent
  <1>9. a.last \in Nat /\ e.date \in Nat /\ a.last <= e.date
    BY <1>2 DEF VirtualState, LedgerEvent, Fits
  <1>10. \A k \in 1 .. m : longer[k].date <= e.date
    BY <1>4, <1>8, <1>9
  <1>11. \A k \in DOMAIN longer : longer[k].date <= n.last
    <2>1. \A k \in 1 .. m + 1 : k \in 1 .. m \/ k = m + 1
      BY <1>4
    <2> QED  BY <1>4, <1>5, <1>9, <1>10, <2>1
  <1>12. \A k \in 2 .. m + 1 : longer[k - 1].date <= longer[k].date
    <2> SUFFICES ASSUME NEW k \in 2 .. m + 1  PROVE longer[k - 1].date <= longer[k].date
      OBVIOUS
    <2>1. k - 1 \in 1 .. m
      BY <1>4
    <2>2. CASE k = m + 1
      BY <1>4, <1>10, <2>1, <2>2
    <2>3. CASE k # m + 1
      <3>1. k \in 2 .. m /\ k \in 1 .. m
        BY <1>4, <2>3
      <3>2. es[k - 1].date <= es[k].date
        BY <1>1, <3>1 DEF Coherent
      <3> QED  BY <1>4, <2>1, <3>1, <3>2
    <2> QED  BY <2>2, <2>3
  <1>13. ASSUME NEW s \in Codes
         PROVE  /\ Holding(longer, n.held[s], s)
                /\ \A k \in Of(longer, "closed", s) : Closing(longer, s, k)
    <2>1. Holding(es, a.held[s], s) /\ \A k \in Of(es, "closed", s) : Closing(es, s, k)
      BY DEF Coherent
    <2> QED  BY <1>1, <1>2, <1>3, <2>1, PositionKept
  <1> QED  BY <1>1, <1>3, <1>5, <1>6, <1>7, <1>11, <1>12, <1>13 DEF Coherent

\* A whole number of lots that a percentage of the cash buys costs no more.
LEMMA LotsAffordable ==
    ASSUME NEW money \in Nat, NEW close \in Nat \ {0},
           NEW lots, lots = (money * Percent) \div (100 * close)
    PROVE  lots \in Nat /\ lots * close \in Nat /\ lots * close <= money
  <1>1. Percent \in 1 .. 100
    BY PercentAssumption
  <1>2. PICK x, d : x = money * Percent /\ d = 100 * close
    OBVIOUS
  <1>3. x \in Nat /\ d \in Nat \ {0} /\ x <= 100 * money
    <2>1. money * Percent <= money * 100
      BY <1>1
    <2>2. money * Percent \in Nat /\ 100 * close \in Nat \ {0}
      BY <1>1
    <2> QED  BY <1>2, <2>1, <2>2
  <1>4. lots = x \div d
    BY <1>2
  <1>5. lots \in Nat /\ lots * d <= x
    <2>1. x \div d \in Nat /\ (x \div d) * d <= x
      BY <1>3
    <2> QED  BY <1>4, <2>1
  <1>6. PICK spent : spent = lots * close
    OBVIOUS
  <1>7. spent \in Nat
    BY <1>5, <1>6
  <1>8. lots * d = 100 * spent
    <2>1. lots * (100 * close) = 100 * (lots * close)
      BY <1>5
    <2> QED  BY <1>2, <1>6, <2>1
  <1>9. spent <= money
    BY <1>3, <1>5, <1>7, <1>8
  <1> QED  BY <1>5, <1>6, <1>7, <1>9

LEMMA OutcomeIs ==
    ASSUME FilesTyped, NEW doc, FromFiles(doc, files), NEW s \in DOMAIN doc.actions,
           NEW a \in VirtualState, Baseline(doc, s).date >= a.last
    PROVE  LET e == Outcome(a, doc, s)
           IN  /\ Fits(a, e) /\ e.stock = s /\ e.date = Baseline(doc, s).date
               /\ doc.actions[s] = "HOLD" => e.type = "held"
               /\ doc.actions[s] = "BUY" =>
                     /\ a.held[s].lots > 0 => e.type = "already_open"
                     /\ a.held[s].lots = 0 => e.type \in {"insufficient_cash", "opened"}
               /\ doc.actions[s] = "SELL" =>
                     /\ a.held[s].lots = 0 => e.type = "no_open_position"
                     /\ a.held[s].lots > 0 =>
                           e.type = IF Settled(a.held[s], e.date) THEN "closed" ELSE "t_plus_one"
  <1>1. PICK b, close, h, lots : /\ b = Baseline(doc, s) /\ close = b.rows[s] /\ h = a.held[s]
                                 /\ lots = (a.cash * Percent) \div (100 * close)
    OBVIOUS
  <1>2. /\ close \in Nat \ {0} /\ b.date \in Nat /\ s \in Codes
        /\ doc.actions[s] \in {"HOLD", "BUY", "SELL"}
    BY <1>1, BaselineExists DEF FromFiles
  <1>3. a.cash \in Nat /\ h \in [lots : Nat, since : Nat] /\ h.lots \in Nat /\ h.since \in Nat
    BY <1>1, <1>2 DEF VirtualState
  <1>4. lots \in Nat /\ lots * close \in Nat /\ lots * close <= a.cash
    <2>1. PICK money : money = a.cash
      OBVIOUS
    <2>2. lots = (money * Percent) \div (100 * close)
      BY <1>1, <2>1
    <2>3. money \in Nat /\ close \in Nat \ {0}
      BY <1>2, <1>3, <2>1
    <2>4. lots \in Nat /\ lots * close \in Nat /\ lots * close <= money
      BY <2>2, <2>3, LotsAffordable
    <2> QED  BY <2>1, <2>4
  <1>5. h.lots * close \in Nat /\ 0 * close = 0
    BY <1>2, <1>3
  <1>6. PICK e : e = Outcome(a, doc, s)
    OBVIOUS
  <1>7. b.date >= a.last
    BY <1>1
  <1> DEFINE Made(type, n) == e = [type |-> type, date |-> b.date, stock |-> s, lots |-> n,
                                   amount |-> n * close]
  <1>8. CASE doc.actions[s] = "HOLD"
    <2>1. Made("held", 0)
      BY <1>1, <1>6, <1>8 DEF Outcome, ObservedEvent
    <2> QED  BY <1>1, <1>2, <1>5, <1>6, <1>7, <1>8, <2>1 DEF Fits, LedgerEvent
  <1>9. CASE doc.actions[s] = "BUY"
    <2>1. CASE h.lots > 0
      <3>1. Made("already_open", 0)
        BY <1>1, <1>6, <1>9, <2>1 DEF Outcome, ObservedEvent
      <3>2. Fits(a, e)
        BY <1>2, <1>5, <1>7, <3>1 DEF Fits, LedgerEvent
      <3> QED  BY <1>1, <1>3, <1>6, <1>9, <2>1, <3>1, <3>2
    <2>2. CASE h.lots = 0 /\ lots = 0
      <3>1. Made("insufficient_cash", 0)
        BY <1>1, <1>6, <1>9, <2>2 DEF Outcome, ObservedEvent
      <3>2. Fits(a, e)
        BY <1>2, <1>5, <1>7, <3>1 DEF Fits, LedgerEvent
      <3> QED  BY <1>1, <1>6, <1>9, <2>2, <3>1, <3>2
    <2>3. CASE h.lots = 0 /\ lots # 0
      <3>1. Made("opened", lots)
        BY <1>1, <1>6, <1>9, <2>3 DEF Outcome, ObservedEvent
      <3>2. Fits(a, e)
        BY <1>1, <1>2, <1>4, <1>7, <2>3, <3>1 DEF Fits, LedgerEvent
      <3> QED  BY <1>1, <1>6, <1>9, <2>3, <3>1, <3>2
    <2> QED  BY <1>3, <2>1, <2>2, <2>3
  <1>10. CASE doc.actions[s] = "SELL"
    <2>1. CASE h.lots = 0
      <3>1. Made("no_open_position", 0)
        BY <1>1, <1>6, <1>10, <2>1 DEF Outcome, ObservedEvent
      <3>2. Fits(a, e)
        BY <1>2, <1>5, <1>7, <3>1 DEF Fits, LedgerEvent
      <3> QED  BY <1>1, <1>6, <1>10, <2>1, <3>1, <3>2
    <2>2. CASE h.lots # 0 /\ ~Settled(h, b.date)
      <3>1. Made("t_plus_one", 0)
        BY <1>1, <1>6, <1>10, <2>2 DEF Outcome, ObservedEvent
      <3>2. Fits(a, e)
        BY <1>2, <1>5, <1>7, <3>1 DEF Fits, LedgerEvent
      <3> QED  BY <1>1, <1>6, <1>10, <2>2, <3>1, <3>2
    <2>3. CASE h.lots # 0 /\ Settled(h, b.date)
      <3>1. Made("closed", h.lots)
        BY <1>1, <1>6, <1>10, <2>3 DEF Outcome, ObservedEvent
      <3>2. h.lots > 0 /\ h.since < b.date
        BY <1>2, <1>3, <2>3 DEF Settled
      <3>3. Fits(a, e)
        BY <1>1, <1>2, <1>3, <1>5, <1>7, <3>1, <3>2 DEF Fits, LedgerEvent
      <3> QED  BY <1>1, <1>6, <1>10, <2>3, <3>1, <3>3
    <2> QED  BY <2>1, <2>2, <2>3
  <1> QED  BY <1>2, <1>8, <1>9, <1>10

\* A candidate that was considered and would change nothing if it were again,
\* unless its purchase was skipped for lack of cash.
Absorbed(a, es, doc, s) ==
    /\ Baseline(doc, s).date <= a.last
    /\ doc.actions[s] = "BUY" =>
          \/ a.held[s].lots > 0
          \/ \E k \in DOMAIN es : es[k].type = "insufficient_cash" /\ es[k].stock = s
    /\ doc.actions[s] = "SELL" =>
          a.held[s].lots = 0 \/ ~Settled(a.held[s], Baseline(doc, s).date)

LEMMA AbsorbedNow ==
    ASSUME FilesTyped, NEW doc, FromFiles(doc, files), NEW s \in DOMAIN doc.actions,
           NEW es, NEW a, Coherent(es, a), Baseline(doc, s).date >= a.last
    PROVE  LET e == Outcome(a, doc, s)
           IN  Absorbed(Booked(a, e), Append(es, e), doc, s)
  <1>1. PICK e, n, longer, m : /\ e = Outcome(a, doc, s) /\ n = Booked(a, e)
                               /\ longer = Append(es, e) /\ m = Len(es)
    OBVIOUS
  <1>2. a \in VirtualState /\ es \in Seq(LedgerEvent)
    BY DEF Coherent
  <1>3. /\ Fits(a, e) /\ e.stock = s /\ e.date = Baseline(doc, s).date
        /\ doc.actions[s] = "BUY" =>
              /\ a.held[s].lots > 0 => e.type = "already_open"
              /\ a.held[s].lots = 0 => e.type \in {"insufficient_cash", "opened"}
        /\ doc.actions[s] = "SELL" =>
              /\ a.held[s].lots = 0 => e.type = "no_open_position"
              /\ a.held[s].lots > 0 =>
                    e.type = IF Settled(a.held[s], e.date) THEN "closed" ELSE "t_plus_one"
    BY <1>1, <1>2, OutcomeIs
  <1>4. e \in LedgerEvent /\ e.date \in Nat
    BY <1>3 DEF Fits, LedgerEvent
  <1>5. m + 1 \in DOMAIN longer /\ longer[m + 1] = e
    BY <1>1, <1>2, <1>4
  <1>6. s \in Codes /\ a.held[s] \in [lots : Nat, since : Nat] /\ a.held[s].lots \in Nat
    BY <1>2 DEF FromFiles, VirtualState
  <1>7. /\ n.last = e.date
        /\ e.type = "opened" => n.held[s] = [lots |-> e.lots, since |-> e.date]
        /\ e.type = "closed" => n.held[s] = Nobody
        /\ e.type \notin {"opened", "closed"} => n.held = a.held
    BY <1>1, <1>2, <1>3, BookedIs
  <1>8. Baseline(doc, s).date <= n.last
    BY <1>3, <1>4, <1>7
  <1>9. ASSUME doc.actions[s] = "BUY"
        PROVE  \/ n.held[s].lots > 0
               \/ \E k \in DOMAIN longer : longer[k].type = "insufficient_cash"
                                           /\ longer[k].stock = s
    <2>1. CASE a.held[s].lots > 0
      BY <1>3, <1>7, <1>9, <2>1
    <2>2. CASE a.held[s].lots = 0 /\ e.type = "insufficient_cash"
      BY <1>3, <1>5, <2>2
    <2>3. CASE a.held[s].lots = 0 /\ e.type = "opened"
      BY <1>3, <1>7, <2>3 DEF Fits
    <2> QED  BY <1>3, <1>6, <1>9, <2>1, <2>2, <2>3
  <1>10. ASSUME doc.actions[s] = "SELL"
         PROVE  n.held[s].lots = 0 \/ ~Settled(n.held[s], Baseline(doc, s).date)
    <2>1. CASE a.held[s].lots = 0
      BY <1>3, <1>7, <1>10, <2>1
    <2>2. CASE a.held[s].lots > 0 /\ Settled(a.held[s], e.date)
      BY <1>3, <1>7, <1>10, <2>2 DEF Nobody
    <2>3. CASE a.held[s].lots > 0 /\ ~Settled(a.held[s], e.date)
      BY <1>3, <1>7, <1>10, <2>3
    <2> QED  BY <1>6, <2>1, <2>2, <2>3
  <1> QED  BY <1>1, <1>8, <1>9, <1>10 DEF Absorbed

\* What another candidate changes does not disturb it.
LEMMA StaysAbsorbed ==
    ASSUME NEW es, NEW a, Coherent(es, a), NEW e, Fits(a, e), NEW doc, NEW s \in Codes,
           s # e.stock, Baseline(doc, s).date \in Nat, Absorbed(a, es, doc, s)
    PROVE  Absorbed(Booked(a, e), Append(es, e), doc, s)
  <1>1. PICK n, longer : n = Booked(a, e) /\ longer = Append(es, e)
    OBVIOUS
  <1>2. a \in VirtualState /\ es \in Seq(LedgerEvent) /\ e \in LedgerEvent
    BY DEF Coherent, Fits
  <1>3. n.last = e.date /\ n.held[s] = a.held[s]
    <2>1. /\ n.last = e.date /\ \A x \in Codes : x # e.stock => n.held[x] = a.held[x]
      BY <1>1, <1>2, BookedIs
    <2> QED  BY <2>1
  <1>4. a.last \in Nat /\ e.date \in Nat /\ e.date >= a.last
    BY <1>2 DEF VirtualState, LedgerEvent, Fits
  <1>5. Baseline(doc, s).date <= n.last
    BY <1>3, <1>4 DEF Absorbed
  <1>6. \A k \in DOMAIN es : k \in DOMAIN longer /\ longer[k] = es[k]
    BY <1>1, <1>2
  <1> QED  BY <1>1, <1>3, <1>5, <1>6 DEF Absorbed

\* What a document has made of a ledger's events before it when the candidates
\* t have been considered.
Considering(st, before, doc, t) ==
    /\ st = [refused |-> st.refused, events |-> st.events, account |-> st.account]
    /\ ~st.refused =>
          /\ st.events \in Seq(LedgerEvent)
          /\ Coherent(before \o st.events, st.account)
          /\ \A s \in t : Absorbed(st.account, before \o st.events, doc, s)

LEMMA JoinAppend ==
    ASSUME NEW S, NEW a \in Seq(S), NEW b \in Seq(S), NEW e \in S
    PROVE  a \o Append(b, e) = Append(a \o b, e)
  <1>1. PICK m, n : m = Len(a) /\ n = Len(b)
    OBVIOUS
  <1>2. m \in Nat /\ n \in Nat
    BY <1>1
  <1>3. PICK c, x, y : c = Append(b, e) /\ x = a \o c /\ y = Append(a \o b, e)
    OBVIOUS
  <1>4. c \in Seq(S) /\ Len(c) = n + 1 /\ c[n + 1] = e /\ \A k \in 1 .. n : c[k] = b[k]
    BY <1>1, <1>3
  <1>5. /\ x \in Seq(S) /\ Len(x) = m + (n + 1)
        /\ \A j \in 1 .. m + (n + 1) : x[j] = IF j <= m THEN a[j] ELSE c[j - m]
    <2>1. /\ a \o c \in Seq(S) /\ Len(a \o c) = Len(a) + Len(c)
          /\ \A j \in 1 .. Len(a) + Len(c) :
                (a \o c)[j] = IF j <= Len(a) THEN a[j] ELSE c[j - Len(a)]
      BY <1>4, Joined, Zenon
    <2> QED  BY <1>1, <1>3, <1>4, <2>1, Zenon
  <1>6. /\ a \o b \in Seq(S) /\ Len(a \o b) = m + n
        /\ \A j \in 1 .. m + n : (a \o b)[j] = IF j <= m THEN a[j] ELSE b[j - m]
    BY <1>1, Joined
  <1>7. /\ y \in Seq(S) /\ Len(y) = m + n + 1 /\ y[m + n + 1] = e
        /\ \A j \in 1 .. m + n : y[j] = (a \o b)[j]
    BY <1>3, <1>6
  <1>8. ASSUME NEW j \in 1 .. m + (n + 1)  PROVE x[j] = y[j]
    <2>1. CASE j <= m
      <3>1. j \in 1 .. m + n
        BY <1>2, <2>1
      <3> QED  BY <1>5, <1>6, <1>7, <2>1, <3>1
    <2>2. CASE j > m /\ j <= m + n
      <3>1. j \in 1 .. m + n /\ j - m \in 1 .. n /\ ~(j <= m)
        BY <1>2, <2>2
      <3> QED  BY <1>4, <1>5, <1>6, <1>7, <3>1
    <2>3. CASE j = m + n + 1
      <3>1. j - m = n + 1 /\ ~(j <= m)
        BY <1>2, <2>3
      <3> QED  BY <1>4, <1>5, <1>7, <2>3, <3>1
    <2> QED  BY <1>2, <2>1, <2>2, <2>3
  <1>9. Len(x) = Len(y)
    BY <1>2, <1>5, <1>7
  <1>10. x = y
    <2>1. DOMAIN x = 1 .. m + (n + 1) /\ DOMAIN y = 1 .. m + (n + 1)
      BY <1>2, <1>5, <1>7, LenProperties
    <2>2. x = [j \in DOMAIN x |-> x[j]] /\ y = [j \in DOMAIN y |-> y[j]]
      BY <1>5, <1>7
    <2> QED  BY <1>8, <2>1, <2>2
  <1> QED  BY <1>3, <1>10

LEMMA ConsideredOne ==
    ASSUME FilesTyped, NEW doc, FromFiles(doc, files), NEW s \in DOMAIN doc.actions,
           NEW before \in Seq(LedgerEvent), NEW t \in SUBSET DOMAIN doc.actions, s \notin t,
           NEW st, Considering(st, before, doc, t)
    PROVE  Considering(Considered(st, doc, s), before, doc, t \cup {s})
  <1>1. PICK n : n = Considered(st, doc, s)
    OBVIOUS
  <1>2. CASE st.refused \/ Baseline(doc, s).date < st.account.last
    <2>1. n = [st EXCEPT !.refused = TRUE]
      BY <1>1, <1>2 DEF Considered
    <2>2. st = [refused |-> st.refused, events |-> st.events, account |-> st.account]
      BY DEF Considering
    <2>3. n = [refused |-> TRUE, events |-> st.events, account |-> st.account]
      BY <2>1, <2>2
    <2> QED  BY <1>1, <2>3 DEF Considering
  <1>3. CASE ~(st.refused \/ Baseline(doc, s).date < st.account.last)
    <2>1. PICK a, all, e, b : /\ a = st.account /\ all = before \o st.events
                              /\ e = Outcome(a, doc, s) /\ b = Booked(a, e)
      OBVIOUS
    <2>2. n = [refused |-> FALSE, events |-> Append(st.events, e), account |-> b]
      BY <1>1, <1>3, <2>1 DEF Considered
    <2>3. /\ st.events \in Seq(LedgerEvent) /\ Coherent(all, a)
          /\ \A x \in t : Absorbed(a, all, doc, x)
      BY <1>3, <2>1 DEF Considering
    <2>4. a \in VirtualState /\ a.last \in Nat
      BY <2>3 DEF Coherent, VirtualState
    <2>5. \A x \in DOMAIN doc.actions : Baseline(doc, x).date \in Nat
      BY BaselineExists
    <2>6. Baseline(doc, s).date >= a.last
      BY <1>3, <2>1, <2>4, <2>5
    <2>7. Fits(a, e) /\ e.stock = s
      BY <2>1, <2>4, <2>6, OutcomeIs
    <2>8. PICK longer : longer = Append(all, e)
      OBVIOUS
    <2>9. e \in LedgerEvent
      BY <2>7 DEF Fits
    <2>10. Append(st.events, e) \in Seq(LedgerEvent) /\ before \o Append(st.events, e) = longer
      BY <2>1, <2>3, <2>8, <2>9, JoinAppend
    <2>11. Coherent(longer, b)
      BY <2>1, <2>3, <2>7, <2>8, CoherentAppend
    <2>12. Absorbed(b, longer, doc, s)
      BY <2>1, <2>3, <2>6, <2>8, AbsorbedNow
    <2>13. ASSUME NEW x \in t  PROVE Absorbed(b, longer, doc, x)
      <3>1. x \in DOMAIN doc.actions /\ x # s
        OBVIOUS
      <3>2. x \in Codes /\ x # e.stock /\ Baseline(doc, x).date \in Nat
        BY <2>5, <2>7, <3>1 DEF FromFiles
      <3>3. Absorbed(a, all, doc, x)
        BY <2>3
      <3> QED  BY <2>1, <2>3, <2>7, <2>8, <3>2, <3>3, StaysAbsorbed
    <2>14. n.events = Append(st.events, e) /\ n.account = b
           /\ n = [refused |-> n.refused, events |-> n.events, account |-> n.account]
      BY <2>2
    <2> QED  BY <1>1, <2>10, <2>11, <2>12, <2>13, <2>14 DEF Considering
  <1> QED  BY <1>2, <1>3

\* A candidate that is absorbed, and whose purchase was not skipped, changes
\* nothing when its document is applied again.
LEMMA ConsideredAgain ==
    ASSUME FilesTyped, NEW doc, FromFiles(doc, files), NEW s \in DOMAIN doc.actions,
           NEW es, NEW a \in VirtualState, Absorbed(a, es, doc, s),
           doc.actions[s] = "BUY" => a.held[s].lots > 0,
           NEW st, st = [refused |-> st.refused, events |-> st.events, account |-> st.account],
           st.refused \/ st.account = a
    PROVE  LET n == Considered(st, doc, s)
           IN  /\ n = [refused |-> n.refused, events |-> n.events, account |-> n.account]
               /\ n.refused \/ n.account = a
  <1>1. PICK n : n = Considered(st, doc, s)
    OBVIOUS
  <1>2. CASE st.refused \/ Baseline(doc, s).date < st.account.last
    <2>1. n = [st EXCEPT !.refused = TRUE]
      BY <1>1, <1>2 DEF Considered
    <2>2. n = [refused |-> TRUE, events |-> st.events, account |-> st.account]
      BY <2>1
    <2> QED  BY <1>1, <2>2
  <1>3. CASE ~(st.refused \/ Baseline(doc, s).date < st.account.last)
    <2>1. PICK e, b : e = Outcome(a, doc, s) /\ b = Booked(a, e)
      OBVIOUS
    <2>2. st.account = a
      BY <1>3
    <2>3. n = [refused |-> FALSE, events |-> Append(st.events, e), account |-> b]
      BY <1>1, <1>3, <2>1, <2>2 DEF Considered
    <2>4. a.last \in Nat /\ Baseline(doc, s).date \in Nat /\ Baseline(doc, s).date <= a.last
      BY BaselineExists DEF VirtualState, Absorbed
    <2>5. Baseline(doc, s).date >= a.last /\ Baseline(doc, s).date = a.last
      BY <1>3, <2>2, <2>4
    <2>6. /\ Fits(a, e) /\ e.date = a.last
          /\ doc.actions[s] = "HOLD" => e.type = "held"
          /\ doc.actions[s] = "BUY" => (a.held[s].lots > 0 => e.type = "already_open")
          /\ doc.actions[s] = "SELL" =>
                /\ a.held[s].lots = 0 => e.type = "no_open_position"
                /\ a.held[s].lots > 0 =>
                      e.type = IF Settled(a.held[s], e.date) THEN "closed" ELSE "t_plus_one"
      BY <2>1, <2>5, OutcomeIs
    <2>7. a.held[s].lots \in Nat /\ doc.actions[s] \in {"HOLD", "BUY", "SELL"}
      BY DEF VirtualState, FromFiles
    <2>8. e.type \notin {"opened", "closed"}
      <3>1. CASE doc.actions[s] = "SELL" /\ a.held[s].lots > 0
        <4>1. ~Settled(a.held[s], e.date)
          BY <2>5, <2>6, <2>7, <3>1 DEF Absorbed
        <4> QED  BY <2>6, <3>1, <4>1
      <3>2. CASE doc.actions[s] = "SELL" /\ a.held[s].lots = 0
        BY <2>6, <3>2
      <3>3. CASE doc.actions[s] # "SELL"
        BY <2>6, <2>7, <3>3
      <3> QED  BY <2>7, <3>1, <3>2, <3>3
    <2>9. b.last = e.date /\ b.cash = a.cash /\ b.held = a.held /\ b \in VirtualState
      BY <2>1, <2>6, <2>8, BookedIs
    <2>10. b = a
      BY <2>6, <2>9 DEF VirtualState
    <2> QED  BY <1>1, <2>3, <2>10
  <1> QED  BY <1>2, <1>3

LEMMA CandidatesFoldable ==
    ASSUME NEW D \in SUBSET Codes  PROVE Foldable("document", D) /\ IsFiniteSet(D)
  <1>1. Codes \in SUBSET Nat /\ IsFiniteSet(Codes)
    BY FilesAssumption
  <1>2. IsFiniteSet(D)
    BY <1>1, FS_Subset
  <1>3. D \in SUBSET Int
    BY <1>1
  <1> QED  BY <1>2, <1>3 DEF Foldable

\* All the candidates of a document, in whatever account.
LEMMA DocumentConsidered ==
    ASSUME FilesTyped, NEW doc, FromFiles(doc, files), NEW before, NEW a, Coherent(before, a)
    PROVE  Considering(Applied(a, doc), before, doc, DOMAIN doc.actions)
  <1>1. PICK c, D : c = Candidates(a, doc) /\ D = DOMAIN doc.actions
    OBVIOUS
  <1>2. c.account = a /\ c.doc = doc
    BY <1>1 DEF Candidates
  <1>3. D \in SUBSET Codes /\ Foldable("document", D) /\ IsFiniteSet(D)
    BY <1>1, CandidatesFoldable DEF FromFiles
  <1>4. before \in Seq(LedgerEvent)
    BY DEF Coherent
  <1> DEFINE made(t) == Considering(Folded("document", c, t), before, doc, t)
  <1>5. made(D)
    <2> SUFFICES ASSUME ~made(D)  PROVE FALSE
      OBVIOUS
    <2> HIDE DEF made
    <2>1. PICK B : B = {t \in SUBSET D : ~made(t)}
      OBVIOUS
    <2>2. B \in SUBSET (SUBSET D) /\ B # {}
      BY <2>1
    <2>3. PICK t \in B : \A u \in SUBSET t : u # t => u \notin B
      BY <1>3, <2>2, SmallestSet
    <2>4. t \in SUBSET D /\ ~made(t) /\ Foldable("document", t)
      BY <1>3, <2>1, FoldablePart
    <2>5. CASE t = {}
      <3>1. PICK st : st = [refused |-> FALSE, events |-> <<>>, account |-> a]
        OBVIOUS
      <3>2. Folded("document", c, {}) = st
        BY <1>2, <3>1, FoldNone DEF FoldBase
      <3>3. before \o st.events = before /\ st.events \in Seq(LedgerEvent)
        <4>1. before \o << >> = before /\ << >> \in Seq(LedgerEvent)
          BY <1>4, ConcatEmptySeq, EmptySeq
        <4> QED  BY <3>1, <4>1
      <3>4. Considering(st, before, doc, {})
        BY <3>1, <3>3 DEF Considering
      <3> QED  BY <2>4, <2>5, <3>2, <3>4 DEF made
    <2>6. CASE t # {}
      <3>1. PICK x, rest, st : /\ x = FoldPick("document", t) /\ rest = t \ {x}
                               /\ st = Folded("document", c, rest)
        OBVIOUS
      <3>2. x \in t /\ Folded("document", c, t) = FoldStep("document", c, x, st)
        BY <2>4, <2>6, <3>1, FoldTake
      <3>3. rest \in SUBSET t /\ rest # t /\ rest \in SUBSET D /\ x \notin rest
            /\ rest \cup {x} = t
        BY <2>4, <3>1, <3>2
      <3>4. made(rest)
        BY <2>1, <2>3, <3>3
      <3>5. Considering(st, before, doc, rest)
        BY <3>1, <3>4 DEF made
      <3>6. x \in DOMAIN doc.actions /\ rest \in SUBSET DOMAIN doc.actions
        BY <1>1, <2>4, <3>2, <3>3
      <3>7. Considering(Considered(st, doc, x), before, doc, rest \cup {x})
        BY <1>4, <3>3, <3>5, <3>6, ConsideredOne
      <3>8. Folded("document", c, t) = Considered(st, doc, x)
        BY <1>2, <3>2 DEF FoldStep
      <3> QED  BY <2>4, <3>3, <3>7, <3>8 DEF made
    <2> QED  BY <2>5, <2>6
  <1>6. Applied(a, doc) = Folded("document", c, D)
    BY <1>1, <1>3, AppliedIsFold
  <1> QED  BY <1>1, <1>5, <1>6

LEMMA DocumentAgain ==
    ASSUME FilesTyped, NEW doc, FromFiles(doc, files), NEW es, NEW a \in VirtualState,
           \A s \in DOMAIN doc.actions :
              Absorbed(a, es, doc, s) /\ (doc.actions[s] = "BUY" => a.held[s].lots > 0)
    PROVE  Applied(a, doc).refused \/ Applied(a, doc).account = a
  <1>1. PICK c, D : c = Candidates(a, doc) /\ D = DOMAIN doc.actions
    OBVIOUS
  <1>2. c.account = a /\ c.doc = doc
    BY <1>1 DEF Candidates
  <1>3. D \in SUBSET Codes /\ Foldable("document", D) /\ IsFiniteSet(D)
    BY <1>1, CandidatesFoldable DEF FromFiles
  <1> DEFINE same(st) ==
               /\ st = [refused |-> st.refused, events |-> st.events, account |-> st.account]
               /\ st.refused \/ st.account = a
  <1>4. same(Folded("document", c, D))
    <2> SUFFICES ASSUME ~same(Folded("document", c, D))  PROVE FALSE
      OBVIOUS
    <2>1. PICK B : B = {t \in SUBSET D : ~same(Folded("document", c, t))}
      OBVIOUS
    <2>2. B \in SUBSET (SUBSET D) /\ B # {}
      BY <2>1
    <2>3. PICK t \in B : \A u \in SUBSET t : u # t => u \notin B
      BY <1>3, <2>2, SmallestSet
    <2>4. t \in SUBSET D /\ ~same(Folded("document", c, t)) /\ Foldable("document", t)
      BY <1>3, <2>1, FoldablePart
    <2>5. CASE t = {}
      <3>1. Folded("document", c, {}) = [refused |-> FALSE, events |-> <<>>, account |-> a]
        BY <1>2, FoldNone DEF FoldBase
      <3> QED  BY <2>4, <2>5, <3>1
    <2>6. CASE t # {}
      <3>1. PICK x, rest, st : /\ x = FoldPick("document", t) /\ rest = t \ {x}
                               /\ st = Folded("document", c, rest)
        OBVIOUS
      <3>2. x \in t /\ Folded("document", c, t) = FoldStep("document", c, x, st)
        BY <2>4, <2>6, <3>1, FoldTake
      <3>3. rest \in SUBSET t /\ rest # t /\ rest \in SUBSET D
        BY <2>4, <3>1, <3>2
      <3>4. same(st)
        BY <2>1, <2>3, <3>1, <3>3
      <3>5. x \in DOMAIN doc.actions
        BY <1>1, <2>4, <3>2
      <3>6. same(Considered(st, doc, x))
        BY <3>4, <3>5, ConsideredAgain
      <3>7. Folded("document", c, t) = Considered(st, doc, x)
        BY <1>2, <3>2 DEF FoldStep
      <3> QED  BY <2>4, <3>6, <3>7
    <2> QED  BY <2>5, <2>6
  <1>5. Applied(a, doc) = Folded("document", c, D)
    BY <1>1, <1>3, AppliedIsFold
  <1> QED  BY <1>4, <1>5

\* Nothing has been booked yet.
LEMMA CoherentStart == Coherent(<<>>, VirtualAccount)
  <1>1. PICK none, a : none = << >> /\ a = VirtualAccount
    OBVIOUS
  <1>2. none \in Seq(LedgerEvent) /\ DOMAIN none = {} /\ Len(none) = 0
    BY <1>1
  <1>3. a = [cash |-> VirtualCash, held |-> [s \in Codes |-> Nobody], last |-> 0]
    BY <1>1 DEF VirtualAccount
  <1>4. a \in VirtualState
    BY <1>3, FilesAssumption DEF VirtualState, Nobody
  <1>5. a = Rebuilt(none)
    BY <1>1, RebuiltNone
  <1>6. \A type : Amounts(none, type) = 0
    <2> TAKE type
    <2>1. {k \in DOMAIN none : none[k].type = type} = {}
      BY <1>2
    <2> QED  BY <2>1, SumEmpty DEF Amounts
  <1>7. a.cash = VirtualCash - Amounts(none, "opened") + Amounts(none, "closed")
    <2>1. VirtualCash \in Nat /\ a.cash = VirtualCash
      BY <1>3, FilesAssumption
    <2> QED  BY <1>6, <2>1
  <1>8. \A type, s : Of(none, type, s) = {}
    BY <1>2 DEF Of
  <1>9. \A s \in Codes : Holding(none, a.held[s], s)
    <2>1. \A s \in Codes : a.held[s].lots = 0
      BY <1>3 DEF Nobody
    <2> QED  BY <1>8, <2>1 DEF Holding
  <1>10. Coherent(none, a)
    BY <1>2, <1>4, <1>5, <1>7, <1>8, <1>9 DEF Coherent
  <1> QED  BY <1>1, <1>10

\* Every ledger accounts for its events, and its document is absorbed.
LedgerSet(docs) ==
    [doc : docs, prior : Nat, events : Seq(LedgerEvent), account : VirtualState]
\* What a ledger promises of the one it continues.
Repeats(l, prior) ==
    prior.doc = l.doc /\ prior.account # l.account =>
        \E k \in 1 .. Len(prior.events) : /\ l.events[k].type = "insufficient_cash"
                                          /\ l.doc.actions[l.events[k].stock] = "BUY"
LedgerOK(i, ls) ==
    /\ Coherent(ls[i].events, ls[i].account)
    /\ \A s \in DOMAIN ls[i].doc.actions : Absorbed(ls[i].account, ls[i].events, ls[i].doc, s)
    /\ ls[i].prior < i
    /\ ls[i].prior > 0 => Repeats(ls[i], ls[ls[i].prior])
LedgersInv ==
    ReviewsInv /\ ledgers \in Seq(LedgerSet(documents)) /\ \A i \in DOMAIN ledgers : LedgerOK(i, ledgers)

LEMMA RepeatedApplication ==
    ASSUME ReviewsInv, NEW doc \in documents, NEW es, NEW a, Coherent(es, a),
           \A s \in DOMAIN doc.actions : Absorbed(a, es, doc, s),
           NEW st, st = Applied(a, doc), ~st.refused, st.account # a
    PROVE  \E k \in DOMAIN es : /\ es[k].type = "insufficient_cash"
                                /\ doc.actions[es[k].stock] = "BUY"
  <1>1. FilesTyped /\ FromFiles(doc, files) /\ a \in VirtualState
    BY DEF ReviewsInv, Coherent
  <1>2. PICK s \in DOMAIN doc.actions : doc.actions[s] = "BUY" /\ ~(a.held[s].lots > 0)
    BY <1>1, DocumentAgain
  <1> QED  BY <1>2 DEF Absorbed

LEMMA ApplyStep ==
    ASSUME LedgersInv, NEW doc \in documents, NEW prior \in 0 .. Len(ledgers),
           ApplyLedger(doc, prior)
    PROVE  LedgersInv'
  <1>1. ReviewsInv /\ ledgers \in Seq(LedgerSet(documents))
        /\ \A i \in DOMAIN ledgers : LedgerOK(i, ledgers)
    BY DEF LedgersInv
  <1>2. PICK n : n = Len(ledgers)
    OBVIOUS
  <1>3. n \in Nat /\ DOMAIN ledgers = 1 .. n /\ prior \in Nat /\ prior <= n
    BY <1>1, <1>2
  <1>4. PICK before, a : /\ before = IF prior = 0 THEN <<>> ELSE ledgers[prior].events
                         /\ a = Rebuilt(before)
    OBVIOUS
  <1>5. PICK st : st = Applied(a, doc)
    OBVIOUS
  <1>6. PICK all, l : /\ all = before \o st.events
                      /\ l = [doc |-> doc, prior |-> prior, events |-> all,
                              account |-> st.account]
    OBVIOUS
  <1>7. /\ prior > 0 => a = ledgers[prior].account
        /\ ~st.refused /\ ledgers' = Append(ledgers, l)
        /\ files' = files /\ documents' = documents
    BY <1>4, <1>5, <1>6 DEF ApplyLedger
  <1>8. ASSUME prior > 0
        PROVE  /\ prior \in DOMAIN ledgers /\ LedgerOK(prior, ledgers)
               /\ before = ledgers[prior].events /\ a = ledgers[prior].account
    BY <1>1, <1>3, <1>4, <1>7, <1>8
  <1>9. Coherent(before, a)
    <2>1. CASE prior = 0
      <3>1. before = << >> /\ a = VirtualAccount
        BY <1>4, <2>1, RebuiltNone
      <3> QED  BY <3>1, CoherentStart
    <2>2. CASE prior > 0
      BY <1>8, <2>2 DEF LedgerOK
    <2> QED  BY <1>3, <2>1, <2>2
  <1>10. FilesTyped /\ FromFiles(doc, files)
    BY <1>1 DEF ReviewsInv
  <1>11. /\ st.events \in Seq(LedgerEvent) /\ Coherent(all, st.account)
         /\ \A s \in DOMAIN doc.actions : Absorbed(st.account, all, doc, s)
    <2>1. Considering(st, before, doc, DOMAIN doc.actions)
      BY <1>5, <1>9, <1>10, DocumentConsidered
    <2> QED  BY <1>6, <1>7, <2>1 DEF Considering
  <1>12. l \in LedgerSet(documents)
    BY <1>3, <1>6, <1>11 DEF LedgerSet, Coherent
  <1>13. /\ ledgers' \in Seq(LedgerSet(documents)) /\ DOMAIN ledgers' = 1 .. n + 1
         /\ ledgers'[n + 1] = l /\ \A i \in 1 .. n : ledgers'[i] = ledgers[i]
    BY <1>1, <1>2, <1>7, <1>12
  <1>14. ASSUME NEW i \in 1 .. n  PROVE LedgerOK(i, ledgers')
    <2>1. LedgerOK(i, ledgers) /\ ledgers'[i] = ledgers[i] /\ ledgers[i].prior \in Nat
      <3>1. i \in DOMAIN ledgers /\ ledgers'[i] = ledgers[i]
        BY <1>3, <1>13
      <3>2. ledgers[i] \in LedgerSet(documents) /\ LedgerOK(i, ledgers)
        BY <1>1, <3>1
      <3> QED  BY <3>1, <3>2 DEF LedgerSet
    <2>2. ledgers[i].prior > 0 => /\ ledgers[i].prior \in 1 .. n
                                  /\ ledgers'[ledgers[i].prior] = ledgers[ledgers[i].prior]
      BY <1>3, <1>13, <2>1 DEF LedgerOK
    <2> QED  BY <2>1, <2>2 DEF LedgerOK
  <1>15. ASSUME prior > 0, ledgers[prior].doc = doc, ledgers[prior].account # st.account
         PROVE  \E k \in 1 .. Len(ledgers[prior].events) :
                   all[k].type = "insufficient_cash" /\ doc.actions[all[k].stock] = "BUY"
    <2>1. \A s \in DOMAIN doc.actions : Absorbed(a, before, doc, s)
      BY <1>8, <1>15 DEF LedgerOK
    <2>2. PICK k \in DOMAIN before : /\ before[k].type = "insufficient_cash"
                                     /\ doc.actions[before[k].stock] = "BUY"
      BY <1>1, <1>5, <1>7, <1>8, <1>9, <1>15, <2>1, RepeatedApplication
    <2>3. before \in Seq(LedgerEvent) /\ k \in 1 .. Len(before)
      BY <1>9, <2>2 DEF Coherent
    <2>4. all[k] = before[k]
      BY <1>6, <1>11, <2>3
    <2> QED  BY <1>8, <1>15, <2>2, <2>3, <2>4
  <1>16. LedgerOK(n + 1, ledgers')
    <2>1. prior < n + 1
      BY <1>3
    <2>2. prior > 0 => ledgers'[prior] = ledgers[prior]
      BY <1>3, <1>13
    <2>3. l.doc = doc /\ l.prior = prior /\ l.events = all /\ l.account = st.account
      BY <1>6
    <2>4. prior > 0 => Repeats(l, ledgers[prior])
      BY <1>15, <2>3 DEF Repeats
    <2> QED  BY <1>11, <1>13, <2>1, <2>2, <2>3, <2>4 DEF LedgerOK
  <1>17. \A i \in DOMAIN ledgers' : LedgerOK(i, ledgers')
    <2>1. \A i \in 1 .. n + 1 : i \in 1 .. n \/ i = n + 1
      BY <1>3
    <2> QED  BY <1>13, <1>14, <1>16, <2>1
  <1>18. ReviewsInv'
    BY <1>1, <1>7 DEF ReviewsInv, FilesTyped, FromFiles
  <1> QED  BY <1>7, <1>13, <1>17, <1>18 DEF LedgersInv

LEMMA LedgersStep ==
    ASSUME LedgersInv, [ObservationNext]_observationVars
    PROVE  LedgersInv'
  <1>1. ReviewsInv'
    BY ReviewsStep DEF LedgersInv
  <1>2. CASE \E doc \in documents, prior \in 0 .. Len(ledgers) : ApplyLedger(doc, prior)
    BY <1>2, ApplyStep
  <1>3. CASE ledgers' = ledgers /\ documents \subseteq documents'
    <2>1. LedgerSet(documents) \subseteq LedgerSet(documents')
      BY <1>3 DEF LedgerSet
    <2>2. ledgers \in Seq(LedgerSet(documents'))
      BY <2>1 DEF LedgersInv
    <2>3. \A i \in DOMAIN ledgers : LedgerOK(i, ledgers)
      BY DEF LedgersInv
    <2> QED  BY <1>1, <1>3, <2>2, <2>3 DEF LedgersInv
  <1>4. ASSUME NEW date \in Dates, NEW content \in Contents, Fetch(date, content)
        PROVE  ledgers' = ledgers /\ documents \subseteq documents'
    BY <1>4 DEF Fetch
  <1>5. ASSUME NEW batches \in SUBSET DOMAIN files, Evaluate(batches)
        PROVE  ledgers' = ledgers /\ documents \subseteq documents'
    BY <1>5 DEF Evaluate
  <1>6. CASE UNCHANGED observationVars
    BY <1>3, <1>6 DEF observationVars
  <1> QED  BY <1>2, <1>3, <1>4, <1>5, <1>6 DEF ObservationNext

LEMMA LedgersSound == LedgersInv => ObservationAccountsAddUp
  <1> SUFFICES ASSUME LedgersInv, NEW i \in DOMAIN ledgers, NEW l, l = ledgers[i]
               PROVE  LET amounts(type) == SumFunctionOnSet([k \in DOMAIN l.events |-> l.events[k].amount],
                                              {k \in DOMAIN l.events : l.events[k].type = type})
                          from == IF l.prior = 0 THEN 0 ELSE Len(ledgers[l.prior].events)
                      IN  /\ Rebuilt(l.events) = l.account
                          /\ l.account.cash = VirtualCash - amounts("opened") + amounts("closed")
                          /\ l.account.cash >= 0
                          /\ \A k \in 2 .. Len(l.events) : l.events[k - 1].date <= l.events[k].date
                          /\ \A s \in Codes : \A k \in EventsOf(l, "closed", s) :
                                LET opened == {j \in EventsOf(l, "opened", s) : j < k}
                                IN  /\ Cardinality(opened) = 1 + Cardinality({j \in EventsOf(l, "closed", s) : j < k})
                                    /\ l.events[Max(opened)].date < l.events[k].date
                                    /\ l.events[Max(opened)].lots = l.events[k].lots
                          /\ l.prior > 0 /\ ledgers[l.prior].doc = l.doc
                                 /\ ledgers[l.prior].account # l.account =>
                                \E k \in 1 .. from : /\ l.events[k].type = "insufficient_cash"
                                                     /\ l.doc.actions[l.events[k].stock] = "BUY"
    BY Zenon DEF ObservationAccountsAddUp
  <1>1. LedgerOK(i, ledgers) /\ l \in LedgerSet(documents)
    BY DEF LedgersInv
  <1>2. Coherent(l.events, l.account)
    BY <1>1 DEF LedgerOK
  <1>3. Rebuilt(l.events) = l.account /\ l.account.cash >= 0
    BY <1>2 DEF Coherent, VirtualState
  <1>4. l.account.cash = VirtualCash
            - SumFunctionOnSet([k \in DOMAIN l.events |-> l.events[k].amount],
                               {k \in DOMAIN l.events : l.events[k].type = "opened"})
            + SumFunctionOnSet([k \in DOMAIN l.events |-> l.events[k].amount],
                               {k \in DOMAIN l.events : l.events[k].type = "closed"})
    BY <1>2, Zenon DEF Coherent, Amounts, Sum
  <1>5. \A k \in 2 .. Len(l.events) : l.events[k - 1].date <= l.events[k].date
    BY <1>2 DEF Coherent
  <1>6. \A type, s : EventsOf(l, type, s) = Of(l.events, type, s)
    BY DEF EventsOf, Of
  <1>7. \A s \in Codes : \A k \in Of(l.events, "closed", s) : Closing(l.events, s, k)
    BY <1>2 DEF Coherent
  <1>8. ASSUME NEW s \in Codes, NEW k \in EventsOf(l, "closed", s)
        PROVE  LET opened == {j \in EventsOf(l, "opened", s) : j < k}
               IN  /\ Cardinality(opened) = 1 + Cardinality({j \in EventsOf(l, "closed", s) : j < k})
                   /\ l.events[Max(opened)].date < l.events[k].date
                   /\ l.events[Max(opened)].lots = l.events[k].lots
    <2>1. Closing(l.events, s, k)
      BY <1>6, <1>7
    <2> QED  BY <1>6, <2>1 DEF Closing, Before
  <1>9. ASSUME l.prior > 0, ledgers[l.prior].doc = l.doc, ledgers[l.prior].account # l.account
        PROVE  \E k \in 1 .. IF l.prior = 0 THEN 0 ELSE Len(ledgers[l.prior].events) :
                   /\ l.events[k].type = "insufficient_cash"
                   /\ l.doc.actions[l.events[k].stock] = "BUY"
    <2>1. Repeats(l, ledgers[l.prior])
      BY <1>1, <1>9 DEF LedgerOK
    <2>2. l.prior # 0
      BY <1>9
    <2> QED  BY <1>9, <2>1, <2>2 DEF Repeats
  <1> QED  BY <1>3, <1>4, <1>5, <1>8, <1>9, Zenon

\* Whatever documents are applied to whatever ledger, in any order and again,
\* the virtual account is what its events rebuild, its money and its positions
\* are accounted for, and a document applied twice in a row changes it only
\* where a purchase had been skipped (data/free_observation_ledger.py).
THEOREM ObservationAccountsAlwaysAddUp == SimulatorsSpec => []ObservationAccountsAddUp
  <1>1. SimulatorsInit => LedgersInv
    <2> SUFFICES ASSUME SimulatorsInit  PROVE LedgersInv
      OBVIOUS
    <2>1. files = History /\ documents = {} /\ ledgers = << >>
      BY DEF SimulatorsInit, ObservationInit
    <2> QED  BY <2>1, FilesAssumption DEF LedgersInv, ReviewsInv, FilesTyped, FetchedBatch
  <1>2. LedgersInv /\ [SimulatorsNext]_SimulatorsVars => LedgersInv'
    <2> SUFFICES ASSUME LedgersInv, [SimulatorsNext]_SimulatorsVars  PROVE LedgersInv'
      OBVIOUS
    <2>1. [ObservationNext]_observationVars
      BY DEF SimulatorsNext, SimulatorsVars
    <2> QED  BY <2>1, LedgersStep
  <1> QED  BY <1>1, <1>2, LedgersSound, PTL DEF SimulatorsSpec
=============================================================================
