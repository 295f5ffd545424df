CONSTANTS
    stockA = stockA
    Orders = {o1, o2}
    Stocks = {stockA}
    StockOf <- OneStock
    Sells = {o2}
    Quantity = 1
    Holding <- OneHeld
    Polls = {p1}
    Callbacks = {}
    Cancels = {x1}
    Copies = {k1}
    Lags = {}
    Prices = {TRUE}
    MaxLost = 0
    None = None
SPECIFICATION FairSpec

INVARIANTS BooksFollowTheBroker
PROPERTIES EverySessionEnds
CHECK_DEADLOCK FALSE
