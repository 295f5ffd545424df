CONSTANTS
    stockA = stockA
    Orders = {o1}
    Stocks = {stockA}
    StockOf <- OneStock
    Sells = {o1}
    Quantity = 2
    Holding <- OneHeld
    Polls = {p1}
    Callbacks = {c1}
    Cancels = {}
    Copies = {}
    Lags = {"SUBMITTED", "PARTIAL", "FILLED"}
    Prices = {TRUE}
    MaxLost = 1
    None = None
SPECIFICATION PollSpec

INVARIANTS BooksFollowTheBroker
PROPERTIES ImplementsFills RowsCatchUp
CHECK_DEADLOCK FALSE
