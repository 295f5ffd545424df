SPECIFICATION TrialsSpec
CONSTANTS
    stockA = stockA
    Orders = {o1, o2}
    Stocks = {stockA}
    StockOf <- OneStock
    Quantity = 1
    Holdings = {0, 1}
    Cash = 5
    Fee = 1
    Prices = {1, 2}
    Requests = {TRUE, FALSE}
    MaxDay = 2
    None = None
    Jobs = {j1}
    Executors = {e1, e2, e3}
    MaxRetries = 2
    MaxLost = 2
    Settings = {TRUE, FALSE}
INVARIANTS
    ResultsBelongToTheirAttempt
    BooksAddUp
PROPERTIES
    CancelWins
    EndsUnlessOrphaned
    AssetsSettle
CHECK_DEADLOCK FALSE
