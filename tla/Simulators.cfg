CONSTANTS
    TradingDays <- Week
    Bars <- BarsTried
    Batches <- SignalBatches
    StrategyLot = 100
    Stocks <- Listed
    Actions <- CorporateActions
    Openings <- OpeningAccounts
    NoBar = NoBar
    NotTaken = NotTaken
    Requests <- RequestsTried
    Cutoffs = {36000}
    Futures = {1, 99900}
    InitialCash = 300000
    MaxEvents = 13
    Codes = {1, 2}
    Dates = {3, 4}
    Contents <- Answers
    History <- Past
    FastPeriod = 1
    SlowPeriod = 2
    Percent = 50
    VirtualCash = 6
    MaxFiles = 4
    MaxDocuments = 2
    MaxLedgers = 3
SPECIFICATION SimulatorsSpec
INVARIANTS
    BacktestAccountAddsUp
    SyntheticAccountIsSound
    ObservationAccountsAddUp
    NothingKnowsTheFuture
PROPERTY MatchesReference
CHECK_DEADLOCK FALSE
