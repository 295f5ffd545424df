\* Two runs of the worker's task over two stocks, and two batches; times to
\* live are shrunk but keep their order (worker < backend <= refill).
SPECIFICATION Spec
CONSTANTS
    Codes = {c1, c2}
    Syncs = {s1, s2}
    WorkerTtl = 1
    QuoteTtl = 2
    RefillTtl = 2
    BatchRefillTtl = 1
    Hold = 1
    MaxBatches = 2
    MaxFeed = 1
    NoQuote = NoQuote
    Clients = {w1, w2}
    Entitled = {w1, w2}
    NoCode = NoCode
    NoCast = NoCast
    KlineDays = {1, 2}
    Stamps = {"close", "midnight"}
    MaxKlineBatches = 3
    MaxSaves = 1
    SmokeTest = TRUE
    NoBar = NoBar
    i1 = i1
    i2 = i2
    Importers = {i1, i2}
    Releases = {"v1"}
    Days <- Quarter
    Months = {1, 2}
    MonthOf <- MonthOfDay
    Calendars <- CalendarsTried
    Ranges <- RunAndMonth
    Publications <- Responses
    MaxStarts = 2
    MaxReviews = 2
    NoRow = NoRow
    NoReview = NoReview
    NoRun = NoRun
SYMMETRY Symmetry
CONSTRAINT OneReviewOfARace
INVARIANTS
    QuotesAreOnRecord
    NothingIsLeftBehind
    ServedQuotesAreFresh
    CertifiedBarsAreIntact
    BatchesAreWhole
    RunsSeeEveryDay
    ReadyOutlivesBrokenAudits
CHECK_DEADLOCK FALSE
