SPECIFICATION GatesSpec
CONSTANTS
    Activations = {a1}
    Recoveries = {v1}
    Checks = {c1}
    Leftovers = {}
    None = None
    Orders = {o1, o2}
    s1 = s1
    s2 = s2
    s3 = s3
    Stocks = {s1, s2, s3}
    Quoted = {s1, s2}
    Requests <- Asked
    Opening <- HighPrices
    SectorOf <- TwoSectors
    Barred = {s2}
    Prices = {4, 8}
    Slip = 1
    Fee = 1
    Capital = 60
    Held = 1
    MaxSingle = 27
    MaxTotal = 54
    MaxSector = 38
    MaxLoss = 5
    MaxDrawdown = 15
    MaxOrders = 1
    MaxDay = 2
    NoLimit = NoLimit
PROPERTIES
    LossesStopOrders
CHECK_DEADLOCK FALSE
SYMMETRY GatesSymmetry
