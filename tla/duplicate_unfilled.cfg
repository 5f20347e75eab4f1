SPECIFICATION Spec
CONSTANTS
    NoCode = NoCode
    Codes = {a}
    MaxOrders = 3
    MaxRows = 2
    Cooldown = 1
    MaxPositions = 1
    LiveMode = TRUE
    FillEvents = FALSE
    Lots = {2}
    Tp1Pct = 10
    Tp2Pct = 10
    SellRetries = 2
    MaxFaults = 0
PROPERTY DuplicateMeansUnfilled
