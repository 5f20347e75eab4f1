SPECIFICATION FairSpec
CONSTANTS
    NoCode = NoCode
    Codes = {a}
    MaxOrders = 3
    MaxRows = 1
    Cooldown = 1
    MaxPositions = 1
    LiveMode = TRUE
    FillEvents = TRUE
    Lots = {2}
    Tp1Pct = 10
    Tp2Pct = 10
    SellRetries = 2
    MaxFaults = 1
INVARIANTS
    TypeOK
    OnePendingPerSide
    LedgerBackedByOrders
    SellingIsBacked
PROPERTIES
    SellingResolved
    HaltLifted
