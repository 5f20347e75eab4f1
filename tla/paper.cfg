SPECIFICATION Spec
CONSTANTS
    NoCode = NoCode
    Codes = {a, b, c}
    MaxOrders = 0
    MaxRows = 3
    Cooldown = 0
    MaxPositions = 2
    LiveMode = FALSE
    FillEvents = FALSE
    Lots = {2}
    Tp1Pct = 10
    Tp2Pct = 10
    SellRetries = 3
    MaxFaults = 1
INVARIANTS
    PositionLimit
    OneLivePositionPerCode
    SalesAccounted
PROPERTY LedgerRefined
SYMMETRY CodeSymmetry
