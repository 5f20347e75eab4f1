SPECIFICATION Spec
CONSTANTS
    Prices = {8, 12, 14}
    Entry = 10
    Lot = 3
    StopDist = 2
    ExitTrail = 2
    TrailDists = {1, 3}
    ActivatePct = 20
    Tp1 = 12
    Tp2 = 14
    TpPct = 70
    ScaleAt = 12
    ScaleQty = 1
    MaxHold = 1
INVARIANTS
    TypeOK
    CacheCurrent
    HighKept
    StopHolds
    SharesAccounted
PROPERTIES
    StopNeverFalls
    HeldNotForever
