SPECIFICATION Spec
CONSTANTS
    Tickers = {old, added}
    old = old
    added = added
    New = {added}
    QueueSize = 1
    LastDay = 3
INVARIANTS
    TypeOK
    NoHoles
    QueueDrained
PROPERTIES
    RunsEnd
