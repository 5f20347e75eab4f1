SPECIFICATION Spec
CONSTANTS
    NoCode = NoCode
    Codes = {etf}
    EtfCode = etf
    Modes = {"paper", "live"}
    MaxOrders = 3
    Capital = 2
    MinIdleCash = 1
    MaxHoldDays = 2
    Quotes = {0, 1}
    Slippages = {1}
    MaxRetries = 0
    MaxEtfRows = 2
    MaxFaults = 1
INVARIANTS
    TypeOK
    EtfMemoryIsTable
    EtfQueueFits
    EtfRowsBacked
PROPERTIES
    EtfSold
    EtfLedgerRefined
