SPECIFICATION Spec
CONSTANTS
    NoCode = NoCode
    Codes = {etf}
    EtfCode = etf
    Modes = {"paper"}
    MaxOrders = 1
    Capital = 2
    MinIdleCash = 1
    MaxHoldDays = 2
    Quotes = {1}
    Slippages = {0}
    MaxRetries = 0
    MaxEtfRows = 1
    MaxFaults = 0
INVARIANT
    NoCashConflict
