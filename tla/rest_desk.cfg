SPECIFICATION Spec
CONSTANTS
    Callers = {poller, job}
    poller = poller
    job = job
    MaxCalls = 2
    Period = 2
    MaxAttempts = 2
INVARIANTS
    TypeOK
    LimitKept
    ResultTrue
PROPERTIES
    FewWithoutSlot
    TokenHeals
    RequestsEnd
