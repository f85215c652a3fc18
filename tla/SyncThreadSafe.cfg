CONSTANTS
    c1 = c1
    c2 = c2
    c3 = c3
    Closer = Closer
    Nobody = Nobody
    NoLock = NoLock
    Callers <- TwoCallers
    ThreadSafety = {TRUE}
    Closes = FALSE
    MaxCalls = 2

SPECIFICATION FairSpec

PROPERTIES
    EveryCallReturns
