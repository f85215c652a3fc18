CONSTANTS
    c1 = c1
    c2 = c2
    c3 = c3
    Closer = Closer
    Nobody = Nobody
    NoLock = NoLock
    Callers <- ThreeCallers
    ThreadSafety = {TRUE, FALSE}
    Closes = TRUE
    MaxCalls = 5

SPECIFICATION FairSpec

INVARIANTS
    ChangesAreSerial

PROPERTIES
    CallsReturn
    CloseReturns
