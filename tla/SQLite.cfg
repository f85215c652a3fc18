CONSTANTS
    w1 = w1
    w2 = w2
    r1 = r1
    Writers = {w1, w2}
    Readers = {r1}
    Fails = TRUE
    Closes = TRUE
SPECIFICATION FairSpec

INVARIANTS
    ReturnedMeansDurable
    QueriesSeeReturned

PROPERTIES
    EveryCallReturns
