CONSTANTS
    a = a
    b = b
    c1 = c1
    c2 = c2
    c3 = c3
    c4 = c4
    c5 = c5
    c6 = c6
    NoHash = NoHash
    Clients = {c1, c2, c3, c4, c5, c6}
    Agents = {a, b}
    Job <- Mixed
    Fails = TRUE

SPECIFICATION FairSpec

PROPERTIES
    ConditionalWriteSeesItsRead
    UpdatesAreAtomic
    EveryUpdateLands
