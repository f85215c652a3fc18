CONSTANTS
    a = a
    b = b
    c1 = c1
    c2 = c2
    c3 = c3
    c4 = c4
    c5 = c5
    c6 = c6
    NoHash = NoHash
    Clients = {c3, c4, c5}
    Agents = {b}
    Job <- Reused
    Fails = FALSE

SPECIFICATION Spec

PROPERTIES
    VersionsGrow
