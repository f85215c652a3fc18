CONSTANTS
    PriorWeight = 2
    Degenerate = 1000000
    Evidence <- MCEvidence
    Sources = {a1, a2}
    Discounter = "distributed"
    Operator = "operator"
    Snapshots <- MCSnapshots
    Capacities = {0, 1}
    Lookback = 1
    MaxChanges = 3
    MaxClock = 2

SYMMETRY SourcesAlike
SPECIFICATION Spec

INVARIANTS
    StartOfWindowIsFaithful
    DeltaIsContributed
    AttributionKeepsUp
