CONSTANTS
    Agents = {a, b}
    Tasks = {t, g}
    Graphs = {g}
    Subject = a
    Uses <- MCUses
    Amounts <- MCAmounts
    None = None
    PriorWeight = 2
    Floor <- MCFloor
    SubscriberErrors = {"KeyError"}
    MaxCalls = 3
SPECIFICATION Spec
INVARIANTS RoutesAreBacked CountedAsEarned SelectedIsNotDominated 
