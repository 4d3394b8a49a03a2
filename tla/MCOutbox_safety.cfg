SPECIFICATION Spec
CONSTANTS
    Events = {1, 2, 3}
    Handlers = {"h1", "h2"}
    Matching <- MCMatching
    Wildcard = TRUE
    NoKey = NoKey
    KeyOf <- MCKeyOf
    OccurredAt <- MCOccurredAt
    Drains = {d1, d2}
    NoEvent = 0
    Limit = 2
    MaxAttempts = 2
    MaxCrashes = 1
SYMMETRY Symmetry
INVARIANTS
    DeliveredWasHandled
    DeadWasSpent
    OneEventPerKey
PROPERTY ImplementsDurableWork
