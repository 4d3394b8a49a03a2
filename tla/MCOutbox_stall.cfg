SPECIFICATION FairSpec
CONSTANTS
    Events = {1, 2}
    Handlers = {"h1", "h2"}
    Matching <- MCAllMatch
    Wildcard = TRUE
    NoKey = NoKey
    KeyOf <- MCNoKeys
    OccurredAt <- MCOccurredAt
    Drains = {d1}
    NoEvent = 0
    Limit = 1
    MaxAttempts = 1
    MaxCrashes = 0
PROPERTY EventuallySettled
