SPECIFICATION Spec
CONSTANTS
    Endpoints = {e1, e2}
    Events = {1}
    Publishers = {1, 2}
    EventOf <- MCEventOf
    Matching <- MCMatching
    Senders = {s1}
    NoDelivery = NoDelivery
    BatchSize = 2
    MaxAttempts = 2
    FailureThreshold = 1
    DisableThreshold = 2
    MaxCrashes = 0
    MaxEnables = 0
CHECK_DEADLOCK FALSE
SYMMETRY EndpointSymmetry
INVARIANTS
    FannedOut
    CircuitMatchesFailures
    DeadWasSpent
