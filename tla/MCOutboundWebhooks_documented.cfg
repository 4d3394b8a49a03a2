SPECIFICATION Spec
CONSTANTS
    Endpoints = {e1}
    Events = {1, 2}
    Publishers = {1, 2}
    EventOf <- MCEventOfEach
    Matching <- MCMatching
    Senders = {s1, s2}
    NoDelivery = NoDelivery
    BatchSize = 2
    MaxAttempts = 2
    FailureThreshold = 1
    DisableThreshold = 3
    MaxCrashes = 0
    MaxEnables = 0
CHECK_DEADLOCK FALSE
INVARIANT DisjointWork
PROPERTIES
    OpenCircuitIsRespected
    FailedTrialReopens
