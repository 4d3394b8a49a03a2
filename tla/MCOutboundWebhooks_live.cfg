SPECIFICATION FairSpec
CONSTANTS
    Endpoints = {e1}
    Events = {1}
    Publishers = {1}
    EventOf <- MCEventOf
    Matching <- MCMatching
    Senders = {s1, s2}
    NoDelivery = NoDelivery
    BatchSize = 2
    MaxAttempts = 2
    FailureThreshold = 2
    DisableThreshold = 3
    MaxCrashes = 1
    MaxEnables = 1
CHECK_DEADLOCK FALSE
INVARIANTS
    DeliveredWasAccepted
PROPERTY EventuallySettled
