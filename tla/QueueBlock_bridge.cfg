SPECIFICATION FairSpec
CONSTANTS
    Events = {e1}
    Drains = {d1, d2}
    Workers = {w1}
    MaxDispatches = 2
    MaxCrashes = 1
    MaxFaults = 1
    FaultKinds = {"crash", "overrun", "db_error", "ack_lost", "slow_claim"}
    Limit = 1
    MaxEventAttempts = 2
    BatchSize = 1
    MaxJobAttempts = 1
    NoEvent = NoEvent
    NoJob = NoJob
    NoKey = NoKey
INVARIANTS
    DeliveredHasJob
    OneActiveJob
PROPERTY EventuallyWorked
