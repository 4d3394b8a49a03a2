SPECIFICATION Spec
CONSTANTS
    BatchSize = 4
    Lease = 12
    Budget = 6
    HandlerMax = 6
    ClaimMax = 2
CHECK_DEADLOCK FALSE
INVARIANTS
    HandledUnderLease
    EndsInTime
