SPECIFICATION Spec
CONSTANTS
    Jobs = {1, 2, 3}
    Workers = {w1, w2}
    Types = {"a", "b"}
    NoKey = NoKey
    NoJob = 0
    TypeOf <- MCTypeOf
    KeyOf <- MCKeyOf
    PriorityOf <- MCPriorityOf
    Cap <- MCUncapped
    MaxAttempts = 2
    BatchSize = 2
    FaultKinds = {"crash", "db_error", "slow_claim"}
    MaxFaults = 1
    MaxReplays = 1
    ArbiterExists = TRUE
SYMMETRY Symmetry
INVARIANTS
    DisjointBatches
    DeadWasSpent
PROPERTIES
    SuccessIsFinal
    ImplementsDurableWork
