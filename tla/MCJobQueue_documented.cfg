SPECIFICATION Spec
CONSTANTS
    Jobs = {1, 2, 3}
    Workers = {w1, w2}
    Types = {"a"}
    NoKey = NoKey
    NoJob = 0
    TypeOf <- MCOneType
    KeyOf <- MCKeyOf
    PriorityOf <- MCPriorityOf
    Cap <- MCOneOfA
    MaxAttempts = 2
    BatchSize = 2
    FaultKinds = {"overrun"}
    MaxFaults = 1
    MaxReplays = 1
    ArbiterExists = TRUE
INVARIANTS
    CapHolds
    EnqueueReturns
    DeadIsReplayable
PROPERTY ReleasesOnlyUnstarted
