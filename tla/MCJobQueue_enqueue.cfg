SPECIFICATION Spec
CONSTANTS
    Jobs = {1, 2}
    Workers = {w1, w2}
    Types = {"a", "b"}
    NoKey = NoKey
    NoJob = 0
    TypeOf <- MCTypeOf
    KeyOf <- MCKeyOf
    PriorityOf <- MCPriorityOf
    Cap <- MCUncapped
    MaxAttempts = 2
    BatchSize = 2
    FaultKinds = {}
    MaxFaults = 0
    MaxReplays = 0
    ArbiterExists = FALSE
INVARIANT EnqueueReturns
