SPECIFICATION FairSpec
CONSTANTS
    Jobs = {1, 2}
    Workers = {w1, w2}
    Types = {"a", "b"}
    NoKey = NoKey
    NoJob = 0
    TypeOf <- MCTypeOf
    KeyOf <- MCKeyOf
    PriorityOf <- MCPriorityOf
    Cap <- MCOneOfA
    MaxAttempts = 2
    BatchSize = 2
    FaultKinds = {"crash", "overrun", "db_error", "ack_lost", "slow_claim"}
    MaxFaults = 1
    MaxReplays = 1
    ArbiterExists = TRUE
INVARIANTS
    SuccessWasHandled
    ActiveKeysUnique
    OverrunsPaidByFaults
PROPERTY EventuallySettled
