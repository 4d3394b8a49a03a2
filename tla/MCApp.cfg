SPECIFICATION Spec
CONSTANTS
    Calls = {"c1", "c2", "c3"}
    EventOf <- MCEventOf
    Provider <- MCProvider
    SignedWith <- MCSignedWith
    FreshCalls = {"c1", "c2", "c3"}
    ReplayLimit = 2
    Messages = {"m1", "m2"}
    DedupeKeyOf <- MCDedupeKeyOf
    NoKey = "none"
    Senders = {"s1", "s2"}
    LettersPerRun = 1
    MaxAttempts = 3
    CronRuns = 3
    Payloads = {"late", "paid", "ended", "team"}
    Sub <- MCSub
    Stamp <- MCStamp
    Status <- MCStatus
    PaidTo <- MCPaidTo
    Callers = {"u1", "u2"}
    Quota = 1
    Grace = 0
    Schedule <- MCSchedule
    Sweepers = {"w1", "w2"}
    LastDay = 1
    Streams <- MCStreams
    LastId = 2
    DrainBatch = 1
    Requests = {"r1", "r2", "r3"}
    RateLimit = 1
    WindowLen = 2
    Retention = 3
    Slowest = 1
    LastTime = 4
    Subjects = {1, 3}
    Testers = {1}
    Buckets = 6
    Weights <- MCWeights
    Percentages = {2, 6}
    Slips <- MCSlips
    LastDate = 2
    Lookback = 0
    MaxExposures = 2
    Scans = {"one"}
    SourceRows = {"k", "l"}
    Texts = {1, 2}
    RowsPerScan = 1
    Grain = 2
    MaxTime = 3
    MaxTurns = 5
    TurnTokens = {1, 3}
    SummaryTokens = {2}
    CompactAt = 4
    KeepRecent = 2
    Turns = {1, 2, 3}
    Caller <- MCCaller
    MessageId <- MCMessageId
    HistoryLimit = 2
    Stores = {1, 2, 3}
    Lookups = {4, 5}
    AskOf <- MCAskOf
    TokensOf <- MCTokensOf
    Ttl = 2
    LastNow = 2
    Reach = 1
    Facts = {1, 2, 3}
    ActorOf <- MCCaller
    NameOf <- MCNameOf
    At <- MCAt
    FactKeyOf <- MCFactKeyOf
    Resent = {1}
    Gap = 1
    DayLength = 2
    WeekLength = 6
    DaysBack = 0
    Today = {1}
    Rollups = {1, 2}
    Funnels <- MCFunnels
    Window = 1
    SchemaVersions = {1, 2, 3}
    ReleaseOf <- MCRelease
    MaxRollbacks = 2
    MaxDeaths = 2
    Writers = {"one", "two"}
    MaxEntries = 3
    MaxPurges = 2
    MaxEdits = 1
    SubjectRows <- MCSubjectRows
    Links <- MCLinks
    Inquiries <- MCInquiries
    MaxHolds = 1
    Rules = {"users", "logs", "visits"}
    HasKey = {"users", "visits"}
    SameText = {"users", "logs"}
    PrimaryKeys = {1, 2, 3}
    Filled <- MCFilled
    MaskBatch = 2
    MaskRuns = {1, 2}
    Written <- MCWritten
    MaxWrites = 1
INVARIANTS
    InboundSafe
    NotesSafe
    MoneySafe
    LiveSafe
    EdgeSafe
    FlagsSafe
    VectorsSafe
    MemorySafe
    AssistantSafe
    CountsSafe
    SchemaSafe
    ComplianceSafe
CHECK_DEADLOCK FALSE
