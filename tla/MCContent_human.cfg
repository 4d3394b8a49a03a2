SPECIFICATION Spec
CONSTANTS
    Files = {1, 2}
    ReconcileLimit = 1
    Uploads = {1, 2}
    Routes <- MCRoutes
    TooBig <- MCTooBig
    UploadEtags = {1, 2}
    SweepLimit = 1
    Sheets <- MCSheets
    ColumnMap <- MCColumnMap
    SheetVersions = {1, 2, 3, 4}
    Valid <- MCValid
    Invalid <- MCInvalid
    Mapped = {1, 2, 4}
    Clashing = {4}
    AbortOnError = TRUE
    Sources = {1, 2, 3}
    Prefixed = {1, 2}
    Contents <- MCContents
    BaseName <- MCBaseName
    WithHeight = TRUE
    DerivRows = {1, 2}
    MaxSources = 1
    MaxPuts = 3
    ImageRequests = {1, 2}
    OverBudget = {2}
    Texts <- MCTexts
    NoText = {}
    TooLarge <- MCTooLarge
    ChunkCount <- MCChunkCount
    ListLimit = 2
    MaxEvents = 4
    PhotoOrder <- MCListing
    PhotoKeys = {"a", "b"}
    Kind <- MCKind
    PhotoEtags = {1, 2}
    PageSize = 2
    Batch = 1
    MaxUploads = 2
    MaxCalls = 3
    MaxCrossings = 1
    PaperEtags = {1, 2}
    Schemas = {{"total"}, {"total", "date"}}
    Confidences = {0, 1}
    Threshold = 1
    Objects = {"a", "b"}
    Pictures = {"a"}
    Base <- MCBase
    ObjectVersions = {1, 2}
    BlockAt <- MCBlockAt
    Margin = 1
    Values = {4, 7, 8}
    MaxItems = 2
    MaxJudged = 1
INVARIANT HumanWins
CHECK_DEADLOCK FALSE
