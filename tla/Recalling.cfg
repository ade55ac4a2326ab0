SPECIFICATION SeededSpec
CONSTANTS
    NULL = NULL
    Missing = Missing
    s1 = s1
    s2 = s2
    r1 = r1
    q1 = q1
    q2 = q2
    targetLines = 3
    MaxFaults = 0
    Paths = {"f"}
    Contents = {"edited", "short"}
    Chunks <- AllChunks
    BytesOf <- Bytes
    ChunksOf <- Cuts
    Expired <- Stale
    Seeders = {s1}
    SeededFor <- ForP
    Reanchorers = {}
    batchSize = 1
    CloseReasons = {"forgotten"}
    MaxRows = 4
    MaxEdits = 2
    MaxClock = 2
    Callers = {q1, q2}
    AskedBy <- AsP
    Mentions <- Mentioning
    Distance <- Near
    EfSearch = 2
    DeadRows = 1
    TokensOf <- Unit
    Asks <- Asking
    ToolLimit = 1
    maxLimit = 3
    DefaultLimit = 2
    DefaultCandidateDepth = 3
    DefaultTokenBudget = 3
    RecallCeiling = 1
    RecallWindow = 1
    MaxPackageClaims = 2
    MaxRecalls = 4
INVARIANT NothingLostSilently
INVARIANT ClosedStaysOut
INVARIANT RateOvershootBounded
SYMMETRY CallerSymmetry
CONSTRAINT Bounded
