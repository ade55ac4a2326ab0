SPECIFICATION Spec
CONSTANTS
    NULL = NULL
    Missing = Missing
    s1 = s1
    s2 = s2
    r1 = r1
    q1 = q1
    q2 = q2
    targetLines = 3
    MaxFaults = 1
    Paths = {"f"}
    Contents = {"edited", "short"}
    Chunks <- AllChunks
    BytesOf <- Bytes
    ChunksOf <- Cuts
    Expired <- Stale
    Seeders = {s1, s2}
    SeededFor <- ForP
    Reanchorers = {r1}
    batchSize = 1
    CloseReasons = {"forgotten"}
    MaxRows = 3
    MaxEdits = 1
    MaxClock = 1
    Callers = {}
    AskedBy <- AsP
    Mentions <- Mentioning
    Distance <- Near
    EfSearch = 1
    DeadRows = 1
    TokensOf <- Unit
    Asks <- Asking
    ToolLimit = 1
    maxLimit = 3
    DefaultLimit = 2
    DefaultCandidateDepth = 3
    DefaultTokenBudget = 3
    RecallCeiling = 1
    RecallWindow = 1
    MaxPackageClaims = 2
    MaxRecalls = 2
INVARIANT TypeOK
INVARIANT LiveClaimIsCurrent
INVARIANT ReadsMoveForward
INVARIANT SuccessorTakesOver
SYMMETRY SeederSymmetry
