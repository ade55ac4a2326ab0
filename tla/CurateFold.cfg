SPECIFICATION BackloggedSpec
CONSTANTS
    NULL = NULL
    s1 = s1
    s2 = s2
    s3 = s3
    p1 = p1
    repo = repo
    attested = attested
    c1 = c1
    c2 = c2
    c3 = c3
    k1 = k1
    k2 = k2
    w1 = w1
    w2 = w2
    Ids = {1, 2, 3}
    Statements = {s1}
    Scopes <- TwoScopes
    Principals <- OnePrincipal
    Workers = {w1, w2}
    Clients = {}
    Captures = {c1, c2}
    CapturedBy <- SameSource
    CapturedScope <- SameScope
    Extracts <- AlwaysSame
    Confidence <- Ranked
    AttestedScope = attested
    AttestedConfidence = 7
    MaxAttempts = 2
    MaxTries = 2
    ContributionQuota = 0
    ContributionWindow = 9
    MaxInferenceCalls = 0
    MaxInputTokens = 0
    CostWindow = 9
    TokensPerCall = 1
    ScopeClaimCeiling = 0
    PruneAggressiveness = 50
    ExpiryReasons = {"forgotten"}
    FaultKinds = {"model", "write", "enqueue", "pass", "ack", "ledger"}
    MaxFaults = 1
    MaxClock = 0
SYMMETRY WorkerSymmetry
INVARIANT SupersessionOrdered
INVARIANT FoldingKeepsStatement
PROPERTY ClosedIsFinal
