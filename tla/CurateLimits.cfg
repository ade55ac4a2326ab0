SPECIFICATION BackloggedSpec
CONSTANTS
    NULL = NULL
    s1 = s1
    s2 = s2
    s3 = s3
    p1 = p1
    repo = repo
    attested = attested
    c1 = c1
    c2 = c2
    c3 = c3
    k1 = k1
    k2 = k2
    w1 = w1
    w2 = w2
    Ids = {1, 2, 3}
    Statements = {s1, s2, s3}
    Scopes <- TwoScopes
    Principals <- OnePrincipal
    Workers = {w1, w2}
    Clients = {}
    Captures = {c1, c2, c3}
    CapturedBy <- SameSource
    CapturedScope <- SameScope
    Extracts <- Distinct
    Confidence <- Ranked
    AttestedScope = attested
    AttestedConfidence = 7
    MaxAttempts = 1
    MaxTries = 2
    ContributionQuota = 1
    ContributionWindow = 1
    MaxInferenceCalls = 1
    MaxInputTokens = 0
    CostWindow = 1
    TokensPerCall = 1
    ScopeClaimCeiling = 0
    PruneAggressiveness = 50
    ExpiryReasons = {}
    FaultKinds = {"model"}
    MaxFaults = 2
    MaxClock = 1
SYMMETRY WorkerSymmetry
INVARIANT QuotaOvershootBounded
INVARIANT CallsOvershootBounded
