SPECIFICATION Spec
CONSTANTS
    NULL = NULL
    s1 = s1
    s2 = s2
    s3 = s3
    p1 = p1
    repo = repo
    attested = attested
    c1 = c1
    c2 = c2
    c3 = c3
    k1 = k1
    k2 = k2
    w1 = w1
    w2 = w2
    Ids = {1, 2, 3}
    Statements = {s1, s2}
    Scopes <- TwoScopes
    Principals <- OnePrincipal
    Workers = {w1, w2}
    Clients = {k1}
    Captures = {c1}
    CapturedBy <- SameSource
    CapturedScope <- SameScope
    Extracts <- Pairs
    Confidence <- Ranked
    AttestedScope = attested
    AttestedConfidence = 7
    MaxAttempts = 2
    MaxTries = 1
    ContributionQuota = 0
    ContributionWindow = 9
    MaxInferenceCalls = 0
    MaxInputTokens = 0
    CostWindow = 9
    TokensPerCall = 1
    ScopeClaimCeiling = 1
    PruneAggressiveness = 0
    ExpiryReasons = {"forgotten", "stale_anchor"}
    FaultKinds = {"pass"}
    MaxFaults = 1
    MaxClock = 1
SYMMETRY WorkerSymmetry
INVARIANT TypeOK
INVARIANT SupersessionOrdered
INVARIANT FoldsOrdered
INVARIANT WithinCeilingAtRest
PROPERTY ClaimsLiveOnce
