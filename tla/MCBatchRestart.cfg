SPECIFICATION BatchFairSpec
CONSTANTS
    k1 = k1
    k2 = k2
    NoOne = 0
    Requests = {1, 2}
    Keys = {k1}
    Dirs = {1, 2}
    Artifacts = {1, 2}
    KeyOf <- MCPairKeyOf
    DirOf <- MCPairIdentity
    ArtifactOf <- MCPairIdentity
    HasPayload = TRUE
    HasBackend = TRUE
    RunIdGiven = TRUE
    BadUrl = {2}
    Workers = 2
    MaxAttempts = 2
    MaxFaults = 1
    MaxCrashes = 1
INVARIANT StoredExtractionsAreOfThePaper
PROPERTY EveryRequestAnswered
CHECK_DEADLOCK FALSE
