SPECIFICATION BatchSpec
CONSTANTS
    k1 = k1
    k2 = k2
    NoOne = 0
    Requests = {1, 2, 3}
    Keys = {k1, k2}
    Dirs = {1, 2, 3}
    Artifacts = {1, 2, 3}
    KeyOf <- MCKeyOf
    DirOf <- MCIdentity
    ArtifactOf <- MCIdentity
    HasPayload = TRUE
    HasBackend = TRUE
    RunIdGiven = TRUE
    BadUrl = {2}
    Workers = 2
    MaxAttempts = 1
    MaxFaults = 0
    MaxCrashes = 0
INVARIANT OneArticlePerPaper
CHECK_DEADLOCK FALSE
