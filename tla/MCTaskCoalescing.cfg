SPECIFICATION Spec
CONSTANTS
    r1 = r1
    r2 = r2
    r3 = r3
    k1 = k1
    k2 = k2
    d1 = d1
    d2 = d2
    NoOne = NoOne
    Requests = {r1, r2, r3}
    Keys = {k1, k2}
    Dirs = {d1, d2}
    KeyOf <- MCKeyOf
    DirOf <- MCDirOf
    HasPayload = TRUE
    MaxFaults = 1
    MaxCrashes = 1
INVARIANTS
    TypeOK
    OneRunnerPerKey
    RegisteredKeyHasRunner
    LateRequestNeverExtracts
    AnswersComeFromFinishedRuns
PROPERTY ImplementsSingleFlight
CHECK_DEADLOCK FALSE
