SPECIFICATION Spec
CONSTANTS
    c1 = c1
    c2 = c2
    Calls = {c1, c2}
    NoCall = NoCall
    StageOf <- MCStageOf
    Parameters = {"reasoning", "response_format"}
    MaxRetries = 2
    Readers = {1, 2}
    Endpoints = {"overview", "miner"}
    PathsOf <- MCPathsOf
    Optional = {"me"}
    Ttl <- MCTtl
    MaxTime = 3
    Requests = {1, 2, 3}
    NoFile = 0
    Limit = 1
    Window = 2
    MaxTicks = 2
    Pdfs <- MCPdfs
    Expected <- MCExpected
    DirOf <- MCDirOf
INVARIANTS
    UsageIsOfReturnedCalls
    AnswersAreFresh
    RefusedOnlyAtTheLimit
    DownloadsAreWhatTheySay
PROPERTY CallsEnd
CHECK_DEADLOCK FALSE
