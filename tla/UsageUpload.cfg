SPECIFICATION FairSpec
CONSTANTS
    MaxVersions = 2
    MaxEvents = 5
    ChunkSize = 2
    MaxFailures = 1
    MaxCrashes = 1
    MaxLosses = 1
INVARIANTS
    ResumeSkipsNothing
    FinishedMeansAccepted
    InsertionsAreNotOvercounted
PROPERTIES
    VerdictIsRight
    UploadCompletes
CHECK_DEADLOCK FALSE
