SPECIFICATION FairRepairSpec
CONSTANTS
    Runtimes = {"staged", "dspy", "langchain", "watched", "unwatched"}
    MaxRepairAttempts = 2
    MaxRuns = 2
    MaxOrphans = 1
INVARIANTS
    FeedbackIsOfThePreviousAttempt
    IssuesOnlyAfterAllAttempts
    RepairsAreTheirOwn
PROPERTY
    RunEnds
CHECK_DEADLOCK FALSE
