SPECIFICATION Spec
CONSTANTS
    Documents <- MCDocuments
    NoDocument = NoDocument
    Look <- MCLook
    TypeOf <- MCTypeOf
    MaxSpans = 2
    MaxChars = 3
    RawRecords <- MCRawRecords
    Corrections <- MCCorrections
    NoRecord = NoRecord
    NoArtifact = NoArtifact
    Artifacts <- MCArtifacts
    TextOf <- MCTextOf
    NoId <- MCNoId
    DefaultId <- MCDefaultId
    Spans = {"s1", "s2"}
    FinalClaims <- MCFinalClaims
    Structures <- MCStructures
    MaxClaims = 3
    Miners = {1, 2, 3}
    Papers = {1, 2}
    Units <- MCUnits
    Works <- MCWorks
    Modes = {"winner-takes-most", "proportional", "bucket"}
    Lanes = {{3}, {2, 3}}
    WinnerPercent = 70
    RunnerUpSlots = 4
    Factors <- MCFactors
    NewcomerPercent = 50
    NewcomerMinScore = 2000
    Whole = 180000
INVARIANTS
    SectionsHoldTheText
    KeysEndWhereTheirProfileWantsThem
    EachClaimIsComparedOrReported
    BetterWorkIsPaidNoLess
    PayoutAddsUp
    AssembledArtifactsPass
CHECK_DEADLOCK FALSE
