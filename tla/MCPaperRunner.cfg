SPECIFICATION Spec
CONSTANTS
    p1 = p1
    p2 = p2
    NoPaper = NoPaper
    NumSections = 2
    MaxItems = 2
    MaxLinks = 1
    MaxIssues = 2
    Texts <- MCTexts
    RawClaims <- MCRawClaims
    LimitPerClaim = 1
    SectionTypes = {"ABSTRACT", "Abstract", "OTHER"}
    Papers = {p1, p2}
    MaxRuns = 3
    InputsOf <- MCInputsOf
SYMMETRY MCSymmetry
INVARIANTS
    OutputIsLinked
    BestCandidateReachesTheLinker
    DirectoryIsOfOnePaper
    ManifestIsNeverAhead
CHECK_DEADLOCK FALSE
