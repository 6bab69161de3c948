SPECIFICATION Spec
CONSTANTS
    MaxCandidates = 3
    MaxFlaws = 3
    GroupSize = 2
    MaxMembers = 2
    FloorPercent = 55
    MaxClaims = 2
    Rank <- MCRank
INVARIANTS
    ClaimsAreGrounded
    NoCandidateIsLost
    OneClaimPerCandidate
    CollapseIsUndone
CHECK_DEADLOCK FALSE
