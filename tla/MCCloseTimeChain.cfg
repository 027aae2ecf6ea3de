SPECIFICATION ChainSpec
CONSTANTS
    Times <- MCTimes
    MaxSeq = 17
INVARIANTS
    CloseTimesIncrease
PROPERTIES
    ResolutionFollowsAgreement
