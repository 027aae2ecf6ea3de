SPECIFICATION Spec
CONSTANTS
    p1 = p1
    p2 = p2
    a = a
    b = b
    Peers = {p1, p2}
    Tx = {a, b}
    Proposals <- VotesProposals
    Views <- VotesViews
    NetLedgers = {}
    Validator = TRUE
    MaxLedgers = 1
    MaxStored = 10
    SetKeepRounds = 3
    NoLedger = NoLedger
INVARIANTS
    VotesAreOfProposers
    DisputesCoverCompared
    RetriedIsLeftOut
