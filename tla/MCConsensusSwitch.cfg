SPECIFICATION Spec
CONSTANTS
    p1 = p1
    p2 = p2
    a = a
    b = b
    Peers = {p1}
    Tx = {a}
    Proposals <- SwitchProposals
    Views <- SwitchViews
    NetLedgers <- SwitchLedgers
    Validator = TRUE
    MaxLedgers = 2
    MaxStored = 2
    SetKeepRounds = 0
    NoLedger = NoLedger
INVARIANTS
    ProposingInSync
    PositionIsShared
    PositionsAreTheLastHeard
PROPERTIES
    AcceptWorksUndisturbed
    ImplementsRoundPhases
