SPECIFICATION Spec
CONSTANTS
    p1 = p1
    p2 = p2
    Hash = {h1}
    Part = {p1, p2}
    Local = {p2}
    Peer = {n1}
    Packet <- Packets
    NormTimeouts = 1
    MaxTimeouts = 2
    StartPeers = 1
    SetKeepRounds = 1
    MaxAcquires = 2
    MaxCalls = 2
    MaxPackets = 2
    MaxRound = 3
    MaxRounds = 2
INVARIANTS
    FetchGoesOn
    NeededIsNotGivenUp
PROPERTIES
    FetchEnds
CHECK_DEADLOCK FALSE
