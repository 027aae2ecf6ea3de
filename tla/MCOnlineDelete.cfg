SPECIFICATION Spec
CONSTANTS
    Node = {1, 2}
    State <- States
    Backend = {1, 2, 3, 4}
    DeleteInterval = 1
    DeleteBatch = 1
    CanDeletes = {1}
    MaxCrashes = 1
    MaxLead = 1
INVARIANTS
    CurrentLedgersAreWhole
    CachedNodesAreStored
    FetchFindsValidated
    RestartFindsBackends
CHECK_DEADLOCK FALSE
