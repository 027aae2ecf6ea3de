SPECIFICATION Spec
CONSTANTS
    a = a
    b = b
    Tx = {a, b}
    Clients = {c1, c2}
    Workers = {w1}
    NoTx = NoTx
    MaxSubmit = 2
    Followers <- MCFollowers
INVARIANTS
    QueuedWorkHasARunner
    FlagMeansQueued
    SyncCallerHasResult
PROPERTIES
    EveryTransactionApplied
    EverySyncCallReturns
