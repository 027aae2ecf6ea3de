SPECIFICATION Spec
CONSTANTS
    w1 = w1
    w2 = w2
    c1 = c1
    Type <- Types
    Limit <- Limits
    ClientType = 1
    UpdateType = 2
    Coro = {c1}
    Thread = {w1, w2}
    NoThread = NoThread
    MaxJobs = 2
    MaxYields = 1
INVARIANTS
    LimitsKept
    RunnableForEveryTask
    RendezvousIsWoken
    OneThreadPerCoroutine
PROPERTIES
    EveryJobRuns
    StopCompletes
