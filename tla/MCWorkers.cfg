SPECIFICATION PoolSpec
CONSTANTS
    w1 = w1
    w2 = w2
    w3 = w3
    Worker = {w1, w2, w3}
    Sizes = {0, 1, 2}
    MaxTasks = 2
    MaxResizes = 3
INVARIANTS
    NoTaskIsLost
    AsManyAsAskedFor
PROPERTIES
    EveryTaskRuns
