SPECIFICATION FairSpec
CONSTANTS
    w1 = w1
    w2 = w2
    w3 = w3
    None = None
    Workers = {w1, w2, w3}
    NumWorkers = 2
    Signals = 2
    Crashes = 1
INVARIANTS TypeOK NeverTooMany LastToLeave
PROPERTIES PoolRefills StopEnds
