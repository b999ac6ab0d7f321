SPECIFICATION Spec
CONSTANTS
    a = a
    b = b
    x = x
    c1 = c1
    w1 = w1
    w2 = w2
    m = m
    NoJob = NoJob
    Jobs = {a, b, x}
    DependsOn <- MCDependsOn
    AllowFailure = {x}
    ResultTTL <- MCResultTTL
    Retry <- MCRetry
    Repeat <- MCRepeat
    Clients = {c1}
    Workers = {w1, w2}
    Cleaner = m
    Budget <- MCBudget
    Fails = 2
    Stops = 1
    Cancels = 1
    Requeues = 1
    Crashes = 1
    RepeatA = 1
    RetryB = 1
    TTLA = "forever"
    TTLB = "forever"
    TTLX = "zero"
SYMMETRY WorkerSymmetry
CHECK_DEADLOCK FALSE
INVARIANTS TypeOK NoLostWakeup DeferredIsReachable FailureIsAccounted
PROPERTIES FailureWakesDependents
