SPECIFICATION FairSpec
CONSTANTS
    a = a
    b = b
    x = x
    c1 = c1
    w1 = w1
    w2 = w2
    m = m
    NoJob = NoJob
    Jobs = {a, b, x}
    DependsOn <- MCDependsOn
    AllowFailure = {}
    ResultTTL <- MCResultTTL
    Retry <- MCRetry
    Repeat <- MCRepeat
    Clients = {c1}
    Workers = {w1, w2}
    Cleaner = m
    Budget <- MCBudget
    Fails = 0
    Stops = 0
    Cancels = 1
    Requeues = 0
    Crashes = 1
    RepeatA = 1
    RetryB = 1
    TTLA = "forever"
    TTLB = "finite"
    TTLX = "forever"
CHECK_DEADLOCK FALSE
INVARIANTS NoLostWakeup NoDuplicateWork
PROPERTIES DeferredLeaves EnqueuedOnlyWhenMet
