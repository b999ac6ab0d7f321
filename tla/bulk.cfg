SPECIFICATION FairSpec
CONSTANTS
    a = a
    b = b
    c1 = c1
    c2 = c2
    s = s
    p = p
    d = d
    NoJob = NoJob
    Parents = {a, b}
    Clients = {c1, c2}
    Unique <- MCUnique
    Plain <- MCPlain
    Dependent <- MCDependent
    DependsOn <- MCDependsOn
    Grouped = {c2}
    Touches = 1
    Expiries = 2
CHECK_DEADLOCK FALSE
INVARIANTS TypeOK BatchIsReachable ConflictFreeIsOnce UniqueIsOnce GroupKnowsItsJobs
PROPERTIES BatchRuns
