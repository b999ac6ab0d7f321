SPECIFICATION FairSpec
CONSTANTS
    u = u
    v = v
    i = i
    NoJob = NoJob
    Workers = {u, v}
    Jobs = {i}
    Intermediate = TRUE
    Discard = {i}
    Retries <- MCRetries
    RetryMax = 1
    Mortal <- WaitingPCs
    HorseMortal <- RunningPCs
    Budget <- MCBudget
    Left = 1
    KillWorkers = 0
    KillHosts = 1
    KillHorses = 1
    Stops = 0
    StopJobs = 0
    Suspends = 0
    Fails = 1
    Agains = 0
    Delays = 0
    Lates = 1
    Ttls = 0
CHECK_DEADLOCK FALSE
PROPERTIES  DeadAreForgotten Delivered
