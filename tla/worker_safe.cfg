SPECIFICATION Spec
CONSTANTS
    u = u
    v = v
    i = i
    NoJob = NoJob
    Workers = {u, v}
    Jobs = {i}
    Intermediate = TRUE
    Discard = {}
    Retries <- MCRetries
    RetryMax = 1
    Mortal <- AllPCs
    HorseMortal <- AllHorsePCs
    Budget <- MCBudget
    Left = 1
    KillWorkers = 1
    KillHosts = 0
    KillHorses = 1
    Stops = 2
    StopJobs = 1
    Suspends = 1
    Fails = 0
    Agains = 1
    Delays = 0
    Lates = 0
    Ttls = 1
SYMMETRY WorkerSymmetry
CHECK_DEADLOCK FALSE
INVARIANTS TypeOK NoJobIsLost RegisteredWhileAlive
