SPECIFICATION FairSpec
CONSTANTS
    u = u
    v = v
    q1 = q1
    q2 = q2
    i = i
    j = j
    Workers = {u, v}
    Burst = {}
    Queues = {q1}
    QueuesOf <- MCQueuesOf
    Jobs = {i}
    QueueOf <- MCQueueOfOne
    Lifetime = 2
    Early = FALSE
    Budget <- MCBudget
    KillSchedulers = 1
    KillWorkers = 0
    KillHosts = 0
    Stops = 0
    Delays = 2
    Cancels = 1
    Agains = 0
CHECK_DEADLOCK FALSE
INVARIANTS ScheduledIsNotForgotten
PROPERTIES DueJobsLeave
