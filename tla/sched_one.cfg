SPECIFICATION Spec
CONSTANTS
    u = u
    v = v
    q1 = q1
    q2 = q2
    i = i
    j = j
    Workers = {u, v}
    Burst = {v}
    Queues = {q1, q2}
    QueuesOf <- MCQueuesOf
    Jobs = {i}
    QueueOf <- MCQueueOf
    Lifetime = 2
    Early = FALSE
    Budget <- MCBudget
    KillSchedulers = 0
    KillWorkers = 1
    KillHosts = 1
    Stops = 1
    Delays = 0
    Cancels = 0
    Agains = 1
CHECK_DEADLOCK FALSE
INVARIANTS TypeOK OneSchedulerPerQueue
PROPERTIES MovedOnce
