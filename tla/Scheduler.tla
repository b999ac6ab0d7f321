------------------------------ MODULE Scheduler ------------------------------
(***************************************************************************)
(* RQScheduler: the process that a worker started with --with-scheduler    *)
(* forks to move jobs from the ScheduledJobRegistry to their queues when   *)
(* they are due.                                                           *)
(*                                                                         *)
(* A queue has a lock key in Redis that lives interval + 60 seconds.  Who  *)
(* sets it serves the queue: the worker process acquires locks and forks   *)
(* the scheduler process, which gets a copy of the set _acquired_locks,    *)
(* extends the locks in every round of its loop and deletes them when it   *)
(* stops.  Nobody looks at a lock's value, so its owner is not kept.       *)
(*                                                                         *)
(* Time is a Tick of about half the life of a lock.  A scheduler's round   *)
(* takes about a second: unless it is delayed, each living process         *)
(* completes one between two ticks.  Maintenance and the reacquisition of  *)
(* locks, ten minutes apart in the code, come at most once between ticks.  *)
(*                                                                         *)
(* A step is one access of Redis, a fork or a signal.                      *)
(***************************************************************************)
EXTENDS Naturals

CONSTANTS
    Workers,        \* workers with a scheduler
    Burst,          \* those of them in burst mode
    Queues,         \* queue names
    QueuesOf,       \* QueuesOf[w]: the queues worker w listens to
    Jobs,           \* job ids
    QueueOf,        \* QueueOf[j]: the queue j is scheduled for
    Lifetime,       \* ticks that a lock lives
    Early,          \* a job may be due before the call that schedules it returns
    Budget          \* bounds on what the environment does: see Ops

Ops == {"killScheduler", "killWorker", "killHost", "stop", "delay", "cancel",
        "again"}

ASSUME SchedulerAssumption ==
    /\ Burst \subseteq Workers
    /\ QueuesOf \in [Workers -> SUBSET Queues]
    /\ QueueOf \in [Jobs -> Queues]
    /\ Lifetime \in Nat /\ Lifetime >= 2
    /\ Early \in BOOLEAN
    /\ Budget \in [Ops -> Nat]

\* The worker process and the scheduler process it forks
Parent(w) == <<w, "worker">>
Child(w) == <<w, "scheduler">>
Procs == Workers \X {"worker", "scheduler"}

VARIABLES
    \* Redis
    lock,           \* lock[q]: ticks the lock key of q has left, 0 without key
    registry,       \* the ScheduledJobRegistry of all queues
    due,            \* the jobs in it with a score that is not in the future
    status,         \* the status field of each job hash, "absent" if no hash
    queue,          \* queue[j]: entries for j in its queue
    \* The processes
    pc,
    held,           \* _acquired_locks
    got,            \* successful_locks of acquire_locks
    todo,           \* the queues it has still to go through
    ids, found,     \* job_ids, and jobs, of enqueue_scheduled_jobs
    beat,           \* it has sent a heartbeat since the last tick
    checked,        \* maintenance or reacquisition came since the last tick
    stopRequested,  \* stopRequested[w]: w's scheduler got a SIGTERM
    \* Clients and workers
    call,           \* call[j]: where schedule_job(j) stands
    cancelling,     \* cancelling[j]: the status that cancel() of j has read
    budget

redis == <<lock, registry, due, status, queue>>
procs == <<pc, held, got, todo, ids, found, beat, checked, stopRequested>>
calls == <<call, cancelling>>
vars == <<redis, procs, calls, budget>>

Statuses == {"absent", "scheduled", "queued", "started", "finished", "canceled"}
Scanning == {"scan", "fetch", "move"}
Acquiring == {"starting", "maintaining", "acquire"}
ParentPCs == {"new", "starting", "idle", "maintaining", "joining", "dead"} \cup Scanning
ChildPCs == {"none", "loop", "acquire", "dead"} \cup Scanning

Alive(p) == pc[p] \notin {"none", "dead"}

Init ==
    /\ lock = [q \in Queues |-> 0]
    /\ registry = {} /\ due = {}
    /\ status = [j \in Jobs |-> "absent"]
    /\ queue = [j \in Jobs |-> 0]
    /\ pc = [p \in Procs |-> IF p[2] = "worker" THEN "new" ELSE "none"]
    /\ held = [p \in Procs |-> {}]
    /\ got = [p \in Procs |-> {}]
    /\ todo = [p \in Procs |-> {}]
    /\ ids = [p \in Procs |-> {}]
    /\ found = [p \in Procs |-> {}]
    /\ beat = [p \in Procs |-> FALSE]
    /\ checked = [p \in Procs |-> FALSE]
    /\ stopRequested = [w \in Workers |-> FALSE]
    /\ call = [j \in Jobs |-> "none"]
    /\ cancelling = [j \in Jobs |-> "none"]
    /\ budget = Budget

Spend(op) ==
    /\ budget[op] > 0
    /\ budget' = [budget EXCEPT ![op] = @ - 1]

Goto(p, l) == pc' = [pc EXCEPT ![p] = l]

\* DEL of the lock keys of a set of queues, whoever has set them.
Without(Q) == [q \in Queues |-> IF q \in Q THEN 0 ELSE lock[q]]

-----------------------------------------------------------------------------
(* acquire_locks.                                                          *)

\* _start_scheduler: the worker is about to acquire the locks.
StartScheduler(w) ==
    /\ pc[Parent(w)] = "new"
    /\ Goto(Parent(w), "starting")
    /\ todo' = [todo EXCEPT ![Parent(w)] = QueuesOf[w]]
    /\ UNCHANGED <<redis, held, got, ids, found, beat, checked, stopRequested,
                   calls, budget>>

\* run_maintenance_tasks, when the scheduler process is not alive.
Maintain(w) ==
    /\ pc[Parent(w)] = "idle"
    /\ ~checked[Parent(w)]
    /\ ~Alive(Child(w))
    /\ Goto(Parent(w), "maintaining")
    /\ todo' = [todo EXCEPT ![Parent(w)] = QueuesOf[w]]
    /\ checked' = [checked EXCEPT ![Parent(w)] = TRUE]
    /\ UNCHANGED <<redis, held, got, ids, found, beat, stopRequested, calls, budget>>

\* should_reacquire_locks, in a new round of the scheduler's loop.
Reacquire(w) ==
    /\ pc[Child(w)] = "loop"
    /\ ~stopRequested[w]
    /\ held[Child(w)] # QueuesOf[w]
    /\ ~checked[Child(w)]
    /\ Goto(Child(w), "acquire")
    /\ todo' = [todo EXCEPT ![Child(w)] = QueuesOf[w]]
    /\ checked' = [checked EXCEPT ![Child(w)] = TRUE]
    /\ UNCHANGED <<redis, held, got, ids, found, beat, stopRequested, calls, budget>>

\* SET NX EX of one lock key.
TryLock(p, q) ==
    /\ pc[p] \in Acquiring
    /\ q \in todo[p]
    /\ todo' = [todo EXCEPT ![p] = @ \ {q}]
    /\ IF lock[q] = 0
       THEN /\ lock' = [lock EXCEPT ![q] = Lifetime]
            /\ got' = [got EXCEPT ![p] = @ \cup {q}]
       ELSE UNCHANGED <<lock, got>>
    /\ UNCHANGED <<registry, due, status, queue, pc, held, ids, found, beat, checked,
                   stopRequested, calls, budget>>

\* Mutant of EndAcquire: the scheduler is started by _start_scheduler only.
EndAcquireNoRestart(w) ==
    LET p == Parent(w)
        locks == held[p] \cup got[p]
        fork == locks # {} /\ pc[p] = "starting"
    IN
    /\ pc[p] \in {"starting", "maintaining"}
    /\ todo[p] = {}
    /\ got' = [got EXCEPT ![p] = {}]
    /\ pc' = [pc EXCEPT ![p] = "idle", ![Child(w)] = IF fork THEN "loop" ELSE @]
    /\ held' = [held EXCEPT ![p] = locks, ![Child(w)] = IF fork THEN locks ELSE @]
    /\ UNCHANGED <<redis, todo, ids, found, beat, checked, stopRequested, calls, budget>>

\* The worker is through with the locks: _acquired_locks only grows.  If it
\* has any it goes through the registries itself (burst) or forks the
\* scheduler process with a copy of the set (start).
EndAcquire(w) ==
    LET p == Parent(w)
        locks == held[p] \cup got[p]
        burst == w \in Burst /\ pc[p] = "starting"
        fork == locks # {} /\ ~burst
    IN
    /\ pc[p] \in {"starting", "maintaining"}
    /\ todo[p] = {}
    /\ got' = [got EXCEPT ![p] = {}]
    /\ pc' = [pc EXCEPT ![p] = IF burst /\ locks # {} THEN "scan" ELSE "idle",
                        ![Child(w)] = IF fork THEN "loop" ELSE @]
    /\ held' = [held EXCEPT ![p] = locks,
                            ![Child(w)] = IF fork THEN locks ELSE @]
    /\ todo' = [todo EXCEPT ![p] = IF burst THEN locks ELSE {}]
    /\ beat' = [beat EXCEPT ![Child(w)] = IF fork THEN FALSE ELSE @]
    /\ checked' = [checked EXCEPT ![Child(w)] = IF fork THEN TRUE ELSE @]
    /\ UNCHANGED <<redis, ids, found, stopRequested, calls, budget>>

\* The same in the scheduler process.
EndReacquire(w) ==
    LET p == Child(w)
        locks == held[p] \cup got[p]
    IN
    /\ pc[p] = "acquire"
    /\ todo[p] = {}
    /\ Goto(p, "scan")
    /\ held' = [held EXCEPT ![p] = locks]
    /\ got' = [got EXCEPT ![p] = {}]
    /\ todo' = [todo EXCEPT ![p] = locks]
    /\ UNCHANGED <<redis, ids, found, beat, checked, stopRequested, calls, budget>>

-----------------------------------------------------------------------------
(* RQScheduler.work and enqueue_scheduled_jobs.                            *)

\* A round of the loop in which the locks are not reacquired.
StartRound(w) ==
    /\ pc[Child(w)] = "loop"
    /\ ~stopRequested[w]
    /\ Goto(Child(w), "scan")
    /\ todo' = [todo EXCEPT ![Child(w)] = held[Child(w)]]
    /\ UNCHANGED <<redis, held, got, ids, found, beat, checked, stopRequested,
                   calls, budget>>

\* Mutant of ReadDue: the ids are removed as they are read.
ReadDueRemoves(p, q) ==
    LET js == {j \in registry \cap due : QueueOf[j] = q} IN
    /\ pc[p] = "scan"
    /\ q \in todo[p]
    /\ todo' = [todo EXCEPT ![p] = @ \ {q}]
    /\ ids' = [ids EXCEPT ![p] = js]
    /\ registry' = registry \ js
    /\ due' = due \ js
    /\ Goto(p, IF js = {} THEN "scan" ELSE "fetch")
    /\ UNCHANGED <<lock, status, queue, held, got, found, beat, checked,
                   stopRequested, calls, budget>>

\* get_jobs_to_schedule, for the registry of queue q.
ReadDue(p, q) ==
    LET js == {j \in registry \cap due : QueueOf[j] = q} IN
    /\ pc[p] = "scan"
    /\ q \in todo[p]
    /\ todo' = [todo EXCEPT ![p] = @ \ {q}]
    /\ ids' = [ids EXCEPT ![p] = js]
    /\ Goto(p, IF js = {} THEN "scan" ELSE "fetch")
    /\ UNCHANGED <<redis, held, got, found, beat, checked, stopRequested, calls, budget>>

\* Job.fetch_many
Fetch(p) ==
    /\ pc[p] = "fetch"
    /\ found' = [found EXCEPT ![p] = {j \in ids[p] : status[j] # "absent"}]
    /\ Goto(p, "move")
    /\ UNCHANGED <<redis, held, got, todo, ids, beat, checked, stopRequested,
                   calls, budget>>

\* Mutant of Move: the ids are not removed from the registry.
MoveNoRemove(p) ==
    /\ pc[p] = "move"
    /\ status' = [j \in Jobs |-> IF j \in found[p] THEN "queued" ELSE status[j]]
    /\ queue' = [j \in Jobs |-> IF j \in found[p] THEN queue[j] + 1 ELSE queue[j]]
    /\ Goto(p, "scan")
    /\ ids' = [ids EXCEPT ![p] = {}]
    /\ found' = [found EXCEPT ![p] = {}]
    /\ UNCHANGED <<lock, registry, due, held, got, todo, beat, checked,
                   stopRequested, calls, budget>>

\* The transaction: _enqueue_job for every job that was found, and the
\* removal of every id that was read.
Move(p) ==
    /\ pc[p] = "move"
    /\ status' = [j \in Jobs |-> IF j \in found[p] THEN "queued" ELSE status[j]]
    /\ queue' = [j \in Jobs |-> IF j \in found[p] THEN queue[j] + 1 ELSE queue[j]]
    /\ registry' = registry \ ids[p]
    /\ due' = due \ ids[p]
    /\ Goto(p, "scan")
    /\ ids' = [ids EXCEPT ![p] = {}]
    /\ found' = [found EXCEPT ![p] = {}]
    /\ UNCHANGED <<lock, held, got, todo, beat, checked, stopRequested, calls, budget>>

\* Mutant of Heartbeat: EXPIRE is sent for one lock only.
HeartbeatFirst(w) ==
    LET p == Child(w) IN
    /\ pc[p] = "scan"
    /\ todo[p] = {}
    /\ \E q \in held[p] :
          lock' = [lock EXCEPT ![q] = IF @ > 0 THEN Lifetime ELSE 0]
    /\ beat' = [beat EXCEPT ![p] = TRUE]
    /\ Goto(p, "loop")
    /\ UNCHANGED <<registry, due, status, queue, held, got, todo, ids, found,
                   checked, stopRequested, calls, budget>>

\* Mutant of Heartbeat: EXPIRE with another time than SET.
HeartbeatLonger(w) ==
    LET p == Child(w) IN
    /\ pc[p] = "scan"
    /\ todo[p] = {}
    /\ lock' = [q \in Queues |-> IF q \in held[p] /\ lock[q] > 0 THEN Lifetime + 1
                                                                 ELSE lock[q]]
    /\ beat' = [beat EXCEPT ![p] = TRUE]
    /\ Goto(p, "loop")
    /\ UNCHANGED <<registry, due, status, queue, held, got, todo, ids, found,
                   checked, stopRequested, calls, budget>>

\* heartbeat: EXPIRE of the lock keys that are there.
Heartbeat(w) ==
    LET p == Child(w) IN
    /\ pc[p] = "scan"
    /\ todo[p] = {}
    /\ lock' = [q \in Queues |-> IF q \in held[p] /\ lock[q] > 0 THEN Lifetime
                                                                 ELSE lock[q]]
    /\ beat' = [beat EXCEPT ![p] = TRUE]
    /\ Goto(p, "loop")
    /\ UNCHANGED <<registry, due, status, queue, held, got, todo, ids, found,
                   checked, stopRequested, calls, budget>>

\* release_locks of a worker in burst mode.
EndBurst(w) ==
    LET p == Parent(w) IN
    /\ pc[p] = "scan"
    /\ todo[p] = {}
    /\ lock' = Without(held[p])
    /\ held' = [held EXCEPT ![p] = {}]
    /\ Goto(p, "idle")
    /\ UNCHANGED <<registry, due, status, queue, got, todo, ids, found, beat,
                   checked, stopRequested, calls, budget>>

\* stop: release_locks, at the top of the loop.
StopScheduler(w) ==
    LET p == Child(w) IN
    /\ pc[p] = "loop"
    /\ stopRequested[w]
    /\ lock' = Without(held[p])
    /\ held' = [held EXCEPT ![p] = {}]
    /\ Goto(p, "dead")
    /\ UNCHANGED <<registry, due, status, queue, got, todo, ids, found, beat,
                   checked, stopRequested, calls, budget>>

\* teardown of a worker: stop_scheduler sends a SIGTERM and joins.
Teardown(w) ==
    /\ pc[Parent(w)] = "idle"
    /\ Spend("stop")
    /\ Goto(Parent(w), "joining")
    /\ stopRequested' = [stopRequested EXCEPT ![w] = TRUE]
    /\ UNCHANGED <<redis, held, got, todo, ids, found, beat, checked, calls>>

Joined(w) ==
    /\ pc[Parent(w)] = "joining"
    /\ ~Alive(Child(w))
    /\ Goto(Parent(w), "dead")
    /\ UNCHANGED <<redis, held, got, todo, ids, found, beat, checked,
                   stopRequested, calls, budget>>

-----------------------------------------------------------------------------
(* Time and crashes.                                                       *)

\* A process that is not delayed has finished what it does in a round.
OnTime(p) ==
    IF p[2] = "scheduler" THEN Alive(p) => beat[p]
                          ELSE pc[p] \notin Acquiring \cup Scanning

Tick ==
    /\ \/ /\ \A p \in Procs : OnTime(p)
          /\ UNCHANGED budget
       \/ Spend("delay")
    /\ lock' = [q \in Queues |-> IF lock[q] > 0 THEN lock[q] - 1 ELSE 0]
    /\ beat' = [p \in Procs |-> FALSE]
    /\ checked' = [p \in Procs |-> FALSE]
    /\ UNCHANGED <<registry, due, status, queue, pc, held, got, todo, ids, found,
                   stopRequested, calls>>

\* The processes of S are killed, or end with an exception.
Kill(S) ==
    /\ pc' = [p \in Procs |-> IF p \in S THEN "dead" ELSE pc[p]]
    /\ held' = [p \in Procs |-> IF p \in S THEN {} ELSE held[p]]
    /\ got' = [p \in Procs |-> IF p \in S THEN {} ELSE got[p]]
    /\ todo' = [p \in Procs |-> IF p \in S THEN {} ELSE todo[p]]
    /\ ids' = [p \in Procs |-> IF p \in S THEN {} ELSE ids[p]]
    /\ found' = [p \in Procs |-> IF p \in S THEN {} ELSE found[p]]
    /\ UNCHANGED <<redis, beat, checked, stopRequested, calls>>

KillScheduler(w) == Alive(Child(w)) /\ Spend("killScheduler") /\ Kill({Child(w)})
KillWorker(w) == Alive(Parent(w)) /\ Spend("killWorker") /\ Kill({Parent(w)})
KillHost(w) ==
    /\ Alive(Parent(w)) \/ Alive(Child(w))
    /\ Spend("killHost")
    /\ Kill({Parent(w), Child(w)})

-----------------------------------------------------------------------------
(* Jobs: schedule_job by a client, or by a worker whose job is retried or  *)
(* repeated after an interval, and cancel.                                 *)

\* enqueue_at
EnqueueAt(j) ==
    /\ status[j] = "absent"
    /\ call[j] = "none"
    /\ call' = [call EXCEPT ![j] = "zadd"]
    /\ UNCHANGED <<redis, procs, cancelling, budget>>

\* schedule_job(unique=True): the Lua script does it all at once.
ScheduleUnique(j) ==
    /\ status[j] = "absent"
    /\ call[j] = "none"
    /\ status' = [status EXCEPT ![j] = "scheduled"]
    /\ registry' = registry \cup {j}
    /\ due' = due \ {j}
    /\ UNCHANGED <<lock, queue, procs, calls, budget>>

\* ScheduledJobRegistry.schedule does not use the pipeline it is given: the
\* id is in the registry at once.
Zadd(j) ==
    /\ call[j] = "zadd"
    /\ registry' = registry \cup {j}
    /\ due' = due \ {j}
    /\ call' = [call EXCEPT ![j] = "save"]
    /\ UNCHANGED <<lock, status, queue, procs, cancelling, budget>>

\* The pipeline of schedule_job, or the one of handle_job_failure or
\* handle_job_success that it is given.
Persist(j) ==
    /\ call[j] = "save"
    /\ status' = [status EXCEPT ![j] = "scheduled"]
    /\ call' = [call EXCEPT ![j] = "none"]
    /\ UNCHANGED <<lock, registry, due, queue, procs, cancelling, budget>>

\* The time of a job in the registry comes.
ComesDue(j) ==
    /\ j \in registry \ due
    /\ Early \/ call[j] = "none"
    /\ due' = due \cup {j}
    /\ UNCHANGED <<lock, registry, status, queue, procs, calls, budget>>

\* A worker dequeues j and starts it.
Take(j) ==
    /\ queue[j] > 0
    /\ queue' = [queue EXCEPT ![j] = @ - 1]
    /\ status' = [status EXCEPT ![j] = "started"]
    /\ UNCHANGED <<lock, registry, due, procs, calls, budget>>

Finish(j) ==
    /\ status[j] = "started"
    /\ call[j] = "none"
    /\ status' = [status EXCEPT ![j] = "finished"]
    /\ UNCHANGED <<lock, registry, due, queue, procs, calls, budget>>

\* Job.retry with an interval: the status is set in a command of its own.
RetryLater(j) ==
    /\ status[j] = "started"
    /\ call[j] = "none"
    /\ Spend("again")
    /\ status' = [status EXCEPT ![j] = "scheduled"]
    /\ call' = [call EXCEPT ![j] = "zadd"]
    /\ UNCHANGED <<lock, registry, due, queue, procs, cancelling>>

\* Repeat.schedule with an interval.
RepeatLater(j) ==
    /\ status[j] = "started"
    /\ call[j] = "none"
    /\ Spend("again")
    /\ call' = [call EXCEPT ![j] = "zadd"]
    /\ UNCHANGED <<redis, procs, cancelling>>

\* cancel() reads the status, and then takes the job out of the queue and of
\* the registry that the status names.
Cancel(j) ==
    /\ status[j] \notin {"absent", "canceled"}
    /\ cancelling[j] = "none"
    /\ Spend("cancel")
    /\ cancelling' = [cancelling EXCEPT ![j] = status[j]]
    /\ UNCHANGED <<redis, procs, call>>

ExecCancel(j) ==
    LET out == IF cancelling[j] = "scheduled" THEN {j} ELSE {} IN
    /\ cancelling[j] # "none"
    /\ status' = [status EXCEPT ![j] = "canceled"]
    /\ queue' = [queue EXCEPT ![j] = IF @ > 0 THEN @ - 1 ELSE 0]
    /\ registry' = registry \ out
    /\ due' = due \ out
    /\ cancelling' = [cancelling EXCEPT ![j] = "none"]
    /\ UNCHANGED <<lock, procs, call, budget>>

-----------------------------------------------------------------------------
WorkerNext(w) ==
    \/ StartScheduler(w) \/ Maintain(w) \/ EndAcquire(w) \/ EndBurst(w)
    \/ Teardown(w) \/ Joined(w)

SchedulerNext(w) ==
    \/ Reacquire(w) \/ EndReacquire(w) \/ StartRound(w) \/ Heartbeat(w)
    \/ StopScheduler(w)

ProcNext(p) ==
    \/ \E q \in Queues : TryLock(p, q) \/ ReadDue(p, q)
    \/ Fetch(p) \/ Move(p)

JobNext(j) ==
    \/ EnqueueAt(j) \/ ScheduleUnique(j) \/ Zadd(j) \/ Persist(j) \/ ComesDue(j)
    \/ Take(j) \/ Finish(j) \/ RetryLater(j) \/ RepeatLater(j)
    \/ Cancel(j) \/ ExecCancel(j)

Next ==
    \/ \E w \in Workers : WorkerNext(w) \/ SchedulerNext(w)
    \/ \E p \in Procs : ProcNext(p)
    \/ \E w \in Workers : KillScheduler(w) \/ KillWorker(w) \/ KillHost(w)
    \/ \E j \in Jobs : JobNext(j)
    \/ Tick

Spec == Init /\ [][Next]_vars

\* Living processes go on, workers get to their maintenance, and time passes.
Fairness ==
    /\ \A w \in Workers :
          /\ WF_vars(StartScheduler(w) \/ EndAcquire(w) \/ EndBurst(w) \/ Joined(w))
          /\ WF_vars(Maintain(w))
          /\ WF_vars(SchedulerNext(w))
    /\ \A p \in Procs : WF_vars(ProcNext(p))
    /\ WF_vars(Tick)

FairSpec == Spec /\ Fairness

-----------------------------------------------------------------------------
(* Properties.                                                             *)

\* Every variable has its type.
TypeOK ==
    /\ lock \in [Queues -> 0 .. Lifetime]
    /\ registry \subseteq Jobs /\ due \subseteq registry
    /\ status \in [Jobs -> Statuses]
    /\ queue \in [Jobs -> Nat]
    /\ pc \in [Procs -> ParentPCs \cup ChildPCs]
    /\ \A w \in Workers : pc[Parent(w)] \in ParentPCs /\ pc[Child(w)] \in ChildPCs
    /\ held \in [Procs -> SUBSET Queues]
    /\ got \in [Procs -> SUBSET Queues]
    /\ todo \in [Procs -> SUBSET Queues]
    /\ ids \in [Procs -> SUBSET Jobs]
    /\ found \in [Procs -> SUBSET Jobs]
    /\ beat \in [Procs -> BOOLEAN]
    /\ checked \in [Procs -> BOOLEAN]
    /\ stopRequested \in [Workers -> BOOLEAN]
    /\ call \in [Jobs -> {"none", "zadd", "save"}]
    /\ cancelling \in [Jobs -> Statuses \cup {"none"}]
    /\ budget \in [Ops -> Nat]

\* p moves jobs of queue q: a scheduler process, or a worker in burst mode.
Serves(p, q) ==
    /\ q \in held[p]
    /\ IF p[2] = "scheduler" THEN Alive(p) ELSE pc[p] \in Scanning

\* acquire_locks, heartbeat and release_locks together: no two processes serve
\* the same queue.
OneSchedulerPerQueue ==
    \A q \in Queues : \A p, r \in Procs : Serves(p, q) /\ Serves(r, q) => p = r

\* The scheduler implements ScheduledJobs: every due job is moved to its queue,
\* once, and nothing is lost on the way.
Abstract == INSTANCE ScheduledJobs
    WITH Jobs <- Jobs, registry <- registry, due <- due, queue <- queue
MovedOnce == Abstract!Spec

\* schedule_job against enqueue_scheduled_jobs: a job that has been scheduled
\* is in the registry, or a scheduler is about to enqueue it.
ScheduledIsNotForgotten ==
    \A j \in Jobs : status[j] = "scheduled" /\ call[j] = "none" =>
        j \in registry \/ cancelling[j] # "none" \/ \E p \in Procs : j \in ids[p]

\* Whatever dies, as long as a worker is left, a job that is due leaves the
\* registry.
DueJobsLeave == \A j \in Jobs : j \in due ~> j \notin due

=============================================================================
