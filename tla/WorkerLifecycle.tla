--------------------------- MODULE WorkerLifecycle ---------------------------
(***************************************************************************)
(* Workers and their work horses on one queue: registration, the work      *)
(* loop, the intermediate queue, executions, the monitor of the horse,     *)
(* signals and commands, and the maintenance that recovers the jobs of     *)
(* workers that died.                                                      *)
(*                                                                         *)
(* A worker is two processes: the parent, whose place in the code is pc,   *)
(* and the horse it forks for each job.  A command from the pub/sub        *)
(* channel is handled by a thread of the parent, at any time.              *)
(*                                                                         *)
(* Queues are counts of entries: no property is about their order.         *)
(* Dependents, repetitions and intervals are the matter of other modules.  *)
(***************************************************************************)
EXTENDS Naturals, FiniteSets

CONSTANTS
    Workers, Jobs, NoJob,
    Intermediate,   \* one queue and Redis 6.2: LMOVE, else LPOP
    Discard,        \* jobs with result_ttl = 0
    Retries,        \* Retries[j]: retries_left of j when it is enqueued
    RetryMax,       \* max of the Retry that a job may return
    Mortal,         \* the places where a parent may be killed
    HorseMortal,    \* the places where a horse may be killed
    Budget          \* bounds on what the environment does: see Ops

Ops == {"killWorker", "killHost", "killHorse", "stop", "stopJob", "suspend",
        "fail", "again", "delay", "late", "ttl"}

ASSUME WorkerAssumption ==
    /\ NoJob \notin Jobs
    /\ Intermediate \in BOOLEAN
    /\ Discard \subseteq Jobs
    /\ Retries \in [Jobs -> Nat]
    /\ RetryMax \in Nat \ {0}
    /\ Budget \in [Ops -> Nat]

VARIABLES
    \* Redis
    hash,           \* hash[j]: the status, retries_left and number_of_retries of j
    queue,          \* queue[j]: entries for j in the queue
    inter,          \* inter[j]: entries for j in the intermediate queue
    seen,           \* seen[j]: the first_seen key, "none", "new" or over a minute "old"
    execs,          \* StartedJobRegistry: <<w, j>>, an execution of j by w
    expired,        \* the same, of the entries with a score in the past
    current,        \* current[w]: current_job in the hash of worker w
    lock,           \* the maintenance lock of the queue is set
    members,        \* the worker keys in the sets of workers
    key,            \* key[w]: the hash of worker w
    suspended,      \* the key rq:suspended is set
    \* The processes
    worker,         \* worker[w]: the state of w's two processes
    disputed,       \* history: the jobs that a cleanup has taken for stuck although
                    \* none of their entries was left behind by a dead worker
    budget

redis == <<hash, queue, inter, seen, execs, expired, current, lock, members, key,
           suspended>>
vars == <<redis, worker, disputed, budget>>

Ended == {"finished", "failed", "stopped", "absent"}
Statuses == Ended \cup {"queued", "started"}
Busy == {"prepared", "monitor", "reaped", "handling"}
Cleaning == {"cleanStarted", "cleanWorkers", "sweep", "cleanStuck", "failStuck",
             "removeStuck"}
Dead == {"new", "dead", "selfKilled"}
PCs == Dead \cup {"loop", "idle", "fetched", "teardown"} \cup Busy \cup Cleaning
HorsePCs == {"none", "forked", "ready", "running", "committed", "exited", "killed"}

\* The fields of the hash that a process has read, in its own copy of the job
NoCopy == [left |-> 0, count |-> 0]

Idle == [pc |-> "new", job |-> NoJob, copy |-> NoCopy, horse |-> "none",
         stop |-> FALSE, stopped |-> NoJob, mine |-> FALSE, cmd |-> FALSE,
         ids |-> {}, keys |-> {}]

\* Jobs are enqueued before the workers start.
Init ==
    /\ hash = [j \in Jobs |-> [status |-> "queued", left |-> Retries[j], count |-> 0]]
    /\ queue = [j \in Jobs |-> 1]
    /\ inter = [j \in Jobs |-> 0]
    /\ seen = [j \in Jobs |-> "none"]
    /\ execs = {} /\ expired = {}
    /\ current = [w \in Workers |-> NoJob]
    /\ lock = FALSE
    /\ members = {}
    /\ key = [w \in Workers |-> "none"]
    /\ suspended = FALSE
    /\ worker = [w \in Workers |-> Idle]
    /\ disputed = {}
    /\ budget = Budget

Alive(w) == worker[w].pc \notin Dead
HorseAlive(w) == worker[w].horse \in {"forked", "ready", "running", "committed"}
Copy(j) == [left |-> hash[j].left, count |-> hash[j].count]

Spend(op) ==
    /\ budget[op] > 0
    /\ budget' = [budget EXCEPT ![op] = @ - 1]

\* The processes of w are in the state r.
Put(w, r) == worker' = [worker EXCEPT ![w] = r]

Goto(w, l) == Put(w, [worker[w] EXCEPT !.pc = l])

\* A worker goes on at l without a job.  A horse that is left over keeps it.
Loop(w, l) ==
    LET r == worker[w]
        base == IF l \in Dead THEN Idle ELSE [r EXCEPT !.ids = {}, !.keys = {}]
    IN Put(w, IF HorseAlive(w)
              THEN [base EXCEPT !.pc = l, !.job = r.job, !.copy = r.copy,
                                !.horse = r.horse, !.mine = r.mine]
              ELSE [base EXCEPT !.pc = l, !.job = NoJob, !.copy = NoCopy,
                                !.horse = "none", !.mine = FALSE])

-----------------------------------------------------------------------------
(* Changes that several handlers make to a job.                            *)

SetStatus(j, s) == hash' = [hash EXCEPT ![j].status = s]

\* Job.retry with the copy c of j: saved as it is in the copy, and pushed.
Retry(j, c) ==
    /\ hash' = [hash EXCEPT ![j] = [status |-> "queued", left |-> c.left - 1,
                                    count |-> c.count]]
    /\ queue' = [queue EXCEPT ![j] = @ + 1]

\* _handle_retry_result: one more of the retries that j asked for by itself.
HandleRetryResult(j, c) ==
    /\ hash' = [hash EXCEPT ![j] = [status |-> "queued", left |-> c.left,
                                    count |-> c.count + 1]]
    /\ queue' = [queue EXCEPT ![j] = @ + 1]

\* cleanup_execution: the worker has no current job, and its execution is
\* deleted: not one of an earlier time that was left behind.
CleanupExecution(w, j) ==
    /\ current' = [current EXCEPT ![w] = NoJob]
    /\ execs' = execs \ {<<w, j>>}
    /\ expired' = IF <<w, j>> \in execs THEN expired ELSE expired \ {<<w, j>>}

\* Mutant of JobFailure: one retry too many.
JobFailureOnceMore(w, j, c, isStopped) ==
    /\ IF c.left >= 0 /\ ~isStopped
       THEN Retry(j, c)
       ELSE SetStatus(j, IF isStopped THEN "stopped" ELSE "failed") /\ UNCHANGED queue
    /\ CleanupExecution(w, j)

\* handle_job_failure in a process with copy c of j, which has been told to
\* stop j or not, and that process' cleanup_execution.
JobFailure(w, j, c, isStopped) ==
    /\ IF c.left > 0 /\ ~isStopped
       THEN Retry(j, c)
       ELSE SetStatus(j, IF isStopped THEN "stopped" ELSE "failed") /\ UNCHANGED queue
    /\ CleanupExecution(w, j)

-----------------------------------------------------------------------------
(* The work loop.                                                          *)

\* The sets of all workers and of the workers of a queue.
Register(w) == members' = members \cup {w}
Unregister(ws) == members' = members \ ws

\* register_birth.  The names of workers are different.
RegisterBirth(w) ==
    /\ worker[w].pc = "new"
    /\ Register(w)
    /\ key' = [key EXCEPT ![w] = "alive"]
    /\ Goto(w, "loop")
    /\ UNCHANGED <<hash, queue, inter, seen, execs, expired, current, lock, suspended,
                   disputed, budget>>

\* check_for_suspension and the test of _stop_requested, before a job.
EnterLoop(w) ==
    /\ worker[w].pc = "loop"
    /\ worker[w].stop \/ ~suspended
    /\ Goto(w, IF worker[w].stop THEN "teardown" ELSE "idle")
    /\ UNCHANGED <<redis, disputed, budget>>

\* Queue.lmove to the intermediate queue, or Queue.lpop.
Pop(j) ==
    /\ queue[j] > 0
    /\ queue' = [queue EXCEPT ![j] = @ - 1]
    /\ inter' = [inter EXCEPT ![j] = IF Intermediate THEN @ + 1 ELSE @]

\* dequeue_job_and_maintain_ttl: an id is popped, and its job is fetched.
Dequeue(w, j) ==
    /\ worker[w].pc = "idle"
    /\ hash[j].status # "absent"
    /\ Pop(j)
    /\ Put(w, [worker[w] EXCEPT !.pc = "fetched", !.job = j, !.copy = Copy(j)])
    /\ UNCHANGED <<hash, seen, execs, expired, current, lock, members, key, suspended,
                   disputed, budget>>

\* dequeue_any finds no hash: the id is passed over, but stays where LMOVE has put it.
DropId(w, j) ==
    /\ worker[w].pc = "idle"
    /\ hash[j].status = "absent"
    /\ Pop(j)
    /\ UNCHANGED <<hash, seen, execs, expired, current, lock, members, key, suspended,
                   worker, disputed, budget>>

\* Mutant of PrepareExecution: the id leaves the intermediate queue before the
\* execution is registered, in a step of its own.
PrepareExecutionLate(w) ==
    /\ worker[w].pc = "fetched"
    /\ inter' = [inter EXCEPT ![worker[w].job] = IF @ > 0 THEN @ - 1 ELSE 0]
    /\ Goto(w, "prepared")
    /\ UNCHANGED <<hash, queue, seen, execs, expired, current, lock, members, key,
                   suspended, disputed, budget>>

\* prepare_execution: the execution is registered and the worker is BUSY.
PrepareExecution(w) ==
    /\ worker[w].pc = "fetched"
    /\ execs' = execs \cup {<<w, worker[w].job>>}
    /\ Goto(w, "prepared")
    /\ UNCHANGED <<hash, queue, inter, seen, expired, current, lock, members, key,
                   suspended, disputed, budget>>

\* fork_work_horse: the horse has a copy of _stopped_job_id too.
ForkWorkHorse(w) ==
    /\ worker[w].pc = "prepared"
    /\ Put(w, [worker[w] EXCEPT !.pc = "monitor", !.horse = "forked",
                                !.mine = worker[w].stopped = worker[w].job])
    /\ UNCHANGED <<redis, disputed, budget>>

\* wait_for_horse returns, and _horse_pid is 0.  If the process ended with
\* EX_OK there is nothing more to do.
WaitForHorse(w) ==
    /\ worker[w].pc = "monitor"
    /\ ~HorseAlive(w)
    /\ IF worker[w].horse = "exited"
       THEN Loop(w, "loop")
       ELSE Goto(w, "reaped")
    /\ UNCHANGED <<redis, disputed, budget>>

\* The horse has been at work for more than its timeout and a minute: it is
\* killed and waited for, and its exit status is not looked at.
KillOverdue(w) ==
    /\ worker[w].pc = "monitor"
    /\ worker[w].horse \in HorseMortal \cap {"running", "committed"}
    /\ Spend("killHorse")
    /\ Put(w, [worker[w] EXCEPT !.pc = "reaped", !.horse = "killed"])
    /\ UNCHANGED <<redis, disputed>>

\* The status after an abnormal exit.
JudgeStatus(w) ==
    LET j == worker[w].job
        s == hash[j].status
    IN
    /\ worker[w].pc = "reaped"
    /\ IF s # "absent" /\ (worker[w].stopped = j \/ s \notin {"finished", "failed"})
       THEN Goto(w, "handling")
       ELSE Loop(w, "loop")
    /\ UNCHANGED <<redis, disputed, budget>>

\* handle_job_failure of the parent, with its own copy of the job.
HandleFailure(w) ==
    LET j == worker[w].job
        isStopped == worker[w].stopped = j
    IN
    /\ worker[w].pc = "handling"
    /\ JobFailure(w, j, worker[w].copy, isStopped)
    /\ Put(w, [worker[w] EXCEPT !.pc = "loop", !.job = NoJob, !.copy = NoCopy,
                                !.horse = "none",
                                !.stopped = IF isStopped THEN NoJob ELSE @])
    /\ UNCHANGED <<inter, seen, lock, members, key, suspended, disputed, budget>>

\* teardown and register_death.
RegisterDeath(w) ==
    /\ worker[w].pc = "teardown"
    /\ Unregister({w})
    /\ key' = [key EXCEPT ![w] = "death"]
    /\ Loop(w, "dead")
    /\ UNCHANGED <<hash, queue, inter, seen, execs, expired, current, lock, suspended,
                   disputed, budget>>

-----------------------------------------------------------------------------
(* The horse.                                                              *)

\* os.setpgrp: until then the horse is in the process group of its worker.
SetGroup(w) ==
    /\ worker[w].horse = "forked"
    /\ Put(w, [worker[w] EXCEPT !.horse = "ready"])
    /\ UNCHANGED <<redis, disputed, budget>>

\* Mutant of PrepareJob: the id stays in the intermediate queue.
PrepareJobNoRemove(w) ==
    LET j == worker[w].job IN
    /\ worker[w].horse = "ready"
    /\ current' = [current EXCEPT ![w] = j]
    /\ SetStatus(j, "started")
    /\ Put(w, [worker[w] EXCEPT !.horse = "running"])
    /\ UNCHANGED <<queue, inter, seen, execs, expired, lock, members, key, suspended,
                   disputed, budget>>

\* prepare_job_execution: STARTED, and LREM from the intermediate queue.
PrepareJob(w) ==
    LET j == worker[w].job IN
    /\ worker[w].horse = "ready"
    /\ current' = [current EXCEPT ![w] = j]
    /\ SetStatus(j, "started")
    /\ inter' = [inter EXCEPT ![j] = IF Intermediate /\ @ > 0 THEN @ - 1 ELSE @]
    /\ Put(w, [worker[w] EXCEPT !.horse = "running"])
    /\ UNCHANGED <<queue, seen, execs, expired, lock, members, key, suspended,
                   disputed, budget>>

\* The horse is a zombie until its parent waits for it.
HorseEnds(w, h) ==
    LET r == worker[w] IN
    Put(w, IF r.pc = "monitor" THEN [r EXCEPT !.horse = h]
           ELSE [r EXCEPT !.horse = "none", !.job = NoJob, !.copy = NoCopy,
                          !.mine = FALSE])

HorseDone(w) == Put(w, [worker[w] EXCEPT !.horse = "committed"])

\* The transaction of handle_job_success.
HandleSuccess(w) ==
    LET j == worker[w].job IN
    /\ worker[w].horse = "running"
    /\ SetStatus(j, IF j \in Discard THEN "absent" ELSE "finished")
    /\ CleanupExecution(w, j)
    /\ HorseDone(w)
    /\ UNCHANGED <<queue, inter, seen, lock, members, key, suspended, disputed,
                   budget>>

\* The job raises an exception, or runs out of its timeout.
JobRaises(w) ==
    /\ worker[w].horse = "running"
    /\ Spend("fail")
    /\ JobFailure(w, worker[w].job, worker[w].copy, worker[w].mine)
    /\ HorseDone(w)
    /\ UNCHANGED <<inter, seen, lock, members, key, suspended, disputed>>

\* handle_job_retry: the job returns a Retry.
JobReturnsRetry(w) ==
    LET j == worker[w].job
        c == worker[w].copy
    IN
    /\ worker[w].horse = "running"
    /\ Spend("again")
    /\ IF c.count > 0 /\ c.count >= RetryMax
       THEN SetStatus(j, "failed") /\ UNCHANGED queue
       ELSE HandleRetryResult(j, c)
    /\ CleanupExecution(w, j)
    /\ HorseDone(w)
    /\ UNCHANGED <<inter, seen, lock, members, key, suspended, disputed>>

\* os._exit(0), whether the job has succeeded or failed.
HorseExits(w) ==
    /\ worker[w].horse = "committed"
    /\ HorseEnds(w, "exited")
    /\ UNCHANGED <<redis, disputed, budget>>

-----------------------------------------------------------------------------
(* Signals, commands and suspension.                                       *)

\* request_stop: a worker that is not BUSY raises StopRequested on the spot.
RequestStop(w) ==
    /\ Alive(w) /\ worker[w].pc # "teardown"
    /\ ~worker[w].stop
    /\ Spend("stop")
    /\ IF worker[w].pc \in Busy
       THEN Put(w, [worker[w] EXCEPT !.stop = TRUE])
       ELSE Loop(w, "teardown")
    /\ UNCHANGED <<redis, disputed>>

\* kill_horse by a worker: the signal goes to the process group of the horse,
\* which is the worker's own before setpgrp, and with a _horse_pid of 0.
KillGroup(w, next) ==
    IF worker[w].pc # "monitor" \/ worker[w].horse = "forked"
    THEN Put(w, [Idle EXCEPT !.pc = "selfKilled"])
    ELSE Put(w, [worker[w] EXCEPT !.pc = next, !.cmd = FALSE,
                                  !.horse = IF HorseAlive(w) THEN "killed" ELSE @])

\* request_force_stop: the second signal takes the horse down too.
RequestForceStop(w) ==
    /\ Alive(w) /\ worker[w].pc # "teardown"
    /\ worker[w].stop
    /\ Spend("stop")
    /\ IF worker[w].pc = "monitor" THEN KillGroup(w, "teardown") ELSE Loop(w, "teardown")
    /\ UNCHANGED <<redis, disputed>>

\* handle_stop_job_command finds that j is the current job.
StopJobCommand(w, j) ==
    /\ Alive(w)
    /\ current[w] = j
    /\ ~worker[w].cmd
    /\ Spend("stopJob")
    /\ Put(w, [worker[w] EXCEPT !.stopped = j, !.cmd = TRUE])
    /\ UNCHANGED <<redis, disputed>>

\* handle_kill_worker_command finds a _horse_pid.
KillHorseCommand(w) ==
    /\ worker[w].pc = "monitor"
    /\ ~worker[w].cmd
    /\ Spend("stopJob")
    /\ Put(w, [worker[w] EXCEPT !.cmd = TRUE])
    /\ UNCHANGED <<redis, disputed>>

\* The command thread goes on to kill_horse.
ExecCommand(w) ==
    /\ Alive(w)
    /\ worker[w].cmd
    /\ KillGroup(w, worker[w].pc)
    /\ UNCHANGED <<redis, disputed, budget>>

Suspend ==
    /\ ~suspended
    /\ Spend("suspend")
    /\ suspended' = TRUE
    /\ UNCHANGED <<hash, queue, inter, seen, execs, expired, current, lock, members,
                   key, worker, disputed>>

Resume ==
    /\ suspended
    /\ suspended' = FALSE
    /\ UNCHANGED <<hash, queue, inter, seen, execs, expired, current, lock, members,
                   key, worker, disputed, budget>>

-----------------------------------------------------------------------------
(* Maintenance, by a worker that waits for jobs.                           *)

\* acquire_maintenance_lock, and the expired job ids of clean_registries.
StartMaintenance(w) ==
    /\ worker[w].pc = "idle"
    /\ ~lock
    /\ lock' = TRUE
    /\ Put(w, [worker[w] EXCEPT !.pc = "cleanStarted",
                                !.ids = {e[2] : e \in expired}])
    /\ UNCHANGED <<hash, queue, inter, seen, execs, expired, current, members, key,
                   suspended, disputed, budget>>

\* Mutant of CleanStarted: only the jobs that can be retried are moved.
CleanStartedNoFail(w) ==
    LET js == {j \in worker[w].ids : hash[j].status # "absent"}
        again == {j \in js : hash[j].left > 0}
    IN
    /\ worker[w].pc = "cleanStarted"
    /\ hash' = [j \in Jobs |->
           IF j \in again THEN [hash[j] EXCEPT !.status = "queued", !.left = @ - 1]
           ELSE hash[j]]
    /\ queue' = [j \in Jobs |-> IF j \in again THEN queue[j] + 1 ELSE queue[j]]
    /\ expired' = {}
    /\ Put(w, [worker[w] EXCEPT !.pc = "cleanWorkers", !.ids = {}])
    /\ UNCHANGED <<inter, seen, execs, current, lock, members, key, suspended,
                   disputed, budget>>

\* StartedJobRegistry.cleanup: the abandoned jobs are retried or failed.
CleanStarted(w) ==
    LET js == {j \in worker[w].ids : hash[j].status # "absent"}
        again == {j \in js : hash[j].left > 0}
    IN
    /\ worker[w].pc = "cleanStarted"
    /\ hash' = [j \in Jobs |->
           IF j \in again THEN [hash[j] EXCEPT !.status = "queued", !.left = @ - 1]
           ELSE IF j \in js THEN [hash[j] EXCEPT !.status = "failed"] ELSE hash[j]]
    /\ queue' = [j \in Jobs |-> IF j \in again THEN queue[j] + 1 ELSE queue[j]]
    /\ expired' = {e \in expired : e[2] \notin worker[w].ids}
    /\ Put(w, [worker[w] EXCEPT !.pc = "cleanWorkers", !.ids = {}])
    /\ UNCHANGED <<inter, seen, execs, current, lock, members, key, suspended,
                   disputed, budget>>

\* Mutant of FindDeadWorkers: keys in other sets are taken for dead, too.
FindDeadWorkersAll(w) ==
    /\ worker[w].pc = "cleanWorkers"
    /\ Put(w, [worker[w] EXCEPT !.pc = "sweep", !.keys = members \ {w}])
    /\ UNCHANGED <<redis, disputed, budget>>

\* Mutant of FindDeadWorkers: only the workers that died in order are found.
FindDeadWorkersNone(w) ==
    /\ worker[w].pc = "cleanWorkers"
    /\ Put(w, [worker[w] EXCEPT !.pc = "sweep", !.keys = {}])
    /\ UNCHANGED <<redis, disputed, budget>>

\* clean_worker_registry: the keys of the set that have no hash.
FindDeadWorkers(w) ==
    /\ worker[w].pc = "cleanWorkers"
    /\ Put(w, [worker[w] EXCEPT !.pc = "sweep",
                                !.keys = {v \in members : key[v] = "none"}])
    /\ UNCHANGED <<redis, disputed, budget>>

\* The workers that are between the LMOVE of j and its LREM, in a process that
\* lives: the parent, or the horse.
Starters(j) == {w \in Workers :
    /\ worker[w].job = j
    /\ \/ worker[w].pc \in {"fetched", "prepared"}
       \/ worker[w].horse \in {"forked", "ready"}}

Starting(j) == Starters(j) # {}

\* Their removal, and LRANGE of the intermediate queue: it lists a job that is
\* just being started, too.
Sweep(w) ==
    /\ worker[w].pc = "sweep"
    /\ Unregister(worker[w].keys)
    /\ Put(w, [worker[w] EXCEPT !.pc = "cleanStuck", !.keys = {},
                                !.ids = {j \in Jobs : inter[j] > 0}])
    /\ UNCHANGED <<hash, queue, inter, seen, execs, expired, current, lock, key,
                   suspended, disputed, budget>>

\* IntermediateQueue.cleanup for one id: its job is gone, or has been started,
\* or is seen for the first time, or not long enough, or is stuck.  The first_seen
\* key lives for a day and is never deleted: a job that was retried and comes back
\* is taken for stuck as soon as it is seen before its execution is registered.
InspectStuck(w, j) ==
    LET gone == hash[j].status = "absent"
        started == \E e \in execs \cup expired : e[2] = j
        stuck == ~started /\ ~gone /\ seen[j] = "old"
    IN
    /\ worker[w].pc = "cleanStuck"
    /\ j \in worker[w].ids
    /\ seen' = [seen EXCEPT ![j] = IF ~started /\ ~gone /\ @ = "none" THEN "new" ELSE @]
    /\ inter' = [inter EXCEPT ![j] = IF gone /\ ~started /\ @ > 0 THEN @ - 1 ELSE @]
    /\ Put(w, [worker[w] EXCEPT !.ids = @ \ {j},
                                !.pc = IF stuck THEN "failStuck" ELSE @,
                                !.job = IF stuck THEN j ELSE @,
                                !.copy = IF stuck THEN Copy(j) ELSE @])
    /\ disputed' = IF stuck /\ inter[j] <= Cardinality(Starters(j))
                   THEN disputed \cup {j} ELSE disputed
    /\ UNCHANGED <<hash, queue, execs, expired, current, lock, members, key, suspended,
                   budget>>

\* handle_job_failure for a stuck job.
FailStuck(w) ==
    LET j == worker[w].job
        isStopped == worker[w].stopped = j
    IN
    /\ worker[w].pc = "failStuck"
    /\ JobFailure(w, j, worker[w].copy, isStopped)
    /\ Put(w, [worker[w] EXCEPT !.pc = "removeStuck", !.copy = NoCopy,
                                !.stopped = IF isStopped THEN NoJob ELSE @])
    /\ UNCHANGED <<inter, seen, lock, members, key, suspended, disputed, budget>>

RemoveStuck(w) ==
    LET j == worker[w].job IN
    /\ worker[w].pc = "removeStuck"
    /\ inter' = [inter EXCEPT ![j] = IF @ > 0 THEN @ - 1 ELSE 0]
    /\ Put(w, [worker[w] EXCEPT !.pc = "cleanStuck", !.job = NoJob])
    /\ UNCHANGED <<hash, queue, seen, execs, expired, current, lock, members, key,
                   suspended, disputed, budget>>

\* release_maintenance_lock, whoever has set it by now.
EndMaintenance(w) ==
    /\ worker[w].pc = "cleanStuck"
    /\ worker[w].ids = {}
    /\ lock' = FALSE
    /\ Goto(w, "idle")
    /\ UNCHANGED <<hash, queue, inter, seen, execs, expired, current, members, key,
                   suspended, disputed, budget>>

-----------------------------------------------------------------------------
(* Death and time.                                                         *)

\* The parent is killed; its horse goes on.
KillWorker(w) ==
    /\ worker[w].pc \in Mortal
    /\ Spend("killWorker")
    /\ Loop(w, "dead")
    /\ UNCHANGED <<redis, disputed>>

\* Both are killed.
KillHost(w) ==
    /\ worker[w].pc \in Mortal \/ HorseAlive(w)
    /\ worker[w].pc = "monitor" => worker[w].horse \in HorseMortal
    /\ Spend("killHost")
    /\ Put(w, [Idle EXCEPT !.pc = "dead"])
    /\ UNCHANGED <<redis, disputed>>

KillHorse(w) ==
    /\ HorseAlive(w)
    /\ worker[w].horse \in HorseMortal
    /\ Spend("killHorse")
    /\ HorseEnds(w, "killed")
    /\ UNCHANGED <<redis, disputed>>

\* An execution whose heartbeats have ended.  The monitor sends them, and a
\* horse that was forked starts its job before the first is due.
Expire(w, j) ==
    /\ <<w, j>> \in execs
    /\ worker[w].pc \notin Busy
    /\ worker[w].horse \notin {"forked", "ready"}
    /\ execs' = execs \ {<<w, j>>}
    /\ expired' = expired \cup {<<w, j>>}
    /\ UNCHANGED <<hash, queue, inter, seen, current, lock, members, key, suspended,
                   worker, disputed, budget>>

\* _persist_job: a job with a ttl expires while it is queued, or stuck.  The ttl
\* is longer than the time from its LMOVE to the PERSIST of perform.
JobExpires(j) ==
    /\ hash[j].status = "queued"
    /\ \A w \in Workers : worker[w].job # j /\ j \notin worker[w].ids
    /\ Spend("ttl")
    /\ SetStatus(j, "absent")
    /\ UNCHANGED <<queue, inter, seen, execs, expired, current, lock, members, key,
                   suspended, worker, disputed>>

\* j is between the LRANGE and the LREM of a cleanup.
Inspected(j) == \E w \in Workers :
    \/ worker[w].pc \in {"cleanStuck", "failStuck", "removeStuck"} /\ j \in worker[w].ids
    \/ worker[w].pc \in {"failStuck", "removeStuck"} /\ worker[w].job = j

\* A minute has passed since the first_seen key was set; a process that is not
\* delayed is done with the job by then.
MinutePasses(j) ==
    /\ seen[j] = "new"
    /\ IF Starting(j) \/ Inspected(j) THEN Spend("delay") ELSE UNCHANGED budget
    /\ seen' = [seen EXCEPT ![j] = "old"]
    /\ UNCHANGED <<hash, queue, inter, execs, expired, current, lock, members, key,
                   suspended, worker, disputed>>

\* The maintenance lock lives 899 seconds.
LockExpires ==
    /\ lock
    /\ IF \E w \in Workers : worker[w].pc \in Cleaning THEN Spend("delay")
                                                       ELSE UNCHANGED budget
    /\ lock' = FALSE
    /\ UNCHANGED <<hash, queue, inter, seen, execs, expired, current, members, key,
                   suspended, worker, disputed>>

\* The hash of a worker expires, if no heartbeat extends it.
KeyExpires(w) ==
    /\ key[w] # "none"
    /\ IF Alive(w) THEN Spend("late") ELSE UNCHANGED budget
    /\ key' = [key EXCEPT ![w] = "none"]
    /\ UNCHANGED <<hash, queue, inter, seen, execs, expired, current, lock, members,
                   suspended, worker, disputed>>

\* heartbeat writes the hash again, but not the sets of workers.
Heartbeat(w) ==
    /\ worker[w].pc \in {"idle", "monitor"}
    /\ key[w] = "none"
    /\ key' = [key EXCEPT ![w] = "alive"]
    /\ UNCHANGED <<hash, queue, inter, seen, execs, expired, current, lock, members,
                   suspended, worker, disputed, budget>>

-----------------------------------------------------------------------------
MaintenanceNext(w) ==
    \/ StartMaintenance(w) \/ CleanStarted(w) \/ FindDeadWorkers(w) \/ Sweep(w)
    \/ \E j \in Jobs : InspectStuck(w, j)
    \/ FailStuck(w) \/ RemoveStuck(w) \/ EndMaintenance(w)

ParentNext(w) ==
    \/ EnterLoop(w) \/ PrepareExecution(w) \/ ForkWorkHorse(w) \/ WaitForHorse(w)
    \/ JudgeStatus(w) \/ HandleFailure(w) \/ RegisterDeath(w) \/ ExecCommand(w)

HorseNext(w) ==
    \/ SetGroup(w) \/ PrepareJob(w) \/ HandleSuccess(w) \/ JobRaises(w)
    \/ JobReturnsRetry(w) \/ HorseExits(w)

DequeueNext(w) == \E j \in Jobs : Dequeue(w, j) \/ DropId(w, j)

SignalNext(w) ==
    \/ RequestStop(w) \/ RequestForceStop(w) \/ KillHorseCommand(w)
    \/ \E j \in Jobs : StopJobCommand(w, j)
    \/ KillWorker(w) \/ KillHost(w) \/ KillHorse(w) \/ KillOverdue(w)

TimeNext ==
    \/ LockExpires
    \/ \E j \in Jobs : MinutePasses(j) \/ JobExpires(j)
    \/ \E w \in Workers : KeyExpires(w) \/ \E j \in Jobs : Expire(w, j)

Next ==
    \/ \E w \in Workers :
          \/ RegisterBirth(w) \/ ParentNext(w) \/ HorseNext(w) \/ DequeueNext(w)
          \/ MaintenanceNext(w) \/ Heartbeat(w) \/ SignalNext(w)
    \/ TimeNext
    \/ Suspend \/ Resume

Spec == Init /\ [][Next]_vars

\* Processes that live go on, a worker gets to its maintenance again and
\* again, and time passes.
Fairness ==
    /\ \A w \in Workers :
          /\ WF_vars(RegisterBirth(w)) /\ WF_vars(ParentNext(w)) /\ WF_vars(HorseNext(w))
          /\ WF_vars(MaintenanceNext(w) /\ worker'[w].pc # "cleanStarted")
          /\ SF_vars(DequeueNext(w)) /\ SF_vars(StartMaintenance(w))
    /\ WF_vars(LockExpires)
    /\ \A j \in Jobs : SF_vars(MinutePasses(j))
    /\ \A w \in Workers : WF_vars(KeyExpires(w))
    /\ \A w \in Workers, j \in Jobs : WF_vars(Expire(w, j))

FairSpec == Spec /\ Fairness

-----------------------------------------------------------------------------
(* Properties.                                                             *)

\* Every variable has its type.
TypeOK ==
    /\ hash \in [Jobs -> [status : Statuses, left : Nat, count : Nat]]
    /\ queue \in [Jobs -> Nat] /\ inter \in [Jobs -> Nat]
    /\ seen \in [Jobs -> {"none", "new", "old"}]
    /\ execs \subseteq Workers \X Jobs /\ expired \subseteq Workers \X Jobs
    /\ current \in [Workers -> Jobs \cup {NoJob}]
    /\ lock \in BOOLEAN /\ suspended \in BOOLEAN
    /\ members \subseteq Workers
    /\ key \in [Workers -> {"none", "alive", "death"}]
    /\ worker \in [Workers -> [pc : PCs, job : Jobs \cup {NoJob},
           copy : [left : Nat, count : Nat], horse : HorsePCs, stop : BOOLEAN,
           stopped : Jobs \cup {NoJob}, mine : BOOLEAN, cmd : BOOLEAN,
           ids : SUBSET Jobs, keys : SUBSET Workers]]
    /\ disputed \subseteq Jobs
    /\ budget \in [Ops -> Nat]

\* j was put back in the queue by a retry: only then does it come with its old
\* first_seen key.
Retried(j) == hash[j].left < Retries[j] \/ hash[j].count > 0

\* dequeue_any, prepare_execution and the two cleanups together: whatever dies
\* between two steps, a job that has not ended is in the queue, in the
\* intermediate queue, in the hands of a living worker, or has an execution
\* that a cleanup will find; but for a retried job that was taken for stuck in
\* the hands of a worker, of which the cleanup removes the only entry.
NoJobIsLost ==
    \A j \in Jobs : hash[j].status \notin Ended =>
        \/ queue[j] + inter[j] > 0
        \/ \E e \in execs \cup expired : e[2] = j
        \/ \E w \in Workers : worker[w].pc = "fetched" /\ worker[w].job = j
        \/ j \in disputed /\ Retried(j)

\* The place of a job, for a reader who does not look at how it is kept.
Place(j) ==
    IF j \in disputed THEN "disputed"
    ELSE IF hash[j].status \in Ended THEN "ended"
    ELSE IF queue[j] > 0 THEN "waiting" ELSE "taken"

\* The workers implement Delivery: no job is handled after its end, and none
\* is started that was not in the queue, until a cleanup takes for stuck what a
\* worker has in hand.
Abstract == INSTANCE Delivery WITH place <- [j \in Jobs |-> Place(j)]
Delivered == Abstract!Spec

\* As long as a worker is left, every job comes to an end.
JobsEnd == \A j \in Jobs : hash[j].status \notin Ended ~> hash[j].status \in Ended

\* clean_worker_registry: a worker that has died leaves the sets of workers.
DeadAreForgotten ==
    \A w \in Workers : w \in members /\ worker[w].pc \in {"dead", "selfKilled"}
                       ~> w \notin members

\* clean_worker_registry leaves the workers alone whose heartbeats are in time.
RegisteredWhileAlive == \A w \in Workers : Alive(w) => w \in members

=============================================================================
