---------------------------- MODULE Dependencies ----------------------------
(***************************************************************************)
(* Job dependencies: how a job that names others in depends_on is          *)
(* deferred, and how the actors that end its dependencies enqueue it.      *)
(*                                                                         *)
(* Clients enqueue, cancel and requeue jobs (Queue.enqueue_job,            *)
(* Job.cancel, BaseRegistry.requeue).  Workers dequeue and perform them    *)
(* (handle_job_success, handle_job_failure).  The cleaner is the worker    *)
(* that holds the maintenance lock and runs StartedJobRegistry.cleanup.    *)
(* They share nothing but Redis.  A step is one atomic access of Redis: a  *)
(* command, a MULTI/EXEC block, or a read whose keys the reader WATCHes    *)
(* (reads under WATCH count only if the EXEC succeeds, so a batch of them  *)
(* is one step).                                                           *)
(*                                                                         *)
(* A Redis list of job ids is the number of entries it has for each job:   *)
(* the order of the queue has no part in these properties.  Retry and      *)
(* repeat intervals are zero here (the job goes back on the queue at once).*)
(***************************************************************************)
EXTENDS Naturals, FiniteSets

CONSTANTS
    Jobs,           \* job ids
    DependsOn,      \* DependsOn[j]: the ids in j's depends_on
    AllowFailure,   \* jobs enqueued with Dependency(allow_failure=True)
    ResultTTL,      \* what becomes of a finished job: see TTLs
    Retry,          \* Retry[j]: Retry(max=...) of j, 0 without one
    Repeat,         \* Repeat[j]: Repeat(times=...) of j, 0 without one
    Clients,        \* processes that enqueue, cancel and requeue
    Workers,        \* processes that perform jobs
    Cleaner,        \* the worker running StartedJobRegistry.cleanup
    Budget,         \* bounds on what the environment does: see Ops
    NoJob           \* the job of an actor that has none

\* result_ttl = 0: deleted when it finishes; > 0: expires; -1: kept
TTLs == {"zero", "finite", "forever"}

\* The environment's operations that nothing else bounds
Ops == {"cancel", "requeue", "crash", "stop", "fail"}

Actors == Clients \cup Workers \cup {Cleaner}

ASSUME JobsAssumption ==
    /\ NoJob \notin Jobs
    /\ DependsOn \in [Jobs -> SUBSET Jobs]
    /\ \A j \in Jobs : j \notin DependsOn[j]
    /\ AllowFailure \subseteq Jobs
    /\ ResultTTL \in [Jobs -> TTLs]
    /\ Retry \in [Jobs -> Nat]
    /\ Repeat \in [Jobs -> Nat]
    /\ Budget \in [Ops -> Nat]

ASSUME ActorsAssumption ==
    /\ Clients \cap Workers = {}
    /\ Cleaner \notin Clients \cup Workers

VARIABLES
    \* Redis
    status,         \* the status field of each job hash, "absent" if no hash
    dependents,     \* the sets rq:job:<id>:dependents
    queue,          \* queue[j]: entries for j in the queue's list
    deferredReg,    \* DeferredJobRegistry
    failedReg,      \* FailedJobRegistry
    canceledReg,    \* CanceledJobRegistry
    startedReg,     \* StartedJobRegistry: <<job, worker>>, an execution
    retries,        \* the retries_left field of each job hash
    repeats,        \* the repeats_left field of each job hash
    watch,          \* watch[a]: the keys actor a's connection WATCHes
    dirty,          \* dirty[a]: one of them was written since
    \* The actors
    pc,             \* where each actor stands
    job,            \* the job it handles
    ready,          \* the dependents it is about to enqueue
    tries,          \* retries_left of its copy of the job
    left,           \* repeats_left of its copy of the job
    seen,           \* what it read to take the job out of registries
    batch, todo,    \* the cleanup's expired entries, and ids to visit
    toRetry,        \* toRetry[j]: retries_left it read, if it is to retry j
    toFail,         \* the jobs it is to mark failed
    \* The environment
    saved,          \* jobs whose enqueue call has returned
    budget

redis == <<status, dependents, queue, deferredReg, failedReg, canceledReg,
           startedReg, retries, repeats>>
tx == <<watch, dirty>>
locals == <<job, ready, tries, left, seen>>
round == <<batch, todo, toRetry, toFail>>
env == <<saved, budget>>
vars == <<redis, tx, pc, locals, round, env>>

Statuses == {"absent", "queued", "deferred", "started", "finished", "failed",
             "stopped", "canceled"}

PCs == {"idle",
        "setup", "defer", "enqueue",        \* Queue.enqueue_job
        "cancel", "requeue",                \* Job.cancel, BaseRegistry.requeue
        "dequeued", "prepared", "running", "success",   \* Worker.execute_job
        "dependents", "exec",               \* Queue.enqueue_dependents
        "cleaning",                         \* StartedJobRegistry.cleanup
        "dead"}

\* What _remove_from_registries reads: the job's status and executions
NothingSeen == <<"absent", {}>>

JobKey(j) == <<"job", j>>
DependentsKey(j) == <<"dependents", j>>
JobKeys(S) == {JobKey(j) : j \in S}
Keys == JobKeys(Jobs) \cup {DependentsKey(j) : j \in Jobs}

Init ==
    /\ status = [j \in Jobs |-> "absent"]
    /\ dependents = [j \in Jobs |-> {}]
    /\ queue = [j \in Jobs |-> 0]
    /\ deferredReg = {} /\ failedReg = {} /\ canceledReg = {} /\ startedReg = {}
    /\ retries = Retry
    /\ repeats = Repeat
    /\ watch = [a \in Actors |-> {}]
    /\ dirty = [a \in Actors |-> FALSE]
    /\ pc = [a \in Actors |-> "idle"]
    /\ job = [a \in Actors |-> NoJob]
    /\ ready = [a \in Actors |-> {}]
    /\ tries = [a \in Actors |-> 0]
    /\ left = [a \in Actors |-> 0]
    /\ seen = [a \in Actors |-> NothingSeen]
    /\ batch = {} /\ todo = {} /\ toFail = {}
    /\ toRetry = [j \in Jobs |-> 0]
    /\ saved = {}
    /\ budget = Budget

-----------------------------------------------------------------------------
(* Redis transactions.                                                     *)

\* WATCH keys, on a connection that watches nothing yet.
Watch(a, keys) ==
    /\ watch' = [watch EXCEPT ![a] = keys]
    /\ dirty' = [dirty EXCEPT ![a] = FALSE]

\* UNWATCH, as EXEC and the end of a pipeline's use do.
Unwatch(a) ==
    /\ watch' = [watch EXCEPT ![a] = {}]
    /\ dirty' = [dirty EXCEPT ![a] = FALSE]

\* a writes keys, in an EXEC that succeeds or in a command of its own: every
\* other connection that watches one of them will fail its EXEC.
Write(a, keys) ==
    /\ watch' = [watch EXCEPT ![a] = {}]
    /\ dirty' = [b \in Actors |->
                    b # a /\ (dirty[b] \/ watch[b] \cap keys # {})]

\* A write by a process whose own connection watches nothing.
Interfere(keys) ==
    /\ dirty' = [b \in Actors |-> dirty[b] \/ watch[b] \cap keys # {}]
    /\ UNCHANGED watch

Goto(a, l) == pc' = [pc EXCEPT ![a] = l]

\* The actor is done with its job, and forgets all it knew.
LeaveTo(a, l) ==
    /\ Goto(a, l)
    /\ job' = [job EXCEPT ![a] = NoJob]
    /\ ready' = [ready EXCEPT ![a] = {}]
    /\ tries' = [tries EXCEPT ![a] = 0]
    /\ left' = [left EXCEPT ![a] = 0]
    /\ seen' = [seen EXCEPT ![a] = NothingSeen]

Leave(a) == LeaveTo(a, "idle")

\* An actor other than a worker takes up job j at label l.
TakeUp(a, j, l) ==
    /\ pc[a] = "idle"
    /\ pc' = [pc EXCEPT ![a] = l]
    /\ job' = [job EXCEPT ![a] = j]
    /\ UNCHANGED <<ready, tries, left>>

Spend(op) ==
    /\ budget[op] > 0
    /\ budget' = [budget EXCEPT ![op] = @ - 1]
    /\ UNCHANGED saved

\* push_job_id for every job of S
Pushed(S) == [j \in Jobs |-> IF j \in S THEN queue[j] + 1 ELSE queue[j]]
WithStatus(S, s) == [j \in Jobs |-> IF j \in S THEN s ELSE status[j]]

\* Job.cleanup with a ttl > 0, or delete: an EXPIRE or DEL of the dependents
\* set, which touches the key only if it exists.
TouchedSets(S) == {DependentsKey(j) : j \in {k \in S : dependents[k] # {}}}

\* What _remove_from_registries finds out about j.
Look(j) == <<status[j], {e \in startedReg : e[1] = j}>>

\* _remove_from_registries: from the registry that the status names.
DropFrom(reg, j, statuses, look) == IF look[1] \in statuses THEN reg \ {j} ELSE reg

-----------------------------------------------------------------------------
(* Queue.enqueue_job: setup_dependencies, then _enqueue_job.               *)

\* enqueue_call: a program names in depends_on only jobs it has enqueued.
EnqueueCall(c, j) ==
    /\ j \notin saved
    /\ \A a \in Clients : ~(job[a] = j /\ pc[a] \in {"setup", "defer", "enqueue"})
    /\ DependsOn[j] \subseteq saved
    /\ TakeUp(c, j, "setup")
    /\ UNCHANGED <<redis, tx, seen, round, env>>

\* Dependencies that keep j from being enqueued now: those whose hash exists
\* with a status other than FINISHED.  allow_failure is not asked.
Unfinished(j) == {d \in DependsOn[j] : status[d] \notin {"absent", "finished"}}

\* Mutant of FindUnfinished: the dependencies are read without a WATCH.
FindUnwatched(c) ==
    /\ pc[c] = "setup"
    /\ Unfinished(job[c]) # {}
    /\ Goto(c, "defer")
    /\ UNCHANGED <<redis, tx, locals, round, env>>

\* WATCH and fetch the dependencies: some must be waited for, or none.
FindUnfinished(c) ==
    /\ pc[c] = "setup"
    /\ Unfinished(job[c]) # {}
    /\ Watch(c, JobKeys(DependsOn[job[c]]))
    /\ Goto(c, "defer")
    /\ UNCHANGED <<redis, locals, round, env>>

FindNoneUnfinished(c) ==
    /\ pc[c] = "setup"
    /\ Unfinished(job[c]) = {}
    /\ Goto(c, "enqueue")
    /\ UNCHANGED <<redis, tx, locals, round, env>>

\* EXEC of the deferral, register_dependency included.
Defer(c) ==
    LET j == job[c] IN
    /\ pc[c] = "defer"
    /\ ~dirty[c]
    /\ status' = WithStatus({j}, "deferred")
    /\ deferredReg' = deferredReg \cup {j}
    /\ dependents' = [d \in Jobs |-> IF d \in DependsOn[j]
                                       THEN dependents[d] \cup {j}
                                       ELSE dependents[d]]
    /\ Write(c, {JobKey(j)} \cup {DependentsKey(d) : d \in DependsOn[j]})
    /\ saved' = saved \cup {j}
    /\ Leave(c)
    /\ UNCHANGED <<queue, failedReg, canceledReg, startedReg, retries, repeats,
                   round, budget>>

\* WatchError: start over.
DeferAgain(c) ==
    /\ pc[c] = "defer"
    /\ dirty[c]
    /\ Unwatch(c)
    /\ Goto(c, "setup")
    /\ UNCHANGED <<redis, locals, round, env>>

\* _enqueue_job in a transaction of its own: the WATCH is over.
Enqueue(c) ==
    LET j == job[c] IN
    /\ pc[c] = "enqueue"
    /\ status' = WithStatus({j}, "queued")
    /\ queue' = Pushed({j})
    /\ Write(c, {JobKey(j)})
    /\ saved' = saved \cup {j}
    /\ Leave(c)
    /\ UNCHANGED <<dependents, deferredReg, failedReg, canceledReg, startedReg,
                   retries, repeats, round, budget>>

-----------------------------------------------------------------------------
(* Queue.enqueue_dependents.                                               *)

\* Mutants of DependenciesAreMet: only the parent counts; a parent that was
\* stopped counts as one that failed.
MetByParent(j, p, ps) ==
    /\ ps \notin {"canceled", "stopped"}
    /\ ps = "failed" => j \in AllowFailure

\* Job.dependencies_are_met(parent_job=p), p's status being ps.  The hash of
\* another dependency may be gone: then it does not count.
DependenciesAreMet(j, p, ps) ==
    /\ ps \notin {"canceled", "stopped"}
    /\ ps = "failed" => j \in AllowFailure
    /\ \A d \in DependsOn[j] \ {p} :
          \/ status[d] \in {"absent", "finished"}
          \/ status[d] = "failed" /\ j \in AllowFailure

\* jobs_to_enqueue
JobsToEnqueue(p, ps) ==
    {j \in dependents[p] : /\ status[j] \notin {"absent", "canceled"}
                           /\ DependenciesAreMet(j, p, ps)}

\* Mutant of WatchedDependents: the dependents set is read without a WATCH.
WatchedDependencies(p) ==
    JobKeys(UNION {DependsOn[j] : j \in {k \in dependents[p] :
                                            status[k] # "absent"}})

\* The keys watched by then: the dependents set, and all the dependencies of
\* all the dependents that still exist.
WatchedDependents(p) ==
    {DependentsKey(p)} \cup
    JobKeys(UNION {DependsOn[j] : j \in {k \in dependents[p] :
                                            status[k] # "absent"}})

\* The status enqueue_dependents goes by: refreshed from Redis, or, for the
\* cleanup (refresh_job_status=False), the one set in its own copy.
ParentStatus(a) == IF a = Cleaner THEN "failed" ELSE status[job[a]]

\* Where the caller goes on.  A worker has nothing left to do.
Resume(a) ==
    IF a = Cleaner
      THEN /\ pc' = [pc EXCEPT ![a] = "cleaning"]
           /\ ready' = [ready EXCEPT ![a] = {}]
           /\ UNCHANGED <<job, tries, left, seen>>
      ELSE Leave(a)

\* What a read of p's dependents set finds to enqueue.  When the parent's hash
\* is gone get_status raises, which ends the call.
Found(a) == IF ParentStatus(a) = "absent" THEN {}
                                          ELSE JobsToEnqueue(job[a], ParentStatus(a))

\* WATCH and read.
ReadDependents(a) ==
    /\ pc[a] = "dependents"
    /\ Found(a) # {}
    /\ Watch(a, WatchedDependents(job[a]))
    /\ Goto(a, "exec")
    /\ ready' = [ready EXCEPT ![a] = Found(a)]
    /\ UNCHANGED <<redis, job, tries, left, seen, round, env>>

\* With nobody to enqueue it returns without an EXEC.
NoDependents(a) ==
    /\ pc[a] = "dependents"
    /\ Found(a) = {}
    /\ Resume(a)
    /\ UNCHANGED <<redis, tx, round, env>>

\* EXEC: the dependents leave the DeferredJobRegistry and p's set, and are
\* queued.  They stay in the sets of their other dependencies.
ExecDependents(a) ==
    LET p == job[a] IN
    /\ pc[a] = "exec"
    /\ ~dirty[a]
    /\ status' = WithStatus(ready[a], "queued")
    /\ queue' = Pushed(ready[a])
    /\ deferredReg' = deferredReg \ ready[a]
    /\ dependents' = [dependents EXCEPT ![p] = @ \ ready[a]]
    /\ Write(a, {DependentsKey(p)} \cup JobKeys(ready[a]))
    /\ Resume(a)
    /\ UNCHANGED <<failedReg, canceledReg, startedReg, retries, repeats, round,
                   env>>

\* WatchError: read again.
DependentsAgain(a) ==
    /\ pc[a] = "exec"
    /\ dirty[a]
    /\ Unwatch(a)
    /\ Goto(a, "dependents")
    /\ ready' = [ready EXCEPT ![a] = {}]
    /\ UNCHANGED <<redis, job, tries, left, seen, round, env>>

-----------------------------------------------------------------------------
(* The worker.                                                             *)

\* dequeue_any: pop the id and fetch the job.
Dequeue(w, j) ==
    /\ pc[w] = "idle"
    /\ queue[j] > 0
    /\ status[j] # "absent"
    /\ queue' = [queue EXCEPT ![j] = @ - 1]
    /\ Goto(w, "dequeued")
    /\ job' = [job EXCEPT ![w] = j]
    /\ tries' = [tries EXCEPT ![w] = retries[j]]
    /\ left' = [left EXCEPT ![w] = repeats[j]]
    /\ UNCHANGED <<status, dependents, deferredReg, failedReg, canceledReg,
                   startedReg, retries, repeats, tx, ready, seen, round, env>>

\* dequeue_any: an id without a hash is dropped (NoSuchJobError).
DropId(w, j) ==
    /\ pc[w] = "idle"
    /\ queue[j] > 0
    /\ status[j] = "absent"
    /\ queue' = [queue EXCEPT ![j] = @ - 1]
    /\ UNCHANGED <<status, dependents, deferredReg, failedReg, canceledReg,
                   startedReg, retries, repeats, tx, pc, locals, round, env>>

\* prepare_execution, by the worker: an entry in the StartedJobRegistry.
PrepareExecution(w) ==
    /\ pc[w] = "dequeued"
    /\ startedReg' = startedReg \cup {<<job[w], w>>}
    /\ Goto(w, "prepared")
    /\ UNCHANGED <<status, dependents, queue, deferredReg, failedReg,
                   canceledReg, retries, repeats, tx, locals, round, env>>

\* prepare_job_execution, by its horse: the status is set whatever it was.
Start(w) ==
    /\ pc[w] = "prepared"
    /\ status' = WithStatus({job[w]}, "started")
    /\ Write(w, {JobKey(job[w])})
    /\ Goto(w, "running")
    /\ UNCHANGED <<dependents, queue, deferredReg, failedReg, canceledReg,
                   startedReg, retries, repeats, locals, round, env>>

\* maintain_heartbeats: the worker writes the hash of the job its horse runs.
Heartbeat(w) ==
    /\ pc[w] \in {"prepared", "running", "success"}
    /\ Interfere({JobKey(job[w])})
    /\ UNCHANGED <<redis, pc, locals, round, env>>

\* After this success the job is deleted: result_ttl = 0, nothing to repeat.
Deletes(w) == ResultTTL[job[w]] = "zero" /\ left[w] = 0

\* The job returned.  handle_job_success WATCHes and reads the dependents, and
\* what delete() needs.  If the hash is gone get_status raises: see FailJob.
ReadSuccess(w) ==
    LET j == job[w] IN
    /\ pc[w] = "running"
    /\ dependents[j] # {} \/ Deletes(w) => status[j] # "absent"
    /\ Watch(w, WatchedDependents(j))
    /\ ready' = [ready EXCEPT ![w] = JobsToEnqueue(j, status[j])]
    /\ seen' = [seen EXCEPT ![w] = IF Deletes(w) THEN Look(j) ELSE @]
    /\ Goto(w, "success")
    /\ UNCHANGED <<redis, job, tries, left, round, env>>

\* Keys that the EXEC of a success writes.
SuccessKeys(w) ==
    LET j == job[w] IN
    JobKeys(ready[w] \cup {j}) \cup
    (IF ready[w] # {} THEN {DependentsKey(j)} ELSE {}) \cup
    (IF left[w] = 0 /\ ResultTTL[j] # "forever" THEN TouchedSets({j}) ELSE {})

\* What the job is after a success, with n repeats left in the worker's copy:
\* queued again by Repeat.schedule, deleted, or finished.
AfterSuccess(j, n) ==
    IF n > 0 THEN "queued"
             ELSE IF ResultTTL[j] = "zero" THEN "absent" ELSE "finished"

\* Mutant of Less: counted down without a look at what is left.
LessUnchecked(n) == n - 1

\* repeats_left once Repeat.schedule has counted it down
Less(n) == IF n > 0 THEN n - 1 ELSE 0

\* EXEC of a success: dependents, outcome and repetition in one transaction.
ExecSuccess(w) ==
    LET j == job[w]
        again == IF left[w] > 0 THEN {j} ELSE {}
        end == AfterSuccess(j, left[w])
        look == IF Deletes(w) THEN seen[w] ELSE NothingSeen
    IN
    /\ pc[w] = "success"
    /\ ~dirty[w]
    /\ status' = [WithStatus(ready[w], "queued") EXCEPT ![j] = end]
    /\ queue' = Pushed(ready[w] \cup again)
    /\ deferredReg' = deferredReg \ ready[w]
    /\ dependents' = [dependents EXCEPT ![j] =
                         IF end = "absent" THEN {} ELSE @ \ ready[w]]
    /\ repeats' = [repeats EXCEPT ![j] = Less(left[w])]
    /\ retries' = [retries EXCEPT ![j] = tries[w]]
    /\ startedReg' = startedReg \ ({<<j, w>>} \cup look[2])
    /\ failedReg' = DropFrom(failedReg, j, {"failed", "stopped"}, look)
    /\ canceledReg' = DropFrom(canceledReg, j, {"canceled"}, look)
    /\ Write(w, SuccessKeys(w))
    /\ Leave(w)
    /\ UNCHANGED <<round, env>>

\* WatchError: the handler starts over.  Repeat.schedule has counted down
\* repeats_left in the worker's copy of the job by then, which stays so.
SuccessAgain(w) ==
    /\ pc[w] = "success"
    /\ dirty[w]
    /\ Unwatch(w)
    /\ Goto(w, "running")
    /\ ready' = [ready EXCEPT ![w] = {}]
    /\ left' = [left EXCEPT ![w] = Less(left[w])]
    /\ seen' = [seen EXCEPT ![w] = NothingSeen]
    /\ UNCHANGED <<redis, job, tries, round, env>>

\* The job raised, and handle_job_failure queues it again: it has retries.
RetryJob(w) ==
    LET j == job[w] IN
    /\ pc[w] = "running"
    /\ tries[w] > 0
    /\ Spend("fail")
    /\ status' = WithStatus({j}, "queued")
    /\ queue' = Pushed({j})
    /\ retries' = [retries EXCEPT ![j] = tries[w] - 1]
    /\ repeats' = [repeats EXCEPT ![j] = left[w]]
    /\ startedReg' = startedReg \ {<<j, w>>}
    /\ Write(w, {JobKey(j)})
    /\ Leave(w)
    /\ UNCHANGED <<dependents, deferredReg, failedReg, canceledReg, round>>

\* Mutant of FailJob: the dependents are forgotten.
FailAlone(w) ==
    LET j == job[w] IN
    /\ pc[w] = "running"
    /\ tries[w] = 0
    /\ Spend("fail")
    /\ status' = WithStatus({j}, "failed")
    /\ failedReg' = failedReg \cup {j}
    /\ startedReg' = startedReg \ {<<j, w>>}
    /\ Write(w, {JobKey(j)})
    /\ Leave(w)
    /\ UNCHANGED <<dependents, queue, deferredReg, canceledReg, retries,
                   repeats, round>>

\* The job raised and has no retries: handle_job_failure marks it and only
\* then, in another transaction, enqueues dependents.
FailJob(w) ==
    LET j == job[w] IN
    /\ pc[w] = "running"
    /\ tries[w] = 0
    /\ Spend("fail")
    /\ status' = WithStatus({j}, "failed")
    /\ failedReg' = failedReg \cup {j}
    /\ retries' = [retries EXCEPT ![j] = 0]
    /\ repeats' = [repeats EXCEPT ![j] = left[w]]
    /\ startedReg' = startedReg \ {<<j, w>>}
    /\ Write(w, {JobKey(j)} \cup TouchedSets({j}))
    /\ Goto(w, "dependents")
    /\ UNCHANGED <<dependents, queue, deferredReg, canceledReg, locals, round>>

\* The job was stopped by command: handle_job_failure with _stopped_job_id.
StopJob(w) ==
    /\ pc[w] \in {"running", "success"}
    /\ Spend("stop")
    /\ Write(w, {JobKey(job[w])} \cup TouchedSets({job[w]}))
    /\ status' = WithStatus({job[w]}, "stopped")
    /\ failedReg' = failedReg \cup {job[w]}
    /\ startedReg' = startedReg \ {<<job[w], w>>}
    /\ ready' = [ready EXCEPT ![w] = {}]
    /\ seen' = [seen EXCEPT ![w] = NothingSeen]
    /\ Goto(w, "dependents")
    /\ UNCHANGED <<dependents, queue, deferredReg, canceledReg, retries,
                   repeats, job, tries, left, round>>

\* The worker and its horse die.  The entry in the StartedJobRegistry of a
\* job that was running gets no more heartbeats, and expires.
Crash(w) ==
    /\ pc[w] \in {"prepared", "running", "success", "dependents", "exec"}
    /\ Spend("crash")
    /\ Unwatch(w)
    /\ LeaveTo(w, "dead")
    /\ UNCHANGED <<redis, round>>

-----------------------------------------------------------------------------
(* StartedJobRegistry.cleanup.                                             *)

\* Mutant of Expired: heartbeats do not keep an entry alive.
ExpiredWhileRunning == {e \in startedReg : pc[e[2]] \in {"dead", "running"}}

\* get_expired_job_ids: the entries that get no heartbeats
Expired == {e \in startedReg : pc[e[2]] = "dead"}

StartCleanup ==
    /\ pc[Cleaner] = "idle"
    /\ Expired # {}
    /\ batch' = Expired
    /\ todo' = {e[1] : e \in Expired}
    /\ Goto(Cleaner, "cleaning")
    /\ UNCHANGED <<redis, tx, locals, toRetry, toFail, env>>

\* Fetch a job of the round.  One without a hash is passed over; a retry waits
\* in the cleanup's pipeline.
SkipJob(j) ==
    /\ pc[Cleaner] = "cleaning"
    /\ j \in todo
    /\ status[j] = "absent"
    /\ todo' = todo \ {j}
    /\ UNCHANGED <<redis, tx, pc, locals, batch, toRetry, toFail, env>>

\* Mutant of CleanupRetry: the retry is left out of the pipeline.
CleanupDrop(j) ==
    /\ pc[Cleaner] = "cleaning"
    /\ j \in todo
    /\ status[j] # "absent"
    /\ retries[j] > 0
    /\ todo' = todo \ {j}
    /\ UNCHANGED <<redis, tx, pc, locals, batch, toRetry, toFail, env>>

CleanupRetry(j) ==
    /\ pc[Cleaner] = "cleaning"
    /\ j \in todo
    /\ status[j] # "absent"
    /\ retries[j] > 0
    /\ todo' = todo \ {j}
    /\ toRetry' = [toRetry EXCEPT ![j] = retries[j]]
    /\ UNCHANGED <<redis, tx, pc, locals, batch, toFail, env>>

\* A failure waits in the pipeline too, but the dependents are enqueued at
\* once, before FAILED is in Redis.
CleanupFail(j) ==
    /\ pc[Cleaner] = "cleaning"
    /\ j \in todo
    /\ status[j] # "absent"
    /\ retries[j] = 0
    /\ todo' = todo \ {j}
    /\ toFail' = toFail \cup {j}
    /\ Goto(Cleaner, "dependents")
    /\ job' = [job EXCEPT ![Cleaner] = j]
    /\ UNCHANGED <<redis, tx, ready, tries, left, seen, batch, toRetry, env>>

\* The pipeline's EXEC, zremrangebyscore included.  It saves the copies of the
\* jobs that the cleanup fetched.
EndCleanup ==
    LET again == {j \in Jobs : toRetry[j] > 0} IN
    /\ pc[Cleaner] = "cleaning"
    /\ todo = {}
    /\ status' = [j \in Jobs |-> IF j \in again THEN "queued"
                                 ELSE IF j \in toFail THEN "failed"
                                 ELSE status[j]]
    /\ queue' = Pushed(again)
    /\ retries' = [j \in Jobs |-> IF j \in again \cup toFail THEN Less(toRetry[j])
                                                            ELSE retries[j]]
    /\ failedReg' = failedReg \cup toFail
    /\ startedReg' = startedReg \ batch
    /\ Write(Cleaner, JobKeys(again \cup toFail) \cup TouchedSets(toFail))
    /\ batch' = {} /\ toRetry' = [j \in Jobs |-> 0] /\ toFail' = {}
    /\ Leave(Cleaner)
    /\ UNCHANGED <<dependents, deferredReg, canceledReg, repeats, todo, env>>

-----------------------------------------------------------------------------
(* Job.cancel, BaseRegistry.requeue and expiry.                            *)

\* Mutant of Cancel: the status is not fetched.
CancelUnread(c, j) ==
    /\ status[j] \notin {"absent", "canceled"}
    /\ Spend("cancel")
    /\ TakeUp(c, j, "cancel")
    /\ UNCHANGED <<redis, tx, seen, round>>

\* cancel() refuses a canceled job; the status it finds decides which
\* registry the transaction below takes the job out of.
Cancel(c, j) ==
    /\ status[j] \notin {"absent", "canceled"}
    /\ Spend("cancel")
    /\ TakeUp(c, j, "cancel")
    /\ seen' = [seen EXCEPT ![c] = Look(j)]
    /\ UNCHANGED <<redis, tx, round>>

\* The transaction of cancel(remove_from_dependencies=forget).  LREM takes
\* the first entry of the queue only.
ExecCancel(c, forget) ==
    LET j == job[c]
        from == IF forget THEN {d \in DependsOn[j] : status[d] # "absent"}
                          ELSE {}
    IN
    /\ pc[c] = "cancel"
    /\ status' = WithStatus({j}, "canceled")
    /\ queue' = [queue EXCEPT ![j] = IF @ > 0 THEN @ - 1 ELSE 0]
    /\ deferredReg' = DropFrom(deferredReg, j, {"deferred"}, seen[c])
    /\ failedReg' = DropFrom(failedReg, j, {"failed", "stopped"}, seen[c])
    /\ startedReg' = IF seen[c][1] = "started" THEN startedReg \ seen[c][2]
                                               ELSE startedReg
    /\ canceledReg' = canceledReg \cup {j}
    /\ dependents' = [d \in Jobs |-> IF d \in from THEN dependents[d] \ {j}
                                                   ELSE dependents[d]]
    /\ Write(c, {JobKey(j)} \cup {DependentsKey(d) : d \in from})
    /\ Leave(c)
    /\ UNCHANGED <<retries, repeats, round, env>>

\* requeue(): the ZREM claims the job, and the fetched hash is saved.
Requeue(c, j) ==
    /\ j \in failedReg
    /\ status[j] # "absent"
    /\ Spend("requeue")
    /\ TakeUp(c, j, "requeue")
    /\ failedReg' = failedReg \ {j}
    /\ Interfere({JobKey(j)})
    /\ UNCHANGED <<status, dependents, queue, deferredReg, canceledReg,
                   startedReg, retries, repeats, seen, round>>

\* Mutant of ExecRequeue: the status stays what it was.
RequeueIdOnly(c) ==
    /\ pc[c] = "requeue"
    /\ queue' = Pushed({job[c]})
    /\ Leave(c)
    /\ UNCHANGED <<status, dependents, deferredReg, failedReg, canceledReg,
                   startedReg, retries, repeats, tx, round, env>>

ExecRequeue(c) ==
    LET j == job[c] IN
    /\ pc[c] = "requeue"
    /\ status' = WithStatus({j}, "queued")
    /\ queue' = Pushed({j})
    /\ Write(c, {JobKey(j)})
    /\ Leave(c)
    /\ UNCHANGED <<dependents, deferredReg, failedReg, canceledReg, startedReg,
                   retries, repeats, round, env>>

\* A finished job's hash and its dependents set reach their TTL.  A key that
\* expires does not fail a WATCH.
Expire(j) ==
    /\ status[j] = "finished"
    /\ ResultTTL[j] = "finite"
    /\ status' = WithStatus({j}, "absent")
    /\ dependents' = [dependents EXCEPT ![j] = {}]
    /\ UNCHANGED <<queue, deferredReg, failedReg, canceledReg, startedReg,
                   retries, repeats, tx, pc, locals, round, env>>

-----------------------------------------------------------------------------
ClientNext(c) ==
    \/ \E j \in Jobs : EnqueueCall(c, j) \/ Cancel(c, j) \/ Requeue(c, j)
    \/ FindUnfinished(c) \/ FindNoneUnfinished(c)
    \/ Defer(c) \/ DeferAgain(c) \/ Enqueue(c)
    \/ \E forget \in BOOLEAN : ExecCancel(c, forget)
    \/ ExecRequeue(c)

\* enqueue_dependents, called by a worker or by the cleanup
DependentsNext(a) ==
    ReadDependents(a) \/ NoDependents(a) \/ ExecDependents(a) \/ DependentsAgain(a)

WorkerNext(w) ==
    \/ \E j \in Jobs : Dequeue(w, j) \/ DropId(w, j)
    \/ PrepareExecution(w) \/ Start(w) \/ Heartbeat(w)
    \/ ReadSuccess(w) \/ ExecSuccess(w) \/ SuccessAgain(w)
    \/ RetryJob(w) \/ FailJob(w) \/ StopJob(w) \/ Crash(w)

CleanerNext ==
    \/ StartCleanup
    \/ \E j \in Jobs : SkipJob(j) \/ CleanupRetry(j) \/ CleanupFail(j)
    \/ EndCleanup

Next ==
    \/ \E c \in Clients : ClientNext(c)
    \/ \E w \in Workers : WorkerNext(w)
    \/ CleanerNext
    \/ \E a \in Workers \cup {Cleaner} : DependentsNext(a)
    \/ \E j \in Jobs : Expire(j)

Spec == Init /\ [][Next]_vars

-----------------------------------------------------------------------------
(* Fairness.  Clients finish the calls they make, workers keep taking jobs *)
(* and finish them (a job function may run for ever; it is taken not to),  *)
(* and maintenance runs.  The retry loops around WATCH have no bound and   *)
(* no pause, while heartbeats come seconds apart: an EXEC that is tried    *)
(* again and again succeeds in the end, which is strong fairness.          *)
Fairness ==
    /\ \A c \in Clients :
          /\ WF_vars(FindUnfinished(c) \/ FindNoneUnfinished(c) \/ DeferAgain(c))
          /\ WF_vars(Enqueue(c) \/ ExecRequeue(c))
          /\ WF_vars(\E forget \in BOOLEAN : ExecCancel(c, forget))
          /\ SF_vars(Defer(c))
    /\ \A w \in Workers :
          /\ WF_vars(\E j \in Jobs : Dequeue(w, j) \/ DropId(w, j))
          /\ WF_vars(PrepareExecution(w) \/ Start(w) \/ ReadSuccess(w) \/ SuccessAgain(w))
          /\ SF_vars(ExecSuccess(w))
    /\ \A a \in Workers \cup {Cleaner} :
          /\ WF_vars(ReadDependents(a) \/ NoDependents(a) \/ DependentsAgain(a))
          /\ SF_vars(ExecDependents(a))
    /\ WF_vars(CleanerNext)

FairSpec == Spec /\ Fairness

-----------------------------------------------------------------------------
(* Properties.                                                             *)

RedisTypeOK ==
    /\ status \in [Jobs -> Statuses]
    /\ dependents \in [Jobs -> SUBSET Jobs]
    /\ queue \in [Jobs -> Nat]
    /\ deferredReg \subseteq Jobs
    /\ failedReg \subseteq Jobs
    /\ canceledReg \subseteq Jobs
    /\ startedReg \subseteq Jobs \X Workers
    /\ retries \in [Jobs -> Nat]
    /\ repeats \in [Jobs -> Nat]

TxTypeOK ==
    /\ watch \in [Actors -> SUBSET Keys]
    /\ dirty \in [Actors -> BOOLEAN]

LocalsTypeOK ==
    /\ pc \in [Actors -> PCs]
    /\ job \in [Actors -> Jobs \cup {NoJob}]
    /\ ready \in [Actors -> SUBSET Jobs]
    /\ tries \in [Actors -> Nat]
    /\ left \in [Actors -> Nat]
    /\ seen \in [Actors -> Statuses \X SUBSET (Jobs \X Workers)]

RoundTypeOK ==
    /\ batch \subseteq Jobs \X Workers
    /\ todo \subseteq Jobs
    /\ toRetry \in [Jobs -> Nat]
    /\ toFail \subseteq Jobs

EnvTypeOK ==
    /\ saved \subseteq Jobs
    /\ budget \in [Ops -> Nat]

\* Every variable has its type: what Redis holds, the connections, the actors'
\* own state, the cleanup's round and the bounds.
TypeOK == RedisTypeOK /\ TxTypeOK /\ LocalsTypeOK /\ RoundTypeOK /\ EnvTypeOK

Done(d) == status[d] \in {"absent", "finished"}
Requeuing(d) == \E c \in Clients : pc[c] = "requeue" /\ job[c] = d

\* The results of j's dependencies outlive the wait for the others.  (With
\* allow_failure a job can be queued twice, so one that expired can come back.)
Kept(j) == AllowFailure = {} \/ \A d \in DependsOn[j] : ResultTTL[d] = "forever"

\* The heart of handle_job_success and setup_dependencies: a job is never left
\* behind in the DeferredJobRegistry when all its dependencies have finished,
\* whatever the order of the deferral and of the successes.  The exceptions
\* are visible in Redis: a dependency was canceled, or was marked failed by
\* one actor while another performed it.
NoLostWakeup ==
    \A j \in Jobs :
        /\ status[j] = "deferred"
        /\ Kept(j)
        /\ \A d \in DependsOn[j] : Done(d)
        => \E d \in DependsOn[j] : d \in canceledReg \cup failedReg \/ Requeuing(d)

\* register_dependency against enqueue_dependents and cancel: a deferred job
\* is in the registry and in the dependents set of everything it waits for,
\* and nobody else is in the registry.  (A cancel that races with the end of
\* a dependency writes a hash that has no dependents set any more.)
DeferredIsReachable ==
    /\ deferredReg = {j \in Jobs : status[j] = "deferred"}
    /\ \A j \in deferredReg : Kept(j) =>
          \A d \in DependsOn[j] : d \in canceledReg \/ Done(d) \/ j \in dependents[d]

\* handle_job_failure, cleanup, cancel and requeue together: a job marked
\* failed or stopped can be found in the FailedJobRegistry, or is on its way
\* back to the queue.
FailureIsAccounted ==
    \A j \in Jobs : status[j] \in {"failed", "stopped"} =>
        j \in failedReg \/ Requeuing(j)

Satisfied(j, d) == Done(d) \/ (status[d] = "failed" /\ j \in AllowFailure)

\* enqueue_dependents lets a deferred job go only when each dependency has
\* finished, or has failed (for the cleanup: will have, once its pipeline is
\* executed) and the job allows that, or has just succeeded and is queued by
\* Repeat for another run.
EnqueuedOnlyWhenMet ==
    [][\A j \in Jobs : status[j] = "deferred" /\ status'[j] = "queued" =>
          \A d \in DependsOn[j] :
             \/ Satisfied(j, d)'
             \/ d \in toFail /\ j \in AllowFailure
             \/ repeats'[d] < repeats[d] /\ status'[d] = "queued"]_vars

\* Queue, workers and dependents sets: there is never more than one entry in
\* the queue or execution of the same job.
NoDuplicateWork ==
    \A j \in Jobs :
        queue[j] + Cardinality({w \in Workers : job[w] = j /\
                        pc[w] \in {"dequeued", "prepared", "running", "success"}}) <= 1

\* handle_job_failure: when the last dependency that a job with allow_failure
\* waits for ends, by failure too, somebody is about to enqueue the job.  The
\* exceptions are a dependency that was canceled while it ran, and the cleanup,
\* which looks for dependents before it executes the pipeline that marks their
\* dependency failed.
FailureWakesDependents ==
    [][\A j \in AllowFailure :
          /\ status[j] = "deferred" /\ status'[j] = "deferred"
          /\ \E d \in DependsOn[j] : ~Satisfied(j, d)
          /\ \A d \in DependsOn[j] : Satisfied(j, d)' /\ d \notin canceledReg
          => \/ \E a \in Actors : /\ pc'[a] \in {"dependents", "exec"}
                                  /\ job'[a] \in DependsOn[j]
             \/ DependsOn[j] \cap toFail # {}]_vars

\* cancel() against enqueue_dependents: without a requeue, a canceled job is
\* not put on the queue.
CanceledStaysOffQueue ==
    [][\A j \in Jobs : status[j] = "canceled" => queue'[j] <= queue[j]]_vars

\* Deferred jobs do not wait for ever, in spite of the WATCH loops: each is
\* enqueued or canceled, or one of its dependencies has failed, was stopped
\* or canceled.
DeferredLeaves ==
    \A j \in Jobs :
        status[j] = "deferred" ~>
            \/ status[j] # "deferred"
            \/ \E d \in DependsOn[j] : \/ status[d] \in {"failed", "stopped"}
                                       \/ d \in canceledReg

=============================================================================
