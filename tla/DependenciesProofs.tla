------------------------ MODULE DependenciesProofs ------------------------
(***************************************************************************)
(* TLAPS proofs about Dependencies.                                      *)
(*                                                                       *)
(* For all constants: the types, and that failed jobs are accounted for. *)
(* Then, where nobody requeues and no job has allow_failure: no job is   *)
(* performed twice at a time, and a dependent is enqueued only when its  *)
(* dependencies are met.  Last, under hypotheses of their own: a deferred*)
(* job stays within reach of its dependencies, the success of the last one*)
(* wakes it, and so does its failure.                                    *)
(***************************************************************************)
EXTENDS Dependencies, FiniteSetTheorems, TLAPS

-----------------------------------------------------------------------------
(* Types and registries, for all constants.                              *)

Busy == {"setup", "defer", "enqueue", "cancel", "requeue", "dequeued",
         "prepared", "running", "success", "dependents", "exec"}

\* Each actor runs its own code, and one that runs some has a job.
ActorsOK ==
    \A p \in Actors :
        /\ pc[p] \in {"setup", "defer", "enqueue", "cancel", "requeue"} =>
              p \in Clients
        /\ pc[p] \in {"dequeued", "prepared", "running", "success", "dead"} =>
              p \in Workers
        /\ pc[p] \in {"dependents", "exec"} => p \notin Clients
        /\ pc[p] = "cleaning" => p = Cleaner
        /\ pc[p] \in Busy => job[p] \in Jobs

Typed == TypeOK /\ ActorsOK

\* The types at the start.
LEMMA TypedInit == Init => Typed
  BY JobsAssumption, ActorsAssumption
     DEF Init, Typed, TypeOK, RedisTypeOK, TxTypeOK, LocalsTypeOK, RoundTypeOK,
         EnvTypeOK, ActorsOK, Actors, Statuses, PCs, Busy, Ops, NothingSeen

\* What enqueue_dependents leaves behind when it returns.
LEMMA ResumeFacts ==
  ASSUME Typed, NEW a \in Workers \cup {Cleaner}, Resume(a)
  PROVE  /\ LocalsTypeOK'
         /\ a \notin Clients
         /\ pc'[a] \in {"idle", "cleaning"}
         /\ pc'[a] = "cleaning" => a = Cleaner
         /\ ready'[a] = {}
         /\ \A p \in Actors \ {a} : /\ pc'[p] = pc[p] /\ job'[p] = job[p]
                                    /\ ready'[p] = ready[p]
<1> USE JobsAssumption, ActorsAssumption
        DEF Typed, TypeOK, LocalsTypeOK, Actors, PCs, Statuses, NothingSeen
<1>0. a \in Actors /\ a \notin Clients
  OBVIOUS
<1>1. CASE a = Cleaner
  <2>1. /\ pc' = [pc EXCEPT ![a] = "cleaning"]
        /\ ready' = [ready EXCEPT ![a] = {}]
        /\ UNCHANGED <<job, tries, left, seen>>
    BY <1>1 DEF Resume
  <2> QED BY <1>0, <1>1, <2>1
<1>2. CASE a # Cleaner
  <2>1. /\ pc' = [pc EXCEPT ![a] = "idle"]
        /\ job' = [job EXCEPT ![a] = NoJob]
        /\ ready' = [ready EXCEPT ![a] = {}]
        /\ tries' = [tries EXCEPT ![a] = 0]
        /\ left' = [left EXCEPT ![a] = 0]
        /\ seen' = [seen EXCEPT ![a] = NothingSeen]
    BY <1>2 DEF Resume, Leave, LeaveTo, Goto
  <2> QED BY <1>0, <1>2, <2>1
<1> QED BY <1>1, <1>2

\* Every step keeps the types, and gives an actor a job when it needs one.
LEMMA TypedNext ==
  ASSUME Typed, [Next]_vars
  PROVE  Typed'
<1> USE JobsAssumption, ActorsAssumption
        DEF Typed, TypeOK, RedisTypeOK, TxTypeOK, LocalsTypeOK, RoundTypeOK,
            EnvTypeOK, ActorsOK, Actors, Statuses, PCs, Busy, Keys, JobKeys,
            JobKey, DependentsKey, redis, tx, locals, round, env
<1>1. ASSUME NEW c \in Clients, NEW j \in Jobs, EnqueueCall(c, j) PROVE Typed'
  BY <1>1 DEF EnqueueCall, TakeUp
<1>2. ASSUME NEW c \in Clients, FindUnfinished(c) PROVE Typed'
  BY <1>2 DEF FindUnfinished, Watch, Goto
<1>3. ASSUME NEW c \in Clients, FindNoneUnfinished(c) PROVE Typed'
  BY <1>3 DEF FindNoneUnfinished, Goto
<1>4. ASSUME NEW c \in Clients, Defer(c) PROVE Typed'
  BY <1>4 DEF Defer, Write, Goto, Leave, LeaveTo, NothingSeen, WithStatus
<1>5. ASSUME NEW c \in Clients, DeferAgain(c) PROVE Typed'
  BY <1>5 DEF DeferAgain, Unwatch, Goto
<1>6. ASSUME NEW c \in Clients, Enqueue(c) PROVE Typed'
  BY <1>6 DEF Enqueue, Write, Goto, Leave, LeaveTo, NothingSeen, WithStatus,
     Pushed
<1>7. ASSUME NEW c \in Clients, NEW j \in Jobs, Cancel(c, j) PROVE Typed'
  BY <1>7 DEF Cancel, Spend, TakeUp, Look, Ops
<1>8. ASSUME NEW c \in Clients, NEW forget \in BOOLEAN, ExecCancel(c, forget)
      PROVE  Typed'
  BY <1>8 DEF ExecCancel, Write, Goto, Leave, LeaveTo, NothingSeen, WithStatus,
     DropFrom
<1>9. ASSUME NEW c \in Clients, NEW j \in Jobs, Requeue(c, j) PROVE Typed'
  BY <1>9 DEF Requeue, Spend, TakeUp, Interfere, Ops
<1>10. ASSUME NEW c \in Clients, ExecRequeue(c) PROVE Typed'
  BY <1>10 DEF ExecRequeue, Write, Goto, Leave, LeaveTo, NothingSeen,
     WithStatus, Pushed
<1>11. ASSUME NEW w \in Workers, NEW j \in Jobs, Dequeue(w, j) PROVE Typed'
  BY <1>11 DEF Dequeue, Goto
<1>12. ASSUME NEW w \in Workers, NEW j \in Jobs, DropId(w, j) PROVE Typed'
  BY <1>12 DEF DropId
<1>13. ASSUME NEW w \in Workers, PrepareExecution(w) PROVE Typed'
  BY <1>13 DEF PrepareExecution, Goto
<1>14. ASSUME NEW w \in Workers, Start(w) PROVE Typed'
  BY <1>14 DEF Start, Write, Goto, WithStatus
<1>15. ASSUME NEW w \in Workers, Heartbeat(w) PROVE Typed'
  BY <1>15 DEF Heartbeat, Interfere
<1>16. ASSUME NEW w \in Workers, ReadSuccess(w) PROVE Typed'
  BY <1>16 DEF ReadSuccess, Watch, Goto, Look, JobsToEnqueue, WatchedDependents
<1>17. ASSUME NEW w \in Workers, ExecSuccess(w) PROVE Typed'
  BY <1>17 DEF ExecSuccess, Write, Goto, Leave, LeaveTo, NothingSeen,
     WithStatus, Pushed, AfterSuccess, SuccessKeys, TouchedSets, DropFrom,
     Deletes, Less
<1>18. ASSUME NEW w \in Workers, SuccessAgain(w) PROVE Typed'
  BY <1>18 DEF SuccessAgain, Unwatch, Goto, NothingSeen, Less
<1>19. ASSUME NEW w \in Workers, RetryJob(w) PROVE Typed'
  BY <1>19 DEF RetryJob, Spend, Write, Goto, Leave, LeaveTo, NothingSeen,
     WithStatus, Pushed, Ops
<1>20. ASSUME NEW w \in Workers, FailJob(w) PROVE Typed'
  BY <1>20 DEF FailJob, Spend, Write, Goto, WithStatus, TouchedSets, Ops
<1>21. ASSUME NEW w \in Workers, StopJob(w) PROVE Typed'
  BY <1>21 DEF StopJob, Spend, Write, Goto, NothingSeen, WithStatus,
     TouchedSets, Ops
<1>22. ASSUME NEW w \in Workers, Crash(w) PROVE Typed'
  BY <1>22 DEF Crash, Spend, Unwatch, Goto, LeaveTo, NothingSeen, Ops
<1>23. ASSUME NEW a \in Workers \cup {Cleaner}, ReadDependents(a) PROVE Typed'
  BY <1>23 DEF ReadDependents, Watch, Goto, Found, JobsToEnqueue,
     WatchedDependents
<1>24. ASSUME NEW a \in Workers \cup {Cleaner}, NoDependents(a) PROVE Typed'
  <2>1. RedisTypeOK' /\ TxTypeOK' /\ RoundTypeOK' /\ EnvTypeOK'
    BY <1>24 DEF NoDependents
  <2>2. LocalsTypeOK' /\ ActorsOK'
    BY <1>24, ResumeFacts DEF NoDependents
  <2> QED BY <2>1, <2>2
<1>25. ASSUME NEW a \in Workers \cup {Cleaner}, ExecDependents(a) PROVE Typed'
  <2>1. RedisTypeOK' /\ TxTypeOK' /\ RoundTypeOK' /\ EnvTypeOK'
    BY <1>25 DEF ExecDependents, Write, WithStatus, Pushed
  <2>2. LocalsTypeOK' /\ ActorsOK'
    BY <1>25, ResumeFacts DEF ExecDependents
  <2> QED BY <2>1, <2>2
<1>26. ASSUME NEW a \in Workers \cup {Cleaner}, DependentsAgain(a) PROVE Typed'
  BY <1>26 DEF DependentsAgain, Unwatch, Goto
<1>27. ASSUME StartCleanup PROVE Typed'
  BY <1>27 DEF StartCleanup, Expired, Goto
<1>28. ASSUME NEW j \in Jobs, SkipJob(j) PROVE Typed'
  BY <1>28 DEF SkipJob
<1>29. ASSUME NEW j \in Jobs, CleanupRetry(j) PROVE Typed'
  BY <1>29 DEF CleanupRetry
<1>30. ASSUME NEW j \in Jobs, CleanupFail(j) PROVE Typed'
  BY <1>30 DEF CleanupFail, Goto
<1>31. ASSUME EndCleanup PROVE Typed'
  BY <1>31 DEF EndCleanup, Write, Goto, Leave, LeaveTo, NothingSeen, Pushed,
     TouchedSets, Less
<1>32. ASSUME NEW j \in Jobs, Expire(j) PROVE Typed'
  BY <1>32 DEF Expire, WithStatus
<1>33. CASE UNCHANGED vars
  BY <1>33 DEF vars
<1> HIDE DEF Typed, TypeOK, RedisTypeOK, TxTypeOK, LocalsTypeOK, RoundTypeOK,
             EnvTypeOK, ActorsOK, Actors, Statuses, PCs, Busy, Keys, JobKeys,
             JobKey, DependentsKey, redis, tx, locals, round, env
<1> QED
  BY <1>1, <1>2, <1>3, <1>4, <1>5, <1>6, <1>7, <1>8, <1>9, <1>10, <1>11, <1>12,
     <1>13, <1>14, <1>15, <1>16, <1>17, <1>18, <1>19, <1>20, <1>21, <1>22,
     <1>23, <1>24, <1>25, <1>26, <1>27, <1>28, <1>29, <1>30, <1>31, <1>32,
     <1>33
     DEF Next, ClientNext, WorkerNext, CleanerNext, DependentsNext

\* Every variable keeps its type, whatever the jobs, the actors and the bounds:
\* no operation of a queue, a registry, a worker or the cleanup leaves one
\* (a count that would go below zero, a key or a job out of nowhere).
THEOREM TypeCorrect == Spec => []TypeOK
<1>1. Typed /\ [Next]_vars => Typed'
  BY TypedNext
<1> QED
  BY TypedInit, <1>1, PTL DEF Spec, Typed

\* A job that ended otherwise than by a success can be found in its registry.
RegistriesOK ==
    /\ \A j \in Jobs : status[j] = "canceled" => j \in canceledReg
    /\ FailureIsAccounted

\* Canceled, failed and stopped jobs stay where they can be found.
LEMMA RegistriesNext ==
  ASSUME Typed, RegistriesOK, [Next]_vars
  PROVE  RegistriesOK'
<1> USE JobsAssumption, ActorsAssumption
        DEF Typed, TypeOK, RedisTypeOK, TxTypeOK, LocalsTypeOK, RoundTypeOK,
            EnvTypeOK, ActorsOK, Actors, Statuses, PCs, Busy, redis, tx, locals,
            round, env, RegistriesOK, FailureIsAccounted, Requeuing
<1>1. ASSUME NEW c \in Clients, NEW j \in Jobs, EnqueueCall(c, j)
      PROVE  RegistriesOK'
  BY <1>1 DEF EnqueueCall, TakeUp
<1>2. ASSUME NEW c \in Clients, FindUnfinished(c) PROVE RegistriesOK'
  BY <1>2 DEF FindUnfinished, Watch, Goto
<1>3. ASSUME NEW c \in Clients, FindNoneUnfinished(c) PROVE RegistriesOK'
  BY <1>3 DEF FindNoneUnfinished, Goto
<1>4. ASSUME NEW c \in Clients, Defer(c) PROVE RegistriesOK'
  BY <1>4 DEF Defer, Write, Goto, Leave, LeaveTo, NothingSeen, WithStatus
<1>5. ASSUME NEW c \in Clients, DeferAgain(c) PROVE RegistriesOK'
  BY <1>5 DEF DeferAgain, Unwatch, Goto
<1>6. ASSUME NEW c \in Clients, Enqueue(c) PROVE RegistriesOK'
  BY <1>6 DEF Enqueue, Write, Goto, Leave, LeaveTo, NothingSeen, WithStatus,
     Pushed
<1>7. ASSUME NEW c \in Clients, NEW j \in Jobs, Cancel(c, j)
      PROVE  RegistriesOK'
  BY <1>7 DEF Cancel, Spend, TakeUp, Look, Ops
<1>8. ASSUME NEW c \in Clients, NEW forget \in BOOLEAN, ExecCancel(c, forget)
      PROVE  RegistriesOK'
  BY <1>8 DEF ExecCancel, Write, Goto, Leave, LeaveTo, NothingSeen, WithStatus,
     DropFrom
<1>9. ASSUME NEW c \in Clients, NEW j \in Jobs, Requeue(c, j)
      PROVE  RegistriesOK'
  BY <1>9 DEF Requeue, Spend, TakeUp, Interfere, Ops
<1>10. ASSUME NEW c \in Clients, ExecRequeue(c) PROVE RegistriesOK'
  BY <1>10 DEF ExecRequeue, Write, Goto, Leave, LeaveTo, NothingSeen,
     WithStatus, Pushed
<1>11. ASSUME NEW w \in Workers, NEW j \in Jobs, Dequeue(w, j)
      PROVE  RegistriesOK'
  BY <1>11 DEF Dequeue, Goto
<1>12. ASSUME NEW w \in Workers, NEW j \in Jobs, DropId(w, j)
      PROVE  RegistriesOK'
  BY <1>12 DEF DropId
<1>13. ASSUME NEW w \in Workers, PrepareExecution(w) PROVE RegistriesOK'
  BY <1>13 DEF PrepareExecution, Goto
<1>14. ASSUME NEW w \in Workers, Start(w) PROVE RegistriesOK'
  BY <1>14 DEF Start, Write, Goto, WithStatus
<1>15. ASSUME NEW w \in Workers, Heartbeat(w) PROVE RegistriesOK'
  BY <1>15 DEF Heartbeat, Interfere
<1>16. ASSUME NEW w \in Workers, ReadSuccess(w) PROVE RegistriesOK'
  BY <1>16 DEF ReadSuccess, Watch, Goto, Look, JobsToEnqueue, WatchedDependents
<1>17. ASSUME NEW w \in Workers, ExecSuccess(w) PROVE RegistriesOK'
  BY <1>17 DEF ExecSuccess, Write, Goto, Leave, LeaveTo, NothingSeen,
     WithStatus, Pushed, AfterSuccess, SuccessKeys, TouchedSets, DropFrom,
     Deletes, Less
<1>18. ASSUME NEW w \in Workers, SuccessAgain(w) PROVE RegistriesOK'
  BY <1>18 DEF SuccessAgain, Unwatch, Goto, NothingSeen, Less
<1>19. ASSUME NEW w \in Workers, RetryJob(w) PROVE RegistriesOK'
  BY <1>19 DEF RetryJob, Spend, Write, Goto, Leave, LeaveTo, NothingSeen,
     WithStatus, Pushed, Ops
<1>20. ASSUME NEW w \in Workers, FailJob(w) PROVE RegistriesOK'
  BY <1>20 DEF FailJob, Spend, Write, Goto, WithStatus, TouchedSets, Ops
<1>21. ASSUME NEW w \in Workers, StopJob(w) PROVE RegistriesOK'
  BY <1>21 DEF StopJob, Spend, Write, Goto, NothingSeen, WithStatus,
     TouchedSets, Ops
<1>22. ASSUME NEW w \in Workers, Crash(w) PROVE RegistriesOK'
  BY <1>22 DEF Crash, Spend, Unwatch, Goto, LeaveTo, NothingSeen, Ops
<1>23. ASSUME NEW a \in Workers \cup {Cleaner}, ReadDependents(a)
      PROVE  RegistriesOK'
  BY <1>23 DEF ReadDependents, Watch, Goto, Found, JobsToEnqueue,
     WatchedDependents
<1>24. ASSUME NEW a \in Workers \cup {Cleaner}, NoDependents(a)
      PROVE  RegistriesOK'
  <2>0. /\ a \notin Clients
        /\ \A p \in Actors \ {a} : pc'[p] = pc[p] /\ job'[p] = job[p]
    BY ONLY Typed, <1>24, ResumeFacts DEF NoDependents
  <2>1. \A c \in Clients : pc'[c] = pc[c] /\ job'[c] = job[c]
    BY ONLY <2>0 DEF Actors
  <2>2. UNCHANGED redis
    BY <1>24 DEF NoDependents
  <2> QED BY <2>1, <2>2
<1>25. ASSUME NEW a \in Workers \cup {Cleaner}, ExecDependents(a)
      PROVE  RegistriesOK'
  BY <1>25 DEF ExecDependents, Write, Goto, Resume, Leave, LeaveTo,
     NothingSeen, WithStatus, Pushed
<1>26. ASSUME NEW a \in Workers \cup {Cleaner}, DependentsAgain(a)
      PROVE  RegistriesOK'
  BY <1>26 DEF DependentsAgain, Unwatch, Goto
<1>27. ASSUME StartCleanup PROVE RegistriesOK'
  BY <1>27 DEF StartCleanup, Expired, Goto
<1>28. ASSUME NEW j \in Jobs, SkipJob(j) PROVE RegistriesOK'
  BY <1>28 DEF SkipJob
<1>29. ASSUME NEW j \in Jobs, CleanupRetry(j) PROVE RegistriesOK'
  BY <1>29 DEF CleanupRetry
<1>30. ASSUME NEW j \in Jobs, CleanupFail(j) PROVE RegistriesOK'
  BY <1>30 DEF CleanupFail, Goto
<1>31. ASSUME EndCleanup PROVE RegistriesOK'
  BY <1>31 DEF EndCleanup, Write, Goto, Leave, LeaveTo, NothingSeen, Pushed,
     TouchedSets, Less
<1>32. ASSUME NEW j \in Jobs, Expire(j) PROVE RegistriesOK'
  BY <1>32 DEF Expire, WithStatus
<1>33. CASE UNCHANGED vars
  BY <1>33 DEF vars
<1> HIDE DEF Typed, TypeOK, RedisTypeOK, TxTypeOK, LocalsTypeOK, RoundTypeOK,
             EnvTypeOK, ActorsOK, Actors, Statuses, PCs, Busy, redis, tx,
             locals, round, env, RegistriesOK, FailureIsAccounted, Requeuing
<1> QED
  BY <1>1, <1>2, <1>3, <1>4, <1>5, <1>6, <1>7, <1>8, <1>9, <1>10, <1>11, <1>12,
     <1>13, <1>14, <1>15, <1>16, <1>17, <1>18, <1>19, <1>20, <1>21, <1>22,
     <1>23, <1>24, <1>25, <1>26, <1>27, <1>28, <1>29, <1>30, <1>31, <1>32,
     <1>33
     DEF Next, ClientNext, WorkerNext, CleanerNext, DependentsNext

\* handle_job_failure, cleanup, cancel and requeue: a failed or stopped job is
\* in the FailedJobRegistry or is being requeued.
THEOREM FailuresAreAccounted == Spec => []FailureIsAccounted
<1>1. Init => Typed /\ RegistriesOK
  BY TypedInit DEF Init, RegistriesOK, FailureIsAccounted
<1>2. Typed /\ RegistriesOK /\ [Next]_vars => (Typed /\ RegistriesOK)'
  BY TypedNext, RegistriesNext
<1> QED
  BY <1>1, <1>2, PTL DEF Spec, RegistriesOK

-----------------------------------------------------------------------------
(* Who knows which jobs, and what the sets of deferred jobs hold.        *)

\* Where a client is in enqueue(), with a job that nobody else knows yet.
Calling == {"setup", "defer", "enqueue"}

\* The jobs that wait for nothing, or not any more: none of them is ever
\* deferred again.
Released == {j \in saved : status[j] # "deferred"}

\* What each actor, registry and queue may know of: jobs whose enqueue call has
\* returned, and, but for a call that cancels, none that is still deferred.
KnownOK ==
    /\ \A j \in Jobs \ saved : status[j] = "absent"
    /\ \A c \in Clients : pc[c] \in Calling =>
          job[c] \notin saved /\ DependsOn[job[c]] \subseteq saved
    /\ \A c, e \in Clients :
          pc[c] \in Calling /\ pc[e] \in Calling /\ job[c] = job[e] => c = e
    /\ \A p \in Actors : ready[p] \subseteq saved
    /\ \A c \in Clients : pc[c] = "cancel" => job[c] \in saved
    /\ \A p \in Actors : pc[p] \in Busy \ (Calling \cup {"cancel"}) => job[p] \in Released
    /\ \A j \in Jobs : queue[j] > 0 \/ toRetry[j] > 0 => j \in Released
    /\ failedReg \subseteq Released
    /\ \A e \in startedReg : e[1] \in Released
    /\ todo \subseteq Released /\ toFail \subseteq Released

\* The dependents sets mirror depends_on, and hold a deferred job as long as
\* the results it waits for are kept.
SetsOK ==
    /\ \A d \in Jobs : \A j \in dependents[d] :
          d \in DependsOn[j] /\ j \in saved
    /\ \A j \in Jobs : status[j] = "deferred" =>
          \A d \in DependsOn[j] :
             d \in saved /\ (ResultTTL[d] = "forever" => j \in dependents[d])

\* The DeferredJobRegistry is the deferred jobs, and a client that cancels one
\* of them has read that it was deferred.
DeferralsOK ==
    /\ deferredReg = {j \in Jobs : status[j] = "deferred"}
    /\ \A c \in Clients : pc[c] = "cancel" /\ status[job[c]] = "deferred" =>
          seen[c][1] = "deferred"

\* Nobody knows a job before its enqueue call has returned, and what works on a
\* job that is no longer deferred keeps it so.
LEMMA KnownNext ==
    ASSUME Typed, KnownOK, SetsOK, [Next]_vars
    PROVE  KnownOK'
<1> USE JobsAssumption, ActorsAssumption
        DEF Typed, TypeOK, RedisTypeOK, TxTypeOK, LocalsTypeOK, RoundTypeOK, EnvTypeOK,
           ActorsOK, Actors, Statuses, PCs, Busy, redis, tx, locals, round, env, KnownOK,
           SetsOK, Released, Calling
<1>1. ASSUME NEW c \in Clients, NEW j \in Jobs, EnqueueCall(c, j) PROVE KnownOK'
    BY <1>1 DEF EnqueueCall, TakeUp
<1>2. ASSUME NEW c \in Clients, FindUnfinished(c) PROVE KnownOK'
    BY <1>2 DEF FindUnfinished, Watch, Goto
<1>3. ASSUME NEW c \in Clients, FindNoneUnfinished(c) PROVE KnownOK'
    BY <1>3 DEF FindNoneUnfinished, Goto
<1>4. ASSUME NEW c \in Clients, Defer(c) PROVE KnownOK'
    BY <1>4 DEF Defer, Write, Goto, Leave, LeaveTo, NothingSeen, WithStatus
<1>5. ASSUME NEW c \in Clients, DeferAgain(c) PROVE KnownOK'
    BY <1>5 DEF DeferAgain, Unwatch, Goto
<1>6. ASSUME NEW c \in Clients, Enqueue(c) PROVE KnownOK'
    BY <1>6 DEF Enqueue, Write, Goto, Leave, LeaveTo, NothingSeen, WithStatus, Pushed
<1>7. ASSUME NEW c \in Clients, NEW j \in Jobs, Cancel(c, j) PROVE KnownOK'
    BY <1>7 DEF Cancel, Spend, TakeUp, Look, Ops
<1>8. ASSUME NEW c \in Clients, NEW forget \in BOOLEAN, ExecCancel(c, forget) PROVE KnownOK'
    BY <1>8 DEF ExecCancel, Write, Goto, Leave, LeaveTo, NothingSeen, WithStatus, DropFrom
<1>9. ASSUME NEW c \in Clients, NEW j \in Jobs, Requeue(c, j) PROVE KnownOK'
    BY <1>9 DEF Requeue, Spend, TakeUp, Interfere, Ops
<1>10. ASSUME NEW c \in Clients, ExecRequeue(c) PROVE KnownOK'
  <2>1. /\ pc[c] = "requeue" /\ saved' = saved
        /\ pc' = [pc EXCEPT ![c] = "idle"] /\ job' = [job EXCEPT ![c] = NoJob]
        /\ ready' = [ready EXCEPT ![c] = {}]
        /\ UNCHANGED <<startedReg, failedReg, todo, toRetry, toFail>>
      BY <1>10 DEF ExecRequeue, Leave, LeaveTo, Goto
  <2>2. /\ status' = WithStatus({job[c]}, "queued") /\ queue' = Pushed({job[c]})
        /\ job[c] \in Released
      BY <1>10 DEF ExecRequeue
  <2> QED
      BY <2>1, <2>2 DEF WithStatus, Pushed
<1>11. ASSUME NEW w \in Workers, NEW j \in Jobs, Dequeue(w, j) PROVE KnownOK'
    BY <1>11 DEF Dequeue, Goto
<1>12. ASSUME NEW w \in Workers, NEW j \in Jobs, DropId(w, j) PROVE KnownOK'
    BY <1>12 DEF DropId
<1>13. ASSUME NEW w \in Workers, PrepareExecution(w) PROVE KnownOK'
    BY <1>13 DEF PrepareExecution, Goto
<1>14. ASSUME NEW w \in Workers, Start(w) PROVE KnownOK'
    BY <1>14 DEF Start, Write, Goto, WithStatus
<1>15. ASSUME NEW w \in Workers, Heartbeat(w) PROVE KnownOK'
    BY <1>15 DEF Heartbeat, Interfere
<1>16. ASSUME NEW w \in Workers, ReadSuccess(w) PROVE KnownOK'
    BY <1>16 DEF ReadSuccess, Watch, Goto, Look, JobsToEnqueue, WatchedDependents
<1>17. ASSUME NEW w \in Workers, ExecSuccess(w) PROVE KnownOK'
  <2>1. /\ pc[w] = "success" /\ job[w] \in Released /\ UNCHANGED <<saved, todo, toRetry, toFail>>
        /\ status' = [WithStatus(ready[w], "queued") EXCEPT
                         ![job[w]] = AfterSuccess(job[w], left[w])]
        /\ queue' = Pushed(ready[w] \cup (IF left[w] > 0 THEN {job[w]} ELSE {}))
        /\ failedReg' \subseteq failedReg /\ startedReg' \subseteq startedReg
      BY <1>17 DEF ExecSuccess, DropFrom
  <2>2. /\ pc' = [pc EXCEPT ![w] = "idle"]
        /\ job' = [job EXCEPT ![w] = NoJob]
        /\ ready' = [ready EXCEPT ![w] = {}]
      BY <1>17 DEF ExecSuccess, Leave, LeaveTo, Goto
  <2>3. ready[w] \subseteq saved
      OBVIOUS
  <2>4. \A j \in Jobs : /\ j \notin saved => status'[j] = "absent"
                        /\ status'[j] = "deferred" => status[j] = "deferred"
                        /\ queue'[j] > 0 => queue[j] > 0 \/ j \in ready[w] \/ j = job[w]
                        /\ j \in ready[w] \cup {job[w]} => status'[j] # "deferred"
      BY <2>1, <2>3 DEF WithStatus, AfterSuccess, Pushed
  <2>5. Released \cup ready[w] \subseteq Released'
      BY <2>1, <2>3, <2>4
  <2>6. \A p \in Actors : p # w => pc'[p] = pc[p] /\ job'[p] = job[p]
      BY <2>2
  <2>7. pc'[w] = "idle" /\ \A p \in Actors : ready'[p] \subseteq ready[p]
      BY <2>2
  <2>8. /\ \A j \in Jobs : queue[j] > 0 \/ toRetry[j] > 0 => j \in Released
        /\ failedReg \cup todo \cup toFail \subseteq Released
        /\ \A e \in startedReg : e[1] \in Released
        /\ \A p \in Actors : ready[p] \subseteq saved
      OBVIOUS
  <2> HIDE DEF Typed, Released
  <2>9. /\ \A j \in Jobs : queue'[j] > 0 \/ toRetry'[j] > 0 => j \in Released'
        /\ failedReg' \subseteq Released' /\ todo' \subseteq Released'
        /\ toFail' \subseteq Released' /\ \A e \in startedReg' : e[1] \in Released'
    <3>1. \A j \in Jobs : queue'[j] > 0 => j \in Released'
        BY ONLY <2>1, <2>4, <2>5, <2>8
    <3>2. \A j \in Jobs : toRetry'[j] > 0 => j \in Released'
        BY <2>1, <2>5, <2>8
    <3>3. failedReg' \subseteq Released' /\ todo' \subseteq Released' /\ toFail' \subseteq Released'
        BY <2>1, <2>5, <2>8
    <3>4. \A e \in startedReg' : e[1] \in Released'
        BY <2>1, <2>5, <2>8
    <3> QED
        BY <3>1, <3>2, <3>3, <3>4
  <2>10. \A p \in Actors : pc'[p] \in Busy \ (Calling \cup {"cancel"}) => job'[p] \in Released'
      BY <2>5, <2>6, <2>7
  <2>11. \A p \in Actors : ready'[p] \subseteq saved'
      BY <2>1, <2>7, <2>8
  <2>12. \A c \in Clients : pc'[c] = pc[c] /\ job'[c] = job[c]
      BY <2>6
  <2>13. /\ \A j \in Jobs \ saved' : status'[j] = "absent"
         /\ \A e \in Clients : pc'[e] = "cancel" => job'[e] \in saved'
         /\ \A e \in Clients : pc'[e] \in Calling =>
               job'[e] \notin saved' /\ DependsOn[job'[e]] \subseteq saved'
         /\ \A d, e \in Clients :
               pc'[d] \in Calling /\ pc'[e] \in Calling /\ job'[d] = job'[e] => d = e
      BY <2>1, <2>4, <2>12
  <2> QED
      BY ONLY <2>9, <2>10, <2>11, <2>13 DEF KnownOK
<1>18. ASSUME NEW w \in Workers, SuccessAgain(w) PROVE KnownOK'
    BY <1>18 DEF SuccessAgain, Unwatch, Goto, NothingSeen, Less
<1>19. ASSUME NEW w \in Workers, RetryJob(w) PROVE KnownOK'
    BY <1>19 DEF RetryJob, Spend, Write, Goto, Leave, LeaveTo, NothingSeen, WithStatus, Pushed,
       Ops
<1>20. ASSUME NEW w \in Workers, FailJob(w) PROVE KnownOK'
    BY <1>20 DEF FailJob, Spend, Write, Goto, WithStatus, TouchedSets, Ops
<1>21. ASSUME NEW w \in Workers, StopJob(w) PROVE KnownOK'
    BY <1>21 DEF StopJob, Spend, Write, Goto, NothingSeen, WithStatus, TouchedSets, Ops
<1>22. ASSUME NEW w \in Workers, Crash(w) PROVE KnownOK'
    BY <1>22 DEF Crash, Spend, Unwatch, Goto, LeaveTo, NothingSeen, Ops
<1>23. ASSUME NEW a \in Workers \cup {Cleaner}, ReadDependents(a) PROVE KnownOK'
    BY <1>23 DEF ReadDependents, Watch, Goto, Found, JobsToEnqueue, WatchedDependents
<1>24. ASSUME NEW a \in Workers \cup {Cleaner}, NoDependents(a) PROVE KnownOK'
  <2>1. /\ a \in Actors /\ a \notin Clients
        /\ pc' \in [Actors -> PCs]
        /\ pc'[a] \in {"idle", "cleaning"}
        /\ ready'[a] = {}
        /\ \A p \in Actors \ {a} : /\ pc'[p] = pc[p] /\ job'[p] = job[p]
                                   /\ ready'[p] = ready[p]
      BY <1>24, ResumeFacts DEF NoDependents
  <2>2. UNCHANGED <<status, queue, failedReg, startedReg, todo, toRetry, toFail, saved>>
      BY <1>24 DEF NoDependents
  <2> HIDE DEF Typed
  <2> QED
      BY <2>1, <2>2
<1>25. ASSUME NEW a \in Workers \cup {Cleaner}, ExecDependents(a) PROVE KnownOK'
  <2>1. /\ a \in Actors /\ a \notin Clients
        /\ pc' \in [Actors -> PCs]
        /\ pc'[a] \in {"idle", "cleaning"}
        /\ ready'[a] = {}
        /\ \A p \in Actors \ {a} : /\ pc'[p] = pc[p] /\ job'[p] = job[p]
                                   /\ ready'[p] = ready[p]
      BY <1>25, ResumeFacts DEF ExecDependents
  <2>2. UNCHANGED <<failedReg, startedReg, todo, toRetry, toFail, saved>>
      BY <1>25 DEF ExecDependents
  <2>3. /\ status' = WithStatus(ready[a], "queued") /\ queue' = Pushed(ready[a])
        /\ ready[a] \subseteq saved
      BY <1>25 DEF ExecDependents
  <2>4. \A j \in Jobs : /\ j \notin saved => status'[j] = "absent"
                        /\ status'[j] = "deferred" => status[j] = "deferred"
                        /\ queue'[j] > 0 => queue[j] > 0 \/ j \in ready[a]
                        /\ j \in ready[a] => status'[j] # "deferred"
      BY <2>3 DEF WithStatus, Pushed
  <2>5. Released \cup ready[a] \subseteq Released'
      BY <2>2, <2>3, <2>4
  <2> HIDE DEF Typed, Released
  <2> QED
      BY <2>1, <2>2, <2>4, <2>5
<1>26. ASSUME NEW a \in Workers \cup {Cleaner}, DependentsAgain(a) PROVE KnownOK'
    BY <1>26 DEF DependentsAgain, Unwatch, Goto
<1>27. ASSUME StartCleanup PROVE KnownOK'
    BY <1>27 DEF StartCleanup, Expired, Goto
<1>28. ASSUME NEW j \in Jobs, SkipJob(j) PROVE KnownOK'
    BY <1>28 DEF SkipJob
<1>29. ASSUME NEW j \in Jobs, CleanupRetry(j) PROVE KnownOK'
    BY <1>29 DEF CleanupRetry
<1>30. ASSUME NEW j \in Jobs, CleanupFail(j) PROVE KnownOK'
    BY <1>30 DEF CleanupFail, Goto
<1>31. ASSUME EndCleanup PROVE KnownOK'
    BY <1>31 DEF EndCleanup, Write, Goto, Leave, LeaveTo, NothingSeen, Pushed, TouchedSets, Less
<1>32. ASSUME NEW j \in Jobs, Expire(j) PROVE KnownOK'
    BY <1>32 DEF Expire, WithStatus
<1>33. ASSUME UNCHANGED vars PROVE KnownOK'
    BY <1>33 DEF vars
<1> HIDE DEF Typed, TypeOK, RedisTypeOK, TxTypeOK, LocalsTypeOK, RoundTypeOK, EnvTypeOK,
   ActorsOK, Actors, Statuses, PCs, Busy, redis, tx, locals, round, env, KnownOK, SetsOK,
   Released, Calling
<1> QED
    BY <1>1, <1>2, <1>3, <1>4, <1>5, <1>6, <1>7, <1>8, <1>9, <1>10, <1>11, <1>12, <1>13, <1>14,
       <1>15, <1>16, <1>17, <1>18, <1>19, <1>20, <1>21, <1>22, <1>23, <1>24, <1>25, <1>26,
       <1>27, <1>28, <1>29, <1>30, <1>31, <1>32, <1>33
       DEF Next, ClientNext, WorkerNext, CleanerNext, DependentsNext

\* The dependents sets keep their meaning.
LEMMA SetsNext ==
    ASSUME Typed, KnownOK, SetsOK, [Next]_vars
    PROVE  SetsOK'
<1> USE JobsAssumption, ActorsAssumption
        DEF Typed, TypeOK, RedisTypeOK, TxTypeOK, LocalsTypeOK, RoundTypeOK, EnvTypeOK,
           ActorsOK, Actors, Statuses, PCs, Busy, redis, tx, locals, round, env, KnownOK,
           SetsOK, Released, Calling
<1>1. ASSUME NEW c \in Clients, NEW j \in Jobs, EnqueueCall(c, j) PROVE SetsOK'
    BY <1>1 DEF EnqueueCall, TakeUp
<1>2. ASSUME NEW c \in Clients, FindUnfinished(c) PROVE SetsOK'
    BY <1>2 DEF FindUnfinished, Watch, Goto
<1>3. ASSUME NEW c \in Clients, FindNoneUnfinished(c) PROVE SetsOK'
    BY <1>3 DEF FindNoneUnfinished, Goto
<1>4. ASSUME NEW c \in Clients, Defer(c) PROVE SetsOK'
    BY <1>4 DEF Defer, Write, Goto, Leave, LeaveTo, NothingSeen, WithStatus
<1>5. ASSUME NEW c \in Clients, DeferAgain(c) PROVE SetsOK'
    BY <1>5 DEF DeferAgain, Unwatch, Goto
<1>6. ASSUME NEW c \in Clients, Enqueue(c) PROVE SetsOK'
    BY <1>6 DEF Enqueue, Write, Goto, Leave, LeaveTo, NothingSeen, WithStatus, Pushed
<1>7. ASSUME NEW c \in Clients, NEW j \in Jobs, Cancel(c, j) PROVE SetsOK'
    BY <1>7 DEF Cancel, Spend, TakeUp, Look, Ops
<1>8. ASSUME NEW c \in Clients, NEW forget \in BOOLEAN, ExecCancel(c, forget) PROVE SetsOK'
    BY <1>8 DEF ExecCancel, Write, Goto, Leave, LeaveTo, NothingSeen, WithStatus, DropFrom
<1>9. ASSUME NEW c \in Clients, NEW j \in Jobs, Requeue(c, j) PROVE SetsOK'
    BY <1>9 DEF Requeue, Spend, TakeUp, Interfere, Ops
<1>10. ASSUME NEW c \in Clients, ExecRequeue(c) PROVE SetsOK'
    BY <1>10 DEF ExecRequeue, Write, Goto, Leave, LeaveTo, NothingSeen, WithStatus, Pushed
<1>11. ASSUME NEW w \in Workers, NEW j \in Jobs, Dequeue(w, j) PROVE SetsOK'
    BY <1>11 DEF Dequeue, Goto
<1>12. ASSUME NEW w \in Workers, NEW j \in Jobs, DropId(w, j) PROVE SetsOK'
    BY <1>12 DEF DropId
<1>13. ASSUME NEW w \in Workers, PrepareExecution(w) PROVE SetsOK'
    BY <1>13 DEF PrepareExecution, Goto
<1>14. ASSUME NEW w \in Workers, Start(w) PROVE SetsOK'
    BY <1>14 DEF Start, Write, Goto, WithStatus
<1>15. ASSUME NEW w \in Workers, Heartbeat(w) PROVE SetsOK'
    BY <1>15 DEF Heartbeat, Interfere
<1>16. ASSUME NEW w \in Workers, ReadSuccess(w) PROVE SetsOK'
    BY <1>16 DEF ReadSuccess, Watch, Goto, Look, JobsToEnqueue, WatchedDependents
<1>17. ASSUME NEW w \in Workers, ExecSuccess(w) PROVE SetsOK'
    BY <1>17 DEF ExecSuccess, Write, Goto, Leave, LeaveTo, NothingSeen, WithStatus, Pushed,
       AfterSuccess, SuccessKeys, TouchedSets, DropFrom, Deletes, Less
<1>18. ASSUME NEW w \in Workers, SuccessAgain(w) PROVE SetsOK'
    BY <1>18 DEF SuccessAgain, Unwatch, Goto, NothingSeen, Less
<1>19. ASSUME NEW w \in Workers, RetryJob(w) PROVE SetsOK'
    BY <1>19 DEF RetryJob, Spend, Write, Goto, Leave, LeaveTo, NothingSeen, WithStatus, Pushed,
       Ops
<1>20. ASSUME NEW w \in Workers, FailJob(w) PROVE SetsOK'
    BY <1>20 DEF FailJob, Spend, Write, Goto, WithStatus, TouchedSets, Ops
<1>21. ASSUME NEW w \in Workers, StopJob(w) PROVE SetsOK'
    BY <1>21 DEF StopJob, Spend, Write, Goto, NothingSeen, WithStatus, TouchedSets, Ops
<1>22. ASSUME NEW w \in Workers, Crash(w) PROVE SetsOK'
    BY <1>22 DEF Crash, Spend, Unwatch, Goto, LeaveTo, NothingSeen, Ops
<1>23. ASSUME NEW a \in Workers \cup {Cleaner}, ReadDependents(a) PROVE SetsOK'
    BY <1>23 DEF ReadDependents, Watch, Goto, Found, JobsToEnqueue, WatchedDependents
<1>24. ASSUME NEW a \in Workers \cup {Cleaner}, NoDependents(a) PROVE SetsOK'
    BY <1>24 DEF NoDependents, Goto, Resume, Leave, LeaveTo, NothingSeen
<1>25. ASSUME NEW a \in Workers \cup {Cleaner}, ExecDependents(a) PROVE SetsOK'
    BY <1>25 DEF ExecDependents, Write, Goto, Resume, Leave, LeaveTo, NothingSeen, WithStatus,
       Pushed
<1>26. ASSUME NEW a \in Workers \cup {Cleaner}, DependentsAgain(a) PROVE SetsOK'
    BY <1>26 DEF DependentsAgain, Unwatch, Goto
<1>27. ASSUME StartCleanup PROVE SetsOK'
    BY <1>27 DEF StartCleanup, Expired, Goto
<1>28. ASSUME NEW j \in Jobs, SkipJob(j) PROVE SetsOK'
    BY <1>28 DEF SkipJob
<1>29. ASSUME NEW j \in Jobs, CleanupRetry(j) PROVE SetsOK'
    BY <1>29 DEF CleanupRetry
<1>30. ASSUME NEW j \in Jobs, CleanupFail(j) PROVE SetsOK'
    BY <1>30 DEF CleanupFail, Goto
<1>31. ASSUME EndCleanup PROVE SetsOK'
    BY <1>31 DEF EndCleanup, Write, Goto, Leave, LeaveTo, NothingSeen, Pushed, TouchedSets, Less
<1>32. ASSUME NEW j \in Jobs, Expire(j) PROVE SetsOK'
    BY <1>32 DEF Expire, WithStatus
<1>33. ASSUME UNCHANGED vars PROVE SetsOK'
    BY <1>33 DEF vars
<1> HIDE DEF Typed, TypeOK, RedisTypeOK, TxTypeOK, LocalsTypeOK, RoundTypeOK, EnvTypeOK,
   ActorsOK, Actors, Statuses, PCs, Busy, redis, tx, locals, round, env, KnownOK, SetsOK,
   Released, Calling
<1> QED
    BY <1>1, <1>2, <1>3, <1>4, <1>5, <1>6, <1>7, <1>8, <1>9, <1>10, <1>11, <1>12, <1>13, <1>14,
       <1>15, <1>16, <1>17, <1>18, <1>19, <1>20, <1>21, <1>22, <1>23, <1>24, <1>25, <1>26,
       <1>27, <1>28, <1>29, <1>30, <1>31, <1>32, <1>33
       DEF Next, ClientNext, WorkerNext, CleanerNext, DependentsNext

\* The DeferredJobRegistry holds the deferred jobs.
LEMMA DeferralsNext ==
    ASSUME Typed, KnownOK, DeferralsOK, [Next]_vars
    PROVE  DeferralsOK'
<1> USE JobsAssumption, ActorsAssumption
        DEF Typed, TypeOK, RedisTypeOK, TxTypeOK, LocalsTypeOK, RoundTypeOK, EnvTypeOK,
           ActorsOK, Actors, Statuses, PCs, Busy, redis, tx, locals, round, env, KnownOK,
           DeferralsOK, Released, Calling
<1>1. ASSUME NEW c \in Clients, NEW j \in Jobs, EnqueueCall(c, j) PROVE DeferralsOK'
    BY <1>1 DEF EnqueueCall, TakeUp
<1>2. ASSUME NEW c \in Clients, FindUnfinished(c) PROVE DeferralsOK'
    BY <1>2 DEF FindUnfinished, Watch, Goto
<1>3. ASSUME NEW c \in Clients, FindNoneUnfinished(c) PROVE DeferralsOK'
    BY <1>3 DEF FindNoneUnfinished, Goto
<1>4. ASSUME NEW c \in Clients, Defer(c) PROVE DeferralsOK'
    BY <1>4 DEF Defer, Write, Goto, Leave, LeaveTo, NothingSeen, WithStatus
<1>5. ASSUME NEW c \in Clients, DeferAgain(c) PROVE DeferralsOK'
    BY <1>5 DEF DeferAgain, Unwatch, Goto
<1>6. ASSUME NEW c \in Clients, Enqueue(c) PROVE DeferralsOK'
    BY <1>6 DEF Enqueue, Write, Goto, Leave, LeaveTo, NothingSeen, WithStatus, Pushed
<1>7. ASSUME NEW c \in Clients, NEW j \in Jobs, Cancel(c, j) PROVE DeferralsOK'
    BY <1>7 DEF Cancel, Spend, TakeUp, Look, Ops
<1>8. ASSUME NEW c \in Clients, NEW forget \in BOOLEAN, ExecCancel(c, forget) PROVE DeferralsOK'
    BY <1>8 DEF ExecCancel, Write, Goto, Leave, LeaveTo, NothingSeen, WithStatus, DropFrom
<1>9. ASSUME NEW c \in Clients, NEW j \in Jobs, Requeue(c, j) PROVE DeferralsOK'
    BY <1>9 DEF Requeue, Spend, TakeUp, Interfere, Ops
<1>10. ASSUME NEW c \in Clients, ExecRequeue(c) PROVE DeferralsOK'
  <2>1. job[c] \in Released /\ status' = WithStatus({job[c]}, "queued")
        /\ deferredReg' = deferredReg
      BY <1>10 DEF ExecRequeue
  <2>2. \A e \in Clients : pc'[e] = "cancel" =>
           pc[e] = "cancel" /\ job'[e] = job[e] /\ seen'[e] = seen[e]
      BY <1>10 DEF ExecRequeue, Leave, LeaveTo, Goto
  <2>3. \A j \in Jobs : status'[j] = "deferred" <=> status[j] = "deferred"
      BY <2>1 DEF WithStatus
  <2>4. \A e \in Clients : pc[e] = "cancel" => job[e] \in Jobs
      OBVIOUS
  <2>5. deferredReg' = {j \in Jobs : status'[j] = "deferred"}
      BY <2>1, <2>3
  <2>6. \A e \in Clients :
           pc[e] = "cancel" /\ status[job[e]] = "deferred" => seen[e][1] = "deferred"
      OBVIOUS
  <2> QED
      BY ONLY <2>2, <2>3, <2>4, <2>5, <2>6 DEF DeferralsOK
<1>11. ASSUME NEW w \in Workers, NEW j \in Jobs, Dequeue(w, j) PROVE DeferralsOK'
    BY <1>11 DEF Dequeue, Goto
<1>12. ASSUME NEW w \in Workers, NEW j \in Jobs, DropId(w, j) PROVE DeferralsOK'
    BY <1>12 DEF DropId
<1>13. ASSUME NEW w \in Workers, PrepareExecution(w) PROVE DeferralsOK'
    BY <1>13 DEF PrepareExecution, Goto
<1>14. ASSUME NEW w \in Workers, Start(w) PROVE DeferralsOK'
    BY <1>14 DEF Start, Write, Goto, WithStatus
<1>15. ASSUME NEW w \in Workers, Heartbeat(w) PROVE DeferralsOK'
    BY <1>15 DEF Heartbeat, Interfere
<1>16. ASSUME NEW w \in Workers, ReadSuccess(w) PROVE DeferralsOK'
    BY <1>16 DEF ReadSuccess, Watch, Goto, Look, JobsToEnqueue, WatchedDependents
<1>17. ASSUME NEW w \in Workers, ExecSuccess(w) PROVE DeferralsOK'
    BY <1>17 DEF ExecSuccess, Write, Goto, Leave, LeaveTo, NothingSeen, WithStatus, Pushed,
       AfterSuccess, SuccessKeys, TouchedSets, DropFrom, Deletes, Less
<1>18. ASSUME NEW w \in Workers, SuccessAgain(w) PROVE DeferralsOK'
    BY <1>18 DEF SuccessAgain, Unwatch, Goto, NothingSeen, Less
<1>19. ASSUME NEW w \in Workers, RetryJob(w) PROVE DeferralsOK'
    BY <1>19 DEF RetryJob, Spend, Write, Goto, Leave, LeaveTo, NothingSeen, WithStatus, Pushed,
       Ops
<1>20. ASSUME NEW w \in Workers, FailJob(w) PROVE DeferralsOK'
    BY <1>20 DEF FailJob, Spend, Write, Goto, WithStatus, TouchedSets, Ops
<1>21. ASSUME NEW w \in Workers, StopJob(w) PROVE DeferralsOK'
    BY <1>21 DEF StopJob, Spend, Write, Goto, NothingSeen, WithStatus, TouchedSets, Ops
<1>22. ASSUME NEW w \in Workers, Crash(w) PROVE DeferralsOK'
    BY <1>22 DEF Crash, Spend, Unwatch, Goto, LeaveTo, NothingSeen, Ops
<1>23. ASSUME NEW a \in Workers \cup {Cleaner}, ReadDependents(a) PROVE DeferralsOK'
    BY <1>23 DEF ReadDependents, Watch, Goto, Found, JobsToEnqueue, WatchedDependents
<1>24. ASSUME NEW a \in Workers \cup {Cleaner}, NoDependents(a) PROVE DeferralsOK'
    BY <1>24 DEF NoDependents, Goto, Resume, Leave, LeaveTo, NothingSeen
<1>25. ASSUME NEW a \in Workers \cup {Cleaner}, ExecDependents(a) PROVE DeferralsOK'
  <2>1. /\ status' = WithStatus(ready[a], "queued") /\ deferredReg' = deferredReg \ ready[a]
      BY <1>25 DEF ExecDependents
  <2>2. \A e \in Clients : pc'[e] = pc[e] /\ job'[e] = job[e] /\ seen'[e] = seen[e]
      BY <1>25 DEF ExecDependents, Resume, Leave, LeaveTo, Goto
  <2>3. \A j \in Jobs : status'[j] = "deferred" <=> status[j] = "deferred" /\ j \notin ready[a]
      BY <2>1 DEF WithStatus
  <2>4. \A e \in Clients : pc[e] = "cancel" => job[e] \in Jobs
      OBVIOUS
  <2> QED
      BY <2>1, <2>2, <2>3, <2>4
<1>26. ASSUME NEW a \in Workers \cup {Cleaner}, DependentsAgain(a) PROVE DeferralsOK'
    BY <1>26 DEF DependentsAgain, Unwatch, Goto
<1>27. ASSUME StartCleanup PROVE DeferralsOK'
    BY <1>27 DEF StartCleanup, Expired, Goto
<1>28. ASSUME NEW j \in Jobs, SkipJob(j) PROVE DeferralsOK'
    BY <1>28 DEF SkipJob
<1>29. ASSUME NEW j \in Jobs, CleanupRetry(j) PROVE DeferralsOK'
    BY <1>29 DEF CleanupRetry
<1>30. ASSUME NEW j \in Jobs, CleanupFail(j) PROVE DeferralsOK'
    BY <1>30 DEF CleanupFail, Goto
<1>31. ASSUME EndCleanup PROVE DeferralsOK'
    BY <1>31 DEF EndCleanup, Write, Goto, Leave, LeaveTo, NothingSeen, Pushed, TouchedSets, Less
<1>32. ASSUME NEW j \in Jobs, Expire(j) PROVE DeferralsOK'
    BY <1>32 DEF Expire, WithStatus
<1>33. ASSUME UNCHANGED vars PROVE DeferralsOK'
    BY <1>33 DEF vars
<1> HIDE DEF Typed, TypeOK, RedisTypeOK, TxTypeOK, LocalsTypeOK, RoundTypeOK, EnvTypeOK,
   ActorsOK, Actors, Statuses, PCs, Busy, redis, tx, locals, round, env, KnownOK, DeferralsOK,
   Released, Calling
<1> QED
    BY <1>1, <1>2, <1>3, <1>4, <1>5, <1>6, <1>7, <1>8, <1>9, <1>10, <1>11, <1>12, <1>13, <1>14,
       <1>15, <1>16, <1>17, <1>18, <1>19, <1>20, <1>21, <1>22, <1>23, <1>24, <1>25, <1>26,
       <1>27, <1>28, <1>29, <1>30, <1>31, <1>32, <1>33
       DEF Next, ClientNext, WorkerNext, CleanerNext, DependentsNext

\* At the start.
LEMMA KnownInit == Init => KnownOK /\ SetsOK /\ DeferralsOK
<1> SUFFICES ASSUME Init PROVE KnownOK /\ SetsOK /\ DeferralsOK
    OBVIOUS
<1>1. KnownOK
    BY ActorsAssumption DEF Init, KnownOK, Calling, Busy, Actors
<1>2. SetsOK /\ DeferralsOK
    BY ActorsAssumption DEF Init, SetsOK, DeferralsOK, Actors
<1> QED
    BY <1>1, <1>2

-----------------------------------------------------------------------------
(* What a step may change, and the guarantee of WATCH.                   *)

\* d was given up, or is being brought back by a requeue.
Spoiled(d) == d \in canceledReg \cup failedReg \/ Requeuing(d)

\* Which steps bring actor b to its EXEC, and which end or defer job d.
Causes(b, d) ==
    /\ pc'[b] = "defer" => pc[b] = "defer" \/ FindUnfinished(b)
    /\ pc'[b] = "success" => pc[b] = "success" \/ ReadSuccess(b)
    /\ status'[d] = "deferred" =>
          status[d] = "deferred" \/ \E c \in Clients : Defer(c) /\ job[c] = d
    /\ Done(d)' => Done(d) \/ \E w \in Workers : ExecSuccess(w) /\ job[w] = d
    /\ ResultTTL[d] # "zero" /\ Spoiled(d) => Spoiled(d)' \/ ~Done(d)'

\* Nothing b's connection watches has changed, but by an expiry, nor what b knows.
Undisturbed(b) ==
    /\ ~dirty[b]
    /\ watch'[b] = watch[b] /\ job'[b] = job[b] /\ ready'[b] = ready[b]
    /\ \A d \in Jobs : JobKey(d) \in watch[b] => status'[d] = status[d] \/ Expire(d)
    /\ \A d \in Jobs : DependentsKey(d) \in watch[b] =>
                            dependents'[d] = dependents[d] \/ Expire(d)

\* The guarantee of WATCH: an EXEC that can still succeed is undisturbed.
Stable(b) ==
    pc[b] \in {"defer", "success"} /\ pc'[b] = pc[b] /\ ~dirty'[b] =>
        Undisturbed(b)

\* Which steps bring an actor to its EXEC, and end or defer a job.
LEMMA StepCauses ==
  ASSUME Typed, [Next]_vars,
         NEW b \in Actors, NEW d \in Jobs
  PROVE  Causes(b, d)
<1> USE JobsAssumption, ActorsAssumption
        DEF Typed, TypeOK, RedisTypeOK, TxTypeOK, LocalsTypeOK, RoundTypeOK,
            EnvTypeOK, ActorsOK, Actors, Statuses, PCs, Busy, redis, tx, locals,
            round, env
<1>1. ASSUME NEW c \in Clients, NEW j \in Jobs, EnqueueCall(c, j)
      PROVE  Causes(b, d)
  BY <1>1 DEF EnqueueCall, TakeUp, Causes, Done, Spoiled, Requeuing
<1>2. ASSUME NEW c \in Clients, FindUnfinished(c) PROVE Causes(b, d)
  BY <1>2 DEF FindUnfinished, Watch, Goto, Causes, Done, Spoiled, Requeuing
<1>3. ASSUME NEW c \in Clients, FindNoneUnfinished(c) PROVE Causes(b, d)
  BY <1>3 DEF FindNoneUnfinished, Goto, Causes, Done, Spoiled, Requeuing
<1>4. ASSUME NEW c \in Clients, Defer(c) PROVE Causes(b, d)
  BY <1>4 DEF Defer, Write, Goto, Leave, LeaveTo, NothingSeen, WithStatus,
     Causes, Done, Spoiled, Requeuing
<1>5. ASSUME NEW c \in Clients, DeferAgain(c) PROVE Causes(b, d)
  BY <1>5 DEF DeferAgain, Unwatch, Goto, Causes, Done, Spoiled, Requeuing
<1>6. ASSUME NEW c \in Clients, Enqueue(c) PROVE Causes(b, d)
  BY <1>6 DEF Enqueue, Write, Goto, Leave, LeaveTo, NothingSeen, WithStatus,
     Pushed, Causes, Done, Spoiled, Requeuing
<1>7. ASSUME NEW c \in Clients, NEW j \in Jobs, Cancel(c, j) PROVE Causes(b, d)
  BY <1>7 DEF Cancel, Spend, TakeUp, Look, Ops, Causes, Done, Spoiled,
     Requeuing
<1>8. ASSUME NEW c \in Clients, NEW forget \in BOOLEAN, ExecCancel(c, forget)
      PROVE  Causes(b, d)
  BY <1>8 DEF ExecCancel, Write, Goto, Leave, LeaveTo, NothingSeen, WithStatus,
     DropFrom, Causes, Done, Spoiled, Requeuing
<1>9. ASSUME NEW c \in Clients, NEW j \in Jobs, Requeue(c, j)
      PROVE  Causes(b, d)
  BY <1>9 DEF Requeue, Spend, TakeUp, Interfere, Ops, Causes, Done, Spoiled,
     Requeuing
<1>10. ASSUME NEW c \in Clients, ExecRequeue(c) PROVE Causes(b, d)
  BY <1>10 DEF ExecRequeue, Write, Goto, Leave, LeaveTo, NothingSeen,
     WithStatus, Pushed, Causes, Done, Spoiled, Requeuing
<1>11. ASSUME NEW w \in Workers, NEW j \in Jobs, Dequeue(w, j)
      PROVE  Causes(b, d)
  BY <1>11 DEF Dequeue, Goto, Causes, Done, Spoiled, Requeuing
<1>12. ASSUME NEW w \in Workers, NEW j \in Jobs, DropId(w, j)
      PROVE  Causes(b, d)
  BY <1>12 DEF DropId, Causes, Done, Spoiled, Requeuing
<1>13. ASSUME NEW w \in Workers, PrepareExecution(w) PROVE Causes(b, d)
  BY <1>13 DEF PrepareExecution, Goto, Causes, Done, Spoiled, Requeuing
<1>14. ASSUME NEW w \in Workers, Start(w) PROVE Causes(b, d)
  BY <1>14 DEF Start, Write, Goto, WithStatus, Causes, Done, Spoiled, Requeuing
<1>15. ASSUME NEW w \in Workers, Heartbeat(w) PROVE Causes(b, d)
  BY <1>15 DEF Heartbeat, Interfere, Causes, Done, Spoiled, Requeuing
<1>16. ASSUME NEW w \in Workers, ReadSuccess(w) PROVE Causes(b, d)
  <2>1. /\ pc' = [pc EXCEPT ![w] = "success"]
        /\ UNCHANGED <<status, failedReg, canceledReg, job>>
    BY <1>16 DEF ReadSuccess, Goto
  <2> HIDE DEF Typed
  <2>2. pc \in [Actors -> PCs] /\ w \in Actors /\ w \notin Clients
    BY DEF Typed
  <2> QED BY <1>16, <2>1, <2>2 DEF Causes, Done, Spoiled, Requeuing
<1>17. ASSUME NEW w \in Workers, ExecSuccess(w) PROVE Causes(b, d)
  BY <1>17 DEF ExecSuccess, Write, Goto, Leave, LeaveTo, NothingSeen,
     WithStatus, Pushed, AfterSuccess, SuccessKeys, TouchedSets, DropFrom,
     Deletes, Less, Causes, Done, Spoiled, Requeuing
<1>18. ASSUME NEW w \in Workers, SuccessAgain(w) PROVE Causes(b, d)
  BY <1>18 DEF SuccessAgain, Unwatch, Goto, NothingSeen, Less, Causes, Done,
     Spoiled, Requeuing
<1>19. ASSUME NEW w \in Workers, RetryJob(w) PROVE Causes(b, d)
  BY <1>19 DEF RetryJob, Spend, Write, Goto, Leave, LeaveTo, NothingSeen,
     WithStatus, Pushed, Ops, Causes, Done, Spoiled, Requeuing
<1>20. ASSUME NEW w \in Workers, FailJob(w) PROVE Causes(b, d)
  BY <1>20 DEF FailJob, Spend, Write, Goto, WithStatus, TouchedSets, Ops,
     Causes, Done, Spoiled, Requeuing
<1>21. ASSUME NEW w \in Workers, StopJob(w) PROVE Causes(b, d)
  BY <1>21 DEF StopJob, Spend, Write, Goto, NothingSeen, WithStatus,
     TouchedSets, Ops, Causes, Done, Spoiled, Requeuing
<1>22. ASSUME NEW w \in Workers, Crash(w) PROVE Causes(b, d)
  BY <1>22 DEF Crash, Spend, Unwatch, Goto, LeaveTo, NothingSeen, Ops, Causes,
     Done, Spoiled, Requeuing
<1>23. ASSUME NEW a \in Workers \cup {Cleaner}, ReadDependents(a)
      PROVE  Causes(b, d)
  BY <1>23 DEF ReadDependents, Watch, Goto, Found, JobsToEnqueue,
     WatchedDependents, Causes, Done, Spoiled, Requeuing
<1>24. ASSUME NEW a \in Workers \cup {Cleaner}, NoDependents(a)
      PROVE  Causes(b, d)
  <2>1. /\ a \in Actors /\ a \notin Clients
        /\ pc'[a] \in {"idle", "cleaning"}
        /\ \A p \in Actors \ {a} : pc'[p] = pc[p] /\ job'[p] = job[p]
    BY <1>24, ResumeFacts DEF NoDependents
  <2>2. UNCHANGED <<failedReg, canceledReg>> /\ status'[d] = status[d]
    BY <1>24 DEF NoDependents
  <2> HIDE DEF Typed
  <2> QED BY <2>1, <2>2 DEF Causes, Done, Spoiled, Requeuing
<1>25. ASSUME NEW a \in Workers \cup {Cleaner}, ExecDependents(a)
      PROVE  Causes(b, d)
  <2>1. /\ a \in Actors /\ a \notin Clients
        /\ pc'[a] \in {"idle", "cleaning"}
        /\ \A p \in Actors \ {a} : pc'[p] = pc[p] /\ job'[p] = job[p]
    BY <1>25, ResumeFacts DEF ExecDependents
  <2>2. /\ UNCHANGED <<failedReg, canceledReg>>
        /\ status'[d] \in {status[d], "queued"}
    BY <1>25 DEF ExecDependents, WithStatus
  <2> HIDE DEF Typed
  <2> QED BY <2>1, <2>2 DEF Causes, Done, Spoiled, Requeuing
<1>26. ASSUME NEW a \in Workers \cup {Cleaner}, DependentsAgain(a)
      PROVE  Causes(b, d)
  BY <1>26 DEF DependentsAgain, Unwatch, Goto, Causes, Done, Spoiled, Requeuing
<1>27. ASSUME StartCleanup PROVE Causes(b, d)
  BY <1>27 DEF StartCleanup, Expired, Goto, Causes, Done, Spoiled, Requeuing
<1>28. ASSUME NEW j \in Jobs, SkipJob(j) PROVE Causes(b, d)
  BY <1>28 DEF SkipJob, Causes, Done, Spoiled, Requeuing
<1>29. ASSUME NEW j \in Jobs, CleanupRetry(j) PROVE Causes(b, d)
  BY <1>29 DEF CleanupRetry, Causes, Done, Spoiled, Requeuing
<1>30. ASSUME NEW j \in Jobs, CleanupFail(j) PROVE Causes(b, d)
  BY <1>30 DEF CleanupFail, Goto, Causes, Done, Spoiled, Requeuing
<1>31. ASSUME EndCleanup PROVE Causes(b, d)
  BY <1>31 DEF EndCleanup, Write, Goto, Leave, LeaveTo, NothingSeen, Pushed,
     TouchedSets, Less, Causes, Done, Spoiled, Requeuing
<1>32. ASSUME NEW j \in Jobs, Expire(j) PROVE Causes(b, d)
  BY <1>32 DEF Expire, WithStatus, Causes, Done, Spoiled, Requeuing
<1>33. CASE UNCHANGED vars
  BY <1>33 DEF vars, Causes, Done, Spoiled, Requeuing
<1> HIDE DEF Typed, TypeOK, RedisTypeOK, TxTypeOK, LocalsTypeOK, RoundTypeOK,
             EnvTypeOK, ActorsOK, Actors, Statuses, PCs, Busy, redis, tx,
             locals, round, env
<1> QED
  BY <1>1, <1>2, <1>3, <1>4, <1>5, <1>6, <1>7, <1>8, <1>9, <1>10, <1>11, <1>12,
     <1>13, <1>14, <1>15, <1>16, <1>17, <1>18, <1>19, <1>20, <1>21, <1>22,
     <1>23, <1>24, <1>25, <1>26, <1>27, <1>28, <1>29, <1>30, <1>31, <1>32,
     <1>33
     DEF Next, ClientNext, WorkerNext, CleanerNext, DependentsNext

\* A transaction that is still going to succeed: nothing it watches has changed.
LEMMA Frame ==
  ASSUME Typed, [Next]_vars,
         NEW b \in Actors
  PROVE  Stable(b)
<1> USE JobsAssumption, ActorsAssumption
        DEF Typed, TypeOK, RedisTypeOK, TxTypeOK, LocalsTypeOK, RoundTypeOK,
            EnvTypeOK, ActorsOK, Actors, Statuses, PCs, Busy, Keys, JobKeys,
            JobKey, DependentsKey, redis, tx, locals, round, env
<1>1. ASSUME NEW c \in Clients, NEW j \in Jobs, EnqueueCall(c, j)
      PROVE  Stable(b)
  BY <1>1 DEF EnqueueCall, TakeUp, Stable, Undisturbed
<1>2. ASSUME NEW c \in Clients, FindUnfinished(c) PROVE Stable(b)
  BY <1>2 DEF FindUnfinished, Watch, Goto, Stable, Undisturbed
<1>3. ASSUME NEW c \in Clients, FindNoneUnfinished(c) PROVE Stable(b)
  BY <1>3 DEF FindNoneUnfinished, Goto, Stable, Undisturbed
<1>4. ASSUME NEW c \in Clients, Defer(c) PROVE Stable(b)
  <2> DEFINE K == {JobKey(job[c])} \cup
                  {DependentsKey(d) : d \in DependsOn[job[c]]}
  <2>1. SUFFICES ASSUME pc[b] \in {"defer", "success"}, pc'[b] = pc[b],
                        ~dirty'[b]
                 PROVE  Undisturbed(b)
    BY DEF Stable
  <2>2. b # c
    BY <1>4, <2>1 DEF Defer, Leave, LeaveTo, Goto
  <2>3. ~dirty[b] /\ watch[b] \cap K = {} /\ watch'[b] = watch[b]
    BY <1>4, <2>1, <2>2 DEF Defer, Leave, LeaveTo, Goto, Write
  <2>4. job'[b] = job[b] /\ ready'[b] = ready[b]
    BY <1>4, <2>2 DEF Defer, Leave, LeaveTo, Goto
  <2>5. \A d \in Jobs : JobKey(d) \notin K => status'[d] = status[d]
    BY <1>4 DEF Defer, Leave, LeaveTo, Goto, WithStatus
  <2>6. \A d \in Jobs :
           DependentsKey(d) \notin K => dependents'[d] = dependents[d]
    BY <1>4 DEF Defer, Leave, LeaveTo, Goto
  <2> HIDE DEF K
  <2> QED BY <2>3, <2>4, <2>5, <2>6 DEF Undisturbed
<1>5. ASSUME NEW c \in Clients, DeferAgain(c) PROVE Stable(b)
  BY <1>5 DEF DeferAgain, Unwatch, Goto, Stable, Undisturbed
<1>6. ASSUME NEW c \in Clients, Enqueue(c) PROVE Stable(b)
  BY <1>6 DEF Enqueue, Write, Goto, Leave, LeaveTo, NothingSeen, WithStatus,
     Pushed, Stable, Undisturbed
<1>7. ASSUME NEW c \in Clients, NEW j \in Jobs, Cancel(c, j) PROVE Stable(b)
  BY <1>7 DEF Cancel, Spend, TakeUp, Look, Ops, Stable, Undisturbed
<1>8. ASSUME NEW c \in Clients, NEW forget \in BOOLEAN, ExecCancel(c, forget)
      PROVE  Stable(b)
  <2> DEFINE from == IF forget
                       THEN {d \in DependsOn[job[c]] : status[d] # "absent"}
                       ELSE {}
             K == {JobKey(job[c])} \cup {DependentsKey(d) : d \in from}
  <2>1. SUFFICES ASSUME pc[b] \in {"defer", "success"}, pc'[b] = pc[b],
                        ~dirty'[b]
                 PROVE  Undisturbed(b)
    BY DEF Stable
  <2>2. b # c
    BY <1>8, <2>1 DEF ExecCancel, Leave, LeaveTo, Goto
  <2>3. ~dirty[b] /\ watch[b] \cap K = {} /\ watch'[b] = watch[b]
    BY <1>8, <2>1, <2>2 DEF ExecCancel, Leave, LeaveTo, Goto, Write
  <2>4. job'[b] = job[b] /\ ready'[b] = ready[b]
    BY <1>8, <2>2 DEF ExecCancel, Leave, LeaveTo, Goto
  <2>5. \A d \in Jobs : JobKey(d) \notin K => status'[d] = status[d]
    BY <1>8 DEF ExecCancel, Leave, LeaveTo, Goto, WithStatus
  <2>6. \A d \in Jobs :
           DependentsKey(d) \notin K => dependents'[d] = dependents[d]
    BY <1>8 DEF ExecCancel, Leave, LeaveTo, Goto
  <2> HIDE DEF K
  <2> QED BY <2>3, <2>4, <2>5, <2>6 DEF Undisturbed
<1>9. ASSUME NEW c \in Clients, NEW j \in Jobs, Requeue(c, j) PROVE Stable(b)
  BY <1>9 DEF Requeue, Spend, TakeUp, Interfere, Ops, Stable, Undisturbed
<1>10. ASSUME NEW c \in Clients, ExecRequeue(c) PROVE Stable(b)
  BY <1>10 DEF ExecRequeue, Write, Goto, Leave, LeaveTo, NothingSeen,
     WithStatus, Pushed, Stable, Undisturbed
<1>11. ASSUME NEW w \in Workers, NEW j \in Jobs, Dequeue(w, j) PROVE Stable(b)
  BY <1>11 DEF Dequeue, Goto, Stable, Undisturbed
<1>12. ASSUME NEW w \in Workers, NEW j \in Jobs, DropId(w, j) PROVE Stable(b)
  BY <1>12 DEF DropId, Stable, Undisturbed
<1>13. ASSUME NEW w \in Workers, PrepareExecution(w) PROVE Stable(b)
  BY <1>13 DEF PrepareExecution, Goto, Stable, Undisturbed
<1>14. ASSUME NEW w \in Workers, Start(w) PROVE Stable(b)
  BY <1>14 DEF Start, Write, Goto, WithStatus, Stable, Undisturbed
<1>15. ASSUME NEW w \in Workers, Heartbeat(w) PROVE Stable(b)
  BY <1>15 DEF Heartbeat, Interfere, Stable, Undisturbed
<1>16. ASSUME NEW w \in Workers, ReadSuccess(w) PROVE Stable(b)
  BY <1>16 DEF ReadSuccess, Watch, Goto, Look, JobsToEnqueue,
     WatchedDependents, Stable, Undisturbed
<1>17. ASSUME NEW w \in Workers, ExecSuccess(w) PROVE Stable(b)
  <2> DEFINE K == SuccessKeys(w)
  <2>1. SUFFICES ASSUME pc[b] \in {"defer", "success"}, pc'[b] = pc[b],
                        ~dirty'[b]
                 PROVE  Undisturbed(b)
    BY DEF Stable
  <2>2. b # w
    BY <1>17, <2>1 DEF ExecSuccess, Leave, LeaveTo, Goto
  <2>3. ~dirty[b] /\ watch[b] \cap K = {} /\ watch'[b] = watch[b]
    BY <1>17, <2>1, <2>2 DEF ExecSuccess, Leave, LeaveTo, Goto, Write
  <2>4. job'[b] = job[b] /\ ready'[b] = ready[b]
    BY <1>17, <2>2 DEF ExecSuccess, Leave, LeaveTo, Goto
  <2>5. \A d \in Jobs : JobKey(d) \notin K => status'[d] = status[d]
    BY <1>17 DEF ExecSuccess, Leave, LeaveTo, Goto, WithStatus, SuccessKeys,
        AfterSuccess, TouchedSets
  <2>6. \A d \in Jobs :
           DependentsKey(d) \notin K => dependents'[d] = dependents[d]
    BY <1>17 DEF ExecSuccess, Leave, LeaveTo, Goto, SuccessKeys, AfterSuccess,
        TouchedSets
  <2> HIDE DEF K
  <2> QED BY <2>3, <2>4, <2>5, <2>6 DEF Undisturbed
<1>18. ASSUME NEW w \in Workers, SuccessAgain(w) PROVE Stable(b)
  BY <1>18 DEF SuccessAgain, Unwatch, Goto, NothingSeen, Less, Stable,
     Undisturbed
<1>19. ASSUME NEW w \in Workers, RetryJob(w) PROVE Stable(b)
  BY <1>19 DEF RetryJob, Spend, Write, Goto, Leave, LeaveTo, NothingSeen,
     WithStatus, Pushed, Ops, Stable, Undisturbed
<1>20. ASSUME NEW w \in Workers, FailJob(w) PROVE Stable(b)
  BY <1>20 DEF FailJob, Spend, Write, Goto, WithStatus, TouchedSets, Ops,
     Stable, Undisturbed
<1>21. ASSUME NEW w \in Workers, StopJob(w) PROVE Stable(b)
  BY <1>21 DEF StopJob, Spend, Write, Goto, NothingSeen, WithStatus,
     TouchedSets, Ops, Stable, Undisturbed
<1>22. ASSUME NEW w \in Workers, Crash(w) PROVE Stable(b)
  BY <1>22 DEF Crash, Spend, Unwatch, Goto, LeaveTo, NothingSeen, Ops, Stable,
     Undisturbed
<1>23. ASSUME NEW a \in Workers \cup {Cleaner}, ReadDependents(a)
      PROVE  Stable(b)
  BY <1>23 DEF ReadDependents, Watch, Goto, Found, JobsToEnqueue,
     WatchedDependents, Stable, Undisturbed
<1>24. ASSUME NEW a \in Workers \cup {Cleaner}, NoDependents(a) PROVE Stable(b)
  BY <1>24 DEF NoDependents, Goto, Resume, Leave, LeaveTo, NothingSeen, Stable,
     Undisturbed
<1>25. ASSUME NEW a \in Workers \cup {Cleaner}, ExecDependents(a)
      PROVE  Stable(b)
  <2> DEFINE K == {DependentsKey(job[a])} \cup JobKeys(ready[a])
  <2>1. SUFFICES ASSUME pc[b] \in {"defer", "success"}, pc'[b] = pc[b],
                        ~dirty'[b]
                 PROVE  Undisturbed(b)
    BY DEF Stable
  <2>2. b # a
    BY <1>25, <2>1 DEF ExecDependents, Resume, Leave, LeaveTo, Goto
  <2>3. ~dirty[b] /\ watch[b] \cap K = {} /\ watch'[b] = watch[b]
    BY <1>25, <2>1, <2>2 DEF ExecDependents, Resume, Leave, LeaveTo, Goto, Write
  <2>4. job'[b] = job[b] /\ ready'[b] = ready[b]
    BY <1>25, <2>2 DEF ExecDependents, Resume, Leave, LeaveTo, Goto
  <2>5. \A d \in Jobs : JobKey(d) \notin K => status'[d] = status[d]
    BY <1>25 DEF ExecDependents, Resume, Leave, LeaveTo, Goto, WithStatus
  <2>6. \A d \in Jobs :
           DependentsKey(d) \notin K => dependents'[d] = dependents[d]
    BY <1>25 DEF ExecDependents, Resume, Leave, LeaveTo, Goto
  <2> HIDE DEF K
  <2> QED BY <2>3, <2>4, <2>5, <2>6 DEF Undisturbed
<1>26. ASSUME NEW a \in Workers \cup {Cleaner}, DependentsAgain(a)
      PROVE  Stable(b)
  BY <1>26 DEF DependentsAgain, Unwatch, Goto, Stable, Undisturbed
<1>27. ASSUME StartCleanup PROVE Stable(b)
  BY <1>27 DEF StartCleanup, Expired, Goto, Stable, Undisturbed
<1>28. ASSUME NEW j \in Jobs, SkipJob(j) PROVE Stable(b)
  BY <1>28 DEF SkipJob, Stable, Undisturbed
<1>29. ASSUME NEW j \in Jobs, CleanupRetry(j) PROVE Stable(b)
  BY <1>29 DEF CleanupRetry, Stable, Undisturbed
<1>30. ASSUME NEW j \in Jobs, CleanupFail(j) PROVE Stable(b)
  BY <1>30 DEF CleanupFail, Goto, Stable, Undisturbed
<1>31. ASSUME EndCleanup PROVE Stable(b)
  <2> DEFINE K == JobKeys({j \in Jobs : toRetry[j] > 0} \cup toFail)
                    \cup TouchedSets(toFail)
  <2>1. SUFFICES ASSUME pc[b] \in {"defer", "success"}, pc'[b] = pc[b],
                        ~dirty'[b]
                 PROVE  Undisturbed(b)
    BY DEF Stable
  <2>2. b # Cleaner
    BY <1>31, <2>1 DEF EndCleanup, Leave, LeaveTo, Goto
  <2>3. ~dirty[b] /\ watch[b] \cap K = {} /\ watch'[b] = watch[b]
    BY <1>31, <2>1, <2>2 DEF EndCleanup, Leave, LeaveTo, Goto, Write
  <2>4. job'[b] = job[b] /\ ready'[b] = ready[b]
    BY <1>31, <2>2 DEF EndCleanup, Leave, LeaveTo, Goto
  <2>5. \A d \in Jobs : JobKey(d) \notin K => status'[d] = status[d]
    BY <1>31 DEF EndCleanup, Leave, LeaveTo, Goto, WithStatus
  <2>6. \A d \in Jobs :
           DependentsKey(d) \notin K => dependents'[d] = dependents[d]
    BY <1>31 DEF EndCleanup, Leave, LeaveTo, Goto
  <2> HIDE DEF K
  <2> QED BY <2>3, <2>4, <2>5, <2>6 DEF Undisturbed
<1>32. ASSUME NEW j \in Jobs, Expire(j) PROVE Stable(b)
  <2>1. UNCHANGED <<watch, dirty, job, ready>>
    BY <1>32 DEF Expire
  <2>2. \A d \in Jobs : d = j \/ (status'[d] = status[d] /\ dependents'[d] = dependents[d])
    BY <1>32 DEF Expire, WithStatus
  <2> QED BY <1>32, <2>1, <2>2 DEF Stable, Undisturbed
<1>33. CASE UNCHANGED vars
  BY <1>33 DEF vars, Stable, Undisturbed
<1> HIDE DEF Typed, TypeOK, RedisTypeOK, TxTypeOK, LocalsTypeOK, RoundTypeOK,
             EnvTypeOK, ActorsOK, Actors, Statuses, PCs, Busy, Keys, JobKeys,
             JobKey, DependentsKey, redis, tx, locals, round, env
<1> QED
  BY <1>1, <1>2, <1>3, <1>4, <1>5, <1>6, <1>7, <1>8, <1>9, <1>10, <1>11, <1>12,
     <1>13, <1>14, <1>15, <1>16, <1>17, <1>18, <1>19, <1>20, <1>21, <1>22,
     <1>23, <1>24, <1>25, <1>26, <1>27, <1>28, <1>29, <1>30, <1>31, <1>32,
     <1>33
     DEF Next, ClientNext, WorkerNext, CleanerNext, DependentsNext

\* What a client about to defer has read still holds.
DeferOK ==
    \A c \in Clients : pc[c] = "defer" /\ ~dirty[c] =>
        /\ Unfinished(job[c]) # {}
        /\ JobKeys(DependsOn[job[c]]) \subseteq watch[c]

\* What a client read before its deferral holds at the EXEC.
LEMMA DeferNext ==
  ASSUME Typed, DeferOK, [Next]_vars
  PROVE  DeferOK'
<1> SUFFICES ASSUME NEW c \in Clients, pc'[c] = "defer", ~dirty'[c]
             PROVE  /\ Unfinished(job[c])' # {}
                    /\ JobKeys(DependsOn[job'[c]]) \subseteq watch'[c]
  BY DEF DeferOK
<1>1. c \in Actors
  BY DEF Actors
<1>2. job[c] \in Jobs => DependsOn[job[c]] \subseteq Jobs
  BY JobsAssumption
<1>3. CASE pc[c] = "defer"
  <2>1. job[c] \in Jobs
    BY <1>1, <1>3 DEF Typed, ActorsOK, Busy
  <2>2. Undisturbed(c)
    BY <1>1, <1>3, Frame DEF Stable
  <2>3. Unfinished(job[c]) # {} /\ JobKeys(DependsOn[job[c]]) \subseteq watch[c]
    BY <1>3, <2>2 DEF DeferOK, Undisturbed
  <2>4. \A d \in DependsOn[job[c]] : Done(d)' = Done(d)
    <3>1. \A d \in DependsOn[job[c]] : status'[d] = status[d] \/ Expire(d)
      BY <1>2, <2>1, <2>2, <2>3 DEF Undisturbed, JobKeys
    <3>2. \A d \in Jobs : Expire(d) => Done(d) /\ Done(d)'
      BY DEF Expire, Done, WithStatus
    <3> QED BY <1>2, <2>1, <3>1, <3>2 DEF Done
  <2> QED BY <2>2, <2>3, <2>4 DEF Undisturbed, Unfinished, Done
<1>4. CASE pc[c] # "defer"
  <2>0. job'[c] \in Jobs
    BY <1>1, TypedNext DEF Typed, ActorsOK, Busy
  <2>1. FindUnfinished(c)
    BY <1>1, <1>4, <2>0, StepCauses DEF Causes
  <2>2. /\ Unfinished(job[c]) # {} /\ job'[c] = job[c] /\ status' = status
        /\ watch' = [watch EXCEPT ![c] = JobKeys(DependsOn[job[c]])]
    BY <2>1 DEF FindUnfinished, Watch, redis, locals
  <2>3. watch'[c] = JobKeys(DependsOn[job[c]])
    BY <1>1, <2>2 DEF Typed, TypeOK, TxTypeOK
  <2> QED BY <2>2, <2>3 DEF Unfinished
<1> QED BY <1>3, <1>4

\* What a worker about to commit a success has read still holds.
SuccessOK ==
    \A w \in Workers : pc[w] = "success" /\ ~dirty[w] =>
        /\ DependentsKey(job[w]) \in watch[w]
        /\ \A j \in dependents[job[w]] : status[j] = "deferred" =>
              /\ \A d \in DependsOn[j] : JobKey(d) \in watch[w]
              /\ j \in ready[w] \/ ~DependenciesAreMet(j, job[w], status[job[w]])

\* What a worker read before it commits a success holds at the EXEC: what
\* expires meanwhile was finished, and is met when it is gone too.
LEMMA SuccessNext ==
    ASSUME Typed, KnownOK, SetsOK, SuccessOK, [Next]_vars
    PROVE  SuccessOK'
<1> SUFFICES ASSUME NEW w \in Workers, pc'[w] = "success", ~dirty'[w]
             PROVE  /\ DependentsKey(job'[w]) \in watch'[w]
                    /\ \A j \in dependents'[job'[w]] : status'[j] = "deferred" =>
                         /\ \A d \in DependsOn[j] : JobKey(d) \in watch'[w]
                         /\ j \in ready'[w] \/ ~DependenciesAreMet(j, job[w], status[job[w]])'
    BY DEF SuccessOK
<1>1. w \in Actors
    BY DEF Actors
<1>2. CASE pc[w] = "success"
  <2>1. PICK p \in Jobs : p = job[w]
      BY <1>1, <1>2 DEF Typed, ActorsOK, Busy
  <2>2. /\ ~dirty[w] /\ watch'[w] = watch[w] /\ job'[w] = p /\ ready'[w] = ready[w]
        /\ \A d \in Jobs : JobKey(d) \in watch[w] => status'[d] = status[d] \/ Expire(d)
        /\ DependentsKey(p) \in watch[w] => dependents'[p] = dependents[p] \/ Expire(p)
      BY <1>1, <1>2, <2>1, Frame DEF Stable, Undisturbed
  <2>3. /\ DependentsKey(p) \in watch[w]
        /\ \A j \in dependents[p] : status[j] = "deferred" =>
              /\ \A d \in DependsOn[j] : JobKey(d) \in watch[w]
              /\ j \in ready[w] \/ ~DependenciesAreMet(j, p, status[p])
      BY <1>2, <2>1, <2>2 DEF SuccessOK
  <2>4. ASSUME NEW j \in dependents'[p], status'[j] = "deferred"
        PROVE  /\ \A d \in DependsOn[j] : JobKey(d) \in watch[w]
               /\ j \in ready[w] \/ ~DependenciesAreMet(j, job[w], status[job[w]])'
    <3>1. j \in dependents[p]
      <4>1. Expire(p) => dependents'[p] = {}
          BY DEF Expire, Typed, TypeOK, RedisTypeOK
      <4> QED
          BY <2>2, <2>3, <2>4, <4>1
    <3>2. /\ j \in Jobs /\ j \in saved
          /\ p \in DependsOn[j] /\ DependsOn[j] \subseteq Jobs
        BY <2>1, <3>1, JobsAssumption DEF SetsOK, Typed, TypeOK, RedisTypeOK
    <3>3. status[j] = "deferred"
      <4>1. SUFFICES ASSUME NEW c \in Clients, Defer(c), job[c] = j PROVE FALSE
          BY <1>1, <2>4, <3>2, StepCauses DEF Causes
      <4> QED
          BY <4>1, <3>2 DEF Defer, KnownOK, Calling
    <3>4. \A d \in DependsOn[j] : status'[d] = status[d] \/ Expire(d)
        BY <2>2, <2>3, <3>1, <3>2, <3>3
    <3>5. \A d \in DependsOn[j] : Expire(d) => status[d] = "finished"
        BY DEF Expire
    <3>6. DependenciesAreMet(j, job[w], status[job[w]])' => DependenciesAreMet(j, p, status[p])
        BY <2>2, <3>2, <3>4, <3>5 DEF DependenciesAreMet
    <3> QED
        BY <2>3, <3>1, <3>3, <3>6
  <2> QED
      BY <2>2, <2>3, <2>4
<1>3. CASE pc[w] # "success"
  <2>1. job'[w] \in Jobs
      BY <1>1, TypedNext DEF Typed, ActorsOK, Busy
  <2>2. ReadSuccess(w)
      BY <1>1, <1>3, <2>1, StepCauses DEF Causes
  <2>3. PICK p \in Jobs : p = job[w] /\ job'[w] = p
      BY <2>1, <2>2 DEF ReadSuccess
  <2>4. /\ dependents' = dependents /\ status' = status
        /\ watch' = [watch EXCEPT ![w] = WatchedDependents(p)]
        /\ ready' = [ready EXCEPT ![w] = JobsToEnqueue(p, status[p])]
      BY <2>2, <2>3 DEF ReadSuccess, Watch, redis
  <2>5. watch'[w] = WatchedDependents(p) /\ ready'[w] = JobsToEnqueue(p, status[p])
      BY <1>1, <2>4 DEF Typed, TypeOK, TxTypeOK, LocalsTypeOK
  <2>6. ASSUME NEW j \in dependents[p], status[j] = "deferred"
        PROVE  /\ \A d \in DependsOn[j] : JobKey(d) \in watch'[w]
               /\ j \in ready'[w] \/ ~DependenciesAreMet(j, job[w], status[job[w]])'
    <3>1. \A d \in DependsOn[j] : JobKey(d) \in watch'[w]
        BY <2>5, <2>6 DEF WatchedDependents, JobKeys
    <3>2. j \in ready'[w] \/ ~DependenciesAreMet(j, p, status[p])
        BY <2>5, <2>6 DEF JobsToEnqueue
    <3>3. DependenciesAreMet(j, job[w], status[job[w]])' => DependenciesAreMet(j, p, status[p])
        BY <2>3, <2>4 DEF DependenciesAreMet
    <3> QED
        BY <3>1, <3>2, <3>3
  <2> QED
      BY <2>3, <2>4, <2>5, <2>6 DEF WatchedDependents
<1> QED
    BY <1>2, <1>3

-----------------------------------------------------------------------------
(* Jobs without allow_failure, that nobody requeues.                     *)

OnlyOnce == AllowFailure = {} /\ Budget["requeue"] = 0

\* A worker performs job j, or has died over it.
Performing(w, j) == job[w] = j /\ pc[w] \in {"dequeued", "prepared", "running", "success"}
Holds(w, j) == Performing(w, j) \/ <<j, w>> \in startedReg \cup batch

\* A job that has been enqueued, or canceled, and waits for nothing: it is
\* neither in the queue nor in the hands of a worker; nor will it be.
Idle(j) ==
    /\ j \in saved /\ status[j] # "deferred" /\ queue[j] = 0
    /\ \A w \in Workers : ~Holds(w, j)
Listed(w, j) == pc[w] = "success" /\ j \in ready[w]
Settled(j) == Idle(j) /\ \A w \in Workers : ~Listed(w, j)

\* It waits, or was canceled while it waited.
Waits(j) == status[j] = "deferred" \/ (status[j] = "canceled" /\ Idle(j))

\* No process is where allow_failure and requeue() would bring it.
NoneRequeued ==
    /\ budget["requeue"] = 0
    /\ \A p \in Actors : pc[p] \notin {"requeue", "exec"}

\* An entry of the StartedJobRegistry is of the job that its worker performs,
\* or performed when it died; the cleanup works on the latter, each job once.
EntriesOK ==
    /\ \A e \in startedReg : Performing(e[2], e[1]) \/ pc[e[2]] = "dead"
    /\ \A e \in batch : pc[e[2]] = "dead"
    /\ \A j \in Jobs : j \in todo \/ j \in toFail \/ toRetry[j] > 0 =>
          \E w \in Workers : <<j, w>> \in batch
    /\ \A j \in todo : j \notin toFail /\ toRetry[j] = 0
    /\ \A j \in toFail : toRetry[j] = 0
    /\ pc[Cleaner] = "idle" => batch = {}

\* There is one entry in the queue, or one worker, for a job that waits for
\* nothing, and none for one that is done.
OneOK(j) ==
    /\ queue[j] <= 1
    /\ queue[j] > 0 => j \in saved /\ status[j] # "deferred" /\ \A w \in Workers : ~Holds(w, j)
    /\ \A w \in Workers : Holds(w, j) => j \in saved /\ status[j] # "deferred"
    /\ \A v, w \in Workers : Holds(v, j) /\ Holds(w, j) => v = w
    /\ j \in saved /\ Done(j) => Settled(j)

\* j is in the dependents set of d: it waits, or d is over for good, or j was
\* canceled while it waited.
MemberOK(j, d) ==
    /\ d \in DependsOn[j] /\ j \in saved /\ DependsOn[j] \subseteq saved
    /\ Waits(j) \/ Settled(d)

\* What a worker about to enqueue j has read, and what cannot change.
ListOK(w, j) ==
    /\ job[w] \in DependsOn[j]
    /\ Waits(j)
    /\ \A d \in DependsOn[j] \ {job[w]} : Settled(d)

\* A worker that enqueues dependents after a failure: its job is over.
FailedOK ==
    \A w \in Workers : pc[w] = "dependents" =>
        Settled(job[w]) /\ status[job[w]] \in {"failed", "stopped", "canceled"}

\* Every job, every set of dependents and every list.
WorkOK ==
    /\ \A j \in Jobs : OneOK(j)
    /\ \A d \in Jobs : \A j \in dependents[d] : MemberOK(j, d)
    /\ \A w \in Workers : \A j \in Jobs : Listed(w, j) => ListOK(w, j)

\* The inductive invariant.
Local == Typed /\ KnownOK /\ NoneRequeued /\ EntriesOK
OnceInv == Local /\ WorkOK /\ FailedOK

\* Nobody comes to a requeue, or to the transaction of enqueue_dependents.
LEMMA NoneRequeuedNext ==
    ASSUME AllowFailure = {}, Typed, NoneRequeued, FailedOK, [Next]_vars
    PROVE  NoneRequeued'
<1> USE JobsAssumption, ActorsAssumption
        DEF Typed, TypeOK, RedisTypeOK, TxTypeOK, LocalsTypeOK, RoundTypeOK, EnvTypeOK,
           ActorsOK, Actors, Statuses, PCs, Busy, redis, tx, locals, round, env, NoneRequeued
<1>1. ASSUME NEW c \in Clients, NEW j \in Jobs, EnqueueCall(c, j) PROVE NoneRequeued'
    BY <1>1 DEF EnqueueCall, TakeUp
<1>2. ASSUME NEW c \in Clients, FindUnfinished(c) PROVE NoneRequeued'
    BY <1>2 DEF FindUnfinished, Watch, Goto
<1>3. ASSUME NEW c \in Clients, FindNoneUnfinished(c) PROVE NoneRequeued'
    BY <1>3 DEF FindNoneUnfinished, Goto
<1>4. ASSUME NEW c \in Clients, Defer(c) PROVE NoneRequeued'
    BY <1>4 DEF Defer, Write, Goto, Leave, LeaveTo, NothingSeen, WithStatus
<1>5. ASSUME NEW c \in Clients, DeferAgain(c) PROVE NoneRequeued'
    BY <1>5 DEF DeferAgain, Unwatch, Goto
<1>6. ASSUME NEW c \in Clients, Enqueue(c) PROVE NoneRequeued'
    BY <1>6 DEF Enqueue, Write, Goto, Leave, LeaveTo, NothingSeen, WithStatus, Pushed
<1>7. ASSUME NEW c \in Clients, NEW j \in Jobs, Cancel(c, j) PROVE NoneRequeued'
    BY <1>7 DEF Cancel, Spend, TakeUp, Look, Ops
<1>8. ASSUME NEW c \in Clients, NEW forget \in BOOLEAN, ExecCancel(c, forget)
      PROVE  NoneRequeued'
    BY <1>8 DEF ExecCancel, Write, Goto, Leave, LeaveTo, NothingSeen, WithStatus, DropFrom
<1>9. ASSUME NEW c \in Clients, NEW j \in Jobs, Requeue(c, j) PROVE NoneRequeued'
    BY <1>9 DEF Requeue, Spend, TakeUp, Interfere, Ops
<1>10. ASSUME NEW c \in Clients, ExecRequeue(c) PROVE NoneRequeued'
    BY <1>10 DEF ExecRequeue, Write, Goto, Leave, LeaveTo, NothingSeen, WithStatus, Pushed
<1>11. ASSUME NEW w \in Workers, NEW j \in Jobs, Dequeue(w, j) PROVE NoneRequeued'
    BY <1>11 DEF Dequeue, Goto
<1>12. ASSUME NEW w \in Workers, NEW j \in Jobs, DropId(w, j) PROVE NoneRequeued'
    BY <1>12 DEF DropId
<1>13. ASSUME NEW w \in Workers, PrepareExecution(w) PROVE NoneRequeued'
    BY <1>13 DEF PrepareExecution, Goto
<1>14. ASSUME NEW w \in Workers, Start(w) PROVE NoneRequeued'
    BY <1>14 DEF Start, Write, Goto, WithStatus
<1>15. ASSUME NEW w \in Workers, Heartbeat(w) PROVE NoneRequeued'
    BY <1>15 DEF Heartbeat, Interfere
<1>16. ASSUME NEW w \in Workers, ReadSuccess(w) PROVE NoneRequeued'
    BY <1>16 DEF ReadSuccess, Watch, Goto, Look, JobsToEnqueue, WatchedDependents
<1>17. ASSUME NEW w \in Workers, ExecSuccess(w) PROVE NoneRequeued'
    BY <1>17 DEF ExecSuccess, Write, Goto, Leave, LeaveTo, NothingSeen, WithStatus, Pushed,
       AfterSuccess, SuccessKeys, TouchedSets, DropFrom, Deletes, Less
<1>18. ASSUME NEW w \in Workers, SuccessAgain(w) PROVE NoneRequeued'
    BY <1>18 DEF SuccessAgain, Unwatch, Goto, NothingSeen, Less
<1>19. ASSUME NEW w \in Workers, RetryJob(w) PROVE NoneRequeued'
    BY <1>19 DEF RetryJob, Spend, Write, Goto, Leave, LeaveTo, NothingSeen, WithStatus, Pushed,
       Ops
<1>20. ASSUME NEW w \in Workers, FailJob(w) PROVE NoneRequeued'
    BY <1>20 DEF FailJob, Spend, Write, Goto, WithStatus, TouchedSets, Ops
<1>21. ASSUME NEW w \in Workers, StopJob(w) PROVE NoneRequeued'
    BY <1>21 DEF StopJob, Spend, Write, Goto, NothingSeen, WithStatus, TouchedSets, Ops
<1>22. ASSUME NEW w \in Workers, Crash(w) PROVE NoneRequeued'
    BY <1>22 DEF Crash, Spend, Unwatch, Goto, LeaveTo, NothingSeen, Ops
<1>23. ASSUME NEW a \in Workers \cup {Cleaner}, ReadDependents(a) PROVE NoneRequeued'
  <2>1. JobsToEnqueue(job[a], ParentStatus(a)) = {}
      BY <1>23 DEF ReadDependents, ParentStatus, FailedOK, JobsToEnqueue, DependenciesAreMet
  <2> QED
      BY <1>23, <2>1 DEF ReadDependents, Found
<1>24. ASSUME NEW a \in Workers \cup {Cleaner}, NoDependents(a) PROVE NoneRequeued'
    BY <1>24 DEF NoDependents, Goto, Resume, Leave, LeaveTo, NothingSeen
<1>25. ASSUME NEW a \in Workers \cup {Cleaner}, ExecDependents(a) PROVE NoneRequeued'
    BY <1>25 DEF ExecDependents, Write, Goto, Resume, Leave, LeaveTo, NothingSeen, WithStatus,
       Pushed
<1>26. ASSUME NEW a \in Workers \cup {Cleaner}, DependentsAgain(a) PROVE NoneRequeued'
    BY <1>26 DEF DependentsAgain, Unwatch, Goto
<1>27. ASSUME StartCleanup PROVE NoneRequeued'
    BY <1>27 DEF StartCleanup, Expired, Goto
<1>28. ASSUME NEW j \in Jobs, SkipJob(j) PROVE NoneRequeued'
    BY <1>28 DEF SkipJob
<1>29. ASSUME NEW j \in Jobs, CleanupRetry(j) PROVE NoneRequeued'
    BY <1>29 DEF CleanupRetry
<1>30. ASSUME NEW j \in Jobs, CleanupFail(j) PROVE NoneRequeued'
    BY <1>30 DEF CleanupFail, Goto
<1>31. ASSUME EndCleanup PROVE NoneRequeued'
    BY <1>31 DEF EndCleanup, Write, Goto, Leave, LeaveTo, NothingSeen, Pushed, TouchedSets, Less
<1>32. ASSUME NEW j \in Jobs, Expire(j) PROVE NoneRequeued'
    BY <1>32 DEF Expire, WithStatus
<1>33. ASSUME UNCHANGED vars PROVE NoneRequeued'
    BY <1>33 DEF vars
<1> HIDE DEF Typed, TypeOK, RedisTypeOK, TxTypeOK, LocalsTypeOK, RoundTypeOK, EnvTypeOK,
   ActorsOK, Actors, Statuses, PCs, Busy, redis, tx, locals, round, env, NoneRequeued
<1> QED
    BY <1>1, <1>2, <1>3, <1>4, <1>5, <1>6, <1>7, <1>8, <1>9, <1>10, <1>11, <1>12, <1>13, <1>14,
       <1>15, <1>16, <1>17, <1>18, <1>19, <1>20, <1>21, <1>22, <1>23, <1>24, <1>25, <1>26,
       <1>27, <1>28, <1>29, <1>30, <1>31, <1>32, <1>33
       DEF Next, ClientNext, WorkerNext, CleanerNext, DependentsNext

\* A client's step has no part in them.
LEMMA EntriesFrame ==
    ASSUME Typed, EntriesOK, UNCHANGED round, startedReg' \subseteq startedReg,
           \A p \in Workers \cup {Cleaner} : pc'[p] = pc[p] /\ job'[p] = job[p]
    PROVE  EntriesOK'
<1>1. \A e \in startedReg \cup batch : e[2] \in Workers
    BY DEF Typed, TypeOK, RedisTypeOK, RoundTypeOK
<1>2. \A e \in startedReg' : Performing(e[2], e[1])' \/ pc'[e[2]] = "dead"
    BY <1>1 DEF EntriesOK, Performing
<1>3. \A e \in batch' : pc'[e[2]] = "dead"
    BY <1>1 DEF EntriesOK, round
<1> QED
    BY <1>2, <1>3 DEF EntriesOK, round

\* The entries of the StartedJobRegistry, and the round of the cleanup.
LEMMA EntriesNext ==
    ASSUME Typed, EntriesOK, [Next]_vars
    PROVE  EntriesOK'
<1> USE JobsAssumption, ActorsAssumption
        DEF Typed, TypeOK, RedisTypeOK, TxTypeOK, LocalsTypeOK, RoundTypeOK, EnvTypeOK,
           ActorsOK, Actors, Statuses, PCs, Busy, redis, tx, locals, round, env, EntriesOK,
           Performing
<1>1. ASSUME NEW c \in Clients, NEW j \in Jobs, EnqueueCall(c, j) PROVE EntriesOK'
  <2>1. /\ UNCHANGED round /\ startedReg' \subseteq startedReg
        /\ \A p \in Workers \cup {Cleaner} : pc'[p] = pc[p] /\ job'[p] = job[p]
      BY <1>1 DEF EnqueueCall, TakeUp
  <2> QED
      BY ONLY Typed, EntriesOK, <2>1, EntriesFrame
<1>2. ASSUME NEW c \in Clients, FindUnfinished(c) PROVE EntriesOK'
  <2>1. /\ UNCHANGED round /\ startedReg' \subseteq startedReg
        /\ \A p \in Workers \cup {Cleaner} : pc'[p] = pc[p] /\ job'[p] = job[p]
      BY <1>2 DEF FindUnfinished, Goto
  <2> QED
      BY ONLY Typed, EntriesOK, <2>1, EntriesFrame
<1>3. ASSUME NEW c \in Clients, FindNoneUnfinished(c) PROVE EntriesOK'
  <2>1. /\ UNCHANGED round /\ startedReg' \subseteq startedReg
        /\ \A p \in Workers \cup {Cleaner} : pc'[p] = pc[p] /\ job'[p] = job[p]
      BY <1>3 DEF FindNoneUnfinished, Goto
  <2> QED
      BY ONLY Typed, EntriesOK, <2>1, EntriesFrame
<1>4. ASSUME NEW c \in Clients, Defer(c) PROVE EntriesOK'
  <2>1. /\ UNCHANGED round /\ startedReg' \subseteq startedReg
        /\ \A p \in Workers \cup {Cleaner} : pc'[p] = pc[p] /\ job'[p] = job[p]
      BY <1>4 DEF Defer, Goto, Leave, LeaveTo
  <2> QED
      BY ONLY Typed, EntriesOK, <2>1, EntriesFrame
<1>5. ASSUME NEW c \in Clients, DeferAgain(c) PROVE EntriesOK'
  <2>1. /\ UNCHANGED round /\ startedReg' \subseteq startedReg
        /\ \A p \in Workers \cup {Cleaner} : pc'[p] = pc[p] /\ job'[p] = job[p]
      BY <1>5 DEF DeferAgain, Goto
  <2> QED
      BY ONLY Typed, EntriesOK, <2>1, EntriesFrame
<1>6. ASSUME NEW c \in Clients, Enqueue(c) PROVE EntriesOK'
  <2>1. /\ UNCHANGED round /\ startedReg' \subseteq startedReg
        /\ \A p \in Workers \cup {Cleaner} : pc'[p] = pc[p] /\ job'[p] = job[p]
      BY <1>6 DEF Enqueue, Goto, Leave, LeaveTo
  <2> QED
      BY ONLY Typed, EntriesOK, <2>1, EntriesFrame
<1>7. ASSUME NEW c \in Clients, NEW j \in Jobs, Cancel(c, j) PROVE EntriesOK'
  <2>1. /\ UNCHANGED round /\ startedReg' \subseteq startedReg
        /\ \A p \in Workers \cup {Cleaner} : pc'[p] = pc[p] /\ job'[p] = job[p]
      BY <1>7 DEF Cancel, TakeUp
  <2> QED
      BY ONLY Typed, EntriesOK, <2>1, EntriesFrame
<1>8. ASSUME NEW c \in Clients, NEW forget \in BOOLEAN, ExecCancel(c, forget) PROVE EntriesOK'
  <2>1. /\ UNCHANGED round /\ startedReg' \subseteq startedReg
        /\ \A p \in Workers \cup {Cleaner} : pc'[p] = pc[p] /\ job'[p] = job[p]
      BY <1>8 DEF ExecCancel, Goto, Leave, LeaveTo
  <2> QED
      BY ONLY Typed, EntriesOK, <2>1, EntriesFrame
<1>9. ASSUME NEW c \in Clients, NEW j \in Jobs, Requeue(c, j) PROVE EntriesOK'
  <2>1. /\ UNCHANGED round /\ startedReg' \subseteq startedReg
        /\ \A p \in Workers \cup {Cleaner} : pc'[p] = pc[p] /\ job'[p] = job[p]
      BY <1>9 DEF Requeue, TakeUp
  <2> QED
      BY ONLY Typed, EntriesOK, <2>1, EntriesFrame
<1>10. ASSUME NEW c \in Clients, ExecRequeue(c) PROVE EntriesOK'
  <2>1. /\ UNCHANGED round /\ startedReg' \subseteq startedReg
        /\ \A p \in Workers \cup {Cleaner} : pc'[p] = pc[p] /\ job'[p] = job[p]
      BY <1>10 DEF ExecRequeue, Goto, Leave, LeaveTo
  <2> QED
      BY ONLY Typed, EntriesOK, <2>1, EntriesFrame
<1>11. ASSUME NEW w \in Workers, NEW j \in Jobs, Dequeue(w, j) PROVE EntriesOK'
    BY <1>11 DEF Dequeue, Goto
<1>12. ASSUME NEW w \in Workers, NEW j \in Jobs, DropId(w, j) PROVE EntriesOK'
    BY <1>12 DEF DropId
<1>13. ASSUME NEW w \in Workers, PrepareExecution(w) PROVE EntriesOK'
  <2>1. /\ pc[w] = "dequeued" /\ pc' = [pc EXCEPT ![w] = "prepared"]
        /\ startedReg' = startedReg \cup {<<job[w], w>>}
        /\ UNCHANGED <<job, round>>
      BY <1>13 DEF PrepareExecution, Goto
  <2>2. \A v \in Workers : pc[v] = "dead" => pc'[v] = "dead"
      BY <2>1
  <2>3. pc'[Cleaner] = pc[Cleaner]
      BY <2>1
  <2>4. \A e \in startedReg' : Performing(e[2], e[1])' \/ pc'[e[2]] = "dead"
      BY <2>1
  <2>5. \A e \in batch : e[2] \in Workers /\ pc[e[2]] = "dead"
      OBVIOUS
  <2>6. /\ \A j \in Jobs : j \in todo \/ j \in toFail \/ toRetry[j] > 0 =>
              \E v \in Workers : <<j, v>> \in batch
        /\ \A j \in todo : j \notin toFail /\ toRetry[j] = 0
        /\ \A j \in toFail : toRetry[j] = 0
        /\ pc[Cleaner] = "idle" => batch = {}
      OBVIOUS
  <2> QED
      BY ONLY <2>1, <2>2, <2>3, <2>4, <2>5, <2>6 DEF EntriesOK, round
<1>14. ASSUME NEW w \in Workers, Start(w) PROVE EntriesOK'
    BY <1>14 DEF Start, Write, Goto, WithStatus
<1>15. ASSUME NEW w \in Workers, Heartbeat(w) PROVE EntriesOK'
    BY <1>15 DEF Heartbeat, Interfere
<1>16. ASSUME NEW w \in Workers, ReadSuccess(w) PROVE EntriesOK'
    BY <1>16 DEF ReadSuccess, Watch, Goto, Look, JobsToEnqueue, WatchedDependents
<1>17. ASSUME NEW w \in Workers, ExecSuccess(w) PROVE EntriesOK'
  <2>1. /\ pc[w] \in {"running", "success"} /\ job[w] \in Jobs
        /\ startedReg' \subseteq startedReg \ {<<job[w], w>>}
        /\ UNCHANGED round
      BY <1>17 DEF ExecSuccess
  <2>2. \A v \in Workers \ {w} : pc'[v] = pc[v] /\ job'[v] = job[v]
      BY <1>17 DEF ExecSuccess, Goto, Leave, LeaveTo
  <2>3. pc'[Cleaner] = pc[Cleaner]
      BY <1>17 DEF ExecSuccess, Goto, Leave, LeaveTo
  <2>4. \A e \in startedReg' : e[2] # w
    <3> SUFFICES ASSUME NEW e \in startedReg', e[2] = w PROVE FALSE
        OBVIOUS
    <3>1. e \in startedReg /\ e = <<e[1], w>> /\ e # <<job[w], w>>
        BY <2>1
    <3> QED
        BY <2>1, <3>1
  <2>5. /\ startedReg \subseteq Jobs \X Workers
        /\ batch \subseteq Jobs \X Workers
      OBVIOUS
  <2>6. \A e \in startedReg' : Performing(e[2], e[1])' \/ pc'[e[2]] = "dead"
    <3> SUFFICES ASSUME NEW e \in startedReg'
                 PROVE  Performing(e[2], e[1])' \/ pc'[e[2]] = "dead"
        OBVIOUS
    <3>1. e \in startedReg /\ e[2] \in Workers \ {w}
        BY <2>1, <2>4, <2>5
    <3>2. Performing(e[2], e[1]) \/ pc[e[2]] = "dead"
        BY <3>1
    <3> QED
        BY <2>2, <3>1, <3>2
  <2>7. \A e \in batch' : pc'[e[2]] = "dead"
    <3> SUFFICES ASSUME NEW e \in batch' PROVE pc'[e[2]] = "dead"
        OBVIOUS
    <3>1. pc[e[2]] = "dead" /\ e[2] \in Workers
        BY <2>1, <2>5
    <3> QED
        BY <2>1, <2>2, <3>1
  <2> QED
      BY <2>1, <2>3, <2>6, <2>7
<1>18. ASSUME NEW w \in Workers, SuccessAgain(w) PROVE EntriesOK'
    BY <1>18 DEF SuccessAgain, Unwatch, Goto, NothingSeen, Less
<1>19. ASSUME NEW w \in Workers, RetryJob(w) PROVE EntriesOK'
  <2>1. /\ pc[w] \in {"running", "success"} /\ job[w] \in Jobs
        /\ startedReg' \subseteq startedReg \ {<<job[w], w>>}
        /\ UNCHANGED round
      BY <1>19 DEF RetryJob
  <2>2. \A v \in Workers \ {w} : pc'[v] = pc[v] /\ job'[v] = job[v]
      BY <1>19 DEF RetryJob, Goto, Leave, LeaveTo
  <2>3. pc'[Cleaner] = pc[Cleaner]
      BY <1>19 DEF RetryJob, Goto, Leave, LeaveTo
  <2>4. \A e \in startedReg' : e[2] # w
    <3> SUFFICES ASSUME NEW e \in startedReg', e[2] = w PROVE FALSE
        OBVIOUS
    <3>1. e \in startedReg /\ e = <<e[1], w>> /\ e # <<job[w], w>>
        BY <2>1
    <3> QED
        BY <2>1, <3>1
  <2>5. /\ startedReg \subseteq Jobs \X Workers
        /\ batch \subseteq Jobs \X Workers
      OBVIOUS
  <2>6. \A e \in startedReg' : Performing(e[2], e[1])' \/ pc'[e[2]] = "dead"
    <3> SUFFICES ASSUME NEW e \in startedReg'
                 PROVE  Performing(e[2], e[1])' \/ pc'[e[2]] = "dead"
        OBVIOUS
    <3>1. e \in startedReg /\ e[2] \in Workers \ {w}
        BY <2>1, <2>4, <2>5
    <3>2. Performing(e[2], e[1]) \/ pc[e[2]] = "dead"
        BY <3>1
    <3> QED
        BY <2>2, <3>1, <3>2
  <2>7. \A e \in batch' : pc'[e[2]] = "dead"
    <3> SUFFICES ASSUME NEW e \in batch' PROVE pc'[e[2]] = "dead"
        OBVIOUS
    <3>1. pc[e[2]] = "dead" /\ e[2] \in Workers
        BY <2>1, <2>5
    <3> QED
        BY <2>1, <2>2, <3>1
  <2> QED
      BY <2>1, <2>3, <2>6, <2>7
<1>20. ASSUME NEW w \in Workers, FailJob(w) PROVE EntriesOK'
  <2>1. /\ pc[w] \in {"running", "success"} /\ job[w] \in Jobs
        /\ startedReg' \subseteq startedReg \ {<<job[w], w>>}
        /\ UNCHANGED round
      BY <1>20 DEF FailJob
  <2>2. \A v \in Workers \ {w} : pc'[v] = pc[v] /\ job'[v] = job[v]
      BY <1>20 DEF FailJob, Goto, Leave, LeaveTo
  <2>3. pc'[Cleaner] = pc[Cleaner]
      BY <1>20 DEF FailJob, Goto, Leave, LeaveTo
  <2>4. \A e \in startedReg' : e[2] # w
    <3> SUFFICES ASSUME NEW e \in startedReg', e[2] = w PROVE FALSE
        OBVIOUS
    <3>1. e \in startedReg /\ e = <<e[1], w>> /\ e # <<job[w], w>>
        BY <2>1
    <3> QED
        BY <2>1, <3>1
  <2>5. /\ startedReg \subseteq Jobs \X Workers
        /\ batch \subseteq Jobs \X Workers
      OBVIOUS
  <2>6. \A e \in startedReg' : Performing(e[2], e[1])' \/ pc'[e[2]] = "dead"
    <3> SUFFICES ASSUME NEW e \in startedReg'
                 PROVE  Performing(e[2], e[1])' \/ pc'[e[2]] = "dead"
        OBVIOUS
    <3>1. e \in startedReg /\ e[2] \in Workers \ {w}
        BY <2>1, <2>4, <2>5
    <3>2. Performing(e[2], e[1]) \/ pc[e[2]] = "dead"
        BY <3>1
    <3> QED
        BY <2>2, <3>1, <3>2
  <2>7. \A e \in batch' : pc'[e[2]] = "dead"
    <3> SUFFICES ASSUME NEW e \in batch' PROVE pc'[e[2]] = "dead"
        OBVIOUS
    <3>1. pc[e[2]] = "dead" /\ e[2] \in Workers
        BY <2>1, <2>5
    <3> QED
        BY <2>1, <2>2, <3>1
  <2> QED
      BY <2>1, <2>3, <2>6, <2>7
<1>21. ASSUME NEW w \in Workers, StopJob(w) PROVE EntriesOK'
  <2>1. /\ pc[w] \in {"running", "success"} /\ job[w] \in Jobs
        /\ startedReg' \subseteq startedReg \ {<<job[w], w>>}
        /\ UNCHANGED round
      BY <1>21 DEF StopJob
  <2>2. \A v \in Workers \ {w} : pc'[v] = pc[v] /\ job'[v] = job[v]
      BY <1>21 DEF StopJob, Goto, Leave, LeaveTo
  <2>3. pc'[Cleaner] = pc[Cleaner]
      BY <1>21 DEF StopJob, Goto, Leave, LeaveTo
  <2>4. \A e \in startedReg' : e[2] # w
    <3> SUFFICES ASSUME NEW e \in startedReg', e[2] = w PROVE FALSE
        OBVIOUS
    <3>1. e \in startedReg /\ e = <<e[1], w>> /\ e # <<job[w], w>>
        BY <2>1
    <3> QED
        BY <2>1, <3>1
  <2>5. /\ startedReg \subseteq Jobs \X Workers
        /\ batch \subseteq Jobs \X Workers
      OBVIOUS
  <2>6. \A e \in startedReg' : Performing(e[2], e[1])' \/ pc'[e[2]] = "dead"
    <3> SUFFICES ASSUME NEW e \in startedReg'
                 PROVE  Performing(e[2], e[1])' \/ pc'[e[2]] = "dead"
        OBVIOUS
    <3>1. e \in startedReg /\ e[2] \in Workers \ {w}
        BY <2>1, <2>4, <2>5
    <3>2. Performing(e[2], e[1]) \/ pc[e[2]] = "dead"
        BY <3>1
    <3> QED
        BY <2>2, <3>1, <3>2
  <2>7. \A e \in batch' : pc'[e[2]] = "dead"
    <3> SUFFICES ASSUME NEW e \in batch' PROVE pc'[e[2]] = "dead"
        OBVIOUS
    <3>1. pc[e[2]] = "dead" /\ e[2] \in Workers
        BY <2>1, <2>5
    <3> QED
        BY <2>1, <2>2, <3>1
  <2> QED
      BY <2>1, <2>3, <2>6, <2>7
<1>22. ASSUME NEW w \in Workers, Crash(w) PROVE EntriesOK'
    BY <1>22 DEF Crash, Spend, Unwatch, Goto, LeaveTo, NothingSeen, Ops
<1>23. ASSUME NEW a \in Workers \cup {Cleaner}, ReadDependents(a) PROVE EntriesOK'
    BY <1>23 DEF ReadDependents, Watch, Goto, Found, JobsToEnqueue, WatchedDependents
<1>24. ASSUME NEW a \in Workers \cup {Cleaner}, NoDependents(a) PROVE EntriesOK'
  <2>0. /\ a \notin Clients /\ pc'[a] \in {"idle", "cleaning"}
        /\ pc'[a] = "cleaning" => a = Cleaner
        /\ \A p \in Actors \ {a} : pc'[p] = pc[p] /\ job'[p] = job[p]
      BY ONLY Typed, <1>24, ResumeFacts DEF NoDependents
  <2>1. pc[a] \in {"dependents", "exec"} /\ UNCHANGED <<startedReg, round>>
      BY <1>24 DEF NoDependents
  <2>2. pc'[Cleaner] # "idle" \/ pc'[Cleaner] = pc[Cleaner]
    <3>1. CASE a = Cleaner
        BY <1>24, <3>1 DEF NoDependents, Resume
    <3>2. CASE a # Cleaner
        BY <2>0, <3>2
    <3> QED
        BY <3>1, <3>2
  <2>3. \A v \in Workers : v = a \/ (pc'[v] = pc[v] /\ job'[v] = job[v])
      BY <2>0
  <2>4. \A e \in startedReg \cup batch : e[2] \in Workers \ {a}
      BY <2>1
  <2>5. \A e \in startedReg' : Performing(e[2], e[1])' \/ pc'[e[2]] = "dead"
      BY <2>1, <2>3, <2>4
  <2>6. \A e \in batch' : pc'[e[2]] = "dead"
      BY <2>1, <2>3, <2>4
  <2> QED
      BY <2>1, <2>2, <2>5, <2>6
<1>25. ASSUME NEW a \in Workers \cup {Cleaner}, ExecDependents(a) PROVE EntriesOK'
  <2>0. /\ a \notin Clients /\ pc'[a] \in {"idle", "cleaning"}
        /\ pc'[a] = "cleaning" => a = Cleaner
        /\ \A p \in Actors \ {a} : pc'[p] = pc[p] /\ job'[p] = job[p]
      BY ONLY Typed, <1>25, ResumeFacts DEF ExecDependents
  <2>1. pc[a] \in {"dependents", "exec"} /\ UNCHANGED <<startedReg, round>>
      BY <1>25 DEF ExecDependents
  <2>2. pc'[Cleaner] # "idle" \/ pc'[Cleaner] = pc[Cleaner]
    <3>1. CASE a = Cleaner
        BY <1>25, <3>1 DEF ExecDependents, Resume
    <3>2. CASE a # Cleaner
        BY <2>0, <3>2
    <3> QED
        BY <3>1, <3>2
  <2>3. \A v \in Workers : v = a \/ (pc'[v] = pc[v] /\ job'[v] = job[v])
      BY <2>0
  <2>4. \A e \in startedReg \cup batch : e[2] \in Workers \ {a}
      BY <2>1
  <2>5. \A e \in startedReg' : Performing(e[2], e[1])' \/ pc'[e[2]] = "dead"
      BY <2>1, <2>3, <2>4
  <2>6. \A e \in batch' : pc'[e[2]] = "dead"
      BY <2>1, <2>3, <2>4
  <2> QED
      BY <2>1, <2>2, <2>5, <2>6
<1>26. ASSUME NEW a \in Workers \cup {Cleaner}, DependentsAgain(a) PROVE EntriesOK'
    BY <1>26 DEF DependentsAgain, Unwatch, Goto
<1>27. ASSUME StartCleanup PROVE EntriesOK'
  <2>1. /\ pc[Cleaner] = "idle" /\ pc' = [pc EXCEPT ![Cleaner] = "cleaning"]
        /\ batch' = {e \in startedReg : pc[e[2]] = "dead"}
        /\ todo' = {e[1] : e \in batch'}
        /\ UNCHANGED <<startedReg, job, toRetry, toFail>>
      BY <1>27 DEF StartCleanup, Expired, Goto
  <2>2. \A j \in Jobs : toRetry[j] = 0 /\ j \notin toFail
    <3>1. batch = {}
        BY <2>1
    <3>2. \A j \in Jobs : toRetry[j] \in Nat
        OBVIOUS
    <3> QED
        BY <3>1, <3>2
  <2>3. \A v \in Workers : pc'[v] = pc[v]
      BY <2>1
  <2>8. startedReg \subseteq Jobs \X Workers
      OBVIOUS
  <2>4. \A j \in todo' : \E w \in Workers : <<j, w>> \in batch'
    <3> SUFFICES ASSUME NEW j \in todo' PROVE \E w \in Workers : <<j, w>> \in batch'
        OBVIOUS
    <3>1. PICK e \in batch' : e[1] = j
        BY <2>1
    <3>2. e[2] \in Workers /\ e = <<j, e[2]>>
        BY <2>1, <2>8, <3>1
    <3>3. <<j, e[2]>> \in batch'
        BY ONLY <3>2
    <3> QED
        BY ONLY <3>2, <3>3
  <2>5. batch' \subseteq startedReg
      BY <2>1
  <2>6. \A e \in batch' : pc'[e[2]] = "dead"
      BY <2>1, <2>3, <2>8
  <2>10. todo' \subseteq Jobs
      BY <2>1, <2>8
  <2>9. \A e \in startedReg' : Performing(e[2], e[1])' \/ pc'[e[2]] = "dead"
      BY <2>1, <2>3, <2>8
  <2>7. pc'[Cleaner] # "idle"
      BY <2>1
  <2>11. \A j \in Jobs : toRetry'[j] = 0 /\ j \notin toFail'
      BY <2>1, <2>2
  <2>12. ASSUME NEW j \in Jobs, j \in todo' \/ j \in toFail' \/ toRetry'[j] > 0
         PROVE  \E w \in Workers : <<j, w>> \in batch'
    <3>1. toRetry'[j] = 0 /\ j \notin toFail'
        BY ONLY <2>11, j \in Jobs
    <3>2. j \in todo'
        BY ONLY <2>12, <3>1
    <3> QED
        BY ONLY <2>4, <3>2
  <2>13. ASSUME NEW j \in todo' PROVE j \notin toFail' /\ toRetry'[j] = 0
    <3>1. j \in Jobs
        BY ONLY <2>10, j \in todo'
    <3> QED
        BY ONLY <2>11, <3>1
  <2>14. toFail' = {}
      BY <2>1, <2>2
  <2> QED
      BY ONLY <2>6, <2>7, <2>9, <2>12, <2>13, <2>14 DEF EntriesOK
<1>28. ASSUME NEW j \in Jobs, SkipJob(j) PROVE EntriesOK'
    BY <1>28 DEF SkipJob
<1>29. ASSUME NEW j \in Jobs, CleanupRetry(j) PROVE EntriesOK'
  <2>1. /\ j \in todo /\ todo' = todo \ {j} /\ pc[Cleaner] = "cleaning"
        /\ toRetry' = [toRetry EXCEPT ![j] = retries[j]]
        /\ UNCHANGED <<startedReg, batch, toFail, pc, job>>
      BY <1>29 DEF CleanupRetry
  <2>2. \A h \in Jobs \ {j} : toRetry'[h] = toRetry[h]
      BY <2>1
  <2>3. \A e \in startedReg' : Performing(e[2], e[1])' \/ pc'[e[2]] = "dead"
      BY <2>1
  <2>4. \A e \in batch' : pc'[e[2]] = "dead"
      BY <2>1
  <2>10. \A h \in Jobs : h \in todo \/ h \in toFail \/ toRetry[h] > 0 =>
            \E v \in Workers : <<h, v>> \in batch
      OBVIOUS
  <2>5. \A h \in Jobs : h \in todo' \/ h \in toFail' \/ toRetry'[h] > 0 =>
           \E v \in Workers : <<h, v>> \in batch'
      BY ONLY <2>1, <2>2, <2>10
  <2>8. todo \subseteq Jobs /\ toFail \subseteq Jobs
      OBVIOUS
  <2>9. j \notin toFail /\ (\A h \in todo : h \notin toFail /\ toRetry[h] = 0)
        /\ \A h \in toFail : toRetry[h] = 0
      BY <2>1
  <2>6. /\ \A h \in todo' : h \notin toFail' /\ toRetry'[h] = 0
        /\ \A h \in toFail' : toRetry'[h] = 0
      BY ONLY <2>1, <2>2, <2>8, <2>9
  <2>7. pc'[Cleaner] # "idle"
      BY <2>1
  <2> QED
      BY ONLY <2>3, <2>4, <2>5, <2>6, <2>7 DEF EntriesOK
<1>30. ASSUME NEW j \in Jobs, CleanupFail(j) PROVE EntriesOK'
    BY <1>30 DEF CleanupFail, Goto
<1>31. ASSUME EndCleanup PROVE EntriesOK'
    BY <1>31 DEF EndCleanup, Write, Goto, Leave, LeaveTo, NothingSeen, Pushed, TouchedSets, Less
<1>32. ASSUME NEW j \in Jobs, Expire(j) PROVE EntriesOK'
    BY <1>32 DEF Expire, WithStatus
<1>33. ASSUME UNCHANGED vars PROVE EntriesOK'
    BY <1>33 DEF vars
<1> HIDE DEF Typed, TypeOK, RedisTypeOK, TxTypeOK, LocalsTypeOK, RoundTypeOK, EnvTypeOK,
   ActorsOK, Actors, Statuses, PCs, Busy, redis, tx, locals, round, env, EntriesOK, Performing
<1> QED
    BY <1>1, <1>2, <1>3, <1>4, <1>5, <1>6, <1>7, <1>8, <1>9, <1>10, <1>11, <1>12, <1>13, <1>14,
       <1>15, <1>16, <1>17, <1>18, <1>19, <1>20, <1>21, <1>22, <1>23, <1>24, <1>25, <1>26,
       <1>27, <1>28, <1>29, <1>30, <1>31, <1>32, <1>33
       DEF Next, ClientNext, WorkerNext, CleanerNext, DependentsNext

\* A step that concerns no other jobs than those of K.
Only(K) ==
    /\ saved \subseteq saved'
    /\ \A j \in Jobs \ K :
          /\ status'[j] = status[j] /\ queue'[j] = queue[j]
          /\ j \in saved' => j \in saved
          /\ \A w \in Workers : Holds(w, j)' => Holds(w, j)
    /\ \A w \in Workers : \A j \in Jobs :
          Listed(w, j)' => Listed(w, j) /\ job'[w] = job[w]
    /\ \A d \in Jobs : \A j \in dependents'[d] : j \in dependents[d] \/ MemberOK(j, d)'

\* Nothing that is settled comes back.
Advance == WorkOK' /\ \A j \in Jobs : Settled(j) => Settled(j)'

\* Such a step keeps what it does not concern.
LEMMA OnlyStep ==
    ASSUME Typed, WorkOK, NEW K, Only(K),
           \A k \in Jobs \cap K :
              OneOK(k)' /\ (Settled(k) => Settled(k)') /\ (Waits(k) => Waits(k)')
    PROVE  Advance
<1>1. \A j \in Jobs \ K : Idle(j) => Idle(j)'
    BY DEF Only, Idle
<1>2. \A j \in Jobs : Settled(j) => Settled(j)'
    BY <1>1 DEF Only, Settled
<1>3. \A j \in Jobs : Waits(j) => Waits(j)'
    BY <1>1 DEF Only, Waits, Idle
<1>4. \A j \in Jobs : OneOK(j)'
  <2> SUFFICES ASSUME NEW j \in Jobs \ K PROVE OneOK(j)'
      OBVIOUS
  <2>1. OneOK(j)
      BY DEF WorkOK
  <2>2. (j \in saved)' = (j \in saved) /\ status'[j] = status[j] /\ queue'[j] = queue[j]
        /\ \A w \in Workers : Holds(w, j)' => Holds(w, j)
      BY DEF Only
  <2>3. Done(j)' => Done(j)
      BY <2>2 DEF Done
  <2> QED
      BY <1>2, <2>1, <2>2, <2>3 DEF OneOK
<1>5. ASSUME NEW d \in Jobs, NEW j \in dependents'[d] PROVE MemberOK(j, d)'
  <2>1. CASE j \in dependents[d]
    <3>1. MemberOK(j, d) /\ j \in Jobs
        BY <2>1 DEF WorkOK, Typed, TypeOK, RedisTypeOK
    <3>2. j \in saved' /\ DependsOn[j] \subseteq saved'
        BY <3>1 DEF MemberOK, Only
    <3> QED
        BY <1>2, <1>3, <3>1, <3>2 DEF MemberOK
  <2> QED
      BY <2>1 DEF Only
<1>6. ASSUME NEW w \in Workers, NEW j \in Jobs, Listed(w, j)' PROVE ListOK(w, j)'
  <2>1. ListOK(w, j) /\ job'[w] = job[w]
      BY <1>6 DEF WorkOK, Only
  <2>2. DependsOn[j] \subseteq Jobs
      BY JobsAssumption
  <2> QED
      BY <1>2, <1>3, <2>1, <2>2 DEF ListOK
<1> QED
    BY <1>2, <1>4, <1>5, <1>6 DEF WorkOK, Advance

\* What holds of a job that a worker performs, or has died over.
LEMMA HeldFacts ==
    ASSUME Typed, WorkOK, NEW w \in Workers, NEW k \in Jobs, Holds(w, k)
    PROVE  /\ k \in saved /\ status[k] # "deferred" /\ queue[k] = 0
           /\ \A v \in Workers : Holds(v, k) => v = w
           /\ ~Idle(k) /\ ~Settled(k) /\ ~Waits(k) /\ ~Done(k)
           /\ \A v \in Workers : ~Listed(v, k)
<1>1. OneOK(k) /\ queue[k] \in Nat
    BY DEF WorkOK, Typed, TypeOK, RedisTypeOK
<1>2. ~Idle(k) /\ ~Settled(k)
    BY DEF Idle, Settled
<1>3. k \in saved /\ status[k] # "deferred" /\ queue[k] = 0
      /\ \A v \in Workers : Holds(v, k) => v = w
    BY <1>1 DEF OneOK
<1>4. ~Waits(k) /\ ~Done(k)
    BY <1>1, <1>2, <1>3 DEF OneOK, Waits
<1>5. \A v \in Workers : ~Listed(v, k)
    BY <1>4 DEF WorkOK, ListOK
<1> QED
    BY <1>2, <1>3, <1>4, <1>5

\* RetryJob, FailJob and StopJob: worker w is done with job k, which gets status
\* s and goes back to the queue or not.
LEMMA EndStep ==
    ASSUME Typed, EntriesOK, WorkOK, NEW w \in Workers, NEW k \in Jobs,
           NEW s \in {"queued", "failed", "stopped"}, NEW K \in {{}, {k}},
           Performing(w, k), status' = WithStatus({k}, s), queue' = Pushed(K),
           startedReg' = startedReg \ {<<k, w>>}, UNCHANGED <<dependents, saved, batch>>,
           pc'[w] \in {"idle", "dependents"},
           \A v \in Workers \ {w} : pc'[v] = pc[v] /\ job'[v] = job[v] /\ ready'[v] = ready[v]
    PROVE  Advance /\ (K = {} => Settled(k)')
<1> USE DEF Typed, TypeOK, RedisTypeOK
<1>1. Holds(w, k)
    BY DEF Holds
<1>2. \A j \in Jobs : ~Holds(w, j)'
  <2>1. \A j \in Jobs : ~Performing(w, j)'
      BY DEF Performing
  <2>2. \A j \in Jobs : <<j, w>> \notin startedReg \cup batch \/ j = k
      BY DEF EntriesOK, Performing
  <2>3. <<k, w>> \notin batch
      BY DEF EntriesOK, Performing
  <2> QED
      BY <2>1, <2>2, <2>3 DEF Holds
<1>3. \A v \in Workers \ {w} : \A j \in Jobs : Holds(v, j)' => Holds(v, j)
    BY DEF Holds, Performing
<1>4. \A v \in Workers : \A j \in Jobs : Listed(v, j)' => Listed(v, j) /\ job'[v] = job[v]
    BY DEF Listed
<1>5. /\ status'[k] = s /\ queue'[k] <= queue[k] + 1
      /\ \A j \in Jobs \ {k} : status'[j] = status[j] /\ queue'[j] = queue[j]
    BY DEF WithStatus, Pushed
<1>6. Only({k})
    BY <1>2, <1>3, <1>4, <1>5 DEF Only
<1>7. k \in saved /\ queue[k] = 0 /\ ~Settled(k) /\ ~Waits(k)
      /\ \A v \in Workers : Holds(v, k) => v = w
    BY <1>1, HeldFacts
<1>8. OneOK(k)'
  <2>1. \A v \in Workers : ~Holds(v, k)'
      BY <1>2, <1>3, <1>7
  <2>2. queue'[k] <= 1 /\ k \in saved' /\ status'[k] \in {"queued", "failed", "stopped"}
      BY <1>5, <1>7
  <2> QED
      BY <2>1, <2>2 DEF OneOK, Done
<1>9. ASSUME K = {} PROVE Settled(k)'
  <2>1. k \in saved' /\ status'[k] # "deferred" /\ queue'[k] = 0
      BY <1>5, <1>7, <1>9 DEF Pushed
  <2>2. \A v \in Workers : ~Holds(v, k)' /\ ~Listed(v, k)'
      BY <1>1, <1>2, <1>3, <1>4, <1>7, HeldFacts
  <2> QED
      BY <2>1, <2>2 DEF Settled, Idle
<1> QED
    BY <1>6, <1>7, <1>8, <1>9, OnlyStep

\* No worker comes to enqueue_dependents, and the step gives only the jobs of K
\* another status, or cancels a job.
KeptUp(K) ==
    /\ \A j \in Jobs \ K : status'[j] = status[j] \/ status'[j] = "canceled"
    /\ \A w \in Workers : pc'[w] = "dependents" =>
          pc[w] = "dependents" /\ job'[w] = job[w]

\* Such a step leaves what was given up as it was, if none of K was.
LEMMA UpStep ==
    ASSUME Typed, FailedOK, Advance, NEW K, KeptUp(K),
           \A k \in Jobs \cap K : ~Settled(k) \/ status[k] = "finished"
    PROVE  FailedOK'
<1> SUFFICES ASSUME NEW w \in Workers, pc'[w] = "dependents"
             PROVE  Settled(job[w])' /\ status'[job'[w]] \in {"failed", "stopped", "canceled"}
    BY DEF FailedOK
<1>1. pc[w] = "dependents" /\ job'[w] = job[w]
    BY DEF KeptUp
<1>2. Settled(job[w]) /\ status[job[w]] \in {"failed", "stopped", "canceled"}
      /\ job[w] \in Jobs
    BY <1>1 DEF FailedOK, Typed, ActorsOK, Busy, Actors
<1>3. status'[job[w]] = status[job[w]] \/ status'[job[w]] = "canceled"
    BY <1>2 DEF KeptUp
<1>4. \A j \in Jobs : j = job[w] => Settled(j)'
    BY <1>2 DEF Advance
<1> QED
    BY <1>1, <1>2, <1>3, <1>4 DEF Settled, Idle, Holds, Performing, Listed

\* Every step keeps one entry, or one worker, for each job, and what is settled
\* stays so.
LEMMA WorkNext ==
    ASSUME AllowFailure = {}, Local, WorkOK, FailedOK, [Next]_vars
    PROVE  Advance
<1> USE JobsAssumption, ActorsAssumption
        DEF Typed, TypeOK, RedisTypeOK, TxTypeOK, LocalsTypeOK, RoundTypeOK, EnvTypeOK,
           ActorsOK, Actors, Statuses, PCs, Busy, redis, tx, locals, round, env, Local
<1>1. ASSUME NEW c \in Clients, NEW j \in Jobs, EnqueueCall(c, j) PROVE Advance
  <2>1. Only({})
      BY <1>1 DEF EnqueueCall, TakeUp, Only, Holds, Performing, Listed
  <2> QED
      BY <2>1, OnlyStep
<1>2. ASSUME NEW c \in Clients, FindUnfinished(c) PROVE Advance
  <2>1. Only({})
      BY <1>2 DEF FindUnfinished, Watch, Goto, Only, Holds, Performing, Listed
  <2> QED
      BY <2>1, OnlyStep
<1>3. ASSUME NEW c \in Clients, FindNoneUnfinished(c) PROVE Advance
  <2>1. Only({})
      BY <1>3 DEF FindNoneUnfinished, Goto, Only, Holds, Performing, Listed
  <2> QED
      BY <2>1, OnlyStep
<1>4. ASSUME NEW c \in Clients, Defer(c) PROVE Advance
  <2>0. PICK k \in Jobs : k = job[c] /\ pc[c] = "defer"
      BY <1>4 DEF Defer
  <2>1. /\ k \notin saved /\ DependsOn[k] \subseteq saved
        /\ status' = WithStatus({k}, "deferred")
        /\ dependents' = [d \in Jobs |-> IF d \in DependsOn[k] THEN dependents[d] \cup {k}
                                                               ELSE dependents[d]]
        /\ saved' = saved \cup {k}
        /\ UNCHANGED <<queue, startedReg, batch>>
      BY <1>4, <2>0 DEF Defer, KnownOK, Released, Calling
  <2>2. \A w \in Workers : pc'[w] = pc[w] /\ job'[w] = job[w] /\ ready'[w] = ready[w]
      BY <1>4 DEF Defer, Leave, LeaveTo, Goto
  <2>3. \A w \in Workers : \A j \in Jobs :
           (Holds(w, j)' => Holds(w, j))
           /\ (Listed(w, j)' => Listed(w, j) /\ job'[w] = job[w])
      BY <2>1, <2>2 DEF Holds, Performing, Listed
  <2>4. status'[k] = "deferred" /\ \A j \in Jobs \ {k} : status'[j] = status[j]
      BY <2>1 DEF WithStatus
  <2>5. ~Settled(k) /\ ~Waits(k) /\ OneOK(k) /\ status[k] = "absent"
      BY <2>1 DEF Settled, Idle, Waits, KnownOK, Released, Calling, WorkOK
  <2>6. OneOK(k)'
      BY <2>1, <2>3, <2>4, <2>5 DEF OneOK, Done
  <2>7. \A d \in Jobs : \A j \in dependents'[d] : j \in dependents[d] \/ MemberOK(j, d)'
      BY <2>1, <2>4 DEF MemberOK, Waits
  <2>8. Only({k})
      BY <2>1, <2>3, <2>4, <2>7 DEF Only
  <2> QED
      BY <2>5, <2>6, <2>8, OnlyStep
<1>5. ASSUME NEW c \in Clients, DeferAgain(c) PROVE Advance
  <2>1. Only({})
      BY <1>5 DEF DeferAgain, Unwatch, Goto, Only, Holds, Performing, Listed
  <2> QED
      BY <2>1, OnlyStep
<1>6. ASSUME NEW c \in Clients, Enqueue(c) PROVE Advance
  <2>0. PICK k \in Jobs : k = job[c] /\ pc[c] = "enqueue"
      BY <1>6 DEF Enqueue
  <2>1. /\ k \notin saved
        /\ status' = WithStatus({k}, "queued")
        /\ queue' = Pushed({k})
        /\ saved' = saved \cup {k}
        /\ UNCHANGED <<dependents, startedReg, batch>>
      BY <1>6, <2>0 DEF Enqueue, KnownOK, Released, Calling
  <2>2. \A w \in Workers : pc'[w] = pc[w] /\ job'[w] = job[w] /\ ready'[w] = ready[w]
      BY <1>6 DEF Enqueue, Leave, LeaveTo, Goto
  <2>3. \A w \in Workers : \A j \in Jobs :
           (Holds(w, j)' => Holds(w, j))
           /\ (Listed(w, j)' => Listed(w, j) /\ job'[w] = job[w])
      BY <2>1, <2>2 DEF Holds, Performing, Listed
  <2>4. /\ status'[k] = "queued" /\ queue'[k] = queue[k] + 1
        /\ \A j \in Jobs \ {k} : status'[j] = status[j] /\ queue'[j] = queue[j]
      BY <2>1 DEF WithStatus, Pushed
  <2>5. ~Settled(k) /\ ~Waits(k) /\ OneOK(k) /\ status[k] = "absent"
      BY <2>1 DEF Settled, Idle, Waits, KnownOK, Released, Calling, WorkOK
  <2>6. OneOK(k)'
    <3>1. queue[k] = 0 /\ \A w \in Workers : ~Holds(w, k)
        BY <2>1, <2>5 DEF OneOK
    <3> QED
        BY <2>1, <2>3, <2>4, <3>1 DEF OneOK, Done
  <2>8. Only({k})
      BY <2>1, <2>3, <2>4 DEF Only
  <2> QED
      BY <2>5, <2>6, <2>8, OnlyStep
<1>7. ASSUME NEW c \in Clients, NEW j \in Jobs, Cancel(c, j) PROVE Advance
  <2>1. Only({})
      BY <1>7 DEF Cancel, Spend, TakeUp, Look, Ops, Only, Holds, Performing, Listed
  <2> QED
      BY <2>1, OnlyStep
<1>8. ASSUME NEW c \in Clients, NEW forget \in BOOLEAN, ExecCancel(c, forget) PROVE Advance
  <2>0. PICK k \in Jobs : k = job[c] /\ pc[c] = "cancel"
      BY <1>8 DEF ExecCancel
  <2>1. /\ k \in saved
        /\ status' = WithStatus({k}, "canceled")
        /\ queue' = [queue EXCEPT ![k] = IF @ > 0 THEN @ - 1 ELSE 0]
        /\ startedReg' \subseteq startedReg
        /\ \A d \in Jobs : dependents'[d] \subseteq dependents[d]
        /\ UNCHANGED <<saved, batch>>
      BY <1>8, <2>0 DEF ExecCancel, KnownOK, Released, Calling
  <2>2. \A w \in Workers : pc'[w] = pc[w] /\ job'[w] = job[w] /\ ready'[w] = ready[w]
      BY <1>8 DEF ExecCancel, Leave, LeaveTo, Goto
  <2>3. \A w \in Workers : \A j \in Jobs :
           (Holds(w, j)' => Holds(w, j))
           /\ (Listed(w, j)' => Listed(w, j) /\ job'[w] = job[w])
      BY <2>1, <2>2 DEF Holds, Performing, Listed
  <2>4. /\ status'[k] = "canceled" /\ queue'[k] = 0
        /\ \A j \in Jobs \ {k} : status'[j] = status[j] /\ queue'[j] = queue[j]
    <3>1. queue[k] \in Nat /\ queue[k] <= 1
        BY <2>1 DEF WorkOK, OneOK
    <3> QED
        BY <2>1, <3>1 DEF WithStatus
  <2>5. OneOK(k)
      BY <2>1 DEF WorkOK
  <2>6. OneOK(k)'
    <3>1. k \in saved' /\ status'[k] \notin {"deferred", "absent", "finished"} /\ queue'[k] = 0
        BY <2>1, <2>4
    <3>2. \A v, w \in Workers : Holds(v, k)' /\ Holds(w, k)' => v = w
        BY <2>3, <2>5 DEF OneOK
    <3> QED
        BY <3>1, <3>2 DEF OneOK, Done
  <2>7. Settled(k) => Settled(k)'
      BY <2>1, <2>3, <2>4 DEF Settled, Idle
  <2>8. Waits(k) => Waits(k)'
      BY <2>1, <2>3, <2>4, <2>5 DEF Waits, Idle, OneOK
  <2>9. Only({k})
      BY <2>1, <2>3, <2>4 DEF Only
  <2> QED
      BY <2>6, <2>7, <2>8, <2>9, OnlyStep
<1>9. ASSUME NEW c \in Clients, NEW j \in Jobs, Requeue(c, j) PROVE Advance
    BY <1>9 DEF Requeue, NoneRequeued, Spend
<1>10. ASSUME NEW c \in Clients, ExecRequeue(c) PROVE Advance
    BY <1>10 DEF ExecRequeue, NoneRequeued, Spend
<1>11. ASSUME NEW w \in Workers, NEW j \in Jobs, Dequeue(w, j) PROVE Advance
  <2>1. /\ queue[j] > 0 /\ status[j] # "absent" /\ pc[w] = "idle"
        /\ queue' = [queue EXCEPT ![j] = @ - 1]
        /\ pc' = [pc EXCEPT ![w] = "dequeued"] /\ job' = [job EXCEPT ![w] = j]
        /\ UNCHANGED <<status, dependents, startedReg, batch, saved, ready>>
      BY <1>11 DEF Dequeue, Goto
  <2>2. OneOK(j) /\ queue[j] \in Nat
      BY DEF WorkOK
  <2>3. /\ queue'[j] = 0 /\ j \in saved /\ status[j] # "deferred"
        /\ \A v \in Workers : ~Holds(v, j)
      BY <2>1, <2>2 DEF OneOK
  <2>4. \A v \in Workers : \A i \in Jobs :
           (Holds(v, i)' => Holds(v, i) \/ (v = w /\ i = j))
           /\ (Listed(v, i)' => Listed(v, i) /\ job'[v] = job[v])
      BY <2>1 DEF Holds, Performing, Listed
  <2>5. ~Settled(j) /\ ~Waits(j)
      BY <2>1, <2>3 DEF Settled, Waits, Idle
  <2>6. OneOK(j)'
      BY <2>1, <2>2, <2>3, <2>4, <2>5 DEF OneOK, Done
  <2>7. Only({j})
      BY <2>1, <2>4 DEF Only
  <2> QED
      BY <2>5, <2>6, <2>7, OnlyStep
<1>12. ASSUME NEW w \in Workers, NEW j \in Jobs, DropId(w, j) PROVE Advance
  <2>1. queue[j] > 0 /\ status[j] = "absent" /\ queue[j] \in Nat
      BY <1>12 DEF DropId
  <2>2. OneOK(j)
      BY DEF WorkOK
  <2> QED
      BY <2>1, <2>2 DEF OneOK, Done, Settled, Idle
<1>13. ASSUME NEW w \in Workers, PrepareExecution(w) PROVE Advance
  <2>1. Only({})
      BY <1>13 DEF PrepareExecution, Goto, Only, Holds, Performing, Listed
  <2> QED
      BY <2>1, OnlyStep
<1>14. ASSUME NEW w \in Workers, Start(w) PROVE Advance
  <2>0. PICK k \in Jobs : k = job[w] /\ pc[w] = "prepared"
      BY <1>14 DEF Start
  <2>1. /\ status' = WithStatus({k}, "started")
        /\ pc' = [pc EXCEPT ![w] = "running"]
        /\ UNCHANGED <<queue, dependents, startedReg, batch, saved, job, ready>>
      BY <1>14, <2>0 DEF Start, Goto
  <2>2. \A v \in Workers : \A j \in Jobs :
           (Holds(v, j)' => Holds(v, j))
           /\ (Listed(v, j)' => Listed(v, j) /\ job'[v] = job[v])
      BY <2>0, <2>1 DEF Holds, Performing, Listed
  <2>3. status'[k] = "started" /\ \A j \in Jobs \ {k} : status'[j] = status[j]
      BY <2>1 DEF WithStatus
  <2>4. Holds(w, k)
      BY <2>0 DEF Holds, Performing
  <2>5. OneOK(k) /\ ~Settled(k) /\ ~Waits(k)
      BY <2>1, <2>4, HeldFacts DEF WorkOK
  <2>6. OneOK(k)'
      BY <2>1, <2>2, <2>3, <2>5 DEF OneOK, Done
  <2>7. Only({k})
      BY <2>1, <2>2, <2>3 DEF Only
  <2> QED
      BY <2>5, <2>6, <2>7, OnlyStep
<1>15. ASSUME NEW w \in Workers, Heartbeat(w) PROVE Advance
  <2>1. Only({})
      BY <1>15 DEF Heartbeat, Interfere, Only, Holds, Performing, Listed
  <2> QED
      BY <2>1, OnlyStep
<1>16. ASSUME NEW w \in Workers, ReadSuccess(w) PROVE Advance
  <2> DEFINE p == job[w]
             R == JobsToEnqueue(p, status[p])
  <2>1. /\ p \in Jobs /\ pc[w] = "running"
        /\ ready' = [ready EXCEPT ![w] = R]
        /\ pc' = [pc EXCEPT ![w] = "success"]
        /\ UNCHANGED <<status, dependents, queue, startedReg, batch, saved, job>>
      BY <1>16 DEF ReadSuccess, Goto
  <2>2. Holds(w, p)
      BY <2>1 DEF Holds, Performing
  <2>3. \A v \in Workers : \A j \in Jobs :
           (Holds(v, j)' => Holds(v, j)) /\ (Listed(v, j)' => Listed(v, j) \/ (v = w /\ j \in R))
      BY <2>1 DEF Holds, Performing, Listed
  <2>4. ASSUME NEW j \in R
        PROVE  /\ j \in Jobs /\ p \in DependsOn[j] /\ status[j] = "deferred"
               /\ \A d \in DependsOn[j] \ {p} : Settled(d)
    <3>1. j \in dependents[p] /\ j \in Jobs /\ status[j] \notin {"absent", "canceled"}
          /\ \A d \in DependsOn[j] \ {p} : status[d] \in {"absent", "finished"}
        BY <2>1 DEF JobsToEnqueue, DependenciesAreMet
    <3>2. MemberOK(j, p) /\ ~Settled(p)
        BY <2>1, <2>2, <3>1, HeldFacts DEF WorkOK
    <3>3. DependsOn[j] \subseteq Jobs
        BY <3>1
    <3> QED
        BY <3>1, <3>2, <3>3 DEF MemberOK, Waits, WorkOK, OneOK, Done
  <2>5. \A j \in Jobs : Idle(j) => Idle(j)'
      BY <2>1, <2>3 DEF Idle
  <2>6. \A j \in Jobs : Settled(j) => Settled(j)'
      BY <2>3, <2>4, <2>5 DEF Settled, Idle
  <2>7. \A j \in Jobs : Waits(j) => Waits(j)'
      BY <2>1, <2>5 DEF Waits
  <2>8. \A j \in Jobs : OneOK(j)'
      BY <2>1, <2>3, <2>6 DEF WorkOK, OneOK, Done
  <2>9. ASSUME NEW d \in Jobs, NEW j \in dependents'[d] PROVE MemberOK(j, d)'
    <3>1. j \in Jobs /\ MemberOK(j, d)
        BY <2>1 DEF WorkOK
    <3> QED
        BY <2>1, <2>6, <2>7, <3>1 DEF MemberOK
  <2>10. ASSUME NEW v \in Workers, NEW j \in Jobs, Listed(v, j)' PROVE ListOK(v, j)'
    <3>1. job'[v] = job[v] /\ DependsOn[j] \subseteq Jobs
        BY <2>1
    <3>2. CASE Listed(v, j)
        BY <2>6, <2>7, <3>1, <3>2 DEF WorkOK, ListOK
    <3>3. CASE v = w /\ j \in R
      <4>1. /\ p \in DependsOn[j] /\ status[j] = "deferred"
            /\ \A d \in DependsOn[j] \ {p} : Settled(d)
          BY <2>4, <3>3
      <4> QED
          BY <2>6, <2>7, <3>1, <3>3, <4>1 DEF ListOK, Waits
    <3> QED
        BY <2>3, <2>10, <3>2, <3>3
  <2> QED
      BY <2>6, <2>8, <2>9, <2>10 DEF WorkOK, Advance
<1>17. ASSUME NEW w \in Workers, ExecSuccess(w) PROVE Advance
  <2>0. PICK p \in Jobs, R \in SUBSET Jobs, l \in Nat :
           pc[w] = "success" /\ p = job[w] /\ R = ready[w] /\ l = left[w]
      BY <1>17 DEF ExecSuccess
  <2>1. /\ pc[w] = "success"
        /\ status' = [WithStatus(R, "queued") EXCEPT ![p] = AfterSuccess(p, l)]
        /\ queue' = Pushed(R \cup (IF l > 0 THEN {p} ELSE {}))
        /\ dependents' = [dependents EXCEPT ![p] =
                            IF AfterSuccess(p, l) = "absent" THEN {} ELSE @ \ R]
        /\ startedReg' \subseteq startedReg \ {<<p, w>>}
        /\ UNCHANGED <<saved, batch>>
      BY <1>17, <2>0 DEF ExecSuccess
  <2>2. /\ \A v \in Workers \ {w} : pc'[v] = pc[v] /\ job'[v] = job[v] /\ ready'[v] = ready[v]
        /\ pc'[w] = "idle"
      BY <1>17 DEF ExecSuccess, Leave, LeaveTo, Goto
  <2>3. /\ Performing(w, p) /\ Holds(w, p)
        /\ \A j \in R : Listed(w, j) /\ ListOK(w, j)
      BY <2>0, <2>1 DEF Holds, Performing, Listed, WorkOK
  <2>4. \A j \in Jobs : ~Holds(w, j)'
    <3>1. \A j \in Jobs : ~Performing(w, j)'
        BY <2>2 DEF Performing
    <3>2. \A j \in Jobs : <<j, w>> \notin startedReg \cup batch \/ j = p
        BY <2>0, <2>1 DEF EntriesOK, Performing
    <3>3. <<p, w>> \notin batch
        BY <2>1 DEF EntriesOK
    <3> QED
        BY <2>1, <3>1, <3>2, <3>3 DEF Holds
  <2>5. \A v \in Workers : \A j \in Jobs : Holds(v, j)' => v # w /\ Holds(v, j)
      BY <2>1, <2>2, <2>4 DEF Holds, Performing
  <2>6. \A v \in Workers : \A j \in Jobs :
           Listed(v, j)' => v # w /\ Listed(v, j) /\ job'[v] = job[v]
      BY <2>2 DEF Listed
  <2>7. /\ p \in saved /\ queue[p] = 0 /\ p \notin R
        /\ \A v \in Workers : (Holds(v, p) => v = w) /\ ~Listed(v, p)
        /\ ~Settled(p) /\ ~Waits(p)
    <3>1. /\ p \in saved /\ queue[p] = 0 /\ ~Settled(p) /\ ~Waits(p)
          /\ \A v \in Workers : (Holds(v, p) => v = w) /\ ~Listed(v, p)
        BY <2>1, <2>3, HeldFacts
    <3> QED
        BY <2>3, <3>1
  <2>8. /\ status'[p] = AfterSuccess(p, l)
        /\ queue'[p] = IF l > 0 THEN 1 ELSE 0
        /\ \A j \in R : status'[j] = "queued" /\ queue'[j] = queue[j] + 1
        /\ \A j \in Jobs \ (R \cup {p}) : status'[j] = status[j] /\ queue'[j] = queue[j]
      BY <2>1, <2>7 DEF WithStatus, Pushed
  <2>9. \A j \in R : /\ j \in saved /\ queue[j] = 0 /\ \A v \in Workers : ~Holds(v, j)
                     /\ \A v \in Workers : v # w => ~Listed(v, j)
    <3> SUFFICES ASSUME NEW j \in R
                 PROVE  /\ j \in saved /\ queue[j] = 0 /\ \A v \in Workers : ~Holds(v, j)
                        /\ \A v \in Workers : v # w => ~Listed(v, j)
        OBVIOUS
    <3>1. OneOK(j) /\ Waits(j) /\ j \in Jobs /\ queue[j] \in Nat
        BY <2>1, <2>3 DEF WorkOK, ListOK
    <3>2. j \in saved /\ queue[j] = 0 /\ \A v \in Workers : ~Holds(v, j)
        BY <3>1 DEF OneOK, Waits, Idle, KnownOK, Released, Calling
    <3>3. ASSUME NEW v \in Workers \ {w}, Listed(v, j) PROVE FALSE
      <4>1. ListOK(v, j) /\ ListOK(w, j)
          BY <2>3, <3>1, <3>3 DEF WorkOK
      <4>2. job[v] \in Jobs /\ Holds(v, job[v])
          BY <3>3 DEF Listed, Holds, Performing
      <4>3. ~Settled(job[v])
          BY <4>2, HeldFacts
      <4>4. job[v] = p
          BY <2>0, <4>1, <4>3 DEF ListOK
      <4> QED
          BY <2>7, <3>3, <4>2, <4>4
    <3> QED
        BY <3>2, <3>3
  <2>10. \A j \in Jobs : Settled(j) => j \notin R \cup {p}
      BY <2>3, <2>7 DEF Settled
  <2>11. \A j \in Jobs \ (R \cup {p}) : Idle(j) => Idle(j)'
      BY <2>1, <2>5, <2>8 DEF Idle
  <2>12. \A j \in Jobs : Settled(j) => Settled(j)'
      BY <2>6, <2>10, <2>11 DEF Settled
  <2>13. \A j \in Jobs \ (R \cup {p}) : Waits(j) => Waits(j)'
      BY <2>8, <2>11 DEF Waits
  <2>14. ASSUME NEW j \in Jobs PROVE OneOK(j)'
    <3>1. CASE j \in R
      <4>1. \A v \in Workers : ~Holds(v, j)'
          BY <2>5, <2>9, <3>1
      <4>2. queue'[j] = 1 /\ status'[j] = "queued" /\ j \in saved'
        <5>1. queue'[j] = queue[j] + 1 /\ status'[j] = "queued"
            BY <2>8, <3>1
        <5>2. queue[j] = 0 /\ j \in saved
            BY <2>9, <3>1
        <5> QED
            BY <2>1, <5>1, <5>2
      <4> QED
          BY <4>1, <4>2 DEF OneOK, Done
    <3>2. CASE j = p
      <4>1. \A v \in Workers : ~Holds(v, j)' /\ ~Listed(v, j)'
          BY <2>5, <2>6, <2>7, <3>2
      <4>2. status'[j] \in {"queued", "absent", "finished"} /\ (Done(j)' => l = 0)
          BY <2>1, <2>8, <3>2 DEF AfterSuccess, Done
      <4>3. Done(j)' => Settled(j)'
          BY <2>1, <2>7, <2>8, <3>2, <4>1, <4>2 DEF Settled, Idle
      <4> QED
          BY <2>1, <2>7, <2>8, <3>2, <4>1, <4>2, <4>3 DEF OneOK
    <3>3. CASE j \notin R \cup {p}
      <4>1. OneOK(j)
          BY DEF WorkOK
      <4>2. status'[j] = status[j] /\ queue'[j] = queue[j] /\ saved' = saved
            /\ \A v \in Workers : Holds(v, j)' => Holds(v, j)
          BY <2>1, <2>5, <2>8, <3>3
      <4> QED
          BY <2>12, <4>1, <4>2 DEF OneOK, Done
    <3> QED
        BY <3>1, <3>2, <3>3
  <2>15. ASSUME NEW d \in Jobs, NEW j \in dependents'[d] PROVE MemberOK(j, d)'
    <3>1. j \in dependents[d] /\ (d = p => j \notin R) /\ j \in Jobs
        BY <2>1
    <3>2. MemberOK(j, d) /\ saved' = saved
        BY <2>1, <3>1 DEF WorkOK
    <3>3. CASE j \in R
      <4>1. Settled(d)
          BY <2>0, <2>3, <3>1, <3>2, <3>3 DEF ListOK, MemberOK
      <4> QED
          BY <2>12, <3>2, <4>1 DEF MemberOK
    <3>4. CASE j = p
        BY <2>7, <2>12, <3>2, <3>4 DEF MemberOK
    <3>5. CASE j \notin R \cup {p}
        BY <2>12, <2>13, <3>1, <3>2, <3>5 DEF MemberOK
    <3> QED
        BY <3>3, <3>4, <3>5
  <2>16. ASSUME NEW v \in Workers, NEW j \in Jobs, Listed(v, j)' PROVE ListOK(v, j)'
    <3>1. v # w /\ Listed(v, j) /\ job'[v] = job[v] /\ ListOK(v, j)
        BY <2>6, <2>16 DEF WorkOK
    <3>2. j \notin R \cup {p}
        BY <2>7, <2>9, <3>1
    <3>3. DependsOn[j] \subseteq Jobs
        OBVIOUS
    <3> QED
        BY <2>12, <2>13, <3>1, <3>2, <3>3 DEF ListOK
  <2> QED
      BY <2>12, <2>14, <2>15, <2>16 DEF WorkOK, Advance
<1>18. ASSUME NEW w \in Workers, SuccessAgain(w) PROVE Advance
  <2>1. Only({})
      BY <1>18 DEF SuccessAgain, Unwatch, Goto, NothingSeen, Less, Only, Holds, Performing,
         Listed
  <2> QED
      BY <2>1, OnlyStep
<1>19. ASSUME NEW w \in Workers, RetryJob(w) PROVE Advance
  <2>0. PICK k \in Jobs : k = job[w] /\ Performing(w, k)
      BY <1>19 DEF RetryJob, Performing
  <2>1. status' = WithStatus({k}, "queued") /\ queue' = Pushed({k})
        /\ startedReg' = startedReg \ {<<k, w>>} /\ UNCHANGED <<dependents, saved, batch>>
      BY <1>19, <2>0 DEF RetryJob, Spend, Pushed
  <2>2. /\ \A v \in Workers \ {w} : pc'[v] = pc[v] /\ job'[v] = job[v] /\ ready'[v] = ready[v]
        /\ pc'[w] \in {"idle", "dependents"}
      BY <1>19 DEF RetryJob, Goto, Leave, LeaveTo
  <2> QED
      BY <2>0, <2>1, <2>2, EndStep
<1>20. ASSUME NEW w \in Workers, FailJob(w) PROVE Advance
  <2>0. PICK k \in Jobs : k = job[w] /\ Performing(w, k)
      BY <1>20 DEF FailJob, Performing
  <2>1. status' = WithStatus({k}, "failed") /\ queue' = Pushed({})
        /\ startedReg' = startedReg \ {<<k, w>>} /\ UNCHANGED <<dependents, saved, batch>>
      BY <1>20, <2>0 DEF FailJob, Spend, Pushed
  <2>2. /\ \A v \in Workers \ {w} : pc'[v] = pc[v] /\ job'[v] = job[v] /\ ready'[v] = ready[v]
        /\ pc'[w] \in {"idle", "dependents"}
      BY <1>20 DEF FailJob, Goto, Leave, LeaveTo
  <2> QED
      BY <2>0, <2>1, <2>2, EndStep
<1>21. ASSUME NEW w \in Workers, StopJob(w) PROVE Advance
  <2>0. PICK k \in Jobs : k = job[w] /\ Performing(w, k)
      BY <1>21 DEF StopJob, Performing
  <2>1. status' = WithStatus({k}, "stopped") /\ queue' = Pushed({})
        /\ startedReg' = startedReg \ {<<k, w>>} /\ UNCHANGED <<dependents, saved, batch>>
      BY <1>21, <2>0 DEF StopJob, Spend, Pushed
  <2>2. /\ \A v \in Workers \ {w} : pc'[v] = pc[v] /\ job'[v] = job[v] /\ ready'[v] = ready[v]
        /\ pc'[w] \in {"idle", "dependents"}
      BY <1>21 DEF StopJob, Goto, Leave, LeaveTo
  <2> QED
      BY <2>0, <2>1, <2>2, EndStep
<1>22. ASSUME NEW w \in Workers, Crash(w) PROVE Advance
  <2>1. Only({})
      BY <1>22 DEF Crash, Spend, Unwatch, Goto, LeaveTo, NothingSeen, Ops, Only, Holds,
         Performing, Listed
  <2> QED
      BY <2>1, OnlyStep
<1>23. ASSUME NEW a \in Workers \cup {Cleaner}, ReadDependents(a) PROVE Advance
  <2>1. JobsToEnqueue(job[a], ParentStatus(a)) = {}
      BY <1>23 DEF ReadDependents, ParentStatus, FailedOK, JobsToEnqueue, DependenciesAreMet
  <2> QED
      BY <1>23, <2>1 DEF ReadDependents, Found
<1>24. ASSUME NEW a \in Workers \cup {Cleaner}, NoDependents(a) PROVE Advance
  <2>0. /\ a \notin Clients /\ pc'[a] \in {"idle", "cleaning"}
        /\ pc'[a] = "cleaning" => a = Cleaner
        /\ \A p \in Actors \ {a} : pc'[p] = pc[p] /\ job'[p] = job[p]
      BY ONLY Typed, <1>24, ResumeFacts DEF NoDependents
  <2>1. pc[a] = "dependents" /\ UNCHANGED <<redis, batch, saved>>
      BY <1>24 DEF NoDependents
  <2>2. /\ ready'[a] = {}
        /\ \A p \in Actors \ {a} : ready'[p] = ready[p]
      BY ONLY Typed, <1>24, ResumeFacts DEF NoDependents
  <2>3. \A v \in Workers : \A j \in Jobs :
           (Holds(v, j)' => Holds(v, j))
           /\ (Listed(v, j)' => Listed(v, j) /\ job'[v] = job[v])
      BY <2>0, <2>1, <2>2 DEF Holds, Performing, Listed
  <2>4. Only({})
      BY <2>1, <2>3 DEF Only
  <2> QED
      BY <2>4, OnlyStep
<1>25. ASSUME NEW a \in Workers \cup {Cleaner}, ExecDependents(a) PROVE Advance
    BY <1>25 DEF ExecDependents, NoneRequeued
<1>26. ASSUME NEW a \in Workers \cup {Cleaner}, DependentsAgain(a) PROVE Advance
    BY <1>26 DEF DependentsAgain, NoneRequeued
<1>27. ASSUME StartCleanup PROVE Advance
  <2>1. Only({})
      BY <1>27 DEF StartCleanup, Expired, Goto, Only, Holds, Performing, Listed
  <2> QED
      BY <2>1, OnlyStep
<1>28. ASSUME NEW j \in Jobs, SkipJob(j) PROVE Advance
  <2>1. Only({})
      BY <1>28 DEF SkipJob, Only, Holds, Performing, Listed
  <2> QED
      BY <2>1, OnlyStep
<1>29. ASSUME NEW j \in Jobs, CleanupRetry(j) PROVE Advance
  <2>1. Only({})
      BY <1>29 DEF CleanupRetry, Only, Holds, Performing, Listed
  <2> QED
      BY <2>1, OnlyStep
<1>30. ASSUME NEW j \in Jobs, CleanupFail(j) PROVE Advance
  <2>1. Only({})
      BY <1>30 DEF CleanupFail, Goto, Only, Holds, Performing, Listed
  <2> QED
      BY <2>1, OnlyStep
<1>31. ASSUME EndCleanup PROVE Advance
  <2> DEFINE again == {j \in Jobs : toRetry[j] > 0}
             K == again \cup toFail
  <2>1. /\ K \subseteq Jobs
        /\ status' = [j \in Jobs |-> IF j \in again THEN "queued"
                                     ELSE IF j \in toFail THEN "failed" ELSE status[j]]
        /\ queue' = Pushed(again)
        /\ startedReg' = startedReg \ batch /\ batch' = {}
        /\ UNCHANGED <<saved, dependents>>
      BY <1>31 DEF EndCleanup
  <2>2. \A v \in Workers : pc'[v] = pc[v] /\ job'[v] = job[v] /\ ready'[v] = ready[v]
      BY <1>31 DEF EndCleanup, Leave, LeaveTo, Goto
  <2>3. \A v \in Workers : \A j \in Jobs :
           /\ Holds(v, j)' => Holds(v, j) /\ (<<j, v>> \in batch => pc[v] # "dead")
           /\ Listed(v, j)' => Listed(v, j) /\ job'[v] = job[v]
    <3>1. \A v \in Workers : \A j \in Jobs : Performing(v, j) => pc[v] # "dead"
        BY DEF Performing
    <3> QED
        BY <2>1, <2>2, <3>1 DEF Holds, Performing, Listed
  <2>4. ASSUME NEW k \in K
        PROVE  /\ k \in saved /\ queue[k] = 0 /\ ~Settled(k) /\ ~Waits(k)
               /\ \A v \in Workers : ~Holds(v, k)'
    <3>1. PICK w \in Workers : <<k, w>> \in batch /\ k \in Jobs
        BY DEF EntriesOK
    <3>2. pc[w] = "dead" /\ Holds(w, k)
        BY <3>1 DEF EntriesOK, Holds
    <3>3. /\ k \in saved /\ queue[k] = 0 /\ ~Settled(k) /\ ~Waits(k)
          /\ \A v \in Workers : Holds(v, k) => v = w
        BY <3>1, <3>2, HeldFacts
    <3> QED
        BY <2>3, <3>1, <3>2, <3>3
  <2>5. /\ \A k \in K : status'[k] \in {"queued", "failed"} /\ queue'[k] <= queue[k] + 1
        /\ \A j \in Jobs \ K : status'[j] = status[j] /\ queue'[j] = queue[j]
      BY <2>1 DEF Pushed
  <2> HIDE DEF K
  <2>6. ASSUME NEW k \in K PROVE OneOK(k)'
    <3>1. /\ queue'[k] <= 1 /\ status'[k] \in {"queued", "failed"} /\ k \in saved'
          /\ \A v \in Workers : ~Holds(v, k)'
      <4>1. queue[k] = 0 /\ k \in saved /\ \A v \in Workers : ~Holds(v, k)'
          BY <2>4
      <4>2. status'[k] \in {"queued", "failed"} /\ queue'[k] <= queue[k] + 1
          BY <2>5
      <4>3. queue'[k] <= 1
          BY <4>1, <4>2
      <4> QED
          BY <2>1, <4>1, <4>2, <4>3
    <3> QED
        BY <3>1 DEF OneOK, Done
  <2>7. Only(K)
      BY <2>1, <2>3, <2>5 DEF Only
  <2> QED
      BY <2>4, <2>6, <2>7, OnlyStep
<1>32. ASSUME NEW j \in Jobs, Expire(j) PROVE Advance
  <2>1. /\ status[j] = "finished" /\ status' = WithStatus({j}, "absent")
        /\ \A d \in Jobs : dependents'[d] \subseteq dependents[d]
        /\ UNCHANGED <<queue, startedReg, batch, saved, pc, job, ready>>
      BY <1>32 DEF Expire
  <2>2. \A v \in Workers : \A i \in Jobs :
           (Holds(v, i)' => Holds(v, i))
           /\ (Listed(v, i)' => Listed(v, i) /\ job'[v] = job[v])
      BY <2>1 DEF Holds, Performing, Listed
  <2>3. status'[j] = "absent" /\ \A i \in Jobs \ {j} : status'[i] = status[i]
      BY <2>1 DEF WithStatus
  <2>4. j \in saved /\ OneOK(j)
      BY <2>1 DEF KnownOK, Released, Calling, WorkOK
  <2>5. Settled(j) => Settled(j)'
      BY <2>1, <2>2, <2>3 DEF Settled, Idle
  <2>6. OneOK(j)' /\ ~Waits(j)
      BY <2>1, <2>2, <2>3, <2>4, <2>5 DEF OneOK, Done, Waits
  <2>7. Only({j})
      BY <2>1, <2>2, <2>3 DEF Only
  <2> QED
      BY <2>5, <2>6, <2>7, OnlyStep
<1>33. ASSUME UNCHANGED vars PROVE Advance
  <2>1. Only({})
      BY <1>33 DEF vars, Only, Holds, Performing, Listed
  <2> QED
      BY <2>1, OnlyStep
<1> HIDE DEF Typed, TypeOK, RedisTypeOK, TxTypeOK, LocalsTypeOK, RoundTypeOK, EnvTypeOK,
   ActorsOK, Actors, Statuses, PCs, Busy, redis, tx, locals, round, env, Local
<1> QED
    BY <1>1, <1>2, <1>3, <1>4, <1>5, <1>6, <1>7, <1>8, <1>9, <1>10, <1>11, <1>12, <1>13, <1>14,
       <1>15, <1>16, <1>17, <1>18, <1>19, <1>20, <1>21, <1>22, <1>23, <1>24, <1>25, <1>26,
       <1>27, <1>28, <1>29, <1>30, <1>31, <1>32, <1>33
       DEF Next, ClientNext, WorkerNext, CleanerNext, DependentsNext

\* A worker is about to enqueue the dependents of a job that is over for good.
LEMMA FailedNext ==
    ASSUME AllowFailure = {}, Local, WorkOK, FailedOK, Advance, [Next]_vars
    PROVE  FailedOK'
<1> USE JobsAssumption, ActorsAssumption
        DEF Typed, TypeOK, RedisTypeOK, TxTypeOK, LocalsTypeOK, RoundTypeOK, EnvTypeOK,
           ActorsOK, Actors, Statuses, PCs, Busy, redis, tx, locals, round, env, Local
<1>1. ASSUME NEW c \in Clients, NEW j \in Jobs, EnqueueCall(c, j) PROVE FailedOK'
  <2>1. KeptUp({})
      BY <1>1 DEF EnqueueCall, TakeUp, KeptUp
  <2> QED
      BY <2>1, UpStep
<1>2. ASSUME NEW c \in Clients, FindUnfinished(c) PROVE FailedOK'
  <2>1. KeptUp({})
      BY <1>2 DEF FindUnfinished, Watch, Goto, KeptUp
  <2> QED
      BY <2>1, UpStep
<1>3. ASSUME NEW c \in Clients, FindNoneUnfinished(c) PROVE FailedOK'
  <2>1. KeptUp({})
      BY <1>3 DEF FindNoneUnfinished, Goto, KeptUp
  <2> QED
      BY <2>1, UpStep
<1>4. ASSUME NEW c \in Clients, Defer(c) PROVE FailedOK'
  <2>0. PICK k \in Jobs : k = job[c] /\ k \notin saved
      BY <1>4 DEF Defer, KnownOK, Calling
  <2>1. KeptUp({k})
      BY <1>4, <2>0 DEF Defer, Leave, LeaveTo, Goto, WithStatus, KeptUp
  <2>2. ~Settled(k)
      BY <2>0 DEF Settled, Idle
  <2> QED
      BY <2>1, <2>2, UpStep
<1>5. ASSUME NEW c \in Clients, DeferAgain(c) PROVE FailedOK'
  <2>1. KeptUp({})
      BY <1>5 DEF DeferAgain, Unwatch, Goto, KeptUp
  <2> QED
      BY <2>1, UpStep
<1>6. ASSUME NEW c \in Clients, Enqueue(c) PROVE FailedOK'
  <2>0. PICK k \in Jobs : k = job[c] /\ k \notin saved
      BY <1>6 DEF Enqueue, KnownOK, Calling
  <2>1. KeptUp({k})
      BY <1>6, <2>0 DEF Enqueue, Leave, LeaveTo, Goto, WithStatus, KeptUp
  <2>2. ~Settled(k)
      BY <2>0 DEF Settled, Idle
  <2> QED
      BY <2>1, <2>2, UpStep
<1>7. ASSUME NEW c \in Clients, NEW j \in Jobs, Cancel(c, j) PROVE FailedOK'
  <2>1. KeptUp({})
      BY <1>7 DEF Cancel, Spend, TakeUp, Look, Ops, KeptUp
  <2> QED
      BY <2>1, UpStep
<1>8. ASSUME NEW c \in Clients, NEW forget \in BOOLEAN, ExecCancel(c, forget) PROVE FailedOK'
  <2>1. KeptUp({})
      BY <1>8 DEF ExecCancel, Write, Goto, Leave, LeaveTo, NothingSeen, WithStatus, DropFrom,
         KeptUp
  <2> QED
      BY <2>1, UpStep
<1>9. ASSUME NEW c \in Clients, NEW j \in Jobs, Requeue(c, j) PROVE FailedOK'
  <2>1. KeptUp({})
      BY <1>9 DEF Requeue, Spend, TakeUp, Interfere, Ops, KeptUp
  <2> QED
      BY <2>1, UpStep
<1>10. ASSUME NEW c \in Clients, ExecRequeue(c) PROVE FailedOK'
    BY <1>10 DEF ExecRequeue, NoneRequeued
<1>11. ASSUME NEW w \in Workers, NEW j \in Jobs, Dequeue(w, j) PROVE FailedOK'
  <2>1. KeptUp({})
      BY <1>11 DEF Dequeue, Goto, KeptUp
  <2> QED
      BY <2>1, UpStep
<1>12. ASSUME NEW w \in Workers, NEW j \in Jobs, DropId(w, j) PROVE FailedOK'
  <2>1. KeptUp({})
      BY <1>12 DEF DropId, KeptUp
  <2> QED
      BY <2>1, UpStep
<1>13. ASSUME NEW w \in Workers, PrepareExecution(w) PROVE FailedOK'
  <2>1. KeptUp({})
      BY <1>13 DEF PrepareExecution, Goto, KeptUp
  <2> QED
      BY <2>1, UpStep
<1>14. ASSUME NEW w \in Workers, Start(w) PROVE FailedOK'
  <2>0. PICK k \in Jobs : k = job[w] /\ Performing(w, k)
      BY <1>14 DEF Start, Performing
  <2>1. KeptUp({k})
      BY <1>14, <2>0 DEF Start, Spend, Leave, LeaveTo, Goto, WithStatus, KeptUp
  <2>2. ~Settled(k)
      BY <2>0, HeldFacts DEF Holds
  <2> QED
      BY <2>1, <2>2, UpStep
<1>15. ASSUME NEW w \in Workers, Heartbeat(w) PROVE FailedOK'
  <2>1. KeptUp({})
      BY <1>15 DEF Heartbeat, Interfere, KeptUp
  <2> QED
      BY <2>1, UpStep
<1>16. ASSUME NEW w \in Workers, ReadSuccess(w) PROVE FailedOK'
  <2>1. KeptUp({})
      BY <1>16 DEF ReadSuccess, Watch, Goto, Look, JobsToEnqueue, WatchedDependents, KeptUp
  <2> QED
      BY <2>1, UpStep
<1>17. ASSUME NEW w \in Workers, ExecSuccess(w) PROVE FailedOK'
  <2>0. PICK k \in Jobs : k = job[w] /\ Performing(w, k)
      BY <1>17 DEF ExecSuccess, Performing
  <2>1. KeptUp(ready[w] \cup {k})
      BY <1>17, <2>0 DEF ExecSuccess, Leave, LeaveTo, Goto, WithStatus, KeptUp
  <2>2. ~Settled(k)
      BY <2>0, HeldFacts DEF Holds
  <2>3. \A j \in ready[w] : ~Settled(j)
      BY <1>17 DEF ExecSuccess, Settled, Listed
  <2> QED
      BY <2>1, <2>2, <2>3, UpStep
<1>18. ASSUME NEW w \in Workers, SuccessAgain(w) PROVE FailedOK'
  <2>1. KeptUp({})
      BY <1>18 DEF SuccessAgain, Unwatch, Goto, NothingSeen, Less, KeptUp
  <2> QED
      BY <2>1, UpStep
<1>19. ASSUME NEW w \in Workers, RetryJob(w) PROVE FailedOK'
  <2>0. PICK k \in Jobs : k = job[w] /\ Performing(w, k)
      BY <1>19 DEF RetryJob, Performing
  <2>1. KeptUp({k})
      BY <1>19, <2>0 DEF RetryJob, Spend, Leave, LeaveTo, Goto, WithStatus, KeptUp
  <2>2. ~Settled(k)
      BY <2>0, HeldFacts DEF Holds
  <2> QED
      BY <2>1, <2>2, UpStep
<1>20. ASSUME NEW w \in Workers, FailJob(w) PROVE FailedOK'
  <2>0. PICK k \in Jobs : k = job[w] /\ Performing(w, k)
      BY <1>20 DEF FailJob, Performing
  <2>1. status' = WithStatus({k}, "failed") /\ queue' = Pushed({})
        /\ startedReg' = startedReg \ {<<k, w>>} /\ UNCHANGED <<dependents, saved, batch>>
      BY <1>20, <2>0 DEF FailJob, Spend, Pushed
  <2>2. /\ \A v \in Workers \ {w} : pc'[v] = pc[v] /\ job'[v] = job[v] /\ ready'[v] = ready[v]
        /\ pc'[w] = "dependents" /\ job' = job
      BY <1>20 DEF FailJob, Goto
  <2>3. Settled(k)' /\ status'[k] = "failed"
    <3>1. Settled(k)'
        BY ONLY Typed, EntriesOK, WorkOK, <2>0, <2>1, <2>2, EndStep
    <3> QED
        BY <2>1, <3>1 DEF WithStatus
  <2>4. ASSUME NEW v \in Workers \ {w}, pc'[v] = "dependents"
        PROVE  /\ pc[v] = "dependents" /\ job[v] \in Jobs /\ Settled(job[v])
               /\ job[v] # k /\ status'[job[v]] = status[job[v]]
    <3>1. pc[v] = "dependents" /\ job[v] \in Jobs /\ Settled(job[v])
        BY <2>2, <2>4 DEF FailedOK
    <3>2. ~Settled(k)
        BY <2>0, HeldFacts DEF Holds
    <3> QED
        BY <2>1, <3>1, <3>2 DEF WithStatus
  <2>5. ASSUME NEW v \in Workers, pc'[v] = "dependents"
        PROVE  \E j \in Jobs : /\ j = job[v] /\ Settled(j)'
                              /\ status'[j] \in {"failed", "stopped", "canceled"}
    <3>1. CASE v = w
        BY <2>0, <2>3, <3>1
    <3>2. CASE v # w
        BY <2>4, <2>5, <3>2 DEF Advance, FailedOK
    <3> QED
        BY <3>1, <3>2
  <2> QED
      BY <2>2, <2>5 DEF FailedOK, Settled, Idle, Holds, Performing, Listed
<1>21. ASSUME NEW w \in Workers, StopJob(w) PROVE FailedOK'
  <2>0. PICK k \in Jobs : k = job[w] /\ Performing(w, k)
      BY <1>21 DEF StopJob, Performing
  <2>1. status' = WithStatus({k}, "stopped") /\ queue' = Pushed({})
        /\ startedReg' = startedReg \ {<<k, w>>} /\ UNCHANGED <<dependents, saved, batch>>
      BY <1>21, <2>0 DEF StopJob, Spend, Pushed
  <2>2. /\ \A v \in Workers \ {w} : pc'[v] = pc[v] /\ job'[v] = job[v] /\ ready'[v] = ready[v]
        /\ pc'[w] = "dependents" /\ job' = job
      BY <1>21 DEF StopJob, Goto
  <2>3. Settled(k)' /\ status'[k] = "stopped"
    <3>1. Settled(k)'
        BY ONLY Typed, EntriesOK, WorkOK, <2>0, <2>1, <2>2, EndStep
    <3> QED
        BY <2>1, <3>1 DEF WithStatus
  <2>4. ASSUME NEW v \in Workers \ {w}, pc'[v] = "dependents"
        PROVE  /\ pc[v] = "dependents" /\ job[v] \in Jobs /\ Settled(job[v])
               /\ job[v] # k /\ status'[job[v]] = status[job[v]]
    <3>1. pc[v] = "dependents" /\ job[v] \in Jobs /\ Settled(job[v])
        BY <2>2, <2>4 DEF FailedOK
    <3>2. ~Settled(k)
        BY <2>0, HeldFacts DEF Holds
    <3> QED
        BY <2>1, <3>1, <3>2 DEF WithStatus
  <2>5. ASSUME NEW v \in Workers, pc'[v] = "dependents"
        PROVE  \E j \in Jobs : /\ j = job[v] /\ Settled(j)'
                              /\ status'[j] \in {"failed", "stopped", "canceled"}
    <3>1. CASE v = w
        BY <2>0, <2>3, <3>1
    <3>2. CASE v # w
        BY <2>4, <2>5, <3>2 DEF Advance, FailedOK
    <3> QED
        BY <3>1, <3>2
  <2> QED
      BY <2>2, <2>5 DEF FailedOK, Settled, Idle, Holds, Performing, Listed
<1>22. ASSUME NEW w \in Workers, Crash(w) PROVE FailedOK'
  <2>1. KeptUp({})
      BY <1>22 DEF Crash, Spend, Unwatch, Goto, LeaveTo, NothingSeen, Ops, KeptUp
  <2> QED
      BY <2>1, UpStep
<1>23. ASSUME NEW a \in Workers \cup {Cleaner}, ReadDependents(a) PROVE FailedOK'
  <2>1. KeptUp({})
      BY <1>23 DEF ReadDependents, Watch, Goto, Found, JobsToEnqueue, WatchedDependents, KeptUp
  <2> QED
      BY <2>1, UpStep
<1>24. ASSUME NEW a \in Workers \cup {Cleaner}, NoDependents(a) PROVE FailedOK'
  <2>1. KeptUp({})
      BY <1>24 DEF NoDependents, Goto, Resume, Leave, LeaveTo, NothingSeen, KeptUp
  <2> QED
      BY <2>1, UpStep
<1>25. ASSUME NEW a \in Workers \cup {Cleaner}, ExecDependents(a) PROVE FailedOK'
    BY <1>25 DEF ExecDependents, NoneRequeued
<1>26. ASSUME NEW a \in Workers \cup {Cleaner}, DependentsAgain(a) PROVE FailedOK'
    BY <1>26 DEF DependentsAgain, NoneRequeued
<1>27. ASSUME StartCleanup PROVE FailedOK'
  <2>1. KeptUp({})
      BY <1>27 DEF StartCleanup, Expired, Goto, KeptUp
  <2> QED
      BY <2>1, UpStep
<1>28. ASSUME NEW j \in Jobs, SkipJob(j) PROVE FailedOK'
  <2>1. KeptUp({})
      BY <1>28 DEF SkipJob, KeptUp
  <2> QED
      BY <2>1, UpStep
<1>29. ASSUME NEW j \in Jobs, CleanupRetry(j) PROVE FailedOK'
  <2>1. KeptUp({})
      BY <1>29 DEF CleanupRetry, KeptUp
  <2> QED
      BY <2>1, UpStep
<1>30. ASSUME NEW j \in Jobs, CleanupFail(j) PROVE FailedOK'
  <2>1. KeptUp({})
      BY <1>30 DEF CleanupFail, Goto, KeptUp
  <2> QED
      BY <2>1, UpStep
<1>31. ASSUME EndCleanup PROVE FailedOK'
  <2>0. PICK K \in SUBSET Jobs : K = {j \in Jobs : toRetry[j] > 0} \cup toFail
      OBVIOUS
  <2>1. KeptUp(K)
      BY <1>31, <2>0 DEF EndCleanup, Leave, LeaveTo, Goto, KeptUp
  <2>2. ASSUME NEW k \in K PROVE ~Settled(k)
    <3>1. PICK w \in Workers : <<k, w>> \in batch
        BY <2>0 DEF EntriesOK
    <3> QED
        BY <3>1, HeldFacts DEF Holds
  <2> QED
      BY <2>1, <2>2, UpStep
<1>32. ASSUME NEW j \in Jobs, Expire(j) PROVE FailedOK'
  <2>1. KeptUp({j}) /\ status[j] = "finished"
      BY <1>32 DEF Expire, WithStatus, KeptUp
  <2> QED
      BY <2>1, UpStep
<1>33. ASSUME UNCHANGED vars PROVE FailedOK'
  <2>1. KeptUp({})
      BY <1>33 DEF vars, KeptUp
  <2> QED
      BY <2>1, UpStep
<1> HIDE DEF Typed, TypeOK, RedisTypeOK, TxTypeOK, LocalsTypeOK, RoundTypeOK, EnvTypeOK,
   ActorsOK, Actors, Statuses, PCs, Busy, redis, tx, locals, round, env, Local
<1> QED
    BY <1>1, <1>2, <1>3, <1>4, <1>5, <1>6, <1>7, <1>8, <1>9, <1>10, <1>11, <1>12, <1>13, <1>14,
       <1>15, <1>16, <1>17, <1>18, <1>19, <1>20, <1>21, <1>22, <1>23, <1>24, <1>25, <1>26,
       <1>27, <1>28, <1>29, <1>30, <1>31, <1>32, <1>33
       DEF Next, ClientNext, WorkerNext, CleanerNext, DependentsNext

\* At the start nothing has been enqueued.
LEMMA OnceInit ==
    ASSUME OnlyOnce, Init
    PROVE  OnceInv
<1>1. Typed /\ KnownOK
    BY TypedInit, KnownInit
<1>2. \A p \in Actors : pc[p] = "idle" /\ ready[p] = {} /\ p \in Clients \cup Workers \cup {Cleaner}
    BY DEF Init, Actors
<1>3. NoneRequeued
    BY <1>2 DEF OnlyOnce, Init, NoneRequeued
<1>4. \A w \in Workers : \A j \in Jobs : ~Holds(w, j) /\ ~Listed(w, j)
    BY <1>2 DEF Init, Holds, Performing, Listed, Actors
<1>5. EntriesOK
    BY DEF Init, EntriesOK
<1>6. \A j \in Jobs : OneOK(j)
    BY <1>4 DEF Init, OneOK
<1>7. WorkOK /\ FailedOK
    BY <1>2, <1>4, <1>6 DEF Init, WorkOK, FailedOK, Actors
<1> QED
    BY <1>1, <1>3, <1>5, <1>7 DEF OnceInv, Local

\* Every step keeps the invariant, and nothing that is settled comes back.
LEMMA OnceNext ==
    ASSUME OnlyOnce, OnceInv, SetsOK, [Next]_vars
    PROVE  OnceInv' /\ Advance
<1>1. Typed' /\ KnownOK'
    BY TypedNext, KnownNext DEF OnceInv, Local
<1>2. NoneRequeued' /\ EntriesOK'
    BY NoneRequeuedNext, EntriesNext DEF OnlyOnce, OnceInv, Local
<1>3. Advance
    BY WorkNext DEF OnlyOnce, OnceInv
<1>4. FailedOK'
    BY <1>3, FailedNext DEF OnlyOnce, OnceInv
<1> QED
    BY <1>1, <1>2, <1>3, <1>4 DEF OnceInv, Local, Advance

\* Of a job there is one entry in the queue, or one worker that performs it.
LEMMA OnceMeans ==
    ASSUME Typed, WorkOK
    PROVE  NoDuplicateWork
<1> SUFFICES ASSUME NEW j \in Jobs
             PROVE  queue[j] + Cardinality({w \in Workers : Performing(w, j)}) <= 1
    BY DEF NoDuplicateWork, Performing
<1> DEFINE S == {w \in Workers : Performing(w, j)}
<1>1. OneOK(j) /\ queue[j] \in Nat
    BY DEF WorkOK, Typed, TypeOK, RedisTypeOK
<1>2. CASE S = {}
    BY <1>1, <1>2, FS_EmptySet DEF OneOK
<1>3. CASE S # {}
  <2>1. PICK w \in Workers : Performing(w, j)
      BY <1>3
  <2>2. \A v \in Workers : Performing(v, j) => v = w
      BY <1>1, <2>1 DEF OneOK, Holds
  <2>3. queue[j] = 0
    <3>1. Holds(w, j)
        BY <2>1 DEF Holds
    <3> QED
        BY <1>1, <3>1 DEF OneOK
  <2>4. S = {w}
      BY <2>1, <2>2
  <2>5. Cardinality(S) = 1
      BY <2>4, FS_Singleton
  <2> QED
      BY <2>3, <2>5
<1> QED
    BY <1>2, <1>3

\* Deferral, enqueue_dependents, retries, repeats, cancels, stops, crashes and
\* the cleanup, in any order, never bring a job twice to the queue or to
\* workers, for any number of jobs, clients and workers, any dependency
\* relation and any result_ttl, as long as no job allows the failure of its
\* dependencies and nobody requeues failed jobs.
THEOREM WorkIsNotDuplicated ==
    ASSUME OnlyOnce
    PROVE  Spec => []NoDuplicateWork
<1>1. Init => OnceInv /\ SetsOK
    BY OnceInit, KnownInit
<1>2. OnceInv /\ SetsOK /\ [Next]_vars => (OnceInv /\ SetsOK)'
    BY OnceNext, SetsNext DEF OnceInv, Local
<1>3. OnceInv => NoDuplicateWork
    BY OnceMeans DEF OnceInv, Local
<1> QED
    BY <1>1, <1>2, <1>3, PTL DEF Spec

-----------------------------------------------------------------------------
(* Enqueued only when met.                                               *)

\* The copy of a job that a worker performs has no more repeats left than the
\* hash: nobody else performs the job, to count them down.
LeftOK ==
    \A w \in Workers : \A j \in Jobs : Performing(w, j) => left[w] <= repeats[j]

\* Whoever counts repeats down performs the job, and is alone.
LEMMA LeftNext ==
    ASSUME Typed, LeftOK,
           \A v, w \in Workers, j \in Jobs : Performing(v, j) /\ Performing(w, j) => v = w,
           [Next]_vars
    PROVE  LeftOK'
<1> USE JobsAssumption, ActorsAssumption
        DEF Typed, TypeOK, RedisTypeOK, TxTypeOK, LocalsTypeOK, RoundTypeOK, EnvTypeOK,
           ActorsOK, Actors, Statuses, PCs, Busy, redis, tx, locals, round, env, LeftOK,
           Performing
<1>1. ASSUME NEW c \in Clients, NEW j \in Jobs, EnqueueCall(c, j) PROVE LeftOK'
    BY <1>1 DEF EnqueueCall, TakeUp
<1>2. ASSUME NEW c \in Clients, FindUnfinished(c) PROVE LeftOK'
    BY <1>2 DEF FindUnfinished, Watch, Goto
<1>3. ASSUME NEW c \in Clients, FindNoneUnfinished(c) PROVE LeftOK'
    BY <1>3 DEF FindNoneUnfinished, Goto
<1>4. ASSUME NEW c \in Clients, Defer(c) PROVE LeftOK'
    BY <1>4 DEF Defer, Write, Goto, Leave, LeaveTo, NothingSeen, WithStatus
<1>5. ASSUME NEW c \in Clients, DeferAgain(c) PROVE LeftOK'
    BY <1>5 DEF DeferAgain, Unwatch, Goto
<1>6. ASSUME NEW c \in Clients, Enqueue(c) PROVE LeftOK'
    BY <1>6 DEF Enqueue, Write, Goto, Leave, LeaveTo, NothingSeen, WithStatus, Pushed
<1>7. ASSUME NEW c \in Clients, NEW j \in Jobs, Cancel(c, j) PROVE LeftOK'
    BY <1>7 DEF Cancel, Spend, TakeUp, Look, Ops
<1>8. ASSUME NEW c \in Clients, NEW forget \in BOOLEAN, ExecCancel(c, forget) PROVE LeftOK'
    BY <1>8 DEF ExecCancel, Write, Goto, Leave, LeaveTo, NothingSeen, WithStatus, DropFrom
<1>9. ASSUME NEW c \in Clients, NEW j \in Jobs, Requeue(c, j) PROVE LeftOK'
    BY <1>9 DEF Requeue, Spend, TakeUp, Interfere, Ops
<1>10. ASSUME NEW c \in Clients, ExecRequeue(c) PROVE LeftOK'
    BY <1>10 DEF ExecRequeue, Write, Goto, Leave, LeaveTo, NothingSeen, WithStatus, Pushed
<1>11. ASSUME NEW w \in Workers, NEW j \in Jobs, Dequeue(w, j) PROVE LeftOK'
    BY <1>11 DEF Dequeue, Goto
<1>12. ASSUME NEW w \in Workers, NEW j \in Jobs, DropId(w, j) PROVE LeftOK'
    BY <1>12 DEF DropId
<1>13. ASSUME NEW w \in Workers, PrepareExecution(w) PROVE LeftOK'
    BY <1>13 DEF PrepareExecution, Goto
<1>14. ASSUME NEW w \in Workers, Start(w) PROVE LeftOK'
    BY <1>14 DEF Start, Write, Goto, WithStatus
<1>15. ASSUME NEW w \in Workers, Heartbeat(w) PROVE LeftOK'
    BY <1>15 DEF Heartbeat, Interfere
<1>16. ASSUME NEW w \in Workers, ReadSuccess(w) PROVE LeftOK'
    BY <1>16 DEF ReadSuccess, Watch, Goto, Look, JobsToEnqueue, WatchedDependents
<1>17. ASSUME NEW w \in Workers, ExecSuccess(w) PROVE LeftOK'
    BY <1>17 DEF ExecSuccess, Write, Goto, Leave, LeaveTo, NothingSeen, WithStatus, Pushed,
       AfterSuccess, SuccessKeys, TouchedSets, DropFrom, Deletes, Less
<1>18. ASSUME NEW w \in Workers, SuccessAgain(w) PROVE LeftOK'
    BY <1>18 DEF SuccessAgain, Unwatch, Goto, NothingSeen, Less
<1>19. ASSUME NEW w \in Workers, RetryJob(w) PROVE LeftOK'
    BY <1>19 DEF RetryJob, Spend, Write, Goto, Leave, LeaveTo, NothingSeen, WithStatus, Pushed,
       Ops
<1>20. ASSUME NEW w \in Workers, FailJob(w) PROVE LeftOK'
    BY <1>20 DEF FailJob, Spend, Write, Goto, WithStatus, TouchedSets, Ops
<1>21. ASSUME NEW w \in Workers, StopJob(w) PROVE LeftOK'
    BY <1>21 DEF StopJob, Spend, Write, Goto, NothingSeen, WithStatus, TouchedSets, Ops
<1>22. ASSUME NEW w \in Workers, Crash(w) PROVE LeftOK'
    BY <1>22 DEF Crash, Spend, Unwatch, Goto, LeaveTo, NothingSeen, Ops
<1>23. ASSUME NEW a \in Workers \cup {Cleaner}, ReadDependents(a) PROVE LeftOK'
    BY <1>23 DEF ReadDependents, Watch, Goto, Found, JobsToEnqueue, WatchedDependents
<1>24. ASSUME NEW a \in Workers \cup {Cleaner}, NoDependents(a) PROVE LeftOK'
    BY <1>24 DEF NoDependents, Goto, Resume, Leave, LeaveTo, NothingSeen
<1>25. ASSUME NEW a \in Workers \cup {Cleaner}, ExecDependents(a) PROVE LeftOK'
    BY <1>25 DEF ExecDependents, Write, Goto, Resume, Leave, LeaveTo, NothingSeen, WithStatus,
       Pushed
<1>26. ASSUME NEW a \in Workers \cup {Cleaner}, DependentsAgain(a) PROVE LeftOK'
    BY <1>26 DEF DependentsAgain, Unwatch, Goto
<1>27. ASSUME StartCleanup PROVE LeftOK'
    BY <1>27 DEF StartCleanup, Expired, Goto
<1>28. ASSUME NEW j \in Jobs, SkipJob(j) PROVE LeftOK'
    BY <1>28 DEF SkipJob
<1>29. ASSUME NEW j \in Jobs, CleanupRetry(j) PROVE LeftOK'
    BY <1>29 DEF CleanupRetry
<1>30. ASSUME NEW j \in Jobs, CleanupFail(j) PROVE LeftOK'
    BY <1>30 DEF CleanupFail, Goto
<1>31. ASSUME EndCleanup PROVE LeftOK'
    BY <1>31 DEF EndCleanup, Write, Goto, Leave, LeaveTo, NothingSeen, Pushed, TouchedSets, Less
<1>32. ASSUME NEW j \in Jobs, Expire(j) PROVE LeftOK'
    BY <1>32 DEF Expire, WithStatus
<1>33. ASSUME UNCHANGED vars PROVE LeftOK'
    BY <1>33 DEF vars
<1> HIDE DEF Typed, TypeOK, RedisTypeOK, TxTypeOK, LocalsTypeOK, RoundTypeOK, EnvTypeOK,
   ActorsOK, Actors, Statuses, PCs, Busy, redis, tx, locals, round, env, LeftOK, Performing
<1> QED
    BY <1>1, <1>2, <1>3, <1>4, <1>5, <1>6, <1>7, <1>8, <1>9, <1>10, <1>11, <1>12, <1>13, <1>14,
       <1>15, <1>16, <1>17, <1>18, <1>19, <1>20, <1>21, <1>22, <1>23, <1>24, <1>25, <1>26,
       <1>27, <1>28, <1>29, <1>30, <1>31, <1>32, <1>33
       DEF Next, ClientNext, WorkerNext, CleanerNext, DependentsNext

\* Only the success of a dependency takes a job out of its deferral to the queue.
LEMMA QueuedFrom ==
    ASSUME Typed, KnownOK, NoneRequeued, [Next]_vars,
           NEW i \in Jobs, status[i] = "deferred", status'[i] = "queued"
    PROVE  \E v \in Workers : ExecSuccess(v) /\ i \in ready[v]
<1> USE JobsAssumption, ActorsAssumption
        DEF Typed, TypeOK, RedisTypeOK, TxTypeOK, LocalsTypeOK, RoundTypeOK, EnvTypeOK,
           ActorsOK, Actors, Statuses, PCs, Busy, redis, tx, locals, round, env, KnownOK,
           Released, Calling, NoneRequeued
<1>1. ASSUME NEW c \in Clients, NEW j \in Jobs, EnqueueCall(c, j)
      PROVE  \E v \in Workers : ExecSuccess(v) /\ i \in ready[v]
    BY <1>1 DEF EnqueueCall, TakeUp
<1>2. ASSUME NEW c \in Clients, FindUnfinished(c)
      PROVE  \E v \in Workers : ExecSuccess(v) /\ i \in ready[v]
    BY <1>2 DEF FindUnfinished, Watch, Goto
<1>3. ASSUME NEW c \in Clients, FindNoneUnfinished(c)
      PROVE  \E v \in Workers : ExecSuccess(v) /\ i \in ready[v]
    BY <1>3 DEF FindNoneUnfinished, Goto
<1>4. ASSUME NEW c \in Clients, Defer(c)
      PROVE  \E v \in Workers : ExecSuccess(v) /\ i \in ready[v]
    BY <1>4 DEF Defer, Write, Goto, Leave, LeaveTo, NothingSeen, WithStatus
<1>5. ASSUME NEW c \in Clients, DeferAgain(c)
      PROVE  \E v \in Workers : ExecSuccess(v) /\ i \in ready[v]
    BY <1>5 DEF DeferAgain, Unwatch, Goto
<1>6. ASSUME NEW c \in Clients, Enqueue(c)
      PROVE  \E v \in Workers : ExecSuccess(v) /\ i \in ready[v]
    BY <1>6 DEF Enqueue, Write, Goto, Leave, LeaveTo, NothingSeen, WithStatus, Pushed
<1>7. ASSUME NEW c \in Clients, NEW j \in Jobs, Cancel(c, j)
      PROVE  \E v \in Workers : ExecSuccess(v) /\ i \in ready[v]
    BY <1>7 DEF Cancel, Spend, TakeUp, Look, Ops
<1>8. ASSUME NEW c \in Clients, NEW forget \in BOOLEAN, ExecCancel(c, forget)
      PROVE  \E v \in Workers : ExecSuccess(v) /\ i \in ready[v]
    BY <1>8 DEF ExecCancel, Write, Goto, Leave, LeaveTo, NothingSeen, WithStatus, DropFrom
<1>9. ASSUME NEW c \in Clients, NEW j \in Jobs, Requeue(c, j)
      PROVE  \E v \in Workers : ExecSuccess(v) /\ i \in ready[v]
    BY <1>9 DEF Requeue, Spend, TakeUp, Interfere, Ops
<1>10. ASSUME NEW c \in Clients, ExecRequeue(c)
      PROVE  \E v \in Workers : ExecSuccess(v) /\ i \in ready[v]
    BY <1>10 DEF ExecRequeue, Write, Goto, Leave, LeaveTo, NothingSeen, WithStatus, Pushed
<1>11. ASSUME NEW w \in Workers, NEW j \in Jobs, Dequeue(w, j)
      PROVE  \E v \in Workers : ExecSuccess(v) /\ i \in ready[v]
    BY <1>11 DEF Dequeue, Goto
<1>12. ASSUME NEW w \in Workers, NEW j \in Jobs, DropId(w, j)
      PROVE  \E v \in Workers : ExecSuccess(v) /\ i \in ready[v]
    BY <1>12 DEF DropId
<1>13. ASSUME NEW w \in Workers, PrepareExecution(w)
      PROVE  \E v \in Workers : ExecSuccess(v) /\ i \in ready[v]
    BY <1>13 DEF PrepareExecution, Goto
<1>14. ASSUME NEW w \in Workers, Start(w)
      PROVE  \E v \in Workers : ExecSuccess(v) /\ i \in ready[v]
    BY <1>14 DEF Start, Write, Goto, WithStatus
<1>15. ASSUME NEW w \in Workers, Heartbeat(w)
      PROVE  \E v \in Workers : ExecSuccess(v) /\ i \in ready[v]
    BY <1>15 DEF Heartbeat, Interfere
<1>16. ASSUME NEW w \in Workers, ReadSuccess(w)
      PROVE  \E v \in Workers : ExecSuccess(v) /\ i \in ready[v]
    BY <1>16 DEF ReadSuccess, Watch, Goto, Look, JobsToEnqueue, WatchedDependents
<1>17. ASSUME NEW w \in Workers, ExecSuccess(w)
      PROVE  \E v \in Workers : ExecSuccess(v) /\ i \in ready[v]
    BY <1>17 DEF ExecSuccess, Write, Goto, Leave, LeaveTo, NothingSeen, WithStatus, Pushed,
       AfterSuccess, SuccessKeys, TouchedSets, DropFrom, Deletes, Less
<1>18. ASSUME NEW w \in Workers, SuccessAgain(w)
      PROVE  \E v \in Workers : ExecSuccess(v) /\ i \in ready[v]
    BY <1>18 DEF SuccessAgain, Unwatch, Goto, NothingSeen, Less
<1>19. ASSUME NEW w \in Workers, RetryJob(w)
      PROVE  \E v \in Workers : ExecSuccess(v) /\ i \in ready[v]
    BY <1>19 DEF RetryJob, Spend, Write, Goto, Leave, LeaveTo, NothingSeen, WithStatus, Pushed,
       Ops
<1>20. ASSUME NEW w \in Workers, FailJob(w)
      PROVE  \E v \in Workers : ExecSuccess(v) /\ i \in ready[v]
    BY <1>20 DEF FailJob, Spend, Write, Goto, WithStatus, TouchedSets, Ops
<1>21. ASSUME NEW w \in Workers, StopJob(w)
      PROVE  \E v \in Workers : ExecSuccess(v) /\ i \in ready[v]
    BY <1>21 DEF StopJob, Spend, Write, Goto, NothingSeen, WithStatus, TouchedSets, Ops
<1>22. ASSUME NEW w \in Workers, Crash(w)
      PROVE  \E v \in Workers : ExecSuccess(v) /\ i \in ready[v]
    BY <1>22 DEF Crash, Spend, Unwatch, Goto, LeaveTo, NothingSeen, Ops
<1>23. ASSUME NEW a \in Workers \cup {Cleaner}, ReadDependents(a)
      PROVE  \E v \in Workers : ExecSuccess(v) /\ i \in ready[v]
    BY <1>23 DEF ReadDependents, Watch, Goto, Found, JobsToEnqueue, WatchedDependents
<1>24. ASSUME NEW a \in Workers \cup {Cleaner}, NoDependents(a)
      PROVE  \E v \in Workers : ExecSuccess(v) /\ i \in ready[v]
    BY <1>24 DEF NoDependents, Goto, Resume, Leave, LeaveTo, NothingSeen
<1>25. ASSUME NEW a \in Workers \cup {Cleaner}, ExecDependents(a)
      PROVE  \E v \in Workers : ExecSuccess(v) /\ i \in ready[v]
    BY <1>25 DEF ExecDependents, Write, Goto, Resume, Leave, LeaveTo, NothingSeen, WithStatus,
       Pushed
<1>26. ASSUME NEW a \in Workers \cup {Cleaner}, DependentsAgain(a)
      PROVE  \E v \in Workers : ExecSuccess(v) /\ i \in ready[v]
    BY <1>26 DEF DependentsAgain, Unwatch, Goto
<1>27. ASSUME StartCleanup PROVE \E v \in Workers : ExecSuccess(v) /\ i \in ready[v]
    BY <1>27 DEF StartCleanup, Expired, Goto
<1>28. ASSUME NEW j \in Jobs, SkipJob(j)
      PROVE  \E v \in Workers : ExecSuccess(v) /\ i \in ready[v]
    BY <1>28 DEF SkipJob
<1>29. ASSUME NEW j \in Jobs, CleanupRetry(j)
      PROVE  \E v \in Workers : ExecSuccess(v) /\ i \in ready[v]
    BY <1>29 DEF CleanupRetry
<1>30. ASSUME NEW j \in Jobs, CleanupFail(j)
      PROVE  \E v \in Workers : ExecSuccess(v) /\ i \in ready[v]
    BY <1>30 DEF CleanupFail, Goto
<1>31. ASSUME EndCleanup PROVE \E v \in Workers : ExecSuccess(v) /\ i \in ready[v]
    BY <1>31 DEF EndCleanup, Write, Goto, Leave, LeaveTo, NothingSeen, Pushed, TouchedSets, Less
<1>32. ASSUME NEW j \in Jobs, Expire(j)
      PROVE  \E v \in Workers : ExecSuccess(v) /\ i \in ready[v]
    BY <1>32 DEF Expire, WithStatus
<1>33. ASSUME UNCHANGED vars PROVE \E v \in Workers : ExecSuccess(v) /\ i \in ready[v]
    BY <1>33 DEF vars
<1> HIDE DEF Typed, TypeOK, RedisTypeOK, TxTypeOK, LocalsTypeOK, RoundTypeOK, EnvTypeOK,
   ActorsOK, Actors, Statuses, PCs, Busy, redis, tx, locals, round, env, KnownOK, Released,
   Calling, NoneRequeued
<1> QED
    BY <1>1, <1>2, <1>3, <1>4, <1>5, <1>6, <1>7, <1>8, <1>9, <1>10, <1>11, <1>12, <1>13, <1>14,
       <1>15, <1>16, <1>17, <1>18, <1>19, <1>20, <1>21, <1>22, <1>23, <1>24, <1>25, <1>26,
       <1>27, <1>28, <1>29, <1>30, <1>31, <1>32, <1>33
       DEF Next, ClientNext, WorkerNext, CleanerNext, DependentsNext

\* What a worker about to commit a success has read of those it enqueues.
ReadyOK ==
    \A w \in Workers : pc[w] = "success" /\ ~dirty[w] =>
        \A j \in ready[w] : \A d \in DependsOn[j] \ {job[w]} :
            Done(d) /\ JobKey(d) \in watch[w]

\* It holds at the EXEC.
LEMMA ReadyNext ==
    ASSUME AllowFailure = {}, Typed, ReadyOK, [Next]_vars
    PROVE  ReadyOK'
<1> SUFFICES ASSUME NEW w \in Workers, pc'[w] = "success", ~dirty'[w],
                    NEW j \in ready'[w], NEW d \in DependsOn[j], d # job'[w]
             PROVE  Done(d)' /\ JobKey(d) \in watch'[w]
    BY DEF ReadyOK
<1>1. w \in Actors /\ j \in Jobs /\ d \in Jobs
    BY JobsAssumption, TypedNext DEF Actors, Typed, TypeOK, LocalsTypeOK
<1>2. CASE pc[w] = "success"
  <2>1. /\ ~dirty[w] /\ watch'[w] = watch[w] /\ job'[w] = job[w] /\ ready'[w] = ready[w]
        /\ JobKey(d) \in watch[w] => status'[d] = status[d] \/ Expire(d)
      BY <1>1, <1>2, Frame DEF Stable, Undisturbed
  <2>2. Done(d) /\ JobKey(d) \in watch[w]
      BY <1>2, <2>1 DEF ReadyOK
  <2>3. Expire(d) => status'[d] = "absent"
      BY <1>1 DEF Expire, WithStatus
  <2> QED
      BY <2>1, <2>2, <2>3 DEF Done
<1>3. CASE pc[w] # "success"
  <2>1. ReadSuccess(w)
      BY <1>1, <1>3, StepCauses DEF Causes
  <2>2. PICK p \in Jobs : p = job[w] /\ job'[w] = p
      BY <1>1, <2>1 DEF ReadSuccess, Typed, ActorsOK, Busy
  <2>3. /\ status' = status
        /\ watch' = [watch EXCEPT ![w] = WatchedDependents(p)]
        /\ ready' = [ready EXCEPT ![w] = JobsToEnqueue(p, status[p])]
      BY <2>1, <2>2 DEF ReadSuccess, Watch, redis
  <2>4. watch'[w] = WatchedDependents(p) /\ ready'[w] = JobsToEnqueue(p, status[p])
      BY <1>1, <2>3 DEF Typed, TypeOK, TxTypeOK, LocalsTypeOK
  <2>5. /\ j \in dependents[p] /\ status[j] # "absent"
        /\ DependenciesAreMet(j, p, status[p])
      BY <2>4 DEF JobsToEnqueue
  <2>6. Done(d)
      BY <2>2, <2>5 DEF DependenciesAreMet, Done
  <2>7. JobKey(d) \in watch'[w]
      BY <2>4, <2>5 DEF WatchedDependents, JobKeys
  <2> QED
      BY <2>3, <2>6, <2>7 DEF Done
<1> QED
    BY <1>2, <1>3

\* A deferred job is enqueued only by the success of its last dependency: every
\* other one is over and done with at that very moment, though it was read
\* before, and the one that succeeds has finished or is to be repeated.  For any
\* number of jobs, clients and workers, as long as no job allows the failure of
\* its dependencies and nobody requeues failed jobs.
THEOREM EnqueuedWhenMet ==
    ASSUME OnlyOnce
    PROVE  Spec => EnqueuedOnlyWhenMet
<1> DEFINE Base == OnceInv /\ SetsOK /\ LeftOK /\ ReadyOK
<1>1. Init => Base
  <2> SUFFICES ASSUME Init PROVE Base
      OBVIOUS
  <2>1. OnceInv /\ SetsOK
      BY OnceInit, KnownInit
  <2>2. \A w \in Workers : pc[w] = "idle" /\ w \in Actors
      BY DEF Init, Actors
  <2> QED
      BY <2>1, <2>2 DEF LeftOK, ReadyOK, Performing
<1>2. Base /\ [Next]_vars => Base'
  <2> SUFFICES ASSUME Base, [Next]_vars PROVE Base'
      OBVIOUS
  <2>1. \A v, w \in Workers, j \in Jobs : Performing(v, j) /\ Performing(w, j) => v = w
      BY DEF OnceInv, WorkOK, OneOK, Holds
  <2>2. LeftOK'
      BY <2>1, LeftNext DEF OnceInv, Local
  <2>3. ReadyOK'
      BY ReadyNext DEF OnceInv, Local, OnlyOnce
  <2> QED
      BY <2>2, <2>3, OnceNext, SetsNext DEF OnceInv, Local
<1>3. ASSUME Base, [Next]_vars,
             NEW j \in Jobs, status[j] = "deferred", status'[j] = "queued",
             NEW d \in DependsOn[j]
      PROVE  Satisfied(j, d)' \/ (repeats'[d] < repeats[d] /\ status'[d] = "queued")
  <2>1. PICK w \in Workers : ExecSuccess(w) /\ j \in ready[w]
      BY <1>3, QueuedFrom DEF OnceInv, Local
  <2>2. PICK p \in Jobs : p = job[w] /\ Performing(w, p)
      BY <1>3, <2>1 DEF ExecSuccess, Performing, OnceInv, Local, Typed, ActorsOK, Busy, Actors
  <2>3. d \in Jobs
      BY JobsAssumption
  <2>4. /\ left[w] \in Nat /\ repeats[p] \in Nat /\ left[w] <= repeats[p]
      BY <1>3, <2>2 DEF LeftOK, OnceInv, Local, Typed, TypeOK, RedisTypeOK, LocalsTypeOK, Actors
  <2>5. /\ status' = [WithStatus(ready[w], "queued") EXCEPT ![p] = AfterSuccess(p, left[w])]
        /\ repeats' = [repeats EXCEPT ![p] = Less(left[w])]
        /\ pc[w] = "success" /\ ~dirty[w]
      BY <2>1, <2>2 DEF ExecSuccess
  <2>6. CASE d = p
    <3>1. status'[p] = AfterSuccess(p, left[w]) /\ repeats'[p] = Less(left[w])
        BY <1>3, <2>5 DEF WithStatus, OnceInv, Local, Typed, TypeOK, RedisTypeOK
    <3> QED
        BY <2>4, <2>6, <3>1 DEF AfterSuccess, Less, Satisfied, Done
  <2>7. CASE d # p
    <3>1. Done(d) /\ status'[d] = IF d \in ready[w] THEN "queued" ELSE status[d]
        BY <1>3, <2>1, <2>2, <2>3, <2>5, <2>7 DEF ReadyOK, WithStatus
    <3>2. d \notin ready[w]
      <4>1. ASSUME d \in ready[w] PROVE FALSE
        <5>1. Listed(w, d)
            BY <2>5, <4>1 DEF Listed
        <5>2. Waits(d) /\ d \in saved
            BY <1>3, <2>3, <5>1 DEF OnceInv, WorkOK, ListOK, Local, KnownOK, Listed, Actors
        <5> QED
            BY <3>1, <5>2 DEF Waits, Done
      <4> QED
          BY <4>1
    <3> QED
        BY <3>1, <3>2 DEF Satisfied, Done
  <2> QED
      BY <2>6, <2>7
<1>4. Base /\ [Next]_vars =>
        [\A j \in Jobs : status[j] = "deferred" /\ status'[j] = "queued" =>
            \A d \in DependsOn[j] :
               \/ Satisfied(j, d)'
               \/ d \in toFail /\ j \in AllowFailure
               \/ repeats'[d] < repeats[d] /\ status'[d] = "queued"]_vars
    BY <1>3
<1> QED
    BY <1>1, <1>2, <1>4, PTL DEF Spec, EnqueuedOnlyWhenMet

-----------------------------------------------------------------------------
(* Deferred jobs can be reached, and are woken.                          *)

\* No job's result expires: result_ttl is -1.
AllKept == \A j \in Jobs : ResultTTL[j] = "forever"

\* Whatever j waits for knows it, or is over and done with, or was canceled.
ReachOK ==
    \A j \in Jobs : status[j] = "deferred" => \A d \in DependsOn[j] :
        j \in dependents[d] \/ (Settled(d) /\ (Done(d) \/ d \in canceledReg))

\* What a step may do to a deferred job i and its dependency d.
Reaches(i, d) ==
    /\ status'[i] = "deferred" /\ status[i] # "deferred" => i \in dependents'[d]
    /\ status'[i] = "deferred" /\ i \in dependents[d] => i \in dependents'[d] \/ Done(d)'
    /\ Settled(d) /\ Done(d) => Done(d)' \/ d \in canceledReg'
    /\ Settled(d) /\ d \in canceledReg => d \in canceledReg'

\* That is all it may do.
LEMMA ReachStep ==
    ASSUME AllowFailure = {}, Local, WorkOK, [Next]_vars, NEW i \in Jobs, NEW d \in DependsOn[i]
    PROVE  Reaches(i, d)
<1> USE JobsAssumption, ActorsAssumption
        DEF Typed, TypeOK, RedisTypeOK, TxTypeOK, LocalsTypeOK, RoundTypeOK, EnvTypeOK,
           ActorsOK, Actors, Statuses, PCs, Busy, redis, tx, locals, round, env, Local
<1>1. ASSUME NEW c \in Clients, NEW j \in Jobs, EnqueueCall(c, j) PROVE Reaches(i, d)
    BY <1>1 DEF EnqueueCall, TakeUp, Reaches, Done
<1>2. ASSUME NEW c \in Clients, FindUnfinished(c) PROVE Reaches(i, d)
    BY <1>2 DEF FindUnfinished, Watch, Goto, Reaches, Done
<1>3. ASSUME NEW c \in Clients, FindNoneUnfinished(c) PROVE Reaches(i, d)
    BY <1>3 DEF FindNoneUnfinished, Goto, Reaches, Done
<1>4. ASSUME NEW c \in Clients, Defer(c) PROVE Reaches(i, d)
  <2>0. PICK k \in Jobs : k = job[c] /\ k \notin saved
      BY <1>4 DEF Defer, KnownOK, Calling
  <2>1. \A h \in Jobs \ {k} : status'[h] = status[h]
      BY <1>4, <2>0 DEF Defer, WithStatus
  <2>2. canceledReg' = canceledReg /\ dependents[d] \subseteq dependents'[d]
        /\ (status'[k] = "deferred" => \A e \in DependsOn[k] : k \in dependents'[e])
      BY <1>4, <2>0 DEF Defer, WithStatus
  <2>3. ~Settled(k)
      BY <2>0 DEF Settled, Idle
  <2> QED
      BY <2>1, <2>2, <2>3 DEF Reaches, Done
<1>5. ASSUME NEW c \in Clients, DeferAgain(c) PROVE Reaches(i, d)
    BY <1>5 DEF DeferAgain, Unwatch, Goto, Reaches, Done
<1>6. ASSUME NEW c \in Clients, Enqueue(c) PROVE Reaches(i, d)
  <2>0. PICK k \in Jobs : k = job[c] /\ k \notin saved
      BY <1>6 DEF Enqueue, KnownOK, Calling
  <2>1. \A h \in Jobs \ {k} : status'[h] = status[h]
      BY <1>6, <2>0 DEF Enqueue, WithStatus
  <2>2. canceledReg' = canceledReg /\ dependents[d] \subseteq dependents'[d]
        /\ (status'[k] = "deferred" => \A e \in DependsOn[k] : k \in dependents'[e])
      BY <1>6, <2>0 DEF Enqueue, WithStatus
  <2>3. ~Settled(k)
      BY <2>0 DEF Settled, Idle
  <2> QED
      BY <2>1, <2>2, <2>3 DEF Reaches, Done
<1>7. ASSUME NEW c \in Clients, NEW j \in Jobs, Cancel(c, j) PROVE Reaches(i, d)
    BY <1>7 DEF Cancel, Spend, TakeUp, Look, Ops, Reaches, Done
<1>8. ASSUME NEW c \in Clients, NEW forget \in BOOLEAN, ExecCancel(c, forget)
      PROVE  Reaches(i, d)
    BY <1>8 DEF ExecCancel, Write, Goto, Leave, LeaveTo, NothingSeen, WithStatus, DropFrom,
       Reaches, Done
<1>9. ASSUME NEW c \in Clients, NEW j \in Jobs, Requeue(c, j) PROVE Reaches(i, d)
    BY <1>9 DEF Requeue, Spend, TakeUp, Interfere, Ops, Reaches, Done
<1>10. ASSUME NEW c \in Clients, ExecRequeue(c) PROVE Reaches(i, d)
    BY <1>10 DEF ExecRequeue, NoneRequeued
<1>11. ASSUME NEW w \in Workers, NEW j \in Jobs, Dequeue(w, j) PROVE Reaches(i, d)
    BY <1>11 DEF Dequeue, Goto, Reaches, Done
<1>12. ASSUME NEW w \in Workers, NEW j \in Jobs, DropId(w, j) PROVE Reaches(i, d)
    BY <1>12 DEF DropId, Reaches, Done
<1>13. ASSUME NEW w \in Workers, PrepareExecution(w) PROVE Reaches(i, d)
    BY <1>13 DEF PrepareExecution, Goto, Reaches, Done
<1>14. ASSUME NEW w \in Workers, Start(w) PROVE Reaches(i, d)
  <2>0. PICK k \in Jobs : k = job[w] /\ Performing(w, k)
      BY <1>14 DEF Start, Performing
  <2>1. \A h \in Jobs \ {k} : status'[h] = status[h]
      BY <1>14, <2>0 DEF Start, WithStatus
  <2>2. status'[k] # "deferred" /\ UNCHANGED <<dependents, canceledReg>>
      BY <1>14, <2>0 DEF Start, WithStatus
  <2>3. ~Settled(k)
      BY <2>0, HeldFacts DEF Holds
  <2> QED
      BY <2>1, <2>2, <2>3 DEF Reaches, Done
<1>15. ASSUME NEW w \in Workers, Heartbeat(w) PROVE Reaches(i, d)
    BY <1>15 DEF Heartbeat, Interfere, Reaches, Done
<1>16. ASSUME NEW w \in Workers, ReadSuccess(w) PROVE Reaches(i, d)
    BY <1>16 DEF ReadSuccess, Watch, Goto, Look, JobsToEnqueue, WatchedDependents, Reaches, Done
<1>17. ASSUME NEW w \in Workers, ExecSuccess(w) PROVE Reaches(i, d)
  <2>0. PICK k \in Jobs : k = job[w] /\ Performing(w, k)
      BY <1>17 DEF ExecSuccess, Performing
  <2>1. /\ \A h \in Jobs \ {k} : status'[h] = IF h \in ready[w] THEN "queued" ELSE status[h]
        /\ status'[k] = AfterSuccess(k, left[w])
        /\ dependents'[d] = IF d # k THEN dependents[d]
                            ELSE IF AfterSuccess(k, left[w]) = "absent" THEN {}
                            ELSE dependents[d] \ ready[w]
        /\ \A h \in Jobs \ {k} : h \in canceledReg => h \in canceledReg'
      BY <1>17, <2>0 DEF ExecSuccess, WithStatus, DropFrom
  <2>2. ~Settled(k)
      BY <2>0, HeldFacts DEF Holds
  <2>3. \A h \in ready[w] : ~Settled(h)
      BY <1>17 DEF ExecSuccess, Settled, Listed
  <2>4. status'[i] = "deferred" => status[i] = "deferred" /\ i # k /\ i \notin ready[w]
      BY <2>1 DEF AfterSuccess
  <2>5. status'[i] = "deferred" /\ i \in dependents[d] => i \in dependents'[d] \/ Done(d)'
      BY <2>1, <2>4 DEF Done
  <2>6. Settled(d) => status'[d] = status[d] /\ (d \in canceledReg => d \in canceledReg')
      BY <2>1, <2>2, <2>3
  <2> QED
      BY <2>4, <2>5, <2>6 DEF Reaches, Done
<1>18. ASSUME NEW w \in Workers, SuccessAgain(w) PROVE Reaches(i, d)
    BY <1>18 DEF SuccessAgain, Unwatch, Goto, NothingSeen, Less, Reaches, Done
<1>19. ASSUME NEW w \in Workers, RetryJob(w) PROVE Reaches(i, d)
  <2>0. PICK k \in Jobs : k = job[w] /\ Performing(w, k)
      BY <1>19 DEF RetryJob, Performing
  <2>1. \A h \in Jobs \ {k} : status'[h] = status[h]
      BY <1>19, <2>0 DEF RetryJob, WithStatus
  <2>2. status'[k] # "deferred" /\ UNCHANGED <<dependents, canceledReg>>
      BY <1>19, <2>0 DEF RetryJob, WithStatus
  <2>3. ~Settled(k)
      BY <2>0, HeldFacts DEF Holds
  <2> QED
      BY <2>1, <2>2, <2>3 DEF Reaches, Done
<1>20. ASSUME NEW w \in Workers, FailJob(w) PROVE Reaches(i, d)
  <2>0. PICK k \in Jobs : k = job[w] /\ Performing(w, k)
      BY <1>20 DEF FailJob, Performing
  <2>1. \A h \in Jobs \ {k} : status'[h] = status[h]
      BY <1>20, <2>0 DEF FailJob, WithStatus
  <2>2. status'[k] # "deferred" /\ UNCHANGED <<dependents, canceledReg>>
      BY <1>20, <2>0 DEF FailJob, WithStatus
  <2>3. ~Settled(k)
      BY <2>0, HeldFacts DEF Holds
  <2> QED
      BY <2>1, <2>2, <2>3 DEF Reaches, Done
<1>21. ASSUME NEW w \in Workers, StopJob(w) PROVE Reaches(i, d)
  <2>0. PICK k \in Jobs : k = job[w] /\ Performing(w, k)
      BY <1>21 DEF StopJob, Performing
  <2>1. \A h \in Jobs \ {k} : status'[h] = status[h]
      BY <1>21, <2>0 DEF StopJob, WithStatus
  <2>2. status'[k] # "deferred" /\ UNCHANGED <<dependents, canceledReg>>
      BY <1>21, <2>0 DEF StopJob, WithStatus
  <2>3. ~Settled(k)
      BY <2>0, HeldFacts DEF Holds
  <2> QED
      BY <2>1, <2>2, <2>3 DEF Reaches, Done
<1>22. ASSUME NEW w \in Workers, Crash(w) PROVE Reaches(i, d)
    BY <1>22 DEF Crash, Spend, Unwatch, Goto, LeaveTo, NothingSeen, Ops, Reaches, Done
<1>23. ASSUME NEW a \in Workers \cup {Cleaner}, ReadDependents(a) PROVE Reaches(i, d)
    BY <1>23 DEF ReadDependents, Watch, Goto, Found, JobsToEnqueue, WatchedDependents, Reaches,
       Done
<1>24. ASSUME NEW a \in Workers \cup {Cleaner}, NoDependents(a) PROVE Reaches(i, d)
    BY <1>24 DEF NoDependents, Goto, Resume, Leave, LeaveTo, NothingSeen, Reaches, Done
<1>25. ASSUME NEW a \in Workers \cup {Cleaner}, ExecDependents(a) PROVE Reaches(i, d)
    BY <1>25 DEF ExecDependents, NoneRequeued
<1>26. ASSUME NEW a \in Workers \cup {Cleaner}, DependentsAgain(a) PROVE Reaches(i, d)
    BY <1>26 DEF DependentsAgain, NoneRequeued
<1>27. ASSUME StartCleanup PROVE Reaches(i, d)
    BY <1>27 DEF StartCleanup, Expired, Goto, Reaches, Done
<1>28. ASSUME NEW j \in Jobs, SkipJob(j) PROVE Reaches(i, d)
    BY <1>28 DEF SkipJob, Reaches, Done
<1>29. ASSUME NEW j \in Jobs, CleanupRetry(j) PROVE Reaches(i, d)
    BY <1>29 DEF CleanupRetry, Reaches, Done
<1>30. ASSUME NEW j \in Jobs, CleanupFail(j) PROVE Reaches(i, d)
    BY <1>30 DEF CleanupFail, Goto, Reaches, Done
<1>31. ASSUME EndCleanup PROVE Reaches(i, d)
  <2>0. PICK K \in SUBSET Jobs : K = {h \in Jobs : toRetry[h] > 0} \cup toFail
      OBVIOUS
  <2>1. /\ \A h \in Jobs \ K : status'[h] = status[h]
        /\ \A h \in K : status'[h] \in {"queued", "failed"}
        /\ UNCHANGED <<dependents, canceledReg>>
      BY <1>31, <2>0 DEF EndCleanup
  <2>2. ASSUME NEW h \in K PROVE ~Settled(h)
    <3>1. PICK w \in Workers : <<h, w>> \in batch
        BY <2>0 DEF EntriesOK
    <3> QED
        BY <3>1, HeldFacts DEF Holds
  <2> QED
      BY <2>1, <2>2 DEF Reaches, Done
<1>32. ASSUME NEW j \in Jobs, Expire(j) PROVE Reaches(i, d)
    BY <1>32 DEF Expire, WithStatus, Reaches, Done
<1>33. ASSUME UNCHANGED vars PROVE Reaches(i, d)
    BY <1>33 DEF vars, Reaches, Done
<1> HIDE DEF Typed, TypeOK, RedisTypeOK, TxTypeOK, LocalsTypeOK, RoundTypeOK, EnvTypeOK,
   ActorsOK, Actors, Statuses, PCs, Busy, redis, tx, locals, round, env, Local
<1> QED
    BY <1>1, <1>2, <1>3, <1>4, <1>5, <1>6, <1>7, <1>8, <1>9, <1>10, <1>11, <1>12, <1>13, <1>14,
       <1>15, <1>16, <1>17, <1>18, <1>19, <1>20, <1>21, <1>22, <1>23, <1>24, <1>25, <1>26,
       <1>27, <1>28, <1>29, <1>30, <1>31, <1>32, <1>33
       DEF Next, ClientNext, WorkerNext, CleanerNext, DependentsNext

\* A deferred job can still be reached.
LEMMA ReachNext ==
    ASSUME OnlyOnce, OnceInv, SetsOK, ReachOK, [Next]_vars
    PROVE  ReachOK'
<1> SUFFICES ASSUME NEW i \in Jobs, status'[i] = "deferred", NEW d \in DependsOn[i]
             PROVE  \/ i \in dependents'[d]
                    \/ Settled(d)' /\ (Done(d)' \/ d \in canceledReg')
    BY DEF ReachOK
<1>1. d \in Jobs
    BY JobsAssumption
<1>2. OnceInv' /\ Advance /\ SetsOK'
    BY OnceNext, SetsNext DEF OnceInv, Local
<1>3. Reaches(i, d)
    BY ReachStep DEF OnceInv, OnlyOnce
<1>4. d \in saved'
    BY <1>2 DEF SetsOK
<1>5. Done(d)' => Settled(d)'
    BY <1>1, <1>2, <1>4 DEF OnceInv, WorkOK, OneOK
<1>6. CASE status[i] # "deferred" \/ i \in dependents[d]
    BY <1>3, <1>5, <1>6 DEF Reaches
<1>7. CASE status[i] = "deferred" /\ i \notin dependents[d]
  <2>1. Settled(d) /\ (Done(d) \/ d \in canceledReg)
      BY <1>7 DEF ReachOK
  <2> QED
      BY <1>1, <1>2, <1>3, <2>1 DEF Reaches, Advance
<1> QED
    BY <1>6, <1>7

\* A deferred job is in the DeferredJobRegistry, alone with its like, whatever
\* the constants; and each dependency that is not over knows it, if results are
\* kept, or nothing is requeued, or jobs are said to allow failures, and then the
\* property itself speaks only of jobs whose dependencies' results are kept.
\* However register_dependency, the success of a dependency, its expiry and
\* cancel() interleave: cancel() takes a job out of the registry by the status
\* it has read, and that is never out of date for a job still deferred.
THEOREM DeferredStaysReachable ==
    ASSUME AllowFailure # {} \/ AllKept \/ Budget["requeue"] = 0
    PROVE  Spec => []DeferredIsReachable
<1> DEFINE Base == Typed /\ KnownOK /\ SetsOK /\ DeferralsOK
<1>1. Init => Base
    BY TypedInit, KnownInit
<1>2. Base /\ [Next]_vars => Base'
    BY TypedNext, KnownNext, SetsNext, DeferralsNext
<1>3. CASE OnlyOnce
  <2>1. Init => OnceInv /\ ReachOK
      BY <1>3, OnceInit DEF ReachOK, Init
  <2>2. Base /\ OnceInv /\ ReachOK /\ [Next]_vars => (OnceInv /\ ReachOK)'
      BY <1>3, OnceNext, ReachNext
  <2>3. Base /\ ReachOK => DeferredIsReachable
      BY DEF DeferralsOK, ReachOK, DeferredIsReachable
  <2> QED
      BY <1>1, <1>2, <2>1, <2>2, <2>3, PTL DEF Spec
<1>4. CASE AllowFailure # {} \/ AllKept
  <2>1. ASSUME Base PROVE DeferredIsReachable
    <3>1. ASSUME NEW j \in Jobs, status[j] = "deferred", Kept(j), NEW d \in DependsOn[j]
          PROVE  j \in dependents[d]
      <4>1. d \in Jobs
          BY JobsAssumption
      <4>2. ResultTTL[d] = "forever"
          BY <1>4, <3>1, <4>1 DEF Kept, AllKept
      <4> QED
          BY <2>1, <3>1, <4>2 DEF SetsOK
    <3> QED
        BY <2>1, <3>1 DEF DeferralsOK, DeferredIsReachable
  <2> QED
      BY <1>1, <1>2, <2>1, PTL DEF Spec
<1> QED
    BY <1>3, <1>4 DEF OnlyOnce

\* When the last of j's dependencies ends well, j is enqueued in the same
\* transaction, unless a dependency was spoiled.
LEMMA SuccessWakes ==
    ASSUME Typed, RegistriesOK, SuccessOK,
           NEW w \in Workers, ExecSuccess(w),
           NEW j \in Jobs, status[j] = "deferred", status'[j] = "deferred",
           NEW p \in DependsOn[j], job[w] = p, \A d \in DependsOn[j] : Done(d)',
           j \in dependents[p], ResultTTL[p] # "zero"
    PROVE  Spoiled(p)'
<1>1. /\ p \in Jobs /\ p # j /\ w \in Actors
      /\ pc[w] = "success" /\ ~dirty[w]
      /\ DependsOn[j] \subseteq Jobs
    BY JobsAssumption DEF ExecSuccess, Typed, ActorsOK, Busy, Actors
<1>2. /\ \A k \in Jobs \ {p} : status'[k] = IF k \in ready[w] THEN "queued" ELSE status[k]
      /\ UNCHANGED <<failedReg, canceledReg>>
      /\ \A c \in Clients : pc'[c] = pc[c] /\ job'[c] = job[c]
    BY <1>1, ActorsAssumption
       DEF Deletes, NothingSeen, DropFrom, ExecSuccess, WithStatus, Leave, LeaveTo, Goto,
           Typed, TypeOK, RedisTypeOK, LocalsTypeOK, Actors
<1>3. j \notin ready[w]
    BY <1>1, <1>2
<1>4. ~DependenciesAreMet(j, p, status[p])
    BY <1>1, <1>3 DEF SuccessOK
<1>5. \A d \in DependsOn[j] \ {p} : status[d] \in {"absent", "finished"}
    BY <1>1, <1>2 DEF Done
<1>6. status[p] \in {"canceled", "failed", "stopped"}
    BY <1>4, <1>5 DEF DependenciesAreMet
<1>7. Spoiled(p)
    BY <1>1, <1>6 DEF RegistriesOK, FailureIsAccounted, Spoiled
<1> QED
    BY <1>2, <1>7 DEF Spoiled, Requeuing

\* A worker about to commit a success of j's dependency finds j in its set.
Reached ==
    \A w \in Workers : \A j \in Jobs :
        pc[w] = "success" /\ status[j] = "deferred" /\ Kept(j) /\ job[w] \in DependsOn[j]
        => j \in dependents[job[w]]

\* No step leaves a deferred job behind.
LEMMA WakeupNext ==
    ASSUME Typed, KnownOK, RegistriesOK, DeferOK, SuccessOK, NoLostWakeup, Reached,
           \A j \in Jobs : Kept(j) => \A d \in DependsOn[j] : ResultTTL[d] # "zero",
           [Next]_vars
    PROVE  NoLostWakeup'
<1> SUFFICES ASSUME NEW j \in Jobs, status'[j] = "deferred", Kept(j),
                    \A d \in DependsOn[j] : Done(d)'
             PROVE  \E d \in DependsOn[j] : Spoiled(d)'
    BY DEF NoLostWakeup, Spoiled, Requeuing, Kept
<1>1. DependsOn[j] \subseteq Jobs /\ j \notin DependsOn[j]
    BY JobsAssumption
<1>2. ASSUME NEW b \in Actors, NEW d \in Jobs
      PROVE  Causes(b, d)
    BY StepCauses
<1>3. Cleaner \in Actors
    BY DEF Actors
<1>4. CASE status[j] # "deferred"
  <2>1. PICK c \in Clients : Defer(c) /\ job[c] = j
      BY <1>2, <1>3, <1>4 DEF Causes
  <2>2. Unfinished(j) # {} /\ status' = WithStatus({j}, "deferred")
      BY <2>1 DEF Defer, DeferOK
  <2>3. PICK d \in DependsOn[j] : status[d] \notin {"absent", "finished"}
      BY <2>2 DEF Unfinished
  <2>4. status'[d] = status[d]
      BY <1>1, <2>2 DEF WithStatus
  <2> QED
      BY <2>3, <2>4 DEF Done
<1>5. CASE status[j] = "deferred" /\ \A d \in DependsOn[j] : Done(d)
  <2>1. PICK d \in DependsOn[j] : Spoiled(d)
      BY <1>5 DEF NoLostWakeup, Spoiled
  <2> QED
      BY <1>1, <1>2, <1>3, <2>1 DEF Causes
<1>6. CASE status[j] = "deferred" /\ \E d \in DependsOn[j] : ~Done(d)
  <2>1. PICK p \in DependsOn[j] : ~Done(p)
      BY <1>6
  <2>2. PICK w \in Workers : ExecSuccess(w) /\ job[w] = p
      BY <1>1, <1>2, <1>3, <2>1 DEF Causes
  <2>3. j \in dependents[p] /\ ResultTTL[p] # "zero"
      BY <1>6, <2>2 DEF Reached, ExecSuccess
  <2>4. Spoiled(p)'
      BY <1>6, <2>2, <2>3, SuccessWakes
  <2> QED
      BY <2>4
<1> QED
    BY <1>4, <1>5, <1>6

\* However the deferral of a job, the ends of its dependencies, the expiry of
\* their results, cancels, requeues, crashes and the cleanup interleave, a
\* deferred job whose dependencies have all finished is enqueued by the
\* transaction that ends the last of them: for any number of jobs, workers and
\* clients, any dependency relation and any retries and repeats.  Either the
\* dependencies' results are kept (with allow_failure the property itself speaks
\* only of those), or nothing is requeued and no result is discarded at once: a
\* job canceled while it runs, then deleted by its own success, is no longer a
\* canceled one to those who wait for it.
THEOREM NoWakeupIsLost ==
    ASSUME \/ AllowFailure # {} \/ AllKept
           \/ Budget["requeue"] = 0 /\ \A j \in Jobs : ResultTTL[j] # "zero"
    PROVE  Spec => []NoLostWakeup
<1> DEFINE Base == Typed /\ KnownOK /\ SetsOK
           Facts == RegistriesOK /\ DeferOK /\ SuccessOK /\ NoLostWakeup
           Once == OnceInv /\ ReachOK
<1>1. Init => Base /\ Facts
  <2> SUFFICES ASSUME Init PROVE Base /\ Facts
      OBVIOUS
  <2>1. Base
      BY TypedInit, KnownInit
  <2>2. RegistriesOK
      BY DEF Init, RegistriesOK, FailureIsAccounted
  <2>3. DeferOK /\ SuccessOK /\ NoLostWakeup
      BY ActorsAssumption DEF Init, DeferOK, SuccessOK, NoLostWakeup, Actors
  <2> QED
      BY <2>1, <2>2, <2>3
<1>2. Base /\ [Next]_vars => Base'
    BY TypedNext, KnownNext, SetsNext
<1>3. ASSUME Base, Facts, Reached, [Next]_vars PROVE Facts'
  <2>1. \A j \in Jobs : Kept(j) => \A d \in DependsOn[j] : ResultTTL[d] # "zero"
      BY JobsAssumption DEF Kept, AllKept
  <2>2. NoLostWakeup'
      BY <1>3, <2>1, WakeupNext
  <2> QED
      BY <1>3, <2>2, RegistriesNext, DeferNext, SuccessNext
<1>4. CASE AllowFailure # {} \/ AllKept
  <2>1. ASSUME Base PROVE Reached
    <3> SUFFICES ASSUME NEW w \in Workers, NEW j \in Jobs, pc[w] = "success",
                        status[j] = "deferred", Kept(j), job[w] \in DependsOn[j]
                 PROVE  j \in dependents[job[w]]
        BY DEF Reached
    <3>1. ResultTTL[job[w]] = "forever"
        BY <1>4, JobsAssumption DEF Kept, AllKept
    <3> QED
        BY <2>1, <3>1 DEF SetsOK
  <2>2. Base /\ Facts /\ [Next]_vars => Facts'
      BY <1>3, <2>1
  <2> QED
      BY <1>1, <1>2, <2>2, PTL DEF Spec
<1>5. CASE OnlyOnce
  <2>1. Init => Once
      BY <1>5, OnceInit DEF ReachOK, Init
  <2>2. Base /\ Once /\ [Next]_vars => Once'
      BY <1>5, OnceNext, ReachNext
  <2>3. ASSUME Base, Once PROVE Reached
    <3> SUFFICES ASSUME NEW w \in Workers, NEW j \in Jobs, pc[w] = "success",
                        status[j] = "deferred", job[w] \in DependsOn[j]
                 PROVE  j \in dependents[job[w]]
        BY DEF Reached
    <3>1. job[w] \in Jobs /\ Holds(w, job[w])
        BY JobsAssumption DEF Holds, Performing
    <3>2. ~Settled(job[w])
        BY <2>3, <3>1, HeldFacts DEF OnceInv
    <3> QED
        BY <2>3, <3>2 DEF ReachOK
  <2>4. Base /\ Once /\ Facts /\ [Next]_vars => Facts'
      BY <1>3, <2>3
  <2> QED
      BY <1>1, <1>2, <2>1, <2>2, <2>4, PTL DEF Spec
<1> QED
    BY <1>4, <1>5 DEF OnlyOnce

-----------------------------------------------------------------------------
(* Failures wake those who allow them.                                   *)

\* There is one entry in the queue, or one worker, or one place where it has
\* failed, for a job without dependencies: no one enqueues it as a dependent.
Alone(r) ==
    /\ \A p \in Actors : r \notin ready[p]
    /\ queue[r] <= 1
    /\ queue[r] > 0 =>
          /\ r \in saved /\ r \notin failedReg
          /\ \A w \in Workers : ~Holds(w, r)
          /\ \A c \in Clients : ~(pc[c] = "requeue" /\ job[c] = r)
    /\ \A w \in Workers : Holds(w, r) =>
          /\ r \in saved /\ r \notin failedReg
          /\ \A c \in Clients : ~(pc[c] = "requeue" /\ job[c] = r)
    /\ \A v, w \in Workers : Holds(v, r) /\ Holds(w, r) => v = w
    /\ \A c, e \in Clients : pc[c] = "requeue" /\ job[c] = r =>
          r \notin failedReg /\ (pc[e] = "requeue" /\ job[e] = r => c = e)

\* A step that brings nothing about for r.
Still(r) ==
    /\ saved \subseteq saved'
    /\ queue'[r] \in Nat /\ queue[r] \in Nat /\ queue'[r] <= queue[r]
    /\ r \in failedReg' => r \in failedReg
    /\ \A w \in Workers : Holds(w, r)' => Holds(w, r)
    /\ \A c \in Clients : pc'[c] = "requeue" /\ job'[c] = r => pc[c] = "requeue" /\ job[c] = r
    /\ \A p \in Actors : r \notin ready'[p]

\* Such a step leaves r alone.
LEMMA StillAlone ==
    ASSUME NEW r \in Jobs, Alone(r), Still(r)
    PROVE  Alone(r)'
BY DEF Alone, Still

\* No step brings a job without dependencies to a second place.
LEMMA AloneNext ==
    ASSUME Typed, KnownOK, SetsOK, EntriesOK, NEW r \in Jobs, DependsOn[r] = {},
           Alone(r), [Next]_vars
    PROVE  Alone(r)'
<1>0. /\ \A d \in Jobs : r \notin dependents[d]
      /\ \A p \in Actors : r \notin ready[p]
    BY DEF SetsOK, Alone
<1> USE JobsAssumption, ActorsAssumption, <1>0
        DEF Typed, TypeOK, RedisTypeOK, TxTypeOK, LocalsTypeOK, RoundTypeOK, EnvTypeOK,
           ActorsOK, Actors, Statuses, PCs, Busy, redis, tx, locals, round, env
<1>1. ASSUME NEW c \in Clients, NEW j \in Jobs, EnqueueCall(c, j) PROVE Alone(r)'
  <2>1. Still(r)
      BY <1>1 DEF EnqueueCall, TakeUp, Still, Holds, Performing
  <2> QED
      BY ONLY Alone(r), <2>1, StillAlone
<1>2. ASSUME NEW c \in Clients, FindUnfinished(c) PROVE Alone(r)'
  <2>1. Still(r)
      BY <1>2 DEF FindUnfinished, Goto, Still, Holds, Performing
  <2> QED
      BY ONLY Alone(r), <2>1, StillAlone
<1>3. ASSUME NEW c \in Clients, FindNoneUnfinished(c) PROVE Alone(r)'
  <2>1. Still(r)
      BY <1>3 DEF FindNoneUnfinished, Goto, Still, Holds, Performing
  <2> QED
      BY ONLY Alone(r), <2>1, StillAlone
<1>4. ASSUME NEW c \in Clients, Defer(c) PROVE Alone(r)'
  <2>1. Still(r)
      BY <1>4 DEF Defer, Leave, LeaveTo, Goto, Still, Holds, Performing
  <2> QED
      BY ONLY Alone(r), <2>1, StillAlone
<1>5. ASSUME NEW c \in Clients, DeferAgain(c) PROVE Alone(r)'
  <2>1. Still(r)
      BY <1>5 DEF DeferAgain, Goto, Still, Holds, Performing
  <2> QED
      BY ONLY Alone(r), <2>1, StillAlone
<1>6. ASSUME NEW c \in Clients, Enqueue(c) PROVE Alone(r)'
  <2>1. /\ job[c] \notin saved /\ queue' = Pushed({job[c]}) /\ saved' = saved \cup {job[c]}
        /\ UNCHANGED <<failedReg, startedReg, batch>>
      BY <1>6 DEF Enqueue, KnownOK, Calling
  <2>2. /\ \A p \in Workers : pc'[p] = pc[p] /\ job'[p] = job[p]
        /\ \A p \in Actors : ready'[p] \subseteq ready[p]
        /\ \A e \in Clients : pc'[e] = "requeue" => pc[e] = "requeue" /\ job'[e] = job[e]
      BY <1>6 DEF Enqueue, Leave, LeaveTo, Goto
  <2>3. \A v \in Workers : Holds(v, r)' => Holds(v, r)
      BY <2>1, <2>2 DEF Holds, Performing
  <2>4. CASE job[c] # r
    <3>1. Still(r)
        BY <2>1, <2>2, <2>3, <2>4 DEF Still, Pushed
    <3> QED
        BY ONLY Alone(r), <3>1, StillAlone
  <2>5. CASE job[c] = r
    <3>1. r \notin saved /\ queue[r] = 0 /\ \A v \in Workers : ~Holds(v, r)
        BY <2>1, <2>5 DEF Alone
    <3>2. r \notin failedReg /\ \A e \in Clients : ~(pc[e] = "requeue" /\ job[e] = r)
        BY <3>1 DEF KnownOK, Calling, Released
    <3>3. queue'[r] = 1 /\ r \in saved'
        BY <2>1, <2>5, <3>1 DEF Pushed
    <3> QED
        BY ONLY Alone(r), <2>1, <2>2, <2>3, <3>1, <3>2, <3>3 DEF Alone
  <2> QED
      BY <2>4, <2>5
<1>7. ASSUME NEW c \in Clients, NEW j \in Jobs, Cancel(c, j) PROVE Alone(r)'
  <2>1. Still(r)
      BY <1>7 DEF Cancel, Spend, TakeUp, Still, Holds, Performing
  <2> QED
      BY ONLY Alone(r), <2>1, StillAlone
<1>8. ASSUME NEW c \in Clients, NEW forget \in BOOLEAN, ExecCancel(c, forget) PROVE Alone(r)'
  <2>1. Still(r)
      BY <1>8 DEF ExecCancel, Leave, LeaveTo, Goto, DropFrom, Still, Holds, Performing
  <2> QED
      BY ONLY Alone(r), <2>1, StillAlone
<1>9. ASSUME NEW c \in Clients, NEW j \in Jobs, Requeue(c, j) PROVE Alone(r)'
  <2>1. /\ j \in failedReg /\ failedReg' = failedReg \ {j} /\ pc[c] = "idle"
        /\ UNCHANGED <<queue, startedReg, batch, ready, saved>>
      BY <1>9 DEF Requeue, TakeUp, Spend
  <2>2. /\ \A p \in Actors \ {c} : pc'[p] = pc[p] /\ job'[p] = job[p]
        /\ job'[c] = j
      BY <1>9 DEF Requeue, TakeUp
  <2>3. \A v \in Workers : Holds(v, r)' => Holds(v, r)
      BY <2>1, <2>2 DEF Holds, Performing
  <2>4. CASE j # r
    <3>1. \A e \in Clients : pc'[e] = "requeue" /\ job'[e] = r =>
             pc[e] = "requeue" /\ job[e] = r
        BY <2>2, <2>4
    <3>2. queue[r] \in Nat /\ \A p \in Actors : r \notin ready[p]
        OBVIOUS
    <3>3. Still(r)
        BY ONLY <2>1, <2>3, <3>1, <3>2 DEF Still
    <3> QED
        BY ONLY Alone(r), <3>3, StillAlone
  <2>5. CASE j = r
    <3>1. /\ queue[r] = 0 /\ \A v \in Workers : ~Holds(v, r)
          /\ \A e \in Clients : ~(pc[e] = "requeue" /\ job[e] = r)
        BY <2>1, <2>5 DEF Alone
    <3>2. \A e \in Clients : pc'[e] = "requeue" /\ job'[e] = r => e = c
        BY <2>2, <3>1
    <3> QED
        BY ONLY Alone(r), <2>1, <2>3, <2>5, <3>1, <3>2 DEF Alone
  <2> QED
      BY <2>4, <2>5
<1>10. ASSUME NEW c \in Clients, ExecRequeue(c) PROVE Alone(r)'
  <2>1. /\ pc[c] = "requeue" /\ queue' = Pushed({job[c]}) /\ job[c] \in saved
        /\ UNCHANGED <<failedReg, startedReg, batch, saved>>
      BY <1>10 DEF ExecRequeue, KnownOK, Calling, Released
  <2>2. /\ \A p \in Workers : pc'[p] = pc[p] /\ job'[p] = job[p]
        /\ \A p \in Actors : ready'[p] \subseteq ready[p]
        /\ \A e \in Clients : pc'[e] = "requeue" => e # c /\ pc[e] = "requeue" /\ job'[e] = job[e]
      BY <1>10 DEF ExecRequeue, Leave, LeaveTo, Goto
  <2>3. \A v \in Workers : Holds(v, r)' => Holds(v, r)
      BY <2>1, <2>2 DEF Holds, Performing
  <2>4. CASE job[c] # r
    <3>1. Still(r)
        BY <2>1, <2>2, <2>3, <2>4 DEF Still, Pushed
    <3> QED
        BY ONLY Alone(r), <3>1, StillAlone
  <2>5. CASE job[c] = r
    <3>1. /\ queue[r] = 0 /\ r \notin failedReg /\ \A v \in Workers : ~Holds(v, r)
          /\ \A e \in Clients : pc[e] = "requeue" /\ job[e] = r => e = c
        BY <2>1, <2>5 DEF Alone
    <3>2. queue'[r] = 1
        BY <2>1, <2>5, <3>1 DEF Pushed
    <3>3. \A e \in Clients : ~(pc'[e] = "requeue" /\ job'[e] = r)
        BY <2>2, <3>1
    <3> QED
        BY ONLY Alone(r), <2>1, <2>2, <2>3, <2>5, <3>1, <3>2, <3>3 DEF Alone
  <2> QED
      BY <2>4, <2>5
<1>11. ASSUME NEW w \in Workers, NEW j \in Jobs, Dequeue(w, j) PROVE Alone(r)'
  <2>1. /\ queue[j] > 0 /\ queue' = [queue EXCEPT ![j] = @ - 1]
        /\ UNCHANGED <<failedReg, startedReg, batch, ready, saved>>
      BY <1>11 DEF Dequeue
  <2>2. /\ \A p \in Actors \ {w} : pc'[p] = pc[p] /\ job'[p] = job[p]
        /\ job'[w] = j
      BY <1>11 DEF Dequeue, Goto
  <2>3. \A v \in Workers \ {w} : Holds(v, r)' => Holds(v, r)
      BY <2>1, <2>2 DEF Holds, Performing
  <2>4. \A e \in Clients : pc'[e] = pc[e] /\ job'[e] = job[e]
      BY <2>2
  <2>5. CASE j # r
    <3>1. Holds(w, r)' => Holds(w, r)
        BY <2>1, <2>2, <2>5 DEF Holds, Performing
    <3>2. Still(r)
        BY <2>1, <2>2, <2>3, <2>4, <2>5, <3>1 DEF Still
    <3> QED
        BY ONLY Alone(r), <3>2, StillAlone
  <2>6. CASE j = r
    <3>1. /\ queue[r] = 1 /\ r \notin failedReg /\ \A v \in Workers : ~Holds(v, r)
          /\ r \in saved
          /\ \A e \in Clients : ~(pc[e] = "requeue" /\ job[e] = r)
        BY <2>1, <2>6 DEF Alone
    <3>2. queue'[r] = 0
        BY <2>1, <2>6, <3>1
    <3>3. \A v \in Workers : Holds(v, r)' => v = w
        BY <2>3, <3>1
    <3> QED
        BY ONLY Alone(r), <2>1, <2>4, <3>1, <3>2, <3>3 DEF Alone
  <2> QED
      BY <2>5, <2>6
<1>12. ASSUME NEW w \in Workers, NEW j \in Jobs, DropId(w, j) PROVE Alone(r)'
  <2>1. Still(r)
      BY <1>12 DEF DropId, Still, Holds, Performing
  <2> QED
      BY ONLY Alone(r), <2>1, StillAlone
<1>13. ASSUME NEW w \in Workers, PrepareExecution(w) PROVE Alone(r)'
  <2>1. Still(r)
      BY <1>13 DEF PrepareExecution, Goto, Still, Holds, Performing
  <2> QED
      BY ONLY Alone(r), <2>1, StillAlone
<1>14. ASSUME NEW w \in Workers, Start(w) PROVE Alone(r)'
  <2>1. Still(r)
      BY <1>14 DEF Start, Goto, Still, Holds, Performing
  <2> QED
      BY ONLY Alone(r), <2>1, StillAlone
<1>15. ASSUME NEW w \in Workers, Heartbeat(w) PROVE Alone(r)'
  <2>1. Still(r)
      BY <1>15 DEF Heartbeat, Still, Holds, Performing
  <2> QED
      BY ONLY Alone(r), <2>1, StillAlone
<1>16. ASSUME NEW w \in Workers, ReadSuccess(w) PROVE Alone(r)'
  <2>1. Still(r)
      BY <1>16 DEF ReadSuccess, Goto, JobsToEnqueue, Still, Holds, Performing
  <2> QED
      BY ONLY Alone(r), <2>1, StillAlone
<1>17. ASSUME NEW w \in Workers, ExecSuccess(w) PROVE Alone(r)'
  <2>1. /\ pc[w] \in {"running", "success"} /\ job[w] \in Jobs
        /\ queue' = Pushed(ready[w] \cup (IF left[w] > 0 THEN {job[w]} ELSE {}))
        /\ failedReg' \subseteq failedReg
        /\ startedReg' \subseteq startedReg \ {<<job[w], w>>}
        /\ UNCHANGED <<batch, saved>>
      BY <1>17 DEF ExecSuccess, DropFrom
  <2>2. /\ \A p \in Actors \ {w} : pc'[p] = pc[p] /\ job'[p] = job[p]
        /\ \A p \in Actors : ready'[p] \subseteq ready[p]
        /\ pc'[w] \in {"idle", "dependents"}
      BY <1>17 DEF ExecSuccess, Leave, LeaveTo, Goto
  <2>3. \A v \in Workers : Holds(v, r)' => Holds(v, r)
      BY <2>1, <2>2 DEF Holds, Performing
  <2>4. \A e \in Clients : pc'[e] = pc[e] /\ job'[e] = job[e]
      BY <2>2
  <2>5. r \notin ready[w] /\ job[w] \in saved
      BY <2>1 DEF Alone, KnownOK, Calling, Released
  <2>6. CASE job[w] # r
    <3>1. Still(r)
        BY <2>1, <2>2, <2>3, <2>4, <2>5, <2>6 DEF Still, Pushed
    <3> QED
        BY ONLY Alone(r), <3>1, StillAlone
  <2>7. CASE job[w] = r
    <3>0. Holds(w, r)
        BY <2>1, <2>7 DEF Holds, Performing
    <3>1. /\ queue[r] = 0 /\ r \notin failedReg /\ \A v \in Workers : Holds(v, r) => v = w
          /\ r \in saved
          /\ \A e \in Clients : ~(pc[e] = "requeue" /\ job[e] = r)
        BY <3>0 DEF Alone
    <3>2. ~Holds(w, r)'
        BY <2>1, <2>2, <2>7 DEF Holds, Performing, EntriesOK
    <3>3. \A v \in Workers : ~Holds(v, r)'
        BY <2>3, <3>1, <3>2
    <3>4. queue'[r] <= 1 /\ (queue'[r] > 0 => r \notin failedReg')
        BY <2>1, <2>5, <2>7, <3>1 DEF Pushed
    <3> QED
        BY ONLY Alone(r), <2>1, <2>2, <2>4, <3>1, <3>3, <3>4 DEF Alone
  <2> QED
      BY <2>6, <2>7
<1>18. ASSUME NEW w \in Workers, SuccessAgain(w) PROVE Alone(r)'
  <2>1. Still(r)
      BY <1>18 DEF SuccessAgain, Goto, Still, Holds, Performing
  <2> QED
      BY ONLY Alone(r), <2>1, StillAlone
<1>19. ASSUME NEW w \in Workers, RetryJob(w) PROVE Alone(r)'
  <2>1. /\ pc[w] \in {"running", "success"} /\ job[w] \in Jobs
        /\ queue' = Pushed({job[w]}) /\ failedReg' = failedReg
        /\ startedReg' \subseteq startedReg \ {<<job[w], w>>}
        /\ UNCHANGED <<batch, saved>>
      BY <1>19 DEF RetryJob, Spend
  <2>2. /\ \A p \in Actors \ {w} : pc'[p] = pc[p] /\ job'[p] = job[p]
        /\ \A p \in Actors : ready'[p] \subseteq ready[p]
        /\ pc'[w] \in {"idle", "dependents"}
      BY <1>19 DEF RetryJob, Leave, LeaveTo, Goto
  <2>3. \A v \in Workers : Holds(v, r)' => Holds(v, r)
      BY <2>1, <2>2 DEF Holds, Performing
  <2>4. \A e \in Clients : pc'[e] = pc[e] /\ job'[e] = job[e]
      BY <2>2
  <2>5. r \notin ready[w] /\ job[w] \in saved
      BY <2>1 DEF Alone, KnownOK, Calling, Released
  <2>6. CASE job[w] # r
    <3>1. Still(r)
        BY <2>1, <2>2, <2>3, <2>4, <2>5, <2>6 DEF Still, Pushed
    <3> QED
        BY ONLY Alone(r), <3>1, StillAlone
  <2>7. CASE job[w] = r
    <3>0. Holds(w, r)
        BY <2>1, <2>7 DEF Holds, Performing
    <3>1. /\ queue[r] = 0 /\ r \notin failedReg /\ \A v \in Workers : Holds(v, r) => v = w
          /\ r \in saved
          /\ \A e \in Clients : ~(pc[e] = "requeue" /\ job[e] = r)
        BY <3>0 DEF Alone
    <3>2. ~Holds(w, r)'
        BY <2>1, <2>2, <2>7 DEF Holds, Performing, EntriesOK
    <3>3. \A v \in Workers : ~Holds(v, r)'
        BY <2>3, <3>1, <3>2
    <3>4. queue'[r] <= 1 /\ (queue'[r] > 0 => r \notin failedReg')
        BY <2>1, <2>5, <2>7, <3>1 DEF Pushed
    <3> QED
        BY ONLY Alone(r), <2>1, <2>2, <2>4, <3>1, <3>3, <3>4 DEF Alone
  <2> QED
      BY <2>6, <2>7
<1>20. ASSUME NEW w \in Workers, FailJob(w) PROVE Alone(r)'
  <2>1. /\ pc[w] \in {"running", "success"} /\ job[w] \in Jobs
        /\ queue' = queue /\ failedReg' = failedReg \cup {job[w]}
        /\ startedReg' \subseteq startedReg \ {<<job[w], w>>}
        /\ UNCHANGED <<batch, saved>>
      BY <1>20 DEF FailJob, Spend
  <2>2. /\ \A p \in Actors \ {w} : pc'[p] = pc[p] /\ job'[p] = job[p]
        /\ \A p \in Actors : ready'[p] \subseteq ready[p]
        /\ pc'[w] \in {"idle", "dependents"}
      BY <1>20 DEF FailJob, Leave, LeaveTo, Goto
  <2>3. \A v \in Workers : Holds(v, r)' => Holds(v, r)
      BY <2>1, <2>2 DEF Holds, Performing
  <2>4. \A e \in Clients : pc'[e] = pc[e] /\ job'[e] = job[e]
      BY <2>2
  <2>5. r \notin ready[w] /\ job[w] \in saved
      BY <2>1 DEF Alone, KnownOK, Calling, Released
  <2>6. CASE job[w] # r
    <3>1. Still(r)
        BY <2>1, <2>2, <2>3, <2>4, <2>5, <2>6 DEF Still, Pushed
    <3> QED
        BY ONLY Alone(r), <3>1, StillAlone
  <2>7. CASE job[w] = r
    <3>0. Holds(w, r)
        BY <2>1, <2>7 DEF Holds, Performing
    <3>1. /\ queue[r] = 0 /\ r \notin failedReg /\ \A v \in Workers : Holds(v, r) => v = w
          /\ r \in saved
          /\ \A e \in Clients : ~(pc[e] = "requeue" /\ job[e] = r)
        BY <3>0 DEF Alone
    <3>2. ~Holds(w, r)'
        BY <2>1, <2>2, <2>7 DEF Holds, Performing, EntriesOK
    <3>3. \A v \in Workers : ~Holds(v, r)'
        BY <2>3, <3>1, <3>2
    <3>4. queue'[r] <= 1 /\ (queue'[r] > 0 => r \notin failedReg')
        BY <2>1, <2>5, <2>7, <3>1 DEF Pushed
    <3> QED
        BY ONLY Alone(r), <2>1, <2>2, <2>4, <3>1, <3>3, <3>4 DEF Alone
  <2> QED
      BY <2>6, <2>7
<1>21. ASSUME NEW w \in Workers, StopJob(w) PROVE Alone(r)'
  <2>1. /\ pc[w] \in {"running", "success"} /\ job[w] \in Jobs
        /\ queue' = queue /\ failedReg' = failedReg \cup {job[w]}
        /\ startedReg' \subseteq startedReg \ {<<job[w], w>>}
        /\ UNCHANGED <<batch, saved>>
      BY <1>21 DEF StopJob, Spend
  <2>2. /\ \A p \in Actors \ {w} : pc'[p] = pc[p] /\ job'[p] = job[p]
        /\ \A p \in Actors : ready'[p] \subseteq ready[p]
        /\ pc'[w] \in {"idle", "dependents"}
      BY <1>21 DEF StopJob, Leave, LeaveTo, Goto
  <2>3. \A v \in Workers : Holds(v, r)' => Holds(v, r)
      BY <2>1, <2>2 DEF Holds, Performing
  <2>4. \A e \in Clients : pc'[e] = pc[e] /\ job'[e] = job[e]
      BY <2>2
  <2>5. r \notin ready[w] /\ job[w] \in saved
      BY <2>1 DEF Alone, KnownOK, Calling, Released
  <2>6. CASE job[w] # r
    <3>1. Still(r)
        BY <2>1, <2>2, <2>3, <2>4, <2>5, <2>6 DEF Still, Pushed
    <3> QED
        BY ONLY Alone(r), <3>1, StillAlone
  <2>7. CASE job[w] = r
    <3>0. Holds(w, r)
        BY <2>1, <2>7 DEF Holds, Performing
    <3>1. /\ queue[r] = 0 /\ r \notin failedReg /\ \A v \in Workers : Holds(v, r) => v = w
          /\ r \in saved
          /\ \A e \in Clients : ~(pc[e] = "requeue" /\ job[e] = r)
        BY <3>0 DEF Alone
    <3>2. ~Holds(w, r)'
        BY <2>1, <2>2, <2>7 DEF Holds, Performing, EntriesOK
    <3>3. \A v \in Workers : ~Holds(v, r)'
        BY <2>3, <3>1, <3>2
    <3>4. queue'[r] <= 1 /\ (queue'[r] > 0 => r \notin failedReg')
        BY <2>1, <2>5, <2>7, <3>1 DEF Pushed
    <3> QED
        BY ONLY Alone(r), <2>1, <2>2, <2>4, <3>1, <3>3, <3>4 DEF Alone
  <2> QED
      BY <2>6, <2>7
<1>22. ASSUME NEW w \in Workers, Crash(w) PROVE Alone(r)'
  <2>1. Still(r)
      BY <1>22 DEF Crash, Spend, LeaveTo, Goto, Still, Holds, Performing
  <2> QED
      BY ONLY Alone(r), <2>1, StillAlone
<1>23. ASSUME NEW a \in Workers \cup {Cleaner}, ReadDependents(a) PROVE Alone(r)'
  <2>1. Still(r)
      BY <1>23 DEF ReadDependents, Found, JobsToEnqueue, Goto, Still, Holds, Performing
  <2> QED
      BY ONLY Alone(r), <2>1, StillAlone
<1>24. ASSUME NEW a \in Workers \cup {Cleaner}, NoDependents(a) PROVE Alone(r)'
  <2>1. UNCHANGED <<queue, failedReg, startedReg, batch, saved>>
      BY <1>24 DEF NoDependents
  <2>2. /\ a \notin Clients /\ pc'[a] \in {"idle", "cleaning"} /\ ready'[a] = {}
        /\ \A p \in Actors \ {a} : pc'[p] = pc[p] /\ job'[p] = job[p] /\ ready'[p] = ready[p]
      BY ONLY Typed, <1>24, ResumeFacts DEF NoDependents
  <2>3. \A v \in Workers : Holds(v, r)' => Holds(v, r)
      BY <2>1, <2>2 DEF Holds, Performing
  <2>4. \A e \in Clients : pc'[e] = pc[e] /\ job'[e] = job[e]
      BY <2>2
  <2>5. \A p \in Actors : r \notin ready'[p]
      BY <2>2
  <2>6. queue[r] \in Nat
      OBVIOUS
  <2>7. Still(r)
      BY ONLY <2>1, <2>3, <2>4, <2>5, <2>6 DEF Still
  <2> QED
      BY ONLY Alone(r), <2>7, StillAlone
<1>25. ASSUME NEW a \in Workers \cup {Cleaner}, ExecDependents(a) PROVE Alone(r)'
  <2>1. /\ queue' = Pushed(ready[a]) /\ r \notin ready[a]
        /\ UNCHANGED <<failedReg, startedReg, batch, saved>>
      BY <1>25 DEF ExecDependents, Alone
  <2>2. /\ a \notin Clients /\ pc'[a] \in {"idle", "cleaning"} /\ ready'[a] = {}
        /\ \A p \in Actors \ {a} : pc'[p] = pc[p] /\ job'[p] = job[p] /\ ready'[p] = ready[p]
      BY ONLY Typed, <1>25, ResumeFacts DEF ExecDependents
  <2>3. \A v \in Workers : Holds(v, r)' => Holds(v, r)
      BY <2>1, <2>2 DEF Holds, Performing
  <2>4. \A e \in Clients : pc'[e] = pc[e] /\ job'[e] = job[e]
      BY <2>2
  <2>5. \A p \in Actors : r \notin ready'[p]
      BY <2>2
  <2>6. queue'[r] = queue[r] /\ queue[r] \in Nat
      BY <2>1 DEF Pushed
  <2>7. Still(r)
      BY ONLY <2>1, <2>3, <2>4, <2>5, <2>6 DEF Still
  <2> QED
      BY ONLY Alone(r), <2>7, StillAlone
<1>26. ASSUME NEW a \in Workers \cup {Cleaner}, DependentsAgain(a) PROVE Alone(r)'
  <2>1. Still(r)
      BY <1>26 DEF DependentsAgain, Goto, Still, Holds, Performing
  <2> QED
      BY ONLY Alone(r), <2>1, StillAlone
<1>27. ASSUME StartCleanup PROVE Alone(r)'
  <2>1. Still(r)
      BY <1>27 DEF StartCleanup, Expired, Goto, Still, Holds, Performing
  <2> QED
      BY ONLY Alone(r), <2>1, StillAlone
<1>28. ASSUME NEW j \in Jobs, SkipJob(j) PROVE Alone(r)'
  <2>1. Still(r)
      BY <1>28 DEF SkipJob, Still, Holds, Performing
  <2> QED
      BY ONLY Alone(r), <2>1, StillAlone
<1>29. ASSUME NEW j \in Jobs, CleanupRetry(j) PROVE Alone(r)'
  <2>1. Still(r)
      BY <1>29 DEF CleanupRetry, Still, Holds, Performing
  <2> QED
      BY ONLY Alone(r), <2>1, StillAlone
<1>30. ASSUME NEW j \in Jobs, CleanupFail(j) PROVE Alone(r)'
  <2>1. Still(r)
      BY <1>30 DEF CleanupFail, Goto, Still, Holds, Performing
  <2> QED
      BY ONLY Alone(r), <2>1, StillAlone
<1>31. ASSUME EndCleanup PROVE Alone(r)'
  <2>1. /\ queue' = Pushed({j \in Jobs : toRetry[j] > 0})
        /\ failedReg' = failedReg \cup toFail /\ startedReg' = startedReg \ batch
        /\ batch' = {} /\ saved' = saved
      BY <1>31 DEF EndCleanup
  <2>2. /\ \A p \in Workers \cup Clients : pc'[p] = pc[p] /\ job'[p] = job[p]
        /\ \A p \in Actors : ready'[p] \subseteq ready[p]
      BY <1>31 DEF EndCleanup, Leave, LeaveTo, Goto
  <2>3. \A v \in Workers : Holds(v, r)' => Holds(v, r) /\ <<r, v>> \notin batch
    <3> SUFFICES ASSUME NEW v \in Workers, Holds(v, r)'
                 PROVE  Holds(v, r) /\ <<r, v>> \notin batch
        OBVIOUS
    <3>1. CASE Performing(v, r)'
        BY <2>2, <3>1 DEF Holds, Performing, EntriesOK
    <3>2. CASE <<r, v>> \in startedReg'
        BY <2>1, <3>2 DEF Holds
    <3> QED
        BY <2>1, <3>1, <3>2 DEF Holds
  <2>4. CASE ~(r \in toFail \/ toRetry[r] > 0)
    <3>2. queue'[r] = queue[r] /\ queue[r] \in Nat
        BY <2>1, <2>4 DEF Pushed
    <3>3. \A p \in Actors : r \notin ready'[p]
        BY <2>2
    <3>4. saved' = saved /\ (r \in failedReg' => r \in failedReg)
        BY ONLY <2>1, <2>4
    <3>1. Still(r)
      <4>1. \A v \in Workers : Holds(v, r)' => Holds(v, r)
          BY ONLY <2>3
      <4>2. \A e \in Clients : pc'[e] = pc[e] /\ job'[e] = job[e]
          BY ONLY <2>2
      <4> QED
          BY ONLY <3>2, <3>3, <3>4, <4>1, <4>2 DEF Still
    <3> QED
        BY ONLY Alone(r), <3>1, StillAlone
  <2>5. CASE r \in toFail \/ toRetry[r] > 0
    <3>0. PICK u \in Workers : <<r, u>> \in batch /\ Holds(u, r)
        BY <2>5 DEF EntriesOK, Holds
    <3>1. /\ queue[r] = 0 /\ r \notin failedReg /\ \A v \in Workers : Holds(v, r) => v = u
          /\ r \in saved
          /\ \A e \in Clients : ~(pc[e] = "requeue" /\ job[e] = r)
        BY <3>0 DEF Alone
    <3>2. \A v \in Workers : ~Holds(v, r)'
        BY <2>3, <3>0, <3>1
    <3>3. r \in toFail => toRetry[r] = 0
        BY DEF EntriesOK
    <3>4. queue'[r] <= 1 /\ (queue'[r] > 0 => r \notin failedReg')
        BY <2>1, <3>1, <3>3 DEF Pushed
    <3> QED
        BY ONLY Alone(r), <2>1, <2>2, <3>1, <3>2, <3>4, ActorsAssumption DEF Alone
  <2> QED
      BY <2>4, <2>5
<1>32. ASSUME NEW j \in Jobs, Expire(j) PROVE Alone(r)'
  <2>1. Still(r)
      BY <1>32 DEF Expire, Still, Holds, Performing
  <2> QED
      BY ONLY Alone(r), <2>1, StillAlone
<1>33. ASSUME UNCHANGED vars PROVE Alone(r)'
  <2>1. Still(r)
      BY <1>33 DEF vars, Still, Holds, Performing
  <2> QED
      BY ONLY Alone(r), <2>1, StillAlone
<1> HIDE DEF Typed, TypeOK, RedisTypeOK, TxTypeOK, LocalsTypeOK, RoundTypeOK, EnvTypeOK,
   ActorsOK, Actors, Statuses, PCs, Busy, redis, tx, locals, round, env
<1> QED
    BY <1>1, <1>2, <1>3, <1>4, <1>5, <1>6, <1>7, <1>8, <1>9, <1>10, <1>11, <1>12, <1>13, <1>14,
       <1>15, <1>16, <1>17, <1>18, <1>19, <1>20, <1>21, <1>22, <1>23, <1>24, <1>25, <1>26,
       <1>27, <1>28, <1>29, <1>30, <1>31, <1>32, <1>33
       DEF Next, ClientNext, WorkerNext, CleanerNext, DependentsNext

\* Who fails a job, and who stops one.
Ends ==
    /\ \A d \in Jobs : status'[d] = "failed" =>
          status[d] = "failed" \/ d \in toFail \/ \E w \in Workers : FailJob(w) /\ job[w] = d
    /\ \A d \in Jobs : status'[d] = "stopped" => status[d] = "stopped" \/ budget["stop"] > 0
    /\ budget["stop"] \in Nat /\ budget'["stop"] \in Nat /\ budget'["stop"] <= budget["stop"]

\* There is no other way to fail or to be stopped.
LEMMA EndsNext ==
    ASSUME Typed, [Next]_vars
    PROVE  Ends
<1> USE JobsAssumption, ActorsAssumption
        DEF Typed, TypeOK, RedisTypeOK, TxTypeOK, LocalsTypeOK, RoundTypeOK, EnvTypeOK,
           ActorsOK, Actors, Statuses, PCs, Busy, redis, tx, locals, round, env, Ends, Ops
<1>1. ASSUME NEW c \in Clients, NEW j \in Jobs, EnqueueCall(c, j) PROVE Ends
    BY <1>1 DEF EnqueueCall, TakeUp
<1>2. ASSUME NEW c \in Clients, FindUnfinished(c) PROVE Ends
    BY <1>2 DEF FindUnfinished, Watch, Goto
<1>3. ASSUME NEW c \in Clients, FindNoneUnfinished(c) PROVE Ends
    BY <1>3 DEF FindNoneUnfinished, Goto
<1>4. ASSUME NEW c \in Clients, Defer(c) PROVE Ends
    BY <1>4 DEF Defer, Write, Goto, Leave, LeaveTo, NothingSeen, WithStatus
<1>5. ASSUME NEW c \in Clients, DeferAgain(c) PROVE Ends
    BY <1>5 DEF DeferAgain, Unwatch, Goto
<1>6. ASSUME NEW c \in Clients, Enqueue(c) PROVE Ends
    BY <1>6 DEF Enqueue, Write, Goto, Leave, LeaveTo, NothingSeen, WithStatus, Pushed
<1>7. ASSUME NEW c \in Clients, NEW j \in Jobs, Cancel(c, j) PROVE Ends
    BY <1>7 DEF Cancel, Spend, TakeUp, Look, Ops
<1>8. ASSUME NEW c \in Clients, NEW forget \in BOOLEAN, ExecCancel(c, forget) PROVE Ends
    BY <1>8 DEF ExecCancel, Write, Goto, Leave, LeaveTo, NothingSeen, WithStatus, DropFrom
<1>9. ASSUME NEW c \in Clients, NEW j \in Jobs, Requeue(c, j) PROVE Ends
    BY <1>9 DEF Requeue, Spend, TakeUp, Interfere, Ops
<1>10. ASSUME NEW c \in Clients, ExecRequeue(c) PROVE Ends
    BY <1>10 DEF ExecRequeue, Write, Goto, Leave, LeaveTo, NothingSeen, WithStatus, Pushed
<1>11. ASSUME NEW w \in Workers, NEW j \in Jobs, Dequeue(w, j) PROVE Ends
    BY <1>11 DEF Dequeue, Goto
<1>12. ASSUME NEW w \in Workers, NEW j \in Jobs, DropId(w, j) PROVE Ends
    BY <1>12 DEF DropId
<1>13. ASSUME NEW w \in Workers, PrepareExecution(w) PROVE Ends
    BY <1>13 DEF PrepareExecution, Goto
<1>14. ASSUME NEW w \in Workers, Start(w) PROVE Ends
    BY <1>14 DEF Start, Write, Goto, WithStatus
<1>15. ASSUME NEW w \in Workers, Heartbeat(w) PROVE Ends
    BY <1>15 DEF Heartbeat, Interfere
<1>16. ASSUME NEW w \in Workers, ReadSuccess(w) PROVE Ends
    BY <1>16 DEF ReadSuccess, Watch, Goto, Look, JobsToEnqueue, WatchedDependents
<1>17. ASSUME NEW w \in Workers, ExecSuccess(w) PROVE Ends
    BY <1>17 DEF ExecSuccess, Write, Goto, Leave, LeaveTo, NothingSeen, WithStatus, Pushed,
       AfterSuccess, SuccessKeys, TouchedSets, DropFrom, Deletes, Less
<1>18. ASSUME NEW w \in Workers, SuccessAgain(w) PROVE Ends
    BY <1>18 DEF SuccessAgain, Unwatch, Goto, NothingSeen, Less
<1>19. ASSUME NEW w \in Workers, RetryJob(w) PROVE Ends
    BY <1>19 DEF RetryJob, Spend, Write, Goto, Leave, LeaveTo, NothingSeen, WithStatus, Pushed,
       Ops
<1>20. ASSUME NEW w \in Workers, FailJob(w) PROVE Ends
  <2>1. status' = WithStatus({job[w]}, "failed") /\ UNCHANGED toFail
        /\ budget'["stop"] = budget["stop"]
      BY <1>20 DEF FailJob, Spend
  <2> QED
      BY <1>20, <2>1 DEF WithStatus
<1>21. ASSUME NEW w \in Workers, StopJob(w) PROVE Ends
    BY <1>21 DEF StopJob, Spend, Write, Goto, NothingSeen, WithStatus, TouchedSets, Ops
<1>22. ASSUME NEW w \in Workers, Crash(w) PROVE Ends
    BY <1>22 DEF Crash, Spend, Unwatch, Goto, LeaveTo, NothingSeen, Ops
<1>23. ASSUME NEW a \in Workers \cup {Cleaner}, ReadDependents(a) PROVE Ends
    BY <1>23 DEF ReadDependents, Watch, Goto, Found, JobsToEnqueue, WatchedDependents
<1>24. ASSUME NEW a \in Workers \cup {Cleaner}, NoDependents(a) PROVE Ends
    BY <1>24 DEF NoDependents, Goto, Resume, Leave, LeaveTo, NothingSeen
<1>25. ASSUME NEW a \in Workers \cup {Cleaner}, ExecDependents(a) PROVE Ends
    BY <1>25 DEF ExecDependents, Write, Goto, Resume, Leave, LeaveTo, NothingSeen, WithStatus,
       Pushed
<1>26. ASSUME NEW a \in Workers \cup {Cleaner}, DependentsAgain(a) PROVE Ends
    BY <1>26 DEF DependentsAgain, Unwatch, Goto
<1>27. ASSUME StartCleanup PROVE Ends
    BY <1>27 DEF StartCleanup, Expired, Goto
<1>28. ASSUME NEW j \in Jobs, SkipJob(j) PROVE Ends
    BY <1>28 DEF SkipJob
<1>29. ASSUME NEW j \in Jobs, CleanupRetry(j) PROVE Ends
    BY <1>29 DEF CleanupRetry
<1>30. ASSUME NEW j \in Jobs, CleanupFail(j) PROVE Ends
    BY <1>30 DEF CleanupFail, Goto
<1>31. ASSUME EndCleanup PROVE Ends
    BY <1>31 DEF EndCleanup, Write, Goto, Leave, LeaveTo, NothingSeen, Pushed, TouchedSets, Less
<1>32. ASSUME NEW j \in Jobs, Expire(j) PROVE Ends
    BY <1>32 DEF Expire, WithStatus
<1>33. ASSUME UNCHANGED vars PROVE Ends
    BY <1>33 DEF vars
<1> HIDE DEF Typed, TypeOK, RedisTypeOK, TxTypeOK, LocalsTypeOK, RoundTypeOK, EnvTypeOK,
   ActorsOK, Actors, Statuses, PCs, Busy, redis, tx, locals, round, env, Ends, Ops
<1> QED
    BY <1>1, <1>2, <1>3, <1>4, <1>5, <1>6, <1>7, <1>8, <1>9, <1>10, <1>11, <1>12, <1>13, <1>14,
       <1>15, <1>16, <1>17, <1>18, <1>19, <1>20, <1>21, <1>22, <1>23, <1>24, <1>25, <1>26,
       <1>27, <1>28, <1>29, <1>30, <1>31, <1>32, <1>33
       DEF Next, ClientNext, WorkerNext, CleanerNext, DependentsNext

\* The jobs that are never in two places at once.
RootsOK == \A r \in Jobs : DependsOn[r] = {} => Alone(r)

\* When jobs are not stopped.
StopsOK ==
    Budget["stop"] = 0 => budget["stop"] = 0 /\ \A j \in Jobs : status[j] # "stopped"

\* A worker that commits the success of a job that was neither stopped nor
\* canceled enqueues those who wait for no other.
LEMMA SuccessFrees ==
    ASSUME Typed, SetsOK, RegistriesOK, SuccessOK,
           NEW w \in Workers, ExecSuccess(w),
           NEW j \in AllowFailure, status[j] = "deferred", status'[j] = "deferred",
           NEW p \in DependsOn[j], job[w] = p,
           \A d \in DependsOn[j] : Satisfied(j, d)',
           p \notin canceledReg, status[p] # "stopped", ResultTTL[p] = "forever"
    PROVE  FALSE
<1>1. /\ p \in Jobs /\ j \in Jobs /\ p # j /\ w \in Actors
      /\ pc[w] = "success" /\ ~dirty[w]
      /\ DependsOn[j] \subseteq Jobs
    BY JobsAssumption DEF ExecSuccess, Actors
<1>2. \A k \in Jobs \ {p} : status'[k] = IF k \in ready[w] THEN "queued" ELSE status[k]
    BY <1>1 DEF ExecSuccess, WithStatus, Typed, TypeOK, RedisTypeOK
<1>3. j \notin ready[w]
    BY <1>1, <1>2
<1>4. j \in dependents[p]
    BY <1>1 DEF SetsOK
<1>5. ~DependenciesAreMet(j, p, status[p])
    BY <1>1, <1>3, <1>4 DEF SuccessOK
<1>6. \A d \in DependsOn[j] \ {p} : status[d] \in {"absent", "finished", "failed"}
    BY <1>1, <1>2 DEF Satisfied, Done
<1>7. status[p] # "canceled"
    BY <1>1 DEF RegistriesOK
<1> QED
    BY <1>5, <1>6, <1>7 DEF DependenciesAreMet

\* handle_job_failure, handle_job_success and the cleanup: whoever ends the last
\* dependency of a job with allow_failure, by a failure, is about to enqueue the
\* job, and a success enqueues it.  For any number of jobs, clients and workers,
\* retries, repeats, requeues and crashes, if the results of those dependencies
\* are kept, and if no job is stopped, or those dependencies have none of their
\* own: a job with allow_failure can be performed twice at a time, and then one
\* worker could finish it just after the other was told to stop it.
THEOREM FailureWakes ==
    ASSUME \A j \in AllowFailure : \A d \in DependsOn[j] :
              ResultTTL[d] = "forever" /\ (Budget["stop"] = 0 \/ DependsOn[d] = {})
    PROVE  Spec => FailureWakesDependents
<1> DEFINE Base == Typed /\ KnownOK /\ SetsOK /\ RegistriesOK /\ SuccessOK /\ EntriesOK
                   /\ RootsOK /\ StopsOK
<1>1. Init => Base
  <2> SUFFICES ASSUME Init PROVE Base
      OBVIOUS
  <2>1. Typed /\ KnownOK /\ SetsOK
      BY TypedInit, KnownInit
  <2>2. RegistriesOK /\ StopsOK
      BY DEF Init, RegistriesOK, FailureIsAccounted, StopsOK
  <2>3. \A p \in Actors : /\ pc[p] = "idle" /\ ready[p] = {}
                          /\ p \in Clients \cup Workers \cup {Cleaner}
      BY DEF Init, Actors
  <2>4. SuccessOK /\ EntriesOK
      BY <2>3 DEF Init, SuccessOK, EntriesOK, Actors
  <2>5. \A w \in Workers : \A j \in Jobs : ~Holds(w, j)
      BY <2>3 DEF Init, Holds, Performing, Actors
  <2>6. RootsOK
      BY <2>3, <2>5 DEF Init, RootsOK, Alone, Actors
  <2> QED
      BY <2>1, <2>2, <2>4, <2>6
<1>2. Base /\ [Next]_vars => Base'
  <2> SUFFICES ASSUME Base, [Next]_vars PROVE Base'
      OBVIOUS
  <2>1. RootsOK'
      BY AloneNext DEF RootsOK
  <2>2. StopsOK'
    <3> SUFFICES ASSUME Budget["stop"] = 0
                 PROVE  budget'["stop"] = 0 /\ \A j \in Jobs : status'[j] # "stopped"
        BY DEF StopsOK
    <3>1. budget["stop"] = 0 /\ \A j \in Jobs : status[j] # "stopped"
        BY DEF StopsOK
    <3> QED
        BY <3>1, EndsNext DEF Ends
  <2> QED
      BY <2>1, <2>2, TypedNext, KnownNext, SetsNext, RegistriesNext, SuccessNext, EntriesNext
<1>3. ASSUME Base, [Next]_vars,
             NEW j \in AllowFailure, status[j] = "deferred", status'[j] = "deferred",
             NEW d \in DependsOn[j], ~Satisfied(j, d),
             \A k \in DependsOn[j] : Satisfied(j, k)' /\ k \notin canceledReg
      PROVE  \/ \E a \in Actors : pc'[a] \in {"dependents", "exec"} /\ job'[a] \in DependsOn[j]
             \/ DependsOn[j] \cap toFail # {}
  <2>1. j \in Jobs /\ d \in Jobs /\ Cleaner \in Actors
      BY JobsAssumption DEF Actors
  <2>2. Causes(Cleaner, d) /\ Ends
      BY <1>3, <2>1, StepCauses, EndsNext
  <2>3. CASE \E w \in Workers : ExecSuccess(w) /\ job[w] = d
    <3>1. PICK w \in Workers : ExecSuccess(w) /\ job[w] = d
        BY <2>3
    <3>2. status[d] # "stopped"
      <4>1. CASE Budget["stop"] = 0
          BY <1>3, <2>1, <4>1 DEF StopsOK
      <4>2. CASE DependsOn[d] = {}
        <5>1. Alone(d) /\ Holds(w, d)
            BY <1>3, <2>1, <3>1, <4>2 DEF RootsOK, Holds, Performing, ExecSuccess
        <5> QED
            BY <1>3, <2>1, <5>1 DEF Alone, RegistriesOK, FailureIsAccounted, Requeuing
      <4> QED
          BY <4>1, <4>2
    <3> QED
        BY <1>3, <3>1, <3>2, SuccessFrees
  <2>4. CASE \E w \in Workers : FailJob(w) /\ job[w] = d
    <3>1. PICK w \in Workers : FailJob(w) /\ job[w] = d
        BY <2>4
    <3>2. w \in Actors /\ pc'[w] = "dependents" /\ job'[w] = d
        BY <1>3, <3>1 DEF FailJob, Goto, locals, Actors, Typed, TypeOK, LocalsTypeOK
    <3> QED
        BY <3>2
  <2>5. CASE d \in toFail
      BY <2>5
  <2> QED
      BY <1>3, <2>1, <2>2, <2>3, <2>4, <2>5 DEF Causes, Ends, Satisfied, Done
<1>4. Base /\ [Next]_vars => [\A j \in AllowFailure :
          /\ status[j] = "deferred" /\ status'[j] = "deferred"
          /\ \E d \in DependsOn[j] : ~Satisfied(j, d)
          /\ \A d \in DependsOn[j] : Satisfied(j, d)' /\ d \notin canceledReg
          => \/ \E a \in Actors : /\ pc'[a] \in {"dependents", "exec"}
                                  /\ job'[a] \in DependsOn[j]
             \/ DependsOn[j] \cap toFail # {}]_vars
    BY <1>3
<1> QED
    BY <1>1, <1>2, <1>4, PTL DEF Spec, FailureWakesDependents

=============================================================================
