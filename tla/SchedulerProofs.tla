--------------------------- MODULE SchedulerProofs ---------------------------
(***************************************************************************)
(* For any workers, queues and jobs: if no scheduler process dies alone    *)
(* and none is delayed for the life of a lock, then no two processes serve *)
(* a queue, and Scheduler implements ScheduledJobs.  Whatever dies or is   *)
(* late, a job that is scheduled once is not forgotten.                    *)
(***************************************************************************)
EXTENDS Scheduler, TLAPS

\* What the environment does not do.  (Workers and hosts may die.)
Steady == Budget["killScheduler"] = 0 /\ Budget["delay"] = 0
Quiet == Budget["cancel"] = 0 /\ ~Early

Busy == Acquiring \cup Scanning

\* p has the right to the lock of q: it acquired it and has not handed it on.
Claims(p, q) ==
    /\ q \in held[p] \cup got[p]
    /\ IF p[2] = "scheduler" THEN Alive(p) ELSE pc[p] \in Busy

BudgetOK == budget["killScheduler"] = 0 /\ budget["delay"] = 0

\* A worker process acquires locks, or uses them, only without a scheduler
\* process; once it is idle it has locks only if it has one.
ProcOK ==
    /\ \A w \in Workers :
          /\ pc[Parent(w)] \in Busy \cup {"new"} => ~Alive(Child(w))
          /\ pc[Parent(w)] = "idle" /\ ~Alive(Child(w)) => held[Parent(w)] = {}
          /\ pc[Parent(w)] \in {"new", "starting", "maintaining"} => held[Parent(w)] = {}
          /\ stopRequested[w] => pc[Parent(w)] \in {"joining", "dead"}
    /\ \A p \in Procs : pc[p] \notin Acquiring => got[p] = {}

ClaimsOK ==
    /\ \A q \in Queues : \A p, r \in Procs : Claims(p, q) /\ Claims(r, q) => p = r
    /\ \A q \in Queues : \A p \in Procs : Claims(p, q) =>
          lock[q] >= 1 /\ (p[2] = "scheduler" /\ beat[p] => lock[q] >= 2)

LockInv == TypeOK /\ BudgetOK /\ ProcOK /\ ClaimsOK

\* The ids that a process has read are due, and of a queue it serves.
IdsOK ==
    \A p \in Procs :
        /\ ids[p] # {} => pc[p] \in {"fetch", "move"}
        /\ \A j \in ids[p] : j \in due /\ QueueOf[j] \in held[p]
        /\ pc[p] = "move" => found[p] = ids[p]
        /\ pc[p] \in Scanning => todo[p] \subseteq held[p]

\* The life of a job: where it is, by the call of schedule_job.
JobOK ==
    \A j \in Jobs :
        /\ cancelling[j] = "none"
        /\ j \in due => j \in registry /\ call[j] = "none"
        /\ queue[j] = IF status[j] = "queued" THEN 1 ELSE 0
        /\ call[j] # "none" => status[j] # "queued"
        /\ j \in registry <=> call[j] = "save" \/ (call[j] = "none" /\ status[j] = "scheduled")

MoveInv == LockInv /\ budget["cancel"] = 0 /\ IdsOK /\ JobOK

-----------------------------------------------------------------------------
\* The two processes of a worker, and all processes.
LEMMA ProcFacts ==
    /\ \A w \in Workers : Parent(w) \in Procs /\ Child(w) \in Procs
    /\ \A w, v \in Workers : Parent(w) # Child(v)
    /\ \A w, v \in Workers : Parent(w) = Parent(v) => w = v
    /\ \A w, v \in Workers : Child(w) = Child(v) => w = v
    /\ \A w \in Workers : Parent(w)[2] = "worker" /\ Child(w)[2] = "scheduler"
    /\ \A p \in Procs : \E w \in Workers : p = Parent(w) \/ p = Child(w)
  BY DEF Parent, Child, Procs

\* Init of Scheduler establishes TypeOK.
LEMMA TypeInit == Init => TypeOK
  <1>1. ASSUME Init PROVE TypeOK
    BY <1>1, SchedulerAssumption, ProcFacts
    DEF Init, TypeOK, Statuses, ParentPCs, ChildPCs, Scanning, Ops
  <1>2. QED
    BY <1>1

\* Every step of Scheduler keeps the types.
LEMMA TypeNext == TypeOK /\ [Next]_vars => TypeOK'
<1> SUFFICES ASSUME TypeOK, [Next]_vars PROVE TypeOK'
  OBVIOUS
<1> USE SchedulerAssumption
<1>1. ASSUME NEW w \in Workers, StartScheduler(w) PROVE TypeOK'
  BY <1>1, ProcFacts
  DEF StartScheduler, Goto, TypeOK, Statuses, ParentPCs, ChildPCs, Scanning,
      Acquiring, Ops, redis, procs, calls
<1>2. ASSUME NEW w \in Workers, Maintain(w) PROVE TypeOK'
  BY <1>2, ProcFacts
  DEF Maintain, Goto, TypeOK, Statuses, ParentPCs, ChildPCs, Scanning,
      Acquiring, Ops, redis, procs, calls
<1>3. ASSUME NEW w \in Workers, EndAcquire(w) PROVE TypeOK'
  <2> DEFINE p == Parent(w)
             k == Child(w)
             locks == held[p] \cup got[p]
             burst == w \in Burst /\ pc[p] = "starting"
             fork == locks # {} /\ ~burst
             pp == IF burst /\ locks # {} THEN "scan" ELSE "idle"
             kp == IF fork THEN "loop" ELSE pc[k]
             kh == IF fork THEN locks ELSE held[k]
             kb == IF fork THEN FALSE ELSE beat[k]
             kc == IF fork THEN TRUE ELSE checked[k]
             pt == IF burst THEN locks ELSE {}
  <2>1. /\ p \in Procs /\ k \in Procs /\ p # k
        /\ \A v \in Workers : Parent(v) # k /\ Child(v) # p
        /\ \A v \in Workers : Parent(v) = p => v = w
        /\ \A v \in Workers : Child(v) = k => v = w
    BY ProcFacts
  <2>2. /\ pc' = [pc EXCEPT ![p] = pp, ![k] = kp]
        /\ held' = [held EXCEPT ![p] = locks, ![k] = kh]
        /\ got' = [got EXCEPT ![p] = {}]
        /\ todo' = [todo EXCEPT ![p] = pt]
        /\ beat' = [beat EXCEPT ![k] = kb]
        /\ checked' = [checked EXCEPT ![k] = kc]
        /\ UNCHANGED <<lock, registry, due, status, queue, ids, found,
                       stopRequested, call, cancelling, budget>>
    <3>1. /\ pc \in [Procs -> ParentPCs \cup ChildPCs]
          /\ held \in [Procs -> SUBSET Queues]
          /\ beat \in [Procs -> BOOLEAN]
          /\ checked \in [Procs -> BOOLEAN]
      BY DEF TypeOK
    <3>2. pc' = [pc EXCEPT ![p] = pp, ![k] = kp]
      BY ONLY <1>3, <2>1, <3>1 DEF EndAcquire
    <3>3. held' = [held EXCEPT ![p] = locks, ![k] = kh]
      BY ONLY <1>3, <2>1, <3>1 DEF EndAcquire
    <3>4. beat' = [beat EXCEPT ![k] = kb]
      BY ONLY <1>3, <2>1, <3>1 DEF EndAcquire
    <3>5. checked' = [checked EXCEPT ![k] = kc]
      BY ONLY <1>3, <2>1, <3>1 DEF EndAcquire
    <3>6. /\ UNCHANGED <<lock, registry, due, status, queue, ids, found,
                         stopRequested, call, cancelling, budget>>
          /\ got' = [got EXCEPT ![p] = {}]
          /\ todo' = [todo EXCEPT ![p] = pt]
      BY ONLY <1>3 DEF EndAcquire, redis, calls
    <3> QED
      BY ONLY <3>2, <3>3, <3>4, <3>5, <3>6
  <2>3. /\ pp \in ParentPCs /\ kp \in ChildPCs
        /\ locks \in SUBSET Queues /\ kh \in SUBSET Queues
        /\ pt \in SUBSET Queues /\ kb \in BOOLEAN
        /\ kc \in BOOLEAN
    BY <2>1 DEF TypeOK, ParentPCs, ChildPCs, Scanning
  <2> HIDE DEF p, k, locks, pp, kp, kh, kb, kc, pt
  <2>4. /\ pc' \in [Procs -> ParentPCs \cup ChildPCs]
        /\ held' \in [Procs -> SUBSET Queues]
        /\ got' \in [Procs -> SUBSET Queues]
        /\ todo' \in [Procs -> SUBSET Queues]
        /\ beat' \in [Procs -> BOOLEAN]
        /\ checked' \in [Procs -> BOOLEAN]
    BY <2>2, <2>3 DEF TypeOK
  <2>5. ASSUME NEW v \in Workers
        PROVE  pc'[Parent(v)] \in ParentPCs /\ pc'[Child(v)] \in ChildPCs
    <3>1. /\ pc[Parent(v)] \in ParentPCs /\ pc[Child(v)] \in ChildPCs
          /\ pc \in [Procs -> ParentPCs \cup ChildPCs]
          /\ Parent(v) \in Procs /\ Child(v) \in Procs
      BY ProcFacts DEF TypeOK
    <3>2. /\ pc'[Parent(v)] = IF Parent(v) = p THEN pp ELSE pc[Parent(v)]
          /\ pc'[Child(v)] = IF Child(v) = k THEN kp ELSE pc[Child(v)]
      BY <2>1, <2>2, <3>1
    <3> QED
      BY <2>3, <3>1, <3>2
  <2> QED
    BY <2>2, <2>4, <2>5 DEF TypeOK
<1>4. ASSUME NEW w \in Workers, EndBurst(w) PROVE TypeOK'
  BY <1>4, ProcFacts
  DEF EndBurst, Goto, Without, TypeOK, Statuses, ParentPCs, ChildPCs,
      Scanning, Acquiring, Ops, redis, procs, calls
<1>5. ASSUME NEW w \in Workers, Teardown(w) PROVE TypeOK'
  BY <1>5, ProcFacts
  DEF Teardown, Goto, Spend, TypeOK, Statuses, ParentPCs, ChildPCs, Scanning,
      Acquiring, Ops, redis, procs, calls
<1>6. ASSUME NEW w \in Workers, Joined(w) PROVE TypeOK'
  BY <1>6, ProcFacts
  DEF Joined, Goto, TypeOK, Statuses, ParentPCs, ChildPCs, Scanning,
      Acquiring, Ops, redis, procs, calls
<1>7. ASSUME NEW w \in Workers, Reacquire(w) PROVE TypeOK'
  BY <1>7, ProcFacts
  DEF Reacquire, Goto, TypeOK, Statuses, ParentPCs, ChildPCs, Scanning,
      Acquiring, Ops, redis, procs, calls
<1>8. ASSUME NEW w \in Workers, EndReacquire(w) PROVE TypeOK'
  BY <1>8, ProcFacts
  DEF EndReacquire, Goto, TypeOK, Statuses, ParentPCs, ChildPCs, Scanning,
      Acquiring, Ops, redis, procs, calls
<1>9. ASSUME NEW w \in Workers, StartRound(w) PROVE TypeOK'
  BY <1>9, ProcFacts
  DEF StartRound, Goto, TypeOK, Statuses, ParentPCs, ChildPCs, Scanning,
      Acquiring, Ops, redis, procs, calls
<1>10. ASSUME NEW w \in Workers, Heartbeat(w) PROVE TypeOK'
  BY <1>10, ProcFacts
  DEF Heartbeat, Goto, TypeOK, Statuses, ParentPCs, ChildPCs, Scanning,
      Acquiring, Ops, redis, procs, calls
<1>11. ASSUME NEW w \in Workers, StopScheduler(w) PROVE TypeOK'
  BY <1>11, ProcFacts
  DEF StopScheduler, Goto, Without, TypeOK, Statuses, ParentPCs, ChildPCs,
      Scanning, Acquiring, Ops, redis, procs, calls
<1>12. ASSUME NEW w \in Workers, KillScheduler(w) PROVE TypeOK'
  BY <1>12, ProcFacts
  DEF KillScheduler, Spend, Kill, TypeOK, Statuses, ParentPCs, ChildPCs,
      Scanning, Acquiring, Ops, redis, procs, calls
<1>13. ASSUME NEW w \in Workers, KillWorker(w) PROVE TypeOK'
  BY <1>13, ProcFacts
  DEF KillWorker, Spend, Kill, TypeOK, Statuses, ParentPCs, ChildPCs,
      Scanning, Acquiring, Ops, redis, procs, calls
<1>14. ASSUME NEW w \in Workers, KillHost(w) PROVE TypeOK'
  BY <1>14, ProcFacts
  DEF KillHost, Spend, Kill, TypeOK, Statuses, ParentPCs, ChildPCs, Scanning,
      Acquiring, Ops, redis, procs, calls
<1>15. ASSUME NEW p \in Procs, NEW q \in Queues, TryLock(p, q) PROVE TypeOK'
  <2>1. lock' \in [Queues -> 0 .. Lifetime]
    <3>1. Lifetime \in 0 .. Lifetime /\ lock \in [Queues -> 0 .. Lifetime]
      BY DEF TypeOK
    <3>2. lock' = [lock EXCEPT ![q] = Lifetime] \/ lock' = lock
      BY ONLY <1>15 DEF TryLock
    <3>3. QED
      BY ONLY <3>1, <3>2
  <2>2. got' \in [Procs -> SUBSET Queues] /\ todo' \in [Procs -> SUBSET Queues]
    <3>1. /\ got' = [got EXCEPT ![p] = @ \cup {q}] \/ got' = got
          /\ todo' = [todo EXCEPT ![p] = @ \ {q}]
      BY ONLY <1>15 DEF TryLock
    <3>2. QED
      BY <1>15, <3>1 DEF TypeOK
  <2>3. UNCHANGED <<registry, due, status, queue, pc, held, ids, found, beat,
                    checked, stopRequested, calls, budget>>
    BY ONLY <1>15 DEF TryLock
  <2>4. QED
    BY <2>1, <2>2, <2>3 DEF TypeOK, calls
<1>16. ASSUME NEW p \in Procs, NEW q \in Queues, ReadDue(p, q) PROVE TypeOK'
  BY <1>16, ProcFacts
  DEF ReadDue, Goto, TypeOK, Statuses, ParentPCs, ChildPCs, Scanning,
      Acquiring, Ops, redis, procs, calls
<1>17. ASSUME NEW p \in Procs, Fetch(p) PROVE TypeOK'
  BY <1>17, ProcFacts
  DEF Fetch, Goto, TypeOK, Statuses, ParentPCs, ChildPCs, Scanning, Acquiring,
      Ops, redis, procs, calls
<1>18. ASSUME NEW p \in Procs, Move(p) PROVE TypeOK'
  BY <1>18, ProcFacts
  DEF Move, Goto, TypeOK, Statuses, ParentPCs, ChildPCs, Scanning, Acquiring,
      Ops, redis, procs, calls
<1>19. ASSUME NEW j \in Jobs, EnqueueAt(j) PROVE TypeOK'
  BY <1>19, ProcFacts
  DEF EnqueueAt, TypeOK, Statuses, ParentPCs, ChildPCs, Scanning, Acquiring,
      Ops, redis, procs, calls
<1>20. ASSUME NEW j \in Jobs, ScheduleUnique(j) PROVE TypeOK'
  BY <1>20, ProcFacts
  DEF ScheduleUnique, TypeOK, Statuses, ParentPCs, ChildPCs, Scanning,
      Acquiring, Ops, redis, procs, calls
<1>21. ASSUME NEW j \in Jobs, Zadd(j) PROVE TypeOK'
  BY <1>21, ProcFacts
  DEF Zadd, TypeOK, Statuses, ParentPCs, ChildPCs, Scanning, Acquiring, Ops,
      redis, procs, calls
<1>22. ASSUME NEW j \in Jobs, Persist(j) PROVE TypeOK'
  BY <1>22, ProcFacts
  DEF Persist, TypeOK, Statuses, ParentPCs, ChildPCs, Scanning, Acquiring,
      Ops, redis, procs, calls
<1>23. ASSUME NEW j \in Jobs, ComesDue(j) PROVE TypeOK'
  BY <1>23, ProcFacts
  DEF ComesDue, TypeOK, Statuses, ParentPCs, ChildPCs, Scanning, Acquiring,
      Ops, redis, procs, calls
<1>24. ASSUME NEW j \in Jobs, Take(j) PROVE TypeOK'
  BY <1>24, ProcFacts
  DEF Take, TypeOK, Statuses, ParentPCs, ChildPCs, Scanning, Acquiring, Ops,
      redis, procs, calls
<1>25. ASSUME NEW j \in Jobs, Finish(j) PROVE TypeOK'
  BY <1>25, ProcFacts
  DEF Finish, TypeOK, Statuses, ParentPCs, ChildPCs, Scanning, Acquiring, Ops,
      redis, procs, calls
<1>26. ASSUME NEW j \in Jobs, RetryLater(j) PROVE TypeOK'
  BY <1>26, ProcFacts
  DEF RetryLater, Spend, TypeOK, Statuses, ParentPCs, ChildPCs, Scanning,
      Acquiring, Ops, redis, procs, calls
<1>27. ASSUME NEW j \in Jobs, RepeatLater(j) PROVE TypeOK'
  BY <1>27, ProcFacts
  DEF RepeatLater, Spend, TypeOK, Statuses, ParentPCs, ChildPCs, Scanning,
      Acquiring, Ops, redis, procs, calls
<1>28. ASSUME NEW j \in Jobs, Cancel(j) PROVE TypeOK'
  BY <1>28, ProcFacts
  DEF Cancel, Spend, TypeOK, Statuses, ParentPCs, ChildPCs, Scanning,
      Acquiring, Ops, redis, procs, calls
<1>29. ASSUME NEW j \in Jobs, ExecCancel(j) PROVE TypeOK'
  BY <1>29, ProcFacts
  DEF ExecCancel, TypeOK, Statuses, ParentPCs, ChildPCs, Scanning, Acquiring,
      Ops, redis, procs, calls
<1>30. ASSUME Tick PROVE TypeOK'
  BY <1>30, ProcFacts
  DEF Tick, Spend, TypeOK, Statuses, ParentPCs, ChildPCs, Scanning, Acquiring,
      Ops, redis, procs, calls
<1>31. CASE UNCHANGED vars
  BY <1>31, ProcFacts
  DEF vars, redis, procs, calls, TypeOK, Statuses, ParentPCs, ChildPCs,
      Scanning, Acquiring, Ops, redis, procs, calls
<1>32. QED
  BY <1>1, <1>2, <1>3, <1>4, <1>5, <1>6, <1>7, <1>8, <1>9, <1>10, <1>11,
     <1>12, <1>13, <1>14, <1>15, <1>16, <1>17, <1>18, <1>19, <1>20, <1>21,
     <1>22, <1>23, <1>24, <1>25, <1>26, <1>27, <1>28, <1>29, <1>30, <1>31
  DEF Next, WorkerNext, SchedulerNext, ProcNext, JobNext

\* Every variable of Scheduler keeps its type.
THEOREM SchedulerTypeCorrect == Spec => []TypeOK
  BY TypeInit, TypeNext, PTL DEF Spec

\* Clients and the workers that perform jobs leave locks and schedulers alone.
LEMMA JobSteps ==
    ASSUME NEW j \in Jobs, JobNext(j)
    PROVE  UNCHANGED <<lock, procs>>
  BY DEF JobNext, EnqueueAt, ScheduleUnique, Zadd, Persist, ComesDue, Take,
         Finish, RetryLater, RepeatLater, Cancel, ExecCancel, redis

\* The bounds on what does not happen stay zero.
LEMMA BudgetNext == LockInv /\ [Next]_vars => BudgetOK'
<1> SUFFICES ASSUME LockInv, [Next]_vars PROVE BudgetOK'
  OBVIOUS
<1>1. ASSUME NEW w \in Workers, StartScheduler(w) PROVE BudgetOK'
  BY <1>1, ProcFacts DEF StartScheduler, Goto, LockInv, BudgetOK, TypeOK, Ops
<1>2. ASSUME NEW w \in Workers, Maintain(w) PROVE BudgetOK'
  BY <1>2, ProcFacts DEF Maintain, Goto, LockInv, BudgetOK, TypeOK, Ops
<1>3. ASSUME NEW w \in Workers, EndAcquire(w) PROVE BudgetOK'
  BY <1>3, ProcFacts DEF EndAcquire, LockInv, BudgetOK, TypeOK, Ops
<1>4. ASSUME NEW w \in Workers, EndBurst(w) PROVE BudgetOK'
  BY <1>4, ProcFacts DEF EndBurst, Goto, Without, LockInv, BudgetOK, TypeOK, Ops
<1>5. ASSUME NEW w \in Workers, Teardown(w) PROVE BudgetOK'
  BY <1>5, ProcFacts DEF Teardown, Goto, Spend, LockInv, BudgetOK, TypeOK, Ops
<1>6. ASSUME NEW w \in Workers, Joined(w) PROVE BudgetOK'
  BY <1>6, ProcFacts DEF Joined, Goto, LockInv, BudgetOK, TypeOK, Ops
<1>7. ASSUME NEW w \in Workers, Reacquire(w) PROVE BudgetOK'
  BY <1>7, ProcFacts DEF Reacquire, Goto, LockInv, BudgetOK, TypeOK, Ops
<1>8. ASSUME NEW w \in Workers, EndReacquire(w) PROVE BudgetOK'
  BY <1>8, ProcFacts DEF EndReacquire, Goto, LockInv, BudgetOK, TypeOK, Ops
<1>9. ASSUME NEW w \in Workers, StartRound(w) PROVE BudgetOK'
  BY <1>9, ProcFacts DEF StartRound, Goto, LockInv, BudgetOK, TypeOK, Ops
<1>10. ASSUME NEW w \in Workers, Heartbeat(w) PROVE BudgetOK'
  BY <1>10, ProcFacts DEF Heartbeat, Goto, LockInv, BudgetOK, TypeOK, Ops
<1>11. ASSUME NEW w \in Workers, StopScheduler(w) PROVE BudgetOK'
  BY <1>11, ProcFacts
  DEF StopScheduler, Goto, Without, LockInv, BudgetOK, TypeOK, Ops
<1>12. ASSUME NEW w \in Workers, KillScheduler(w) PROVE BudgetOK'
  BY <1>12, ProcFacts
  DEF KillScheduler, Spend, Kill, LockInv, BudgetOK, TypeOK, Ops
<1>13. ASSUME NEW w \in Workers, KillWorker(w) PROVE BudgetOK'
  BY <1>13, ProcFacts
  DEF KillWorker, Spend, Kill, LockInv, BudgetOK, TypeOK, Ops
<1>14. ASSUME NEW w \in Workers, KillHost(w) PROVE BudgetOK'
  BY <1>14, ProcFacts DEF KillHost, Spend, Kill, LockInv, BudgetOK, TypeOK, Ops
<1>15. ASSUME NEW p \in Procs, NEW q \in Queues, TryLock(p, q) PROVE BudgetOK'
  BY <1>15, ProcFacts DEF TryLock, LockInv, BudgetOK, TypeOK, Ops
<1>16. ASSUME NEW p \in Procs, NEW q \in Queues, ReadDue(p, q) PROVE BudgetOK'
  BY <1>16, ProcFacts DEF ReadDue, Goto, LockInv, BudgetOK, TypeOK, Ops
<1>17. ASSUME NEW p \in Procs, Fetch(p) PROVE BudgetOK'
  BY <1>17, ProcFacts DEF Fetch, Goto, LockInv, BudgetOK, TypeOK, Ops
<1>18. ASSUME NEW p \in Procs, Move(p) PROVE BudgetOK'
  BY <1>18, ProcFacts DEF Move, Goto, LockInv, BudgetOK, TypeOK, Ops
<1>19. ASSUME NEW j \in Jobs, EnqueueAt(j) PROVE BudgetOK'
  BY <1>19, ProcFacts DEF EnqueueAt, LockInv, BudgetOK, TypeOK, Ops
<1>20. ASSUME NEW j \in Jobs, ScheduleUnique(j) PROVE BudgetOK'
  BY <1>20, ProcFacts DEF ScheduleUnique, LockInv, BudgetOK, TypeOK, Ops
<1>21. ASSUME NEW j \in Jobs, Zadd(j) PROVE BudgetOK'
  BY <1>21, ProcFacts DEF Zadd, LockInv, BudgetOK, TypeOK, Ops
<1>22. ASSUME NEW j \in Jobs, Persist(j) PROVE BudgetOK'
  BY <1>22, ProcFacts DEF Persist, LockInv, BudgetOK, TypeOK, Ops
<1>23. ASSUME NEW j \in Jobs, ComesDue(j) PROVE BudgetOK'
  BY <1>23, ProcFacts DEF ComesDue, LockInv, BudgetOK, TypeOK, Ops
<1>24. ASSUME NEW j \in Jobs, Take(j) PROVE BudgetOK'
  BY <1>24, ProcFacts DEF Take, LockInv, BudgetOK, TypeOK, Ops
<1>25. ASSUME NEW j \in Jobs, Finish(j) PROVE BudgetOK'
  BY <1>25, ProcFacts DEF Finish, LockInv, BudgetOK, TypeOK, Ops
<1>26. ASSUME NEW j \in Jobs, RetryLater(j) PROVE BudgetOK'
  BY <1>26, ProcFacts DEF RetryLater, Spend, LockInv, BudgetOK, TypeOK, Ops
<1>27. ASSUME NEW j \in Jobs, RepeatLater(j) PROVE BudgetOK'
  BY <1>27, ProcFacts DEF RepeatLater, Spend, LockInv, BudgetOK, TypeOK, Ops
<1>28. ASSUME NEW j \in Jobs, Cancel(j) PROVE BudgetOK'
  BY <1>28, ProcFacts DEF Cancel, Spend, LockInv, BudgetOK, TypeOK, Ops
<1>29. ASSUME NEW j \in Jobs, ExecCancel(j) PROVE BudgetOK'
  BY <1>29, ProcFacts DEF ExecCancel, LockInv, BudgetOK, TypeOK, Ops
<1>30. ASSUME Tick PROVE BudgetOK'
  BY <1>30, ProcFacts DEF Tick, Spend, LockInv, BudgetOK, TypeOK, Ops
<1>31. CASE UNCHANGED vars
  BY <1>31, ProcFacts
  DEF vars, redis, procs, calls, LockInv, BudgetOK, TypeOK, Ops
<1>32. QED
  BY <1>1, <1>2, <1>3, <1>4, <1>5, <1>6, <1>7, <1>8, <1>9, <1>10, <1>11,
     <1>12, <1>13, <1>14, <1>15, <1>16, <1>17, <1>18, <1>19, <1>20, <1>21,
     <1>22, <1>23, <1>24, <1>25, <1>26, <1>27, <1>28, <1>29, <1>30, <1>31
  DEF Next, WorkerNext, SchedulerNext, ProcNext, JobNext

\* What the processes of a worker may do at the same time.
LEMMA ProcNextOK == LockInv /\ [Next]_vars => ProcOK'
<1> SUFFICES ASSUME LockInv, [Next]_vars PROVE ProcOK'
  OBVIOUS
<1> USE SchedulerAssumption
<1>1. ASSUME NEW w \in Workers, StartScheduler(w) PROVE ProcOK'
  BY <1>1, ProcFacts
  DEF StartScheduler, Goto, LockInv, BudgetOK, TypeOK, ProcOK, Alive, Busy,
      Acquiring, Scanning, ParentPCs, ChildPCs, Ops
<1>2. ASSUME NEW w \in Workers, Maintain(w) PROVE ProcOK'
  BY <1>2, ProcFacts
  DEF Maintain, Goto, LockInv, BudgetOK, TypeOK, ProcOK, Alive, Busy,
      Acquiring, Scanning, ParentPCs, ChildPCs, Ops
<1>3. ASSUME NEW w \in Workers, EndAcquire(w) PROVE ProcOK'
  <2> DEFINE p == Parent(w)
             k == Child(w)
             locks == held[p] \cup got[p]
             burst == w \in Burst /\ pc[p] = "starting"
             fork == locks # {} /\ ~burst
             pp == IF burst /\ locks # {} THEN "scan" ELSE "idle"
             kp == IF fork THEN "loop" ELSE pc[k]
             kh == IF fork THEN locks ELSE held[k]
  <2>1. /\ p \in Procs /\ k \in Procs /\ p # k
        /\ \A v \in Workers \ {w} : /\ Parent(v) \in Procs \ {p, k}
                                    /\ Child(v) \in Procs \ {p, k}
    BY ProcFacts
  <2>2. /\ pc \in [Procs -> ParentPCs \cup ChildPCs]
        /\ held \in [Procs -> SUBSET Queues]
        /\ got \in [Procs -> SUBSET Queues]
    BY DEF LockInv, TypeOK
  <2>3. /\ pc' = [pc EXCEPT ![p] = pp, ![k] = kp]
        /\ held' = [held EXCEPT ![p] = locks, ![k] = kh]
        /\ got' = [got EXCEPT ![p] = {}]
        /\ stopRequested' = stopRequested
        /\ pc[p] \in {"starting", "maintaining"}
    BY <1>3, <2>1, <2>2 DEF EndAcquire
  <2>4. ~Alive(k) /\ ~stopRequested[w]
    BY <2>3 DEF LockInv, ProcOK, Busy, Acquiring
  <2>5. /\ pc'[p] = pp /\ pc'[k] = kp /\ held'[p] = locks
        /\ got'[p] = {}
        /\ \A r \in Procs \ {p} : got'[r] = got[r]
        /\ \A r \in Procs \ {p, k} : pc'[r] = pc[r] /\ held'[r] = held[r]
    BY <2>1, <2>2, <2>3
  <2>6. /\ pp = "scan" => ~Alive(k)' /\ pp = "scan"
        /\ pp = "idle" /\ ~Alive(k)' => locks = {}
        /\ pp \in {"scan", "idle"}
    BY <2>4, <2>5 DEF Alive
  <2>a. kp = pc[k] \/ kp = "loop"
    OBVIOUS
  <2> HIDE DEF p, k, locks, burst, fork, pp, kp, kh
  <2>7. ASSUME NEW v \in Workers
        PROVE  /\ pc'[Parent(v)] \in Busy \cup {"new"} => ~Alive(Child(v))'
               /\ pc'[Parent(v)] = "idle" /\ ~Alive(Child(v))' =>
                     held'[Parent(v)] = {}
               /\ pc'[Parent(v)] \in {"new", "starting", "maintaining"} =>
                     held'[Parent(v)] = {}
               /\ stopRequested'[v] => pc'[Parent(v)] \in {"joining", "dead"}
    <3>1. CASE v = w
      BY <2>3, <2>4, <2>5, <2>6, <3>1 DEF Busy, Acquiring, Scanning, p, k
    <3>2. CASE v # w
      <4>1. /\ pc'[Parent(v)] = pc[Parent(v)] /\ held'[Parent(v)] = held[Parent(v)]
            /\ Alive(Child(v))' = Alive(Child(v))
            /\ stopRequested'[v] = stopRequested[v]
        BY <2>1, <2>3, <2>5, <3>2 DEF Alive
      <4> QED
        BY <4>1 DEF LockInv, ProcOK
    <3> QED
      BY <3>1, <3>2
  <2>8. ASSUME NEW r \in Procs, pc'[r] \notin Acquiring PROVE got'[r] = {}
    <3>1. CASE r = p
      BY <2>5, <3>1
    <3>2. CASE r # p
      <4>1. pc[r] \notin Acquiring
        <5>1. CASE r = k
          BY <2>4, <5>1 DEF Alive, LockInv, TypeOK, ChildPCs, Acquiring, k
        <5>2. CASE r # k
          BY <2>5, <2>8, <3>2, <5>2
        <5> QED
          BY <5>1, <5>2
      <4> QED
        BY <2>5, <3>2, <4>1 DEF LockInv, ProcOK
    <3> QED
      BY <3>1, <3>2
  <2> QED
    BY <2>7, <2>8 DEF ProcOK
<1>4. ASSUME NEW w \in Workers, EndBurst(w) PROVE ProcOK'
  BY <1>4, ProcFacts
  DEF EndBurst, Goto, Without, LockInv, BudgetOK, TypeOK, ProcOK, Alive, Busy,
      Acquiring, Scanning, ParentPCs, ChildPCs, Ops
<1>5. ASSUME NEW w \in Workers, Teardown(w) PROVE ProcOK'
  BY <1>5, ProcFacts
  DEF Teardown, Goto, Spend, LockInv, BudgetOK, TypeOK, ProcOK, Alive, Busy,
      Acquiring, Scanning, ParentPCs, ChildPCs, Ops
<1>6. ASSUME NEW w \in Workers, Joined(w) PROVE ProcOK'
  BY <1>6, ProcFacts
  DEF Joined, Goto, LockInv, BudgetOK, TypeOK, ProcOK, Alive, Busy, Acquiring,
      Scanning, ParentPCs, ChildPCs, Ops
<1>7. ASSUME NEW w \in Workers, Reacquire(w) PROVE ProcOK'
  BY <1>7, ProcFacts
  DEF Reacquire, Goto, LockInv, BudgetOK, TypeOK, ProcOK, Alive, Busy,
      Acquiring, Scanning, ParentPCs, ChildPCs, Ops
<1>8. ASSUME NEW w \in Workers, EndReacquire(w) PROVE ProcOK'
  BY <1>8, ProcFacts
  DEF EndReacquire, Goto, LockInv, BudgetOK, TypeOK, ProcOK, Alive, Busy,
      Acquiring, Scanning, ParentPCs, ChildPCs, Ops
<1>9. ASSUME NEW w \in Workers, StartRound(w) PROVE ProcOK'
  BY <1>9, ProcFacts
  DEF StartRound, Goto, LockInv, BudgetOK, TypeOK, ProcOK, Alive, Busy,
      Acquiring, Scanning, ParentPCs, ChildPCs, Ops
<1>10. ASSUME NEW w \in Workers, Heartbeat(w) PROVE ProcOK'
  BY <1>10, ProcFacts
  DEF Heartbeat, Goto, LockInv, BudgetOK, TypeOK, ProcOK, Alive, Busy,
      Acquiring, Scanning, ParentPCs, ChildPCs, Ops
<1>11. ASSUME NEW w \in Workers, StopScheduler(w) PROVE ProcOK'
  BY <1>11, ProcFacts
  DEF StopScheduler, Goto, Without, LockInv, BudgetOK, TypeOK, ProcOK, Alive,
      Busy, Acquiring, Scanning, ParentPCs, ChildPCs, Ops
<1>12. ASSUME NEW w \in Workers, KillScheduler(w) PROVE ProcOK'
  BY <1>12, ProcFacts
  DEF KillScheduler, Spend, Kill, LockInv, BudgetOK, TypeOK, ProcOK, Alive,
      Busy, Acquiring, Scanning, ParentPCs, ChildPCs, Ops
<1>13. ASSUME NEW w \in Workers, KillWorker(w) PROVE ProcOK'
  BY <1>13, ProcFacts
  DEF KillWorker, Spend, Kill, LockInv, BudgetOK, TypeOK, ProcOK, Alive, Busy,
      Acquiring, Scanning, ParentPCs, ChildPCs, Ops
<1>14. ASSUME NEW w \in Workers, KillHost(w) PROVE ProcOK'
  BY <1>14, ProcFacts
  DEF KillHost, Spend, Kill, LockInv, BudgetOK, TypeOK, ProcOK, Alive, Busy,
      Acquiring, Scanning, ParentPCs, ChildPCs, Ops
<1>15. ASSUME NEW p \in Procs, NEW q \in Queues, TryLock(p, q) PROVE ProcOK'
  <2>1. UNCHANGED <<pc, held, stopRequested>>
    BY <1>15 DEF TryLock
  <2>2. ASSUME NEW x \in Procs, pc[x] \notin Acquiring PROVE got'[x] = got[x]
    BY <1>15, <2>2 DEF TryLock, LockInv, TypeOK
  <2>3. QED
    BY <2>1, <2>2 DEF LockInv, ProcOK, Alive
<1>16. ASSUME NEW p \in Procs, NEW q \in Queues, ReadDue(p, q) PROVE ProcOK'
  BY <1>16, ProcFacts
  DEF ReadDue, Goto, LockInv, BudgetOK, TypeOK, ProcOK, Alive, Busy,
      Acquiring, Scanning, ParentPCs, ChildPCs, Ops
<1>17. ASSUME NEW p \in Procs, Fetch(p) PROVE ProcOK'
  BY <1>17, ProcFacts
  DEF Fetch, Goto, LockInv, BudgetOK, TypeOK, ProcOK, Alive, Busy, Acquiring,
      Scanning, ParentPCs, ChildPCs, Ops
<1>18. ASSUME NEW p \in Procs, Move(p) PROVE ProcOK'
  BY <1>18, ProcFacts
  DEF Move, Goto, LockInv, BudgetOK, TypeOK, ProcOK, Alive, Busy, Acquiring,
      Scanning, ParentPCs, ChildPCs, Ops
<1>19. ASSUME NEW j \in Jobs, JobNext(j) PROVE ProcOK'
  BY <1>19, JobSteps DEF LockInv, ProcOK, Alive, procs
<1>20. ASSUME Tick PROVE ProcOK'
  BY <1>20, ProcFacts
  DEF Tick, Spend, LockInv, BudgetOK, TypeOK, ProcOK, Alive, Busy, Acquiring,
      Scanning, ParentPCs, ChildPCs, Ops
<1>21. CASE UNCHANGED vars
  BY <1>21, ProcFacts
  DEF vars, redis, procs, calls, LockInv, BudgetOK, TypeOK, ProcOK, Alive,
      Busy, Acquiring, Scanning, ParentPCs, ChildPCs, Ops
<1>22. QED
  BY <1>1, <1>2, <1>3, <1>4, <1>5, <1>6, <1>7, <1>8, <1>9, <1>10, <1>11,
     <1>12, <1>13, <1>14, <1>15, <1>16, <1>17, <1>18, <1>19, <1>20, <1>21
  DEF Next, WorkerNext, SchedulerNext, ProcNext

\* A step in which nobody gets a claim, and no claim loses its lock, keeps
\* ClaimsOK.
LEMMA NoNewClaims ==
    ASSUME ClaimsOK,
           \A q \in Queues : \A p \in Procs : Claims(p, q)' =>
              /\ Claims(p, q)
              /\ lock'[q] >= 1
              /\ p[2] = "scheduler" /\ beat'[p] => lock'[q] >= 2
    PROVE  ClaimsOK'
  BY DEF ClaimsOK

\* acquire_locks, heartbeat, release_locks and the passing of time: at most one
\* process has a claim to a lock, and the lock of a claim does not expire.
LEMMA ClaimsNext == LockInv /\ [Next]_vars => ClaimsOK'
<1> SUFFICES ASSUME LockInv, [Next]_vars PROVE ClaimsOK'
  OBVIOUS
<1> USE SchedulerAssumption
<1>1. ASSUME NEW w \in Workers, StartScheduler(w) PROVE ClaimsOK'
  <2>1. ASSUME NEW k \in Queues, NEW x \in Procs, Claims(x, k)'
        PROVE  /\ Claims(x, k)
               /\ lock'[k] >= 1
               /\ x[2] = "scheduler" /\ beat'[x] => lock'[k] >= 2
    BY <1>1, <2>1, ProcFacts
    DEF StartScheduler, Goto, redis, procs, LockInv, BudgetOK, TypeOK,
        ProcOK, ClaimsOK, Claims, Alive, Busy, Acquiring, Scanning,
        ParentPCs, ChildPCs, Ops
  <2>2. QED
    BY <2>1, NoNewClaims DEF LockInv
<1>2. ASSUME NEW w \in Workers, Maintain(w) PROVE ClaimsOK'
  <2>1. ASSUME NEW k \in Queues, NEW x \in Procs, Claims(x, k)'
        PROVE  /\ Claims(x, k)
               /\ lock'[k] >= 1
               /\ x[2] = "scheduler" /\ beat'[x] => lock'[k] >= 2
    BY <1>2, <2>1, ProcFacts
    DEF Maintain, Goto, redis, procs, LockInv, BudgetOK, TypeOK, ProcOK,
        ClaimsOK, Claims, Alive, Busy, Acquiring, Scanning, ParentPCs,
        ChildPCs, Ops
  <2>2. QED
    BY <2>1, NoNewClaims DEF LockInv
<1>3. ASSUME NEW w \in Workers, EndAcquire(w) PROVE ClaimsOK'
  BY <1>3, ProcFacts
  DEF EndAcquire, redis, procs, LockInv, BudgetOK, TypeOK, ProcOK, ClaimsOK,
      Claims, Alive, Busy, Acquiring, Scanning, ParentPCs, ChildPCs, Ops
<1>4. ASSUME NEW w \in Workers, EndBurst(w) PROVE ClaimsOK'
  <2>1. ASSUME NEW k \in Queues, NEW x \in Procs, Claims(x, k)'
        PROVE  /\ Claims(x, k)
               /\ lock'[k] >= 1
               /\ x[2] = "scheduler" /\ beat'[x] => lock'[k] >= 2
    BY <1>4, <2>1, ProcFacts
    DEF EndBurst, Goto, Without, redis, procs, LockInv, BudgetOK, TypeOK,
        ProcOK, ClaimsOK, Claims, Alive, Busy, Acquiring, Scanning,
        ParentPCs, ChildPCs, Ops
  <2>2. QED
    BY <2>1, NoNewClaims DEF LockInv
<1>5. ASSUME NEW w \in Workers, Teardown(w) PROVE ClaimsOK'
  <2>1. ASSUME NEW k \in Queues, NEW x \in Procs, Claims(x, k)'
        PROVE  /\ Claims(x, k)
               /\ lock'[k] >= 1
               /\ x[2] = "scheduler" /\ beat'[x] => lock'[k] >= 2
    BY <1>5, <2>1, ProcFacts
    DEF Teardown, Goto, Spend, redis, procs, LockInv, BudgetOK, TypeOK,
        ProcOK, ClaimsOK, Claims, Alive, Busy, Acquiring, Scanning,
        ParentPCs, ChildPCs, Ops
  <2>2. QED
    BY <2>1, NoNewClaims DEF LockInv
<1>6. ASSUME NEW w \in Workers, Joined(w) PROVE ClaimsOK'
  <2>1. ASSUME NEW k \in Queues, NEW x \in Procs, Claims(x, k)'
        PROVE  /\ Claims(x, k)
               /\ lock'[k] >= 1
               /\ x[2] = "scheduler" /\ beat'[x] => lock'[k] >= 2
    BY <1>6, <2>1, ProcFacts
    DEF Joined, Goto, redis, procs, LockInv, BudgetOK, TypeOK, ProcOK,
        ClaimsOK, Claims, Alive, Busy, Acquiring, Scanning, ParentPCs,
        ChildPCs, Ops
  <2>2. QED
    BY <2>1, NoNewClaims DEF LockInv
<1>7. ASSUME NEW w \in Workers, Reacquire(w) PROVE ClaimsOK'
  <2>1. ASSUME NEW k \in Queues, NEW x \in Procs, Claims(x, k)'
        PROVE  /\ Claims(x, k)
               /\ lock'[k] >= 1
               /\ x[2] = "scheduler" /\ beat'[x] => lock'[k] >= 2
    BY <1>7, <2>1, ProcFacts
    DEF Reacquire, Goto, redis, procs, LockInv, BudgetOK, TypeOK, ProcOK,
        ClaimsOK, Claims, Alive, Busy, Acquiring, Scanning, ParentPCs,
        ChildPCs, Ops
  <2>2. QED
    BY <2>1, NoNewClaims DEF LockInv
<1>8. ASSUME NEW w \in Workers, EndReacquire(w) PROVE ClaimsOK'
  <2>1. ASSUME NEW k \in Queues, NEW x \in Procs, Claims(x, k)'
        PROVE  /\ Claims(x, k)
               /\ lock'[k] >= 1
               /\ x[2] = "scheduler" /\ beat'[x] => lock'[k] >= 2
    BY <1>8, <2>1, ProcFacts
    DEF EndReacquire, Goto, redis, procs, LockInv, BudgetOK, TypeOK, ProcOK,
        ClaimsOK, Claims, Alive, Busy, Acquiring, Scanning, ParentPCs,
        ChildPCs, Ops
  <2>2. QED
    BY <2>1, NoNewClaims DEF LockInv
<1>9. ASSUME NEW w \in Workers, StartRound(w) PROVE ClaimsOK'
  <2>1. ASSUME NEW k \in Queues, NEW x \in Procs, Claims(x, k)'
        PROVE  /\ Claims(x, k)
               /\ lock'[k] >= 1
               /\ x[2] = "scheduler" /\ beat'[x] => lock'[k] >= 2
    BY <1>9, <2>1, ProcFacts
    DEF StartRound, Goto, redis, procs, LockInv, BudgetOK, TypeOK, ProcOK,
        ClaimsOK, Claims, Alive, Busy, Acquiring, Scanning, ParentPCs,
        ChildPCs, Ops
  <2>2. QED
    BY <2>1, NoNewClaims DEF LockInv
<1>10. ASSUME NEW w \in Workers, Heartbeat(w) PROVE ClaimsOK'
  <2>1. ASSUME NEW k \in Queues, NEW x \in Procs, Claims(x, k)'
        PROVE  /\ Claims(x, k)
               /\ lock'[k] >= 1
               /\ x[2] = "scheduler" /\ beat'[x] => lock'[k] >= 2
    BY <1>10, <2>1, ProcFacts
    DEF Heartbeat, Goto, redis, procs, LockInv, BudgetOK, TypeOK, ProcOK,
        ClaimsOK, Claims, Alive, Busy, Acquiring, Scanning, ParentPCs,
        ChildPCs, Ops
  <2>2. QED
    BY <2>1, NoNewClaims DEF LockInv
<1>11. ASSUME NEW w \in Workers, StopScheduler(w) PROVE ClaimsOK'
  <2>1. ASSUME NEW k \in Queues, NEW x \in Procs, Claims(x, k)'
        PROVE  /\ Claims(x, k)
               /\ lock'[k] >= 1
               /\ x[2] = "scheduler" /\ beat'[x] => lock'[k] >= 2
    BY <1>11, <2>1, ProcFacts
    DEF StopScheduler, Goto, Without, redis, procs, LockInv, BudgetOK,
        TypeOK, ProcOK, ClaimsOK, Claims, Alive, Busy, Acquiring, Scanning,
        ParentPCs, ChildPCs, Ops
  <2>2. QED
    BY <2>1, NoNewClaims DEF LockInv
<1>12. ASSUME NEW w \in Workers, KillScheduler(w) PROVE ClaimsOK'
  <2>1. ASSUME NEW k \in Queues, NEW x \in Procs, Claims(x, k)'
        PROVE  /\ Claims(x, k)
               /\ lock'[k] >= 1
               /\ x[2] = "scheduler" /\ beat'[x] => lock'[k] >= 2
    BY <1>12, <2>1, ProcFacts
    DEF KillScheduler, Spend, Kill, redis, procs, LockInv, BudgetOK, TypeOK,
        ProcOK, ClaimsOK, Claims, Alive, Busy, Acquiring, Scanning,
        ParentPCs, ChildPCs, Ops
  <2>2. QED
    BY <2>1, NoNewClaims DEF LockInv
<1>13. ASSUME NEW w \in Workers, KillWorker(w) PROVE ClaimsOK'
  <2>1. ASSUME NEW k \in Queues, NEW x \in Procs, Claims(x, k)'
        PROVE  /\ Claims(x, k)
               /\ lock'[k] >= 1
               /\ x[2] = "scheduler" /\ beat'[x] => lock'[k] >= 2
    BY <1>13, <2>1, ProcFacts
    DEF KillWorker, Spend, Kill, redis, procs, LockInv, BudgetOK, TypeOK,
        ProcOK, ClaimsOK, Claims, Alive, Busy, Acquiring, Scanning,
        ParentPCs, ChildPCs, Ops
  <2>2. QED
    BY <2>1, NoNewClaims DEF LockInv
<1>14. ASSUME NEW w \in Workers, KillHost(w) PROVE ClaimsOK'
  <2>1. ASSUME NEW k \in Queues, NEW x \in Procs, Claims(x, k)'
        PROVE  /\ Claims(x, k)
               /\ lock'[k] >= 1
               /\ x[2] = "scheduler" /\ beat'[x] => lock'[k] >= 2
    BY <1>14, <2>1, ProcFacts
    DEF KillHost, Spend, Kill, redis, procs, LockInv, BudgetOK, TypeOK,
        ProcOK, ClaimsOK, Claims, Alive, Busy, Acquiring, Scanning,
        ParentPCs, ChildPCs, Ops
  <2>2. QED
    BY <2>1, NoNewClaims DEF LockInv
<1>15. ASSUME NEW p \in Procs, NEW q \in Queues, TryLock(p, q) PROVE ClaimsOK'
  <2> USE DEF TryLock
  <2>1. CASE lock[q] # 0
    <3>1. ASSUME NEW k \in Queues, NEW x \in Procs
          PROVE  Claims(x, k)' <=> Claims(x, k)
      BY <1>15, <2>1 DEF Claims, Alive
    <3>2. QED
      BY <1>15, <2>1, <3>1 DEF LockInv, ClaimsOK
  <2>2. CASE lock[q] = 0
    <3>1. ASSUME NEW x \in Procs PROVE ~Claims(x, q)
      BY <2>2 DEF LockInv, ClaimsOK
    <3>2. ASSUME NEW k \in Queues, NEW x \in Procs, Claims(x, k)'
          PROVE  Claims(x, k) \/ (x = p /\ k = q)
      BY <1>15, <2>2, <3>2 DEF Claims, Alive, LockInv, TypeOK
    <3>3. lock' = [lock EXCEPT ![q] = Lifetime] /\ UNCHANGED beat
      BY <1>15, <2>2
    <3>4. ASSUME NEW k \in Queues, NEW x \in Procs, Claims(x, k)'
          PROVE  lock'[k] >= 1 /\ (x[2] = "scheduler" /\ beat'[x] => lock'[k] >= 2)
      BY <3>1, <3>2, <3>3, <3>4 DEF LockInv, ClaimsOK, TypeOK
    <3>5. ASSUME NEW k \in Queues, NEW x \in Procs, NEW y \in Procs,
                 Claims(x, k)', Claims(y, k)'
          PROVE  x = y
      BY <3>1, <3>2, <3>5 DEF LockInv, ClaimsOK
    <3>6. QED
      BY <3>4, <3>5 DEF ClaimsOK
  <2>3. QED
    BY <2>1, <2>2
<1>16. ASSUME NEW p \in Procs, NEW q \in Queues, ReadDue(p, q) PROVE ClaimsOK'
  <2>1. ASSUME NEW k \in Queues, NEW x \in Procs, Claims(x, k)'
        PROVE  /\ Claims(x, k)
               /\ lock'[k] >= 1
               /\ x[2] = "scheduler" /\ beat'[x] => lock'[k] >= 2
    BY <1>16, <2>1, ProcFacts
    DEF ReadDue, Goto, redis, procs, LockInv, BudgetOK, TypeOK, ProcOK,
        ClaimsOK, Claims, Alive, Busy, Acquiring, Scanning, ParentPCs,
        ChildPCs, Ops
  <2>2. QED
    BY <2>1, NoNewClaims DEF LockInv
<1>17. ASSUME NEW p \in Procs, Fetch(p) PROVE ClaimsOK'
  <2>1. ASSUME NEW k \in Queues, NEW x \in Procs, Claims(x, k)'
        PROVE  /\ Claims(x, k)
               /\ lock'[k] >= 1
               /\ x[2] = "scheduler" /\ beat'[x] => lock'[k] >= 2
    BY <1>17, <2>1, ProcFacts
    DEF Fetch, Goto, redis, procs, LockInv, BudgetOK, TypeOK, ProcOK,
        ClaimsOK, Claims, Alive, Busy, Acquiring, Scanning, ParentPCs,
        ChildPCs, Ops
  <2>2. QED
    BY <2>1, NoNewClaims DEF LockInv
<1>18. ASSUME NEW p \in Procs, Move(p) PROVE ClaimsOK'
  <2>1. ASSUME NEW k \in Queues, NEW x \in Procs, Claims(x, k)'
        PROVE  /\ Claims(x, k)
               /\ lock'[k] >= 1
               /\ x[2] = "scheduler" /\ beat'[x] => lock'[k] >= 2
    BY <1>18, <2>1, ProcFacts
    DEF Move, Goto, redis, procs, LockInv, BudgetOK, TypeOK, ProcOK,
        ClaimsOK, Claims, Alive, Busy, Acquiring, Scanning, ParentPCs,
        ChildPCs, Ops
  <2>2. QED
    BY <2>1, NoNewClaims DEF LockInv
<1>19. ASSUME NEW j \in Jobs, JobNext(j) PROVE ClaimsOK'
  BY <1>19, JobSteps DEF LockInv, ClaimsOK, Claims, Alive, procs
<1>20. ASSUME Tick PROVE ClaimsOK'
  <2>1. /\ \A x \in Procs : OnTime(x)
        /\ UNCHANGED <<pc, held, got>>
        /\ lock' = [k \in Queues |-> IF lock[k] > 0 THEN lock[k] - 1 ELSE 0]
        /\ beat' = [x \in Procs |-> FALSE]
    BY <1>20 DEF Tick, Spend, LockInv, BudgetOK
  <2>2. ASSUME NEW k \in Queues, NEW x \in Procs, Claims(x, k)'
        PROVE  Claims(x, k) /\ lock'[k] >= 1 /\ ~beat'[x]
    <3>1. Claims(x, k)
      BY <2>1, <2>2 DEF Claims, Alive
    <3>2. x[2] = "scheduler" /\ beat[x]
      BY <2>1, <3>1 DEF Claims, OnTime, Busy
    <3>3. lock[k] \in Nat /\ lock[k] >= 2
      BY <3>1, <3>2 DEF LockInv, ClaimsOK, TypeOK
    <3>4. QED
      BY <2>1, <3>1, <3>3
  <2>3. QED
    BY <2>2, NoNewClaims DEF LockInv
<1>21. CASE UNCHANGED vars
  BY <1>21, ProcFacts
  DEF vars, redis, procs, calls, redis, procs, LockInv, BudgetOK, TypeOK,
      ProcOK, ClaimsOK, Claims, Alive, Busy, Acquiring, Scanning, ParentPCs,
      ChildPCs, Ops
<1>22. QED
  BY <1>1, <1>2, <1>3, <1>4, <1>5, <1>6, <1>7, <1>8, <1>9, <1>10, <1>11,
     <1>12, <1>13, <1>14, <1>15, <1>16, <1>17, <1>18, <1>19, <1>20, <1>21
  DEF Next, WorkerNext, SchedulerNext, ProcNext

\* Init of Scheduler establishes LockInv.
LEMMA LockInit == Steady /\ Init => LockInv
  <1> SUFFICES ASSUME Steady, Init PROVE LockInv
    OBVIOUS
  <1>1. TypeOK
    BY TypeInit
  <1>2. BudgetOK
    BY DEF Init, Steady, BudgetOK
  <1>3. ProcOK /\ ClaimsOK
    BY ProcFacts
    DEF Init, ProcOK, ClaimsOK, Claims, Alive, Busy, Acquiring, Scanning
  <1>4. QED
    BY <1>1, <1>2, <1>3 DEF LockInv

\* acquire_locks, heartbeat and release_locks, for any number of workers and
\* queues: no two processes serve a queue, if no scheduler process dies alone
\* and none is delayed for as long as a lock lives.
THEOREM OneScheduler ==
    ASSUME Steady
    PROVE  Spec => []OneSchedulerPerQueue
  <1>1. Init => LockInv
    BY LockInit
  <1>2. LockInv /\ [Next]_vars => LockInv'
    BY TypeNext, BudgetNext, ProcNextOK, ClaimsNext DEF LockInv
  <1>3. LockInv => OneSchedulerPerQueue
    BY DEF LockInv, ClaimsOK, OneSchedulerPerQueue, Serves, Claims, Busy
  <1>4. QED
    BY <1>1, <1>2, <1>3, PTL DEF Spec

\* What a process has read is still there when it moves it: nobody else serves
\* the queue.
LEMMA IdsNext == ~Early /\ MoveInv /\ [Next]_vars => IdsOK'
<1> SUFFICES ASSUME ~Early, MoveInv, [Next]_vars PROVE IdsOK'
  OBVIOUS
<1> USE SchedulerAssumption
<1>1. ASSUME NEW w \in Workers, StartScheduler(w) PROVE IdsOK'
  BY <1>1, ProcFacts
  DEF StartScheduler, Goto, redis, procs, calls, MoveInv, LockInv, BudgetOK,
      TypeOK, IdsOK, JobOK, Alive, Acquiring, Scanning, ParentPCs, ChildPCs,
      Ops
<1>2. ASSUME NEW w \in Workers, Maintain(w) PROVE IdsOK'
  BY <1>2, ProcFacts
  DEF Maintain, Goto, redis, procs, calls, MoveInv, LockInv, BudgetOK, TypeOK,
      IdsOK, JobOK, Alive, Acquiring, Scanning, ParentPCs, ChildPCs, Ops
<1>3. ASSUME NEW w \in Workers, EndAcquire(w) PROVE IdsOK'
  <2>1. ids[Parent(w)] = {} /\ ids[Child(w)] = {}
    <3>1. pc[Child(w)] \notin {"fetch", "move"}
      BY <1>3, ProcFacts
      DEF EndAcquire, MoveInv, LockInv, ProcOK, Alive, Busy, Acquiring
    <3>2. QED
      BY <1>3, <3>1, ProcFacts DEF EndAcquire, MoveInv, IdsOK
  <2>2. ~Alive(Child(w))
    BY <1>3, ProcFacts DEF EndAcquire, MoveInv, LockInv, ProcOK, Busy, Acquiring
  <2>3. UNCHANGED <<due, ids, found>>
    BY <1>3 DEF EndAcquire, redis
  <2>4. ASSUME NEW x \in Procs, x # Parent(w), x # Child(w)
        PROVE  held'[x] = held[x] /\ pc'[x] = pc[x] /\ todo'[x] = todo[x]
    BY <1>3, <2>4, ProcFacts DEF EndAcquire, MoveInv, LockInv, TypeOK
  <2>5. pc'[Parent(w)] = "idle" \/
          (pc'[Parent(w)] = "scan" /\ todo'[Parent(w)] = held'[Parent(w)])
    BY <1>3, ProcFacts DEF EndAcquire, MoveInv, LockInv, TypeOK
  <2>6. pc'[Child(w)] = "loop" \/ pc'[Child(w)] = pc[Child(w)]
    BY <1>3, ProcFacts DEF EndAcquire, MoveInv, LockInv, TypeOK
  <2>7. QED
    BY <2>1, <2>2, <2>3, <2>4, <2>5, <2>6, ProcFacts
    DEF MoveInv, IdsOK, Alive, Scanning
<1>4. ASSUME NEW w \in Workers, EndBurst(w) PROVE IdsOK'
  BY <1>4, ProcFacts
  DEF EndBurst, Goto, Without, redis, procs, calls, MoveInv, LockInv,
      BudgetOK, TypeOK, IdsOK, JobOK, Alive, Acquiring, Scanning, ParentPCs,
      ChildPCs, Ops
<1>5. ASSUME NEW w \in Workers, Teardown(w) PROVE IdsOK'
  BY <1>5, ProcFacts
  DEF Teardown, Goto, Spend, redis, procs, calls, MoveInv, LockInv, BudgetOK,
      TypeOK, IdsOK, JobOK, Alive, Acquiring, Scanning, ParentPCs, ChildPCs,
      Ops
<1>6. ASSUME NEW w \in Workers, Joined(w) PROVE IdsOK'
  BY <1>6, ProcFacts
  DEF Joined, Goto, redis, procs, calls, MoveInv, LockInv, BudgetOK, TypeOK,
      IdsOK, JobOK, Alive, Acquiring, Scanning, ParentPCs, ChildPCs, Ops
<1>7. ASSUME NEW w \in Workers, Reacquire(w) PROVE IdsOK'
  BY <1>7, ProcFacts
  DEF Reacquire, Goto, redis, procs, calls, MoveInv, LockInv, BudgetOK,
      TypeOK, IdsOK, JobOK, Alive, Acquiring, Scanning, ParentPCs, ChildPCs,
      Ops
<1>8. ASSUME NEW w \in Workers, EndReacquire(w) PROVE IdsOK'
  BY <1>8, ProcFacts
  DEF EndReacquire, Goto, redis, procs, calls, MoveInv, LockInv, BudgetOK,
      TypeOK, IdsOK, JobOK, Alive, Acquiring, Scanning, ParentPCs, ChildPCs,
      Ops
<1>9. ASSUME NEW w \in Workers, StartRound(w) PROVE IdsOK'
  BY <1>9, ProcFacts
  DEF StartRound, Goto, redis, procs, calls, MoveInv, LockInv, BudgetOK,
      TypeOK, IdsOK, JobOK, Alive, Acquiring, Scanning, ParentPCs, ChildPCs,
      Ops
<1>10. ASSUME NEW w \in Workers, Heartbeat(w) PROVE IdsOK'
  BY <1>10, ProcFacts
  DEF Heartbeat, Goto, redis, procs, calls, MoveInv, LockInv, BudgetOK,
      TypeOK, IdsOK, JobOK, Alive, Acquiring, Scanning, ParentPCs, ChildPCs,
      Ops
<1>11. ASSUME NEW w \in Workers, StopScheduler(w) PROVE IdsOK'
  BY <1>11, ProcFacts
  DEF StopScheduler, Goto, Without, redis, procs, calls, MoveInv, LockInv,
      BudgetOK, TypeOK, IdsOK, JobOK, Alive, Acquiring, Scanning, ParentPCs,
      ChildPCs, Ops
<1>12. ASSUME NEW w \in Workers, KillScheduler(w) PROVE IdsOK'
  BY <1>12, ProcFacts
  DEF KillScheduler, Spend, Kill, redis, procs, calls, MoveInv, LockInv,
      BudgetOK, TypeOK, IdsOK, JobOK, Alive, Acquiring, Scanning, ParentPCs,
      ChildPCs, Ops
<1>13. ASSUME NEW w \in Workers, KillWorker(w) PROVE IdsOK'
  BY <1>13, ProcFacts
  DEF KillWorker, Spend, Kill, redis, procs, calls, MoveInv, LockInv,
      BudgetOK, TypeOK, IdsOK, JobOK, Alive, Acquiring, Scanning, ParentPCs,
      ChildPCs, Ops
<1>14. ASSUME NEW w \in Workers, KillHost(w) PROVE IdsOK'
  BY <1>14, ProcFacts
  DEF KillHost, Spend, Kill, redis, procs, calls, MoveInv, LockInv, BudgetOK,
      TypeOK, IdsOK, JobOK, Alive, Acquiring, Scanning, ParentPCs, ChildPCs,
      Ops
<1>15. ASSUME NEW p \in Procs, NEW q \in Queues, TryLock(p, q) PROVE IdsOK'
  BY <1>15, ProcFacts
  DEF TryLock, redis, procs, calls, MoveInv, LockInv, BudgetOK, TypeOK, IdsOK,
      JobOK, Alive, Acquiring, Scanning, ParentPCs, ChildPCs, Ops
<1>16. ASSUME NEW p \in Procs, NEW q \in Queues, ReadDue(p, q) PROVE IdsOK'
  BY <1>16, ProcFacts
  DEF ReadDue, Goto, redis, procs, calls, MoveInv, LockInv, BudgetOK, TypeOK,
      IdsOK, JobOK, Alive, Acquiring, Scanning, ParentPCs, ChildPCs, Ops
<1>17. ASSUME NEW p \in Procs, Fetch(p) PROVE IdsOK'
  <2>1. \A k \in ids[p] : status[k] # "absent"
    BY DEF MoveInv, LockInv, TypeOK, IdsOK, JobOK
  <2>2. found' = [found EXCEPT ![p] = ids[p]]
    BY <1>17, <2>1 DEF Fetch
  <2>3. QED
    BY <1>17, <2>2
    DEF Fetch, Goto, redis, MoveInv, LockInv, TypeOK, IdsOK, Scanning
<1>18. ASSUME NEW p \in Procs, Move(p) PROVE IdsOK'
  <2>1. ASSUME NEW r \in Procs, r # p, NEW k \in ids[r] PROVE k \notin ids[p]
    <3>1. SUFFICES ASSUME k \in ids[p] PROVE FALSE
      OBVIOUS
    <3>2. Claims(r, QueueOf[k]) /\ Claims(p, QueueOf[k]) /\ QueueOf[k] \in Queues
      BY <2>1, <3>1, ProcFacts
      DEF MoveInv, IdsOK, LockInv, TypeOK, Claims, Alive, Busy, Scanning
    <3>3. QED
      BY <2>1, <3>2 DEF MoveInv, LockInv, ClaimsOK
  <2>2. QED
    BY <1>18, <2>1 DEF Move, Goto, MoveInv, LockInv, TypeOK, IdsOK, Scanning
<1>19. ASSUME NEW j \in Jobs, EnqueueAt(j) PROVE IdsOK'
  BY <1>19, ProcFacts
  DEF EnqueueAt, redis, procs, calls, MoveInv, LockInv, BudgetOK, TypeOK,
      IdsOK, JobOK, Alive, Acquiring, Scanning, ParentPCs, ChildPCs, Ops
<1>20. ASSUME NEW j \in Jobs, ScheduleUnique(j) PROVE IdsOK'
  BY <1>20, ProcFacts
  DEF ScheduleUnique, redis, procs, calls, MoveInv, LockInv, BudgetOK, TypeOK,
      IdsOK, JobOK, Alive, Acquiring, Scanning, ParentPCs, ChildPCs, Ops
<1>21. ASSUME NEW j \in Jobs, Zadd(j) PROVE IdsOK'
  BY <1>21, ProcFacts
  DEF Zadd, redis, procs, calls, MoveInv, LockInv, BudgetOK, TypeOK, IdsOK,
      JobOK, Alive, Acquiring, Scanning, ParentPCs, ChildPCs, Ops
<1>22. ASSUME NEW j \in Jobs, Persist(j) PROVE IdsOK'
  BY <1>22, ProcFacts
  DEF Persist, redis, procs, calls, MoveInv, LockInv, BudgetOK, TypeOK, IdsOK,
      JobOK, Alive, Acquiring, Scanning, ParentPCs, ChildPCs, Ops
<1>23. ASSUME NEW j \in Jobs, ComesDue(j) PROVE IdsOK'
  BY <1>23, ProcFacts
  DEF ComesDue, redis, procs, calls, MoveInv, LockInv, BudgetOK, TypeOK,
      IdsOK, JobOK, Alive, Acquiring, Scanning, ParentPCs, ChildPCs, Ops
<1>24. ASSUME NEW j \in Jobs, Take(j) PROVE IdsOK'
  BY <1>24, ProcFacts
  DEF Take, redis, procs, calls, MoveInv, LockInv, BudgetOK, TypeOK, IdsOK,
      JobOK, Alive, Acquiring, Scanning, ParentPCs, ChildPCs, Ops
<1>25. ASSUME NEW j \in Jobs, Finish(j) PROVE IdsOK'
  BY <1>25, ProcFacts
  DEF Finish, redis, procs, calls, MoveInv, LockInv, BudgetOK, TypeOK, IdsOK,
      JobOK, Alive, Acquiring, Scanning, ParentPCs, ChildPCs, Ops
<1>26. ASSUME NEW j \in Jobs, RetryLater(j) PROVE IdsOK'
  BY <1>26, ProcFacts
  DEF RetryLater, Spend, redis, procs, calls, MoveInv, LockInv, BudgetOK,
      TypeOK, IdsOK, JobOK, Alive, Acquiring, Scanning, ParentPCs, ChildPCs,
      Ops
<1>27. ASSUME NEW j \in Jobs, RepeatLater(j) PROVE IdsOK'
  BY <1>27, ProcFacts
  DEF RepeatLater, Spend, redis, procs, calls, MoveInv, LockInv, BudgetOK,
      TypeOK, IdsOK, JobOK, Alive, Acquiring, Scanning, ParentPCs, ChildPCs,
      Ops
<1>28. ASSUME NEW j \in Jobs, Cancel(j) PROVE IdsOK'
  BY <1>28, ProcFacts
  DEF Cancel, Spend, redis, procs, calls, MoveInv, LockInv, BudgetOK, TypeOK,
      IdsOK, JobOK, Alive, Acquiring, Scanning, ParentPCs, ChildPCs, Ops
<1>29. ASSUME NEW j \in Jobs, ExecCancel(j) PROVE IdsOK'
  BY <1>29, ProcFacts
  DEF ExecCancel, redis, procs, calls, MoveInv, LockInv, BudgetOK, TypeOK,
      IdsOK, JobOK, Alive, Acquiring, Scanning, ParentPCs, ChildPCs, Ops
<1>30. ASSUME Tick PROVE IdsOK'
  BY <1>30, ProcFacts
  DEF Tick, Spend, redis, procs, calls, MoveInv, LockInv, BudgetOK, TypeOK,
      IdsOK, JobOK, Alive, Acquiring, Scanning, ParentPCs, ChildPCs, Ops
<1>31. CASE UNCHANGED vars
  BY <1>31, ProcFacts
  DEF vars, redis, procs, calls, redis, procs, calls, MoveInv, LockInv,
      BudgetOK, TypeOK, IdsOK, JobOK, Alive, Acquiring, Scanning, ParentPCs,
      ChildPCs, Ops
<1>32. QED
  BY <1>1, <1>2, <1>3, <1>4, <1>5, <1>6, <1>7, <1>8, <1>9, <1>10, <1>11,
     <1>12, <1>13, <1>14, <1>15, <1>16, <1>17, <1>18, <1>19, <1>20, <1>21,
     <1>22, <1>23, <1>24, <1>25, <1>26, <1>27, <1>28, <1>29, <1>30, <1>31
  DEF Next, WorkerNext, SchedulerNext, ProcNext, JobNext

\* The life of a job: it is in the registry or in the queue, never in both.
LEMMA JobsNext == ~Early /\ MoveInv /\ [Next]_vars => JobOK' /\ budget'["cancel"] = 0
<1> SUFFICES ASSUME ~Early, MoveInv, [Next]_vars
      PROVE  JobOK' /\ budget'["cancel"] = 0
  OBVIOUS
<1> USE SchedulerAssumption
<1>1. ASSUME NEW w \in Workers, StartScheduler(w)
      PROVE  JobOK' /\ budget'["cancel"] = 0
  BY <1>1, ProcFacts
  DEF StartScheduler, Goto, redis, calls, MoveInv, LockInv, BudgetOK, TypeOK,
      JobOK, Ops
<1>2. ASSUME NEW w \in Workers, Maintain(w) PROVE JobOK' /\ budget'["cancel"] = 0
  BY <1>2, ProcFacts
  DEF Maintain, Goto, redis, calls, MoveInv, LockInv, BudgetOK, TypeOK, JobOK,
      Ops
<1>3. ASSUME NEW w \in Workers, EndAcquire(w) PROVE JobOK' /\ budget'["cancel"] = 0
  BY <1>3, ProcFacts
  DEF EndAcquire, redis, calls, MoveInv, LockInv, BudgetOK, TypeOK, JobOK, Ops
<1>4. ASSUME NEW w \in Workers, EndBurst(w) PROVE JobOK' /\ budget'["cancel"] = 0
  BY <1>4, ProcFacts
  DEF EndBurst, Goto, Without, redis, calls, MoveInv, LockInv, BudgetOK,
      TypeOK, JobOK, Ops
<1>5. ASSUME NEW w \in Workers, Teardown(w) PROVE JobOK' /\ budget'["cancel"] = 0
  BY <1>5, ProcFacts
  DEF Teardown, Goto, Spend, redis, calls, MoveInv, LockInv, BudgetOK, TypeOK,
      JobOK, Ops
<1>6. ASSUME NEW w \in Workers, Joined(w) PROVE JobOK' /\ budget'["cancel"] = 0
  BY <1>6, ProcFacts
  DEF Joined, Goto, redis, calls, MoveInv, LockInv, BudgetOK, TypeOK, JobOK,
      Ops
<1>7. ASSUME NEW w \in Workers, Reacquire(w) PROVE JobOK' /\ budget'["cancel"] = 0
  BY <1>7, ProcFacts
  DEF Reacquire, Goto, redis, calls, MoveInv, LockInv, BudgetOK, TypeOK,
      JobOK, Ops
<1>8. ASSUME NEW w \in Workers, EndReacquire(w)
      PROVE  JobOK' /\ budget'["cancel"] = 0
  BY <1>8, ProcFacts
  DEF EndReacquire, Goto, redis, calls, MoveInv, LockInv, BudgetOK, TypeOK,
      JobOK, Ops
<1>9. ASSUME NEW w \in Workers, StartRound(w) PROVE JobOK' /\ budget'["cancel"] = 0
  BY <1>9, ProcFacts
  DEF StartRound, Goto, redis, calls, MoveInv, LockInv, BudgetOK, TypeOK,
      JobOK, Ops
<1>10. ASSUME NEW w \in Workers, Heartbeat(w) PROVE JobOK' /\ budget'["cancel"] = 0
  BY <1>10, ProcFacts
  DEF Heartbeat, Goto, redis, calls, MoveInv, LockInv, BudgetOK, TypeOK,
      JobOK, Ops
<1>11. ASSUME NEW w \in Workers, StopScheduler(w)
      PROVE  JobOK' /\ budget'["cancel"] = 0
  BY <1>11, ProcFacts
  DEF StopScheduler, Goto, Without, redis, calls, MoveInv, LockInv, BudgetOK,
      TypeOK, JobOK, Ops
<1>12. ASSUME NEW w \in Workers, KillScheduler(w)
      PROVE  JobOK' /\ budget'["cancel"] = 0
  BY <1>12, ProcFacts
  DEF KillScheduler, Spend, Kill, redis, calls, MoveInv, LockInv, BudgetOK,
      TypeOK, JobOK, Ops
<1>13. ASSUME NEW w \in Workers, KillWorker(w) PROVE JobOK' /\ budget'["cancel"] = 0
  BY <1>13, ProcFacts
  DEF KillWorker, Spend, Kill, redis, calls, MoveInv, LockInv, BudgetOK,
      TypeOK, JobOK, Ops
<1>14. ASSUME NEW w \in Workers, KillHost(w) PROVE JobOK' /\ budget'["cancel"] = 0
  BY <1>14, ProcFacts
  DEF KillHost, Spend, Kill, redis, calls, MoveInv, LockInv, BudgetOK, TypeOK,
      JobOK, Ops
<1>15. ASSUME NEW p \in Procs, NEW q \in Queues, TryLock(p, q)
      PROVE  JobOK' /\ budget'["cancel"] = 0
  BY <1>15, ProcFacts
  DEF TryLock, redis, calls, MoveInv, LockInv, BudgetOK, TypeOK, JobOK, Ops
<1>16. ASSUME NEW p \in Procs, NEW q \in Queues, ReadDue(p, q)
      PROVE  JobOK' /\ budget'["cancel"] = 0
  BY <1>16, ProcFacts
  DEF ReadDue, Goto, redis, calls, MoveInv, LockInv, BudgetOK, TypeOK, JobOK,
      Ops
<1>17. ASSUME NEW p \in Procs, Fetch(p) PROVE JobOK' /\ budget'["cancel"] = 0
  BY <1>17, ProcFacts
  DEF Fetch, Goto, redis, calls, MoveInv, LockInv, BudgetOK, TypeOK, JobOK,
      Ops
<1>18. ASSUME NEW p \in Procs, Move(p) PROVE JobOK' /\ budget'["cancel"] = 0
  <2>1. found[p] = ids[p] /\ ids[p] \subseteq due
    BY <1>18 DEF Move, MoveInv, IdsOK
  <2>2. QED
    BY <1>18, <2>1 DEF Move, calls, MoveInv, LockInv, TypeOK, JobOK, Statuses
<1>19. ASSUME NEW j \in Jobs, EnqueueAt(j) PROVE JobOK' /\ budget'["cancel"] = 0
  BY <1>19, ProcFacts
  DEF EnqueueAt, redis, calls, MoveInv, LockInv, BudgetOK, TypeOK, JobOK, Ops
<1>20. ASSUME NEW j \in Jobs, ScheduleUnique(j)
      PROVE  JobOK' /\ budget'["cancel"] = 0
  BY <1>20, ProcFacts
  DEF ScheduleUnique, redis, calls, MoveInv, LockInv, BudgetOK, TypeOK, JobOK,
      Ops
<1>21. ASSUME NEW j \in Jobs, Zadd(j) PROVE JobOK' /\ budget'["cancel"] = 0
  BY <1>21, ProcFacts
  DEF Zadd, redis, calls, MoveInv, LockInv, BudgetOK, TypeOK, JobOK, Ops
<1>22. ASSUME NEW j \in Jobs, Persist(j) PROVE JobOK' /\ budget'["cancel"] = 0
  BY <1>22, ProcFacts
  DEF Persist, redis, calls, MoveInv, LockInv, BudgetOK, TypeOK, JobOK, Ops
<1>23. ASSUME NEW j \in Jobs, ComesDue(j) PROVE JobOK' /\ budget'["cancel"] = 0
  BY <1>23, ProcFacts
  DEF ComesDue, redis, calls, MoveInv, LockInv, BudgetOK, TypeOK, JobOK, Ops
<1>24. ASSUME NEW j \in Jobs, Take(j) PROVE JobOK' /\ budget'["cancel"] = 0
  BY <1>24, ProcFacts
  DEF Take, redis, calls, MoveInv, LockInv, BudgetOK, TypeOK, JobOK, Ops
<1>25. ASSUME NEW j \in Jobs, Finish(j) PROVE JobOK' /\ budget'["cancel"] = 0
  BY <1>25, ProcFacts
  DEF Finish, redis, calls, MoveInv, LockInv, BudgetOK, TypeOK, JobOK, Ops
<1>26. ASSUME NEW j \in Jobs, RetryLater(j) PROVE JobOK' /\ budget'["cancel"] = 0
  BY <1>26, ProcFacts
  DEF RetryLater, Spend, redis, calls, MoveInv, LockInv, BudgetOK, TypeOK,
      JobOK, Ops
<1>27. ASSUME NEW j \in Jobs, RepeatLater(j) PROVE JobOK' /\ budget'["cancel"] = 0
  BY <1>27, ProcFacts
  DEF RepeatLater, Spend, redis, calls, MoveInv, LockInv, BudgetOK, TypeOK,
      JobOK, Ops
<1>28. ASSUME NEW j \in Jobs, Cancel(j) PROVE JobOK' /\ budget'["cancel"] = 0
  BY <1>28, ProcFacts
  DEF Cancel, Spend, redis, calls, MoveInv, LockInv, BudgetOK, TypeOK, JobOK,
      Ops
<1>29. ASSUME NEW j \in Jobs, ExecCancel(j) PROVE JobOK' /\ budget'["cancel"] = 0
  BY <1>29, ProcFacts
  DEF ExecCancel, redis, calls, MoveInv, LockInv, BudgetOK, TypeOK, JobOK, Ops
<1>30. ASSUME Tick PROVE JobOK' /\ budget'["cancel"] = 0
  BY <1>30, ProcFacts
  DEF Tick, Spend, redis, calls, MoveInv, LockInv, BudgetOK, TypeOK, JobOK,
      Ops
<1>31. CASE UNCHANGED vars
  BY <1>31, ProcFacts
  DEF vars, redis, procs, calls, redis, calls, MoveInv, LockInv, BudgetOK,
      TypeOK, JobOK, Ops
<1>32. QED
  BY <1>1, <1>2, <1>3, <1>4, <1>5, <1>6, <1>7, <1>8, <1>9, <1>10, <1>11,
     <1>12, <1>13, <1>14, <1>15, <1>16, <1>17, <1>18, <1>19, <1>20, <1>21,
     <1>22, <1>23, <1>24, <1>25, <1>26, <1>27, <1>28, <1>29, <1>30, <1>31
  DEF Next, WorkerNext, SchedulerNext, ProcNext, JobNext

\* Init of Scheduler establishes MoveInv.
LEMMA MoveInit == Steady /\ Quiet /\ Init => MoveInv
  <1> SUFFICES ASSUME Steady, Quiet, Init PROVE MoveInv
    OBVIOUS
  <1>1. LockInv
    BY LockInit
  <1>2. IdsOK
    BY ProcFacts DEF Init, IdsOK, Scanning
  <1>3. JobOK /\ budget["cancel"] = 0
    BY DEF Init, JobOK, Quiet
  <1>4. QED
    BY <1>1, <1>2, <1>3 DEF MoveInv

\* Every step of Scheduler is one of ScheduledJobs or leaves its variables alone.
LEMMA StepRefines == ~Early /\ MoveInv /\ [Next]_vars => [Abstract!Next]_Abstract!vars
<1> SUFFICES ASSUME ~Early, MoveInv, [Next]_vars PROVE [Abstract!Next]_Abstract!vars
  OBVIOUS
<1>1. ASSUME NEW w \in Workers, StartScheduler(w)
      PROVE  [Abstract!Next]_Abstract!vars
  BY <1>1 DEF StartScheduler, Goto, Abstract!vars, redis
<1>2. ASSUME NEW w \in Workers, Maintain(w) PROVE [Abstract!Next]_Abstract!vars
  BY <1>2 DEF Maintain, Goto, Abstract!vars, redis
<1>3. ASSUME NEW w \in Workers, EndAcquire(w) PROVE [Abstract!Next]_Abstract!vars
  BY <1>3 DEF EndAcquire, Abstract!vars, redis
<1>4. ASSUME NEW w \in Workers, EndBurst(w) PROVE [Abstract!Next]_Abstract!vars
  BY <1>4 DEF EndBurst, Goto, Without, Abstract!vars, redis
<1>5. ASSUME NEW w \in Workers, Teardown(w) PROVE [Abstract!Next]_Abstract!vars
  BY <1>5 DEF Teardown, Goto, Spend, Abstract!vars, redis
<1>6. ASSUME NEW w \in Workers, Joined(w) PROVE [Abstract!Next]_Abstract!vars
  BY <1>6 DEF Joined, Goto, Abstract!vars, redis
<1>7. ASSUME NEW w \in Workers, Reacquire(w) PROVE [Abstract!Next]_Abstract!vars
  BY <1>7 DEF Reacquire, Goto, Abstract!vars, redis
<1>8. ASSUME NEW w \in Workers, EndReacquire(w) PROVE [Abstract!Next]_Abstract!vars
  BY <1>8 DEF EndReacquire, Goto, Abstract!vars, redis
<1>9. ASSUME NEW w \in Workers, StartRound(w) PROVE [Abstract!Next]_Abstract!vars
  BY <1>9 DEF StartRound, Goto, Abstract!vars, redis
<1>10. ASSUME NEW w \in Workers, Heartbeat(w) PROVE [Abstract!Next]_Abstract!vars
  BY <1>10 DEF Heartbeat, Goto, Abstract!vars, redis
<1>11. ASSUME NEW w \in Workers, StopScheduler(w)
      PROVE  [Abstract!Next]_Abstract!vars
  BY <1>11 DEF StopScheduler, Goto, Without, Abstract!vars, redis
<1>12. ASSUME NEW w \in Workers, KillScheduler(w)
      PROVE  [Abstract!Next]_Abstract!vars
  BY <1>12 DEF KillScheduler, Spend, Kill, Abstract!vars, redis
<1>13. ASSUME NEW w \in Workers, KillWorker(w) PROVE [Abstract!Next]_Abstract!vars
  BY <1>13 DEF KillWorker, Spend, Kill, Abstract!vars, redis
<1>14. ASSUME NEW w \in Workers, KillHost(w) PROVE [Abstract!Next]_Abstract!vars
  BY <1>14 DEF KillHost, Spend, Kill, Abstract!vars, redis
<1>15. ASSUME NEW p \in Procs, NEW q \in Queues, TryLock(p, q)
      PROVE  [Abstract!Next]_Abstract!vars
  BY <1>15 DEF TryLock, Abstract!vars, redis
<1>16. ASSUME NEW p \in Procs, NEW q \in Queues, ReadDue(p, q)
      PROVE  [Abstract!Next]_Abstract!vars
  BY <1>16 DEF ReadDue, Goto, Abstract!vars, redis
<1>17. ASSUME NEW p \in Procs, Fetch(p) PROVE [Abstract!Next]_Abstract!vars
  BY <1>17 DEF Fetch, Goto, Abstract!vars, redis
<1>18. ASSUME NEW p \in Procs, Move(p) PROVE [Abstract!Next]_Abstract!vars
  <2>1. found[p] = ids[p] /\ ids[p] \subseteq due
    BY <1>18 DEF Move, MoveInv, IdsOK
  <2>2. Abstract!Move(ids[p])
    BY <1>18, <2>1 DEF Move, Abstract!Move
  <2>3. QED
    BY <2>1, <2>2 DEF Abstract!Next
<1>19. ASSUME NEW j \in Jobs, EnqueueAt(j) PROVE [Abstract!Next]_Abstract!vars
  BY <1>19 DEF EnqueueAt, Abstract!vars, redis
<1>20. ASSUME NEW j \in Jobs, ScheduleUnique(j) PROVE [Abstract!Next]_Abstract!vars
  BY <1>20 DEF ScheduleUnique, Abstract!Next, Abstract!Schedule
<1>21. ASSUME NEW j \in Jobs, Zadd(j) PROVE [Abstract!Next]_Abstract!vars
  BY <1>21 DEF Zadd, Abstract!Next, Abstract!Schedule
<1>22. ASSUME NEW j \in Jobs, Persist(j) PROVE [Abstract!Next]_Abstract!vars
  BY <1>22 DEF Persist, Abstract!vars, redis
<1>23. ASSUME NEW j \in Jobs, ComesDue(j) PROVE [Abstract!Next]_Abstract!vars
  BY <1>23 DEF ComesDue, Abstract!Next, Abstract!ComesDue
<1>24. ASSUME NEW j \in Jobs, Take(j) PROVE [Abstract!Next]_Abstract!vars
  BY <1>24 DEF Take, Abstract!Next, Abstract!Take
<1>25. ASSUME NEW j \in Jobs, Finish(j) PROVE [Abstract!Next]_Abstract!vars
  BY <1>25 DEF Finish, Abstract!vars, redis
<1>26. ASSUME NEW j \in Jobs, RetryLater(j) PROVE [Abstract!Next]_Abstract!vars
  BY <1>26 DEF RetryLater, Spend, Abstract!vars, redis
<1>27. ASSUME NEW j \in Jobs, RepeatLater(j) PROVE [Abstract!Next]_Abstract!vars
  BY <1>27 DEF RepeatLater, Spend, Abstract!vars, redis
<1>28. ASSUME NEW j \in Jobs, Cancel(j) PROVE [Abstract!Next]_Abstract!vars
  BY <1>28 DEF Cancel, Spend, Abstract!vars, redis
<1>29. ASSUME NEW j \in Jobs, ExecCancel(j) PROVE [Abstract!Next]_Abstract!vars
  BY <1>29 DEF ExecCancel, MoveInv, JobOK
<1>30. ASSUME Tick PROVE [Abstract!Next]_Abstract!vars
  BY <1>30 DEF Tick, Spend, Abstract!vars, redis
<1>31. CASE UNCHANGED vars
  BY <1>31 DEF vars, redis, procs, calls, Abstract!vars, redis
<1>32. QED
  BY <1>1, <1>2, <1>3, <1>4, <1>5, <1>6, <1>7, <1>8, <1>9, <1>10, <1>11,
     <1>12, <1>13, <1>14, <1>15, <1>16, <1>17, <1>18, <1>19, <1>20, <1>21,
     <1>22, <1>23, <1>24, <1>25, <1>26, <1>27, <1>28, <1>29, <1>30, <1>31
  DEF Next, WorkerNext, SchedulerNext, ProcNext, JobNext

\* The locks, the ids that are read and the life of the jobs, for ever.
LEMMA MoveInvariance ==
    ASSUME Steady, Quiet
    PROVE  Spec => []MoveInv
  <1>1. Init => MoveInv
    BY MoveInit
  <1>2. MoveInv /\ [Next]_vars => MoveInv'
    BY TypeNext, BudgetNext, ProcNextOK, ClaimsNext, IdsNext, JobsNext
    DEF MoveInv, LockInv, Quiet
  <1>3. QED
    BY <1>1, <1>2, PTL DEF Spec

\* enqueue_scheduled_jobs implements ScheduledJobs, for any workers, queues and
\* jobs, retried and repeated ones too: each due job is moved to its queue once.
\* No scheduler process dies alone or is delayed, no job is canceled or comes
\* due while it is being scheduled.
THEOREM SchedulerImplementsScheduledJobs ==
    ASSUME Steady, Quiet
    PROVE  Spec => MovedOnce
  <1>1. Spec => []MoveInv
    BY MoveInvariance
  <1>2. Init => Abstract!Init
    BY DEF Init, Abstract!Init
  <1>3. MoveInv /\ [Next]_vars => [Abstract!Next]_Abstract!vars
    BY StepRefines DEF Quiet
  <1>4. QED
    BY <1>1, <1>2, <1>3, PTL DEF Spec, MovedOnce, Abstract!Spec

-----------------------------------------------------------------------------
(* Jobs that are scheduled once, with any schedulers.                      *)

\* The ids that a process has read are those of jobs with a hash.
ReadOK ==
    \A p \in Procs : /\ \A j \in ids[p] : status[j] # "absent"
                     /\ pc[p] = "move" => found[p] = ids[p]

\* Without a hash, j is in nobody's hands but those of schedule_job; with the
\* status "scheduled" it is in the registry.
KeptOK(j) ==
    /\ call[j] # "none" => status[j] = "absent"
    /\ call[j] = "save" => j \in registry
    /\ j \in due => call[j] = "none"
    /\ j \in registry /\ call[j] = "none" => status[j] # "absent"
    /\ queue[j] > 0 \/ cancelling[j] # "none" => status[j] # "absent"
    /\ status[j] = "scheduled" => j \in registry

KeptInv == TypeOK /\ budget["again"] = 0 /\ ReadOK /\ \A j \in Jobs : KeptOK(j)

\* Fetch finds all of them, and no one else comes to a transaction.
LEMMA ReadNext ==
    ASSUME KeptInv, [Next]_vars, \A j \in Jobs : status[j] # "absent" => status'[j] # "absent"
    PROVE  ReadOK'
<1> DEFINE Stays(p) == ids'[p] = ids[p] /\ pc'[p] = pc[p] /\ found'[p] = found[p]
           Leaves(p) == ids'[p] \subseteq ids[p] /\ pc'[p] # "move"
<1> USE ProcFacts DEF KeptInv, TypeOK
<1>1. ASSUME \A p \in Procs : Stays(p) \/ Leaves(p) PROVE ReadOK'
    BY <1>1 DEF ReadOK
<1> HIDE DEF ReadOK
<1>2. ASSUME NEW w \in Workers, EndAcquire(w) PROVE ReadOK'
  <2>1. pc' = [pc EXCEPT ![Parent(w)] = pc'[Parent(w)], ![Child(w)] = pc'[Child(w)]]
        /\ pc'[Parent(w)] \in {"scan", "idle"}
        /\ (pc'[Child(w)] = "loop" \/ pc'[Child(w)] = pc[Child(w)])
        /\ UNCHANGED <<ids, found>>
      BY <1>2 DEF EndAcquire
  <2>2. \A p \in Procs : Stays(p) \/ Leaves(p)
      BY <2>1
  <2> QED
      BY <1>1, <2>2
<1>3. ASSUME NEW w \in Workers,
             \/ StartScheduler(w) \/ Maintain(w) \/ EndBurst(w) \/ Teardown(w) \/ Joined(w)
             \/ SchedulerNext(w)
      PROVE  ReadOK'
  <2>1. \E p \in Procs : /\ pc' = [pc EXCEPT ![p] = pc'[p]] /\ pc'[p] # "move"
                         /\ UNCHANGED <<ids, found>>
      BY <1>3 DEF StartScheduler, Maintain, EndBurst, Teardown, Joined, SchedulerNext,
                  Reacquire, EndReacquire, StartRound, Heartbeat, StopScheduler, Goto
  <2>2. \A p \in Procs : Stays(p) \/ Leaves(p)
      BY <2>1
  <2> QED
      BY <1>1, <2>2
<1>4. ASSUME NEW w \in Workers, KillScheduler(w) \/ KillWorker(w) \/ KillHost(w) PROVE ReadOK'
  <2>1. PICK S : Kill(S)
      BY <1>4 DEF KillScheduler, KillWorker, KillHost
  <2>2. \A p \in Procs : Stays(p) \/ Leaves(p)
      BY <2>1 DEF Kill
  <2> QED
      BY <1>1, <2>2
<1>5. ASSUME NEW p \in Procs, NEW q \in Queues, TryLock(p, q) PROVE ReadOK'
    BY <1>1, <1>5 DEF TryLock
<1>6. ASSUME NEW p \in Procs, NEW q \in Queues, ReadDue(p, q) PROVE ReadOK'
  <2>1. \A j \in registry \cap due : status[j] # "absent"
      BY DEF KeptOK
  <2> QED
      BY <1>6, <2>1 DEF ReadDue, Goto, ReadOK, redis
<1>7. ASSUME NEW p \in Procs, Fetch(p) PROVE ReadOK'
  <2>1. {j \in ids[p] : status[j] # "absent"} = ids[p]
      BY DEF ReadOK
  <2> QED
      BY <1>7, <2>1 DEF Fetch, Goto, ReadOK, redis
<1>8. ASSUME NEW p \in Procs, Move(p) PROVE ReadOK'
    BY <1>1, <1>8 DEF Move, Goto
<1>9. ASSUME (\E j \in Jobs : JobNext(j)) \/ Tick \/ UNCHANGED vars PROVE ReadOK'
  <2>1. UNCHANGED <<ids, found, pc>>
      BY <1>9, JobSteps DEF Tick, vars, procs
  <2> QED
      BY <1>1, <2>1
<1> QED
    BY <1>2, <1>3, <1>4, <1>5, <1>6, <1>7, <1>8, <1>9 DEF Next, WorkerNext, ProcNext

\* No step spends what is not there.
LEMMA AgainNext == KeptInv /\ [Next]_vars => budget'["again"] = 0
<1> SUFFICES ASSUME KeptInv, [Next]_vars PROVE budget'["again"] = 0
    OBVIOUS
<1>1. budget \in [Ops -> Nat] /\ budget["again"] = 0
    BY DEF KeptInv, TypeOK
<1>2. budget' = budget \/ \E op \in Ops : budget[op] > 0 /\ budget' = [budget EXCEPT ![op] = @ - 1]
  <2>1. ASSUME NEW op \in Ops, Spend(op)
        PROVE  \E o \in Ops : budget[o] > 0 /\ budget' = [budget EXCEPT ![o] = @ - 1]
      BY <2>1 DEF Spend
  <2>2. /\ "killScheduler" \in Ops /\ "killWorker" \in Ops /\ "killHost" \in Ops
        /\ "stop" \in Ops /\ "delay" \in Ops /\ "cancel" \in Ops /\ "again" \in Ops
      BY DEF Ops
  <2>3. ASSUME NEW w \in Workers,
               WorkerNext(w) \/ SchedulerNext(w) \/ KillScheduler(w) \/ KillWorker(w)
                 \/ KillHost(w)
        PROVE  \/ UNCHANGED budget \/ Spend("stop") \/ Spend("killScheduler")
               \/ Spend("killWorker") \/ Spend("killHost")
      BY <2>3 DEF WorkerNext, SchedulerNext, KillScheduler, KillWorker, KillHost,
                  StartScheduler, Maintain, EndAcquire, EndBurst, Teardown, Joined,
                  Reacquire, EndReacquire, StartRound, Heartbeat, StopScheduler
  <2>4. ASSUME NEW p \in Procs, ProcNext(p) PROVE UNCHANGED budget
      BY <2>4 DEF ProcNext, TryLock, ReadDue, Fetch, Move
  <2>5. ASSUME NEW j \in Jobs, JobNext(j)
        PROVE  UNCHANGED budget \/ Spend("again") \/ Spend("cancel")
      BY <2>5 DEF JobNext, EnqueueAt, ScheduleUnique, Zadd, Persist, ComesDue, Take, Finish,
                  RetryLater, RepeatLater, Cancel, ExecCancel
  <2>6. ASSUME Tick PROVE UNCHANGED budget \/ Spend("delay")
      BY <2>6 DEF Tick
  <2>7. UNCHANGED vars => UNCHANGED budget
      BY DEF vars
  <2> QED
      BY <2>1, <2>2, <2>3, <2>4, <2>5, <2>6, <2>7 DEF Next
<1>3. "again" \in Ops
    BY DEF Ops
<1>4. ASSUME NEW op \in Ops, budget[op] > 0, budget' = [budget EXCEPT ![op] = @ - 1]
      PROVE  budget'["again"] = 0
  <2>1. op # "again"
      BY <1>1, <1>4
  <2> QED
      BY <1>1, <1>3, <1>4, <2>1
<1> QED
    BY <1>1, <1>2, <1>4

\* What schedule_job, the workers and cancel() do to a job.
LEMMA KeptNext ==
    ASSUME ~Early, KeptInv, [Next]_vars, NEW k \in Jobs
    PROVE  KeptOK(k)' /\ (status[k] # "absent" => status'[k] # "absent")
<1> DEFINE Goal == KeptOK(k)' /\ (status[k] # "absent" => status'[k] # "absent")
<1> USE DEF KeptInv, TypeOK, KeptOK
<1>1. ASSUME UNCHANGED <<registry, due, status, queue, call, cancelling>> PROVE Goal
    BY <1>1
<1>2. ASSUME NEW w \in Workers,
             WorkerNext(w) \/ SchedulerNext(w) \/ KillScheduler(w) \/ KillWorker(w)
               \/ KillHost(w)
      PROVE  Goal
  <2>1. UNCHANGED <<registry, due, status, queue, call, cancelling>>
      BY <1>2 DEF WorkerNext, SchedulerNext, KillScheduler, KillWorker, KillHost, Kill,
                  StartScheduler, Maintain, EndAcquire, EndBurst, Teardown, Joined,
                  Reacquire, EndReacquire, StartRound, Heartbeat, StopScheduler,
                  redis, calls
  <2> QED
      BY <1>1, <2>1
<1>3. ASSUME NEW p \in Procs, ProcNext(p), ~Move(p) PROVE Goal
  <2>1. UNCHANGED <<registry, due, status, queue, call, cancelling>>
      BY <1>3 DEF ProcNext, TryLock, ReadDue, Fetch, redis, calls
  <2> QED
      BY <1>1, <2>1
<1>4. ASSUME NEW p \in Procs, Move(p) PROVE Goal
  <2>1. found[p] = ids[p] /\ \A j \in ids[p] : status[j] # "absent"
      BY <1>4 DEF Move, ReadOK
  <2>2. /\ status'[k] = IF k \in ids[p] THEN "queued" ELSE status[k]
        /\ queue'[k] = IF k \in ids[p] THEN queue[k] + 1 ELSE queue[k]
        /\ registry' = registry \ ids[p] /\ due' = due \ ids[p]
        /\ UNCHANGED <<call, cancelling>>
      BY <1>4, <2>1 DEF Move, calls
  <2>3. CASE k \in ids[p]
      BY <2>1, <2>2, <2>3
  <2>4. CASE k \notin ids[p]
      BY <2>2, <2>4
  <2> QED
      BY <2>3, <2>4
<1>5. ASSUME Tick \/ UNCHANGED vars PROVE Goal
    BY <1>1, <1>5 DEF Tick, vars, redis, calls
<1>6. ASSUME NEW j \in Jobs, EnqueueAt(j) PROVE Goal
    BY <1>6 DEF EnqueueAt, redis
<1>7. ASSUME NEW j \in Jobs, ScheduleUnique(j) PROVE Goal
    BY <1>7 DEF ScheduleUnique, calls
<1>8. ASSUME NEW j \in Jobs, Zadd(j) PROVE Goal
    BY <1>8 DEF Zadd
<1>9. ASSUME NEW j \in Jobs, Persist(j) PROVE Goal
    BY <1>9 DEF Persist
<1>10. ASSUME NEW j \in Jobs, ComesDue(j) PROVE Goal
    BY <1>10 DEF ComesDue, calls
<1>11. ASSUME NEW j \in Jobs, Take(j) PROVE Goal
  <2>1. /\ k = j => queue[k] > 0 /\ status'[k] = "started"
        /\ k # j => status'[k] = status[k] /\ queue'[k] = queue[k]
        /\ UNCHANGED <<registry, due, call, cancelling>>
      BY <1>11 DEF Take, calls
  <2>2. CASE k = j
    <3>1. status[k] # "absent" /\ call[k] = "none"
        BY <2>1, <2>2
    <3>2. status'[k] = "started" /\ call'[k] = "none"
        BY <2>1, <2>2, <3>1
    <3> QED
        BY <3>1, <3>2
  <2>3. CASE k # j
      BY <2>1, <2>3
  <2> QED
      BY <2>2, <2>3
<1>12. ASSUME NEW j \in Jobs, Finish(j) PROVE Goal
    BY <1>12 DEF Finish, calls
<1>13. ASSUME NEW j \in Jobs, RetryLater(j) \/ RepeatLater(j) PROVE Goal
    BY <1>13 DEF RetryLater, RepeatLater, Spend
<1>14. ASSUME NEW j \in Jobs, Cancel(j) PROVE Goal
    BY <1>14 DEF Cancel, redis
<1>15. ASSUME NEW j \in Jobs, ExecCancel(j) PROVE Goal
  <2>1. /\ UNCHANGED call
        /\ registry' \subseteq registry /\ registry \ {j} \subseteq registry'
        /\ due' \subseteq due
        /\ k = j => status[k] # "absent" /\ status'[k] = "canceled"
        /\ k # j => /\ status'[k] = status[k] /\ queue'[k] = queue[k]
                    /\ cancelling'[k] = cancelling[k]
      BY <1>15 DEF ExecCancel
  <2>2. CASE k = j
    <3>1. status[k] # "absent" /\ call[k] = "none"
        BY <2>1, <2>2
    <3>2. status'[k] = "canceled" /\ call'[k] = "none"
        BY <2>1, <2>2, <3>1
    <3> QED
        BY <3>1, <3>2
  <2>3. CASE k # j
      BY <2>1, <2>3
  <2> QED
      BY <2>2, <2>3
<1> HIDE DEF Goal
<1>16. Goal
  <2>1. ASSUME NEW j \in Jobs, JobNext(j) PROVE Goal
      BY <1>6, <1>7, <1>8, <1>9, <1>10, <1>11, <1>12, <1>13, <1>14, <1>15, <2>1 DEF JobNext
  <2> QED
      BY <1>2, <1>3, <1>4, <1>5, <2>1 DEF Next
<1> QED
    BY <1>16 DEF Goal

\* schedule_job against enqueue_scheduled_jobs, for jobs that are not due at
\* once: what is scheduled is in the registry, however many schedulers serve
\* its queue, die or are late and whatever is cancelled, as long as no job
\* schedules itself again; and also if some do, with one scheduler for each
\* queue and no cancel().
THEOREM ScheduledIsKept ==
    ASSUME ~Early, Budget["again"] = 0 \/ (Steady /\ Quiet)
    PROVE  Spec => []ScheduledIsNotForgotten
<1>1. CASE Budget["again"] = 0
  <2>1. Init => KeptInv
    <3>1. Init => budget["again"] = 0 /\ ReadOK /\ \A j \in Jobs : KeptOK(j)
        BY <1>1 DEF Init, ReadOK, KeptOK
    <3> QED
        BY <3>1, TypeInit DEF KeptInv
  <2>2. KeptInv /\ [Next]_vars => KeptInv'
    <3> SUFFICES ASSUME KeptInv, [Next]_vars PROVE KeptInv'
        OBVIOUS
    <3>1. TypeOK'
        BY TypeNext DEF KeptInv
    <3>2. \A k \in Jobs : KeptOK(k)' /\ (status[k] # "absent" => status'[k] # "absent")
        BY KeptNext
    <3> QED
        BY <3>1, <3>2, ReadNext, AgainNext DEF KeptInv
  <2>3. KeptInv => ScheduledIsNotForgotten
      BY DEF KeptInv, KeptOK, ScheduledIsNotForgotten
  <2> QED
      BY <2>1, <2>2, <2>3, PTL DEF Spec
<1>2. CASE Steady /\ Quiet
  <2>1. Spec => []MoveInv
      BY <1>2, MoveInvariance
  <2>2. MoveInv => ScheduledIsNotForgotten
      BY DEF MoveInv, JobOK, ScheduledIsNotForgotten
  <2> QED
      BY <2>1, <2>2, PTL
<1> QED
    BY <1>1, <1>2

=============================================================================
