------------------------ MODULE WorkerLifecycleProofs ------------------------
(***************************************************************************)
(* Proofs about the workers, for every number of workers and jobs:         *)
(*   - TypeCorrect: the types;                                             *)
(*   - AliveAreRegistered: a worker whose heartbeats are in time stays in  *)
(*     the sets of workers;                                                *)
(*   - NothingLost: a job that has not ended can be found;                 *)
(*   - WorkersDeliver: they implement Delivery.                            *)
(*                                                                         *)
(* A step puts one worker in another state.  The lemmas "...Moves" say     *)
(* which, in the few fields that the invariants look at, so that their     *)
(* proofs need not look at the records.                                    *)
(***************************************************************************)
EXTENDS WorkerLifecycle, FiniteSetTheorems, TLAPS

\* The state of the two processes of a worker.
Worker == [pc : PCs, job : Jobs \cup {NoJob}, copy : [left : Nat, count : Nat],
           horse : HorsePCs, stop : BOOLEAN, stopped : Jobs \cup {NoJob},
           mine : BOOLEAN, cmd : BOOLEAN, ids : SUBSET Jobs, keys : SUBSET Workers]

\* A parent that handles a job has one in its hands, and the horse that it waits
\* for, or has left behind, too.
Hand(r) ==
    /\ r.pc \in {"fetched", "prepared", "monitor", "reaped", "handling",
                 "failStuck", "removeStuck"} => r.job \in Jobs
    /\ r.horse \in {"forked", "ready", "running", "committed"} =>
          r.job \in Jobs /\ r.pc \in {"monitor", "dead"}

Typed == TypeOK /\ \A w \in Workers : Hand(worker[w])

\* Only w has moved, to the label p with job k and horse h.
After(w, p, k, h, is, ks) ==
    /\ worker' \in [Workers -> Worker]
    /\ \A x \in Workers \ {w} : worker'[x] = worker[x]
    /\ worker'[w].pc = p /\ worker'[w].job = k /\ worker'[w].horse = h
    /\ worker'[w].ids = is /\ worker'[w].keys = ks

\* The names of the labels, spelled out.
LEMMA Labels ==
  /\ {"new", "dead", "selfKilled", "loop", "idle", "fetched", "teardown", "prepared",
      "monitor", "reaped", "handling", "cleanStarted", "cleanWorkers", "sweep",
      "cleanStuck", "failStuck", "removeStuck"} \subseteq PCs
  /\ {"none", "forked", "ready", "running", "committed", "exited", "killed"} \subseteq HorsePCs
  BY DEF PCs, HorsePCs, Dead, Busy, Cleaning

\* Every worker is such a record.
LEMMA IsWorker ==
  ASSUME Typed, NEW w \in Workers
  PROVE  worker[w] \in Worker
  BY DEF Typed, TypeOK, Worker

\* A handler that writes a record for w moves w alone.
LEMMA Placed ==
  ASSUME Typed, NEW w \in Workers, NEW r \in Worker, Put(w, r)
  PROVE  After(w, r.pc, r.job, r.horse, r.ids, r.keys)
<1>1. worker \in [Workers -> Worker]
  BY DEF Typed, TypeOK, Worker
<1> QED BY <1>1 DEF Put, After

\* A handler that only goes on at another label.
LEMMA GotoMoves ==
  ASSUME Typed, NEW w \in Workers, NEW l \in PCs, Goto(w, l)
  PROVE  After(w, l, worker[w].job, worker[w].horse,
               worker[w].ids, worker[w].keys)
<1> DEFINE r == [worker[w] EXCEPT !.pc = l]
<1>1. worker[w] \in Worker
  BY IsWorker
<1>3. /\ r \in Worker /\ r.pc = l /\ r.job = worker[w].job
      /\ r.horse = worker[w].horse /\ r.ids = worker[w].ids
      /\ r.keys = worker[w].keys
  BY <1>1, Labels DEF Worker
<1>4. Put(w, r)
  BY DEF Goto
<1> HIDE DEF r
<1> QED BY <1>3, <1>4, Placed

\* A step of the horse alone.
LEMMA HorseMoves ==
  ASSUME Typed, NEW w \in Workers, NEW h \in HorsePCs,
         Put(w, [worker[w] EXCEPT !.horse = h])
  PROVE  After(w, worker[w].pc, worker[w].job, h,
               worker[w].ids, worker[w].keys)
<1> DEFINE r == [worker[w] EXCEPT !.horse = h]
<1>1. worker[w] \in Worker
  BY IsWorker
<1>3. /\ r \in Worker /\ r.pc = worker[w].pc /\ r.job = worker[w].job
      /\ r.horse = h /\ r.ids = worker[w].ids
      /\ r.keys = worker[w].keys
  BY <1>1, Labels DEF Worker
<1>4. Put(w, r)
  BY DEF Put
<1> HIDE DEF r
<1> QED BY <1>3, <1>4, Placed

\* request_stop of a BUSY worker: only a flag is set.
LEMMA StopMoves ==
  ASSUME Typed, NEW w \in Workers, Put(w, [worker[w] EXCEPT !.stop = TRUE])
  PROVE  After(w, worker[w].pc, worker[w].job, worker[w].horse,
               worker[w].ids, worker[w].keys)
<1> DEFINE r == [worker[w] EXCEPT !.stop = TRUE]
<1>1. worker[w] \in Worker
  BY IsWorker
<1>3. /\ r \in Worker /\ r.pc = worker[w].pc /\ r.job = worker[w].job
      /\ r.horse = worker[w].horse /\ r.ids = worker[w].ids
      /\ r.keys = worker[w].keys
  BY <1>1, Labels DEF Worker
<1>4. Put(w, r)
  BY DEF Put
<1> HIDE DEF r
<1> QED BY <1>3, <1>4, Placed

\* The command thread has read the pid of the horse.
LEMMA KillHorseCommandMoves ==
  ASSUME Typed, NEW w \in Workers, KillHorseCommand(w)
  PROVE  After(w, worker[w].pc, worker[w].job, worker[w].horse,
               worker[w].ids, worker[w].keys)
<1> DEFINE r == [worker[w] EXCEPT !.cmd = TRUE]
<1>1. worker[w] \in Worker
  BY IsWorker
<1>3. /\ r \in Worker /\ r.pc = worker[w].pc /\ r.job = worker[w].job
      /\ r.horse = worker[w].horse /\ r.ids = worker[w].ids
      /\ r.keys = worker[w].keys
  BY <1>1, Labels DEF Worker
<1>4. Put(w, r)
  BY DEF KillHorseCommand
<1> HIDE DEF r
<1> QED BY <1>3, <1>4, Placed

\* The command thread notes the job that it is about to stop.
LEMMA StopJobCommandMoves ==
  ASSUME Typed, NEW w \in Workers, NEW j \in Jobs, StopJobCommand(w, j)
  PROVE  After(w, worker[w].pc, worker[w].job, worker[w].horse,
               worker[w].ids, worker[w].keys)
<1> DEFINE r == [worker[w] EXCEPT !.stopped = j, !.cmd = TRUE]
<1>1. worker[w] \in Worker
  BY IsWorker
<1>3. /\ r \in Worker /\ r.pc = worker[w].pc /\ r.job = worker[w].job
      /\ r.horse = worker[w].horse /\ r.ids = worker[w].ids
      /\ r.keys = worker[w].keys
  BY <1>1, Labels DEF Worker
<1>4. Put(w, r)
  BY DEF StopJobCommand
<1> HIDE DEF r
<1> QED BY <1>3, <1>4, Placed

\* dequeue_job_and_maintain_ttl: the worker has j in its hands.
LEMMA DequeueMoves ==
  ASSUME Typed, NEW w \in Workers, NEW j \in Jobs, Dequeue(w, j)
  PROVE  After(w, "fetched", j, worker[w].horse,
               worker[w].ids, worker[w].keys)
<1> DEFINE r == [worker[w] EXCEPT !.pc = "fetched", !.job = j, !.copy = Copy(j)]
<1>1. worker[w] \in Worker
  BY IsWorker
<1>2. Copy(j) \in [left : Nat, count : Nat]
  BY <1>1, WorkerAssumption DEF Copy, Typed, TypeOK
<1>3. /\ r \in Worker /\ r.pc = "fetched" /\ r.job = j
      /\ r.horse = worker[w].horse /\ r.ids = worker[w].ids
      /\ r.keys = worker[w].keys
  BY <1>1, <1>2, Labels DEF Worker
<1>4. Put(w, r)
  BY DEF Dequeue
<1> HIDE DEF r
<1> QED BY <1>3, <1>4, Placed

\* fork_work_horse: the horse has the job of its parent.
LEMMA ForkWorkHorseMoves ==
  ASSUME Typed, NEW w \in Workers, ForkWorkHorse(w)
  PROVE  After(w, "monitor", worker[w].job, "forked",
               worker[w].ids, worker[w].keys)
<1> DEFINE r == [worker[w] EXCEPT !.pc = "monitor", !.horse = "forked",
                               !.mine = worker[w].stopped = worker[w].job]
<1>1. worker[w] \in Worker
  BY IsWorker
<1>3. /\ r \in Worker /\ r.pc = "monitor" /\ r.job = worker[w].job
      /\ r.horse = "forked" /\ r.ids = worker[w].ids
      /\ r.keys = worker[w].keys
  BY <1>1, Labels DEF Worker
<1>4. Put(w, r)
  BY DEF ForkWorkHorse
<1> HIDE DEF r
<1> QED BY <1>3, <1>4, Placed

\* monitor_work_horse kills a horse that is overdue.
LEMMA KillOverdueMoves ==
  ASSUME Typed, NEW w \in Workers, KillOverdue(w)
  PROVE  After(w, "reaped", worker[w].job, "killed",
               worker[w].ids, worker[w].keys)
<1> DEFINE r == [worker[w] EXCEPT !.pc = "reaped", !.horse = "killed"]
<1>1. worker[w] \in Worker
  BY IsWorker
<1>3. /\ r \in Worker /\ r.pc = "reaped" /\ r.job = worker[w].job
      /\ r.horse = "killed" /\ r.ids = worker[w].ids
      /\ r.keys = worker[w].keys
  BY <1>1, Labels DEF Worker
<1>4. Put(w, r)
  BY DEF KillOverdue
<1> HIDE DEF r
<1> QED BY <1>3, <1>4, Placed

\* handle_job_failure of the parent: the job is let go of.
LEMMA HandleFailureMoves ==
  ASSUME Typed, NEW w \in Workers, HandleFailure(w)
  PROVE  After(w, "loop", NoJob, "none",
               worker[w].ids, worker[w].keys)
<1> DEFINE r == [worker[w] EXCEPT !.pc = "loop", !.job = NoJob, !.copy = NoCopy,
                               !.horse = "none",
                               !.stopped = IF worker[w].stopped = worker[w].job
                                           THEN NoJob ELSE @]
<1>1. worker[w] \in Worker
  BY IsWorker
<1>2. NoCopy \in [left : Nat, count : Nat]
  BY <1>1, WorkerAssumption DEF NoCopy
<1>3. /\ r \in Worker /\ r.pc = "loop" /\ r.job = NoJob
      /\ r.horse = "none" /\ r.ids = worker[w].ids
      /\ r.keys = worker[w].keys
  BY <1>1, <1>2, Labels DEF Worker
<1>4. Put(w, r)
  BY DEF HandleFailure
<1> HIDE DEF r
<1> QED BY <1>3, <1>4, Placed

\* clean_registries lists the jobs with expired executions.
LEMMA StartMaintenanceMoves ==
  ASSUME Typed, NEW w \in Workers, StartMaintenance(w)
  PROVE  After(w, "cleanStarted", worker[w].job, worker[w].horse,
               {e[2] : e \in expired}, worker[w].keys)
<1> DEFINE r == [worker[w] EXCEPT !.pc = "cleanStarted",
                               !.ids = {e[2] : e \in expired}]
<1>1. worker[w] \in Worker
  BY IsWorker
<1>2. {e[2] : e \in expired} \subseteq Jobs
  BY <1>1, WorkerAssumption DEF Typed, TypeOK
<1>3. /\ r \in Worker /\ r.pc = "cleanStarted" /\ r.job = worker[w].job
      /\ r.horse = worker[w].horse /\ r.ids = {e[2] : e \in expired}
      /\ r.keys = worker[w].keys
  BY <1>1, <1>2, Labels DEF Worker
<1>4. Put(w, r)
  BY DEF StartMaintenance
<1> HIDE DEF r
<1> QED BY <1>3, <1>4, Placed

\* The cleanup of the StartedJobRegistry is done.
LEMMA CleanStartedMoves ==
  ASSUME Typed, NEW w \in Workers, CleanStarted(w)
  PROVE  After(w, "cleanWorkers", worker[w].job, worker[w].horse,
               {}, worker[w].keys)
<1> DEFINE r == [worker[w] EXCEPT !.pc = "cleanWorkers", !.ids = {}]
<1>1. worker[w] \in Worker
  BY IsWorker
<1>3. /\ r \in Worker /\ r.pc = "cleanWorkers" /\ r.job = worker[w].job
      /\ r.horse = worker[w].horse /\ r.ids = {}
      /\ r.keys = worker[w].keys
  BY <1>1, Labels DEF Worker
<1>4. Put(w, r)
  BY DEF CleanStarted
<1> HIDE DEF r
<1> QED BY <1>3, <1>4, Placed

\* clean_worker_registry lists the keys without a hash.
LEMMA FindDeadWorkersMoves ==
  ASSUME Typed, NEW w \in Workers, FindDeadWorkers(w)
  PROVE  After(w, "sweep", worker[w].job, worker[w].horse,
               worker[w].ids, {v \in members : key[v] = "none"})
<1> DEFINE r == [worker[w] EXCEPT !.pc = "sweep",
                               !.keys = {v \in members : key[v] = "none"}]
<1>1. worker[w] \in Worker
  BY IsWorker
<1>2. {v \in members : key[v] = "none"} \subseteq Workers
  BY <1>1, WorkerAssumption DEF Typed, TypeOK
<1>3. /\ r \in Worker /\ r.pc = "sweep" /\ r.job = worker[w].job
      /\ r.horse = worker[w].horse /\ r.ids = worker[w].ids
      /\ r.keys = {v \in members : key[v] = "none"}
  BY <1>1, <1>2, Labels DEF Worker
<1>4. Put(w, r)
  BY DEF FindDeadWorkers
<1> HIDE DEF r
<1> QED BY <1>3, <1>4, Placed

\* The intermediate queue is listed.
LEMMA SweepMoves ==
  ASSUME Typed, NEW w \in Workers, Sweep(w)
  PROVE  After(w, "cleanStuck", worker[w].job, worker[w].horse,
               {j \in Jobs : inter[j] > 0}, {})
<1> DEFINE r == [worker[w] EXCEPT !.pc = "cleanStuck", !.keys = {},
                               !.ids = {j \in Jobs : inter[j] > 0}]
<1>1. worker[w] \in Worker
  BY IsWorker
<1>3. /\ r \in Worker /\ r.pc = "cleanStuck" /\ r.job = worker[w].job
      /\ r.horse = worker[w].horse /\ r.ids = {j \in Jobs : inter[j] > 0}
      /\ r.keys = {}
  BY <1>1, Labels DEF Worker
<1>4. Put(w, r)
  BY DEF Sweep
<1> HIDE DEF r
<1> QED BY <1>3, <1>4, Placed

\* A stuck job has been handled as failed.
LEMMA FailStuckMoves ==
  ASSUME Typed, NEW w \in Workers, FailStuck(w)
  PROVE  After(w, "removeStuck", worker[w].job, worker[w].horse,
               worker[w].ids, worker[w].keys)
<1> DEFINE r == [worker[w] EXCEPT !.pc = "removeStuck", !.copy = NoCopy,
                               !.stopped = IF worker[w].stopped = worker[w].job
                                           THEN NoJob ELSE @]
<1>1. worker[w] \in Worker
  BY IsWorker
<1>2. NoCopy \in [left : Nat, count : Nat]
  BY <1>1, WorkerAssumption DEF NoCopy
<1>3. /\ r \in Worker /\ r.pc = "removeStuck" /\ r.job = worker[w].job
      /\ r.horse = worker[w].horse /\ r.ids = worker[w].ids
      /\ r.keys = worker[w].keys
  BY <1>1, <1>2, Labels DEF Worker
<1>4. Put(w, r)
  BY DEF FailStuck
<1> HIDE DEF r
<1> QED BY <1>3, <1>4, Placed

\* The entry of a stuck job has been removed.
LEMMA RemoveStuckMoves ==
  ASSUME Typed, NEW w \in Workers, RemoveStuck(w)
  PROVE  After(w, "cleanStuck", NoJob, worker[w].horse,
               worker[w].ids, worker[w].keys)
<1> DEFINE r == [worker[w] EXCEPT !.pc = "cleanStuck", !.job = NoJob]
<1>1. worker[w] \in Worker
  BY IsWorker
<1>3. /\ r \in Worker /\ r.pc = "cleanStuck" /\ r.job = NoJob
      /\ r.horse = worker[w].horse /\ r.ids = worker[w].ids
      /\ r.keys = worker[w].keys
  BY <1>1, Labels DEF Worker
<1>4. Put(w, r)
  BY DEF RemoveStuck
<1> HIDE DEF r
<1> QED BY <1>3, <1>4, Placed

\* IntermediateQueue.cleanup takes up an id: stuck, or passed over.
LEMMA InspectStuckMoves ==
  ASSUME Typed, NEW w \in Workers, NEW j \in Jobs, InspectStuck(w, j)
  PROVE  IF /\ ~ \E e \in execs \cup expired : e[2] = j
            /\ hash[j].status # "absent"
            /\ seen[j] = "old"
         THEN After(w, "failStuck", j, worker[w].horse,
                    worker[w].ids \ {j}, worker[w].keys)
         ELSE After(w, worker[w].pc, worker[w].job, worker[w].horse,
                    worker[w].ids \ {j}, worker[w].keys)
<1> DEFINE stuck == /\ ~ \E e \in execs \cup expired : e[2] = j
                    /\ ~ hash[j].status = "absent"
                    /\ seen[j] = "old"
           r == [worker[w] EXCEPT !.ids = @ \ {j},
                                  !.pc = IF stuck THEN "failStuck" ELSE @,
                                  !.job = IF stuck THEN j ELSE @,
                                  !.copy = IF stuck THEN Copy(j) ELSE @]
<1>1. worker[w] \in Worker
  BY IsWorker
<1>2. Copy(j) \in [left : Nat, count : Nat]
  BY DEF Copy, Typed, TypeOK
<1>3. Put(w, r)
  BY DEF InspectStuck
<1> HIDE DEF stuck
<1>4. /\ r \in Worker /\ r.horse = worker[w].horse
      /\ r.ids = worker[w].ids \ {j} /\ r.keys = worker[w].keys
      /\ r.pc = IF stuck THEN "failStuck" ELSE worker[w].pc
      /\ r.job = IF stuck THEN j ELSE worker[w].job
  BY <1>1, <1>2, Labels DEF Worker
<1> HIDE DEF r
<1>5. After(w, r.pc, r.job, r.horse, r.ids, r.keys)
  BY <1>3, <1>4, Placed
<1>6. CASE stuck
  BY <1>4, <1>5, <1>6 DEF stuck
<1>7. CASE ~stuck
  BY <1>4, <1>5, <1>7 DEF stuck
<1> QED BY <1>6, <1>7

\* The worker lets go of its job, unless its horse still has it.
LEMMA LoopMoves ==
  ASSUME Typed, NEW w \in Workers, NEW l \in PCs, Loop(w, l)
  PROVE  IF HorseAlive(w)
         THEN After(w, l, worker[w].job, worker[w].horse, {}, {})
         ELSE After(w, l, NoJob, "none", {}, {})
<1> DEFINE o == worker[w]
           base == IF l \in Dead THEN Idle ELSE [o EXCEPT !.ids = {}, !.keys = {}]
           r == [base EXCEPT !.pc = l, !.job = o.job, !.copy = o.copy,
                             !.horse = o.horse, !.mine = o.mine]
           s == [base EXCEPT !.pc = l, !.job = NoJob, !.copy = NoCopy,
                             !.horse = "none", !.mine = FALSE]
<1>1. o \in Worker
  BY IsWorker
<1>2. Idle \in Worker /\ NoCopy \in [left : Nat, count : Nat]
  BY Labels DEF Idle, NoCopy, Worker
<1>3. base \in Worker /\ base.ids = {} /\ base.keys = {}
  <2>1. CASE l \in Dead
    BY <1>2, <2>1 DEF Idle
  <2>2. CASE l \notin Dead
    <3>1. [o EXCEPT !.ids = {}, !.keys = {}] \in Worker
      BY ONLY <1>1 DEF Worker
    <3>2. /\ [o EXCEPT !.ids = {}, !.keys = {}].ids = {}
          /\ [o EXCEPT !.ids = {}, !.keys = {}].keys = {}
      BY ONLY <1>1 DEF Worker
    <3> QED BY <2>2, <3>1, <3>2
  <2> QED BY <2>1, <2>2
<1> HIDE DEF base
<1>4. /\ r \in Worker /\ r.pc = l /\ r.job = o.job /\ r.horse = o.horse
      /\ r.ids = {} /\ r.keys = {}
  BY <1>1, <1>3 DEF Worker
<1>5. /\ s \in Worker /\ s.pc = l /\ s.job = NoJob /\ s.horse = "none"
      /\ s.ids = {} /\ s.keys = {}
  BY <1>2, <1>3, Labels DEF Worker
<1>6. Put(w, IF HorseAlive(w) THEN r ELSE s)
  BY DEF Loop, base
<1> HIDE DEF r, s
<1> QED BY <1>4, <1>5, <1>6, Placed

\* The horse is a zombie of the parent that waits for it, or gone.
LEMMA HorseEndsMoves ==
  ASSUME Typed, NEW w \in Workers, NEW h \in HorsePCs, HorseEnds(w, h)
  PROVE  IF worker[w].pc = "monitor"
         THEN After(w, worker[w].pc, worker[w].job, h, worker[w].ids, worker[w].keys)
         ELSE After(w, worker[w].pc, NoJob, "none", worker[w].ids, worker[w].keys)
<1> DEFINE o == worker[w]
           s == [o EXCEPT !.horse = "none", !.job = NoJob, !.copy = NoCopy,
                          !.mine = FALSE]
<1>1. o \in Worker
  BY IsWorker
<1>2. CASE o.pc = "monitor"
  BY <1>2, HorseMoves DEF HorseEnds
<1>3. CASE o.pc # "monitor"
  <2>1. NoCopy \in [left : Nat, count : Nat]
    BY DEF NoCopy
  <2>2. /\ s \in Worker /\ s.pc = o.pc /\ s.job = NoJob /\ s.horse = "none"
        /\ s.ids = o.ids /\ s.keys = o.keys
    BY <1>1, <2>1, Labels DEF Worker
  <2>3. Put(w, s)
    BY <1>3 DEF HorseEnds
  <2> HIDE DEF s
  <2> QED BY <1>3, <2>2, <2>3, Placed
<1> QED BY <1>2, <1>3

\* The signal takes the worker down, too.
Suicide(w) == worker[w].pc # "monitor" \/ worker[w].horse = "forked"

\* Nothing is left of the two processes but the label.
LEMMA FreshMoves ==
  ASSUME Typed, NEW w \in Workers, NEW l \in PCs, Put(w, [Idle EXCEPT !.pc = l])
  PROVE  After(w, l, NoJob, "none", {}, {})
<1> DEFINE r == [Idle EXCEPT !.pc = l]
<1>1. Idle \in Worker
  BY Labels DEF Idle, NoCopy, Worker
<1>2. /\ r \in Worker /\ r.pc = l /\ r.job = NoJob /\ r.horse = "none"
      /\ r.ids = {} /\ r.keys = {}
  BY <1>1 DEF Worker, Idle
<1> HIDE DEF r
<1>3. Put(w, r)
  BY DEF r
<1> QED BY <1>2, <1>3, Placed

\* kill_horse hits the horse, or the worker itself.
LEMMA KillGroupMoves ==
  ASSUME Typed, NEW w \in Workers, NEW l \in PCs, KillGroup(w, l)
  PROVE  IF Suicide(w)
         THEN After(w, "selfKilled", NoJob, "none", {}, {})
         ELSE After(w, l, worker[w].job,
                    IF HorseAlive(w) THEN "killed" ELSE worker[w].horse,
                    worker[w].ids, worker[w].keys)
<1> DEFINE o == worker[w]
           h == IF HorseAlive(w) THEN "killed" ELSE o.horse
           r == [o EXCEPT !.pc = l, !.cmd = FALSE, !.horse = h]
<1>1. o \in Worker
  BY IsWorker
<1>2. CASE Suicide(w)
  BY <1>2, FreshMoves, Labels DEF KillGroup, Suicide
<1>3. CASE ~Suicide(w)
  <2>1. h \in HorsePCs
    BY <1>1, Labels DEF Worker
  <2>2. Put(w, r)
    BY <1>3 DEF KillGroup, Suicide
  <2> HIDE DEF h
  <2>3. /\ r \in Worker /\ r.pc = l /\ r.job = o.job /\ r.horse = h
        /\ r.ids = o.ids /\ r.keys = o.keys
    BY <1>1, <2>1 DEF Worker
  <2> HIDE DEF r
  <2>4. After(w, l, o.job, h, o.ids, o.keys)
    BY <2>2, <2>3, Placed
  <2> QED BY <1>3, <2>4 DEF h
<1> QED BY <1>2, <1>3

\* Every handler keeps the records, and the jobs in the hands of processes.
LEMMA HandsNext ==
  ASSUME Typed, [Next]_vars
  PROVE  /\ worker' \in [Workers -> Worker]
         /\ \A x \in Workers : Hand(worker'[x])
<1> DEFINE Goal == /\ worker' \in [Workers -> Worker]
                   /\ \A x \in Workers : Hand(worker'[x])
<1>0. /\ \A x \in Workers : worker[x] \in Worker /\ Hand(worker[x])
      /\ worker \in [Workers -> Worker] /\ NoJob \notin Jobs
  BY IsWorker, WorkerAssumption DEF Typed, TypeOK, Worker
<1>1. ASSUME NEW w \in Workers, RegisterBirth(w) PROVE Goal
  BY <1>1, GotoMoves, Labels, <1>0 DEF RegisterBirth, After, Hand
<1>2. ASSUME NEW w \in Workers, EnterLoop(w) PROVE Goal
  BY <1>2, GotoMoves, Labels, <1>0 DEF EnterLoop, After, Hand
<1>3. ASSUME NEW w \in Workers, PrepareExecution(w) PROVE Goal
  BY <1>3, GotoMoves, Labels, <1>0 DEF PrepareExecution, After, Hand
<1>4. ASSUME NEW w \in Workers, ForkWorkHorse(w) PROVE Goal
  <2>1. After(w, "monitor", worker[w].job, "forked", worker[w].ids,
              worker[w].keys)
    BY <1>4, ForkWorkHorseMoves
  <2>2. worker[w].pc = "prepared"
    BY <1>4 DEF ForkWorkHorse
  <2> QED BY ONLY <1>0, <2>1, <2>2 DEF After, Hand
<1>5. ASSUME NEW w \in Workers, WaitForHorse(w) PROVE Goal
  BY <1>5, GotoMoves, LoopMoves, Labels, <1>0 DEF WaitForHorse, HorseAlive,
     After, Hand
<1>6. ASSUME NEW w \in Workers, JudgeStatus(w) PROVE Goal
  BY <1>6, GotoMoves, LoopMoves, Labels, <1>0 DEF JudgeStatus, HorseAlive,
     After, Hand
<1>7. ASSUME NEW w \in Workers, HandleFailure(w) PROVE Goal
  BY <1>7, HandleFailureMoves, Labels, <1>0 DEF HandleFailure, After, Hand
<1>8. ASSUME NEW w \in Workers, RegisterDeath(w) PROVE Goal
  BY <1>8, LoopMoves, Labels, <1>0 DEF RegisterDeath, HorseAlive, After, Hand
<1>9. ASSUME NEW w \in Workers, ExecCommand(w) PROVE Goal
  <2>1. KillGroup(w, worker[w].pc) /\ worker[w].pc \in PCs
    BY <1>9, <1>0 DEF ExecCommand, Worker
  <2>2. \/ After(w, "selfKilled", NoJob, "none", {}, {})
        \/ /\ worker[w].pc = "monitor"
           /\ After(w, worker[w].pc, worker[w].job,
                    IF HorseAlive(w) THEN "killed" ELSE worker[w].horse,
                    worker[w].ids, worker[w].keys)
    BY <2>1, KillGroupMoves DEF Suicide
  <2> QED BY <1>0, <2>2 DEF After, Hand, HorseAlive
<1>10. ASSUME NEW w \in Workers, SetGroup(w) PROVE Goal
  BY <1>10, HorseMoves, Labels, <1>0 DEF SetGroup, After, Hand
<1>11. ASSUME NEW w \in Workers, PrepareJob(w) PROVE Goal
  BY <1>11, HorseMoves, Labels, <1>0 DEF PrepareJob, After, Hand
<1>12. ASSUME NEW w \in Workers, HandleSuccess(w) PROVE Goal
  BY <1>12, HorseMoves, Labels, <1>0 DEF HandleSuccess, HorseDone, After, Hand
<1>13. ASSUME NEW w \in Workers, JobRaises(w) PROVE Goal
  BY <1>13, HorseMoves, Labels, <1>0 DEF JobRaises, HorseDone, After, Hand
<1>14. ASSUME NEW w \in Workers, JobReturnsRetry(w) PROVE Goal
  BY <1>14, HorseMoves, Labels, <1>0 DEF JobReturnsRetry, HorseDone, After, Hand
<1>15. ASSUME NEW w \in Workers, HorseExits(w) PROVE Goal
  BY <1>15, HorseEndsMoves, Labels, <1>0 DEF HorseExits, After, Hand
<1>16. ASSUME NEW w \in Workers, NEW j \in Jobs, Dequeue(w, j) PROVE Goal
  <2>1. worker[w].pc = "idle"
    BY <1>16 DEF Dequeue
  <2>2. After(w, "fetched", j, worker[w].horse, worker[w].ids, worker[w].keys)
    BY <1>16, DequeueMoves
  <2> QED BY <1>0, <2>1, <2>2 DEF After, Hand
<1>17. ASSUME NEW w \in Workers, NEW j \in Jobs, DropId(w, j) PROVE Goal
  BY <1>17, <1>0 DEF DropId, vars
<1>18. ASSUME NEW w \in Workers, StartMaintenance(w) PROVE Goal
  <2>1. worker[w].pc = "idle"
    BY <1>18 DEF StartMaintenance
  <2>2. After(w, "cleanStarted", worker[w].job, worker[w].horse,
              {e[2] : e \in expired}, worker[w].keys)
    BY <1>18, StartMaintenanceMoves
  <2> QED BY <1>0, <2>1, <2>2 DEF After, Hand
<1>19. ASSUME NEW w \in Workers, CleanStarted(w) PROVE Goal
  <2>1. worker[w].pc = "cleanStarted"
    BY <1>19 DEF CleanStarted
  <2>2. After(w, "cleanWorkers", worker[w].job, worker[w].horse, {}, worker[w].keys)
    BY <1>19, CleanStartedMoves
  <2> QED BY <1>0, <2>1, <2>2 DEF After, Hand
<1>20. ASSUME NEW w \in Workers, FindDeadWorkers(w) PROVE Goal
  <2>1. worker[w].pc = "cleanWorkers"
    BY <1>20 DEF FindDeadWorkers
  <2>2. After(w, "sweep", worker[w].job, worker[w].horse, worker[w].ids,
              {v \in members : key[v] = "none"})
    BY <1>20, FindDeadWorkersMoves
  <2> QED BY <1>0, <2>1, <2>2 DEF After, Hand
<1>21. ASSUME NEW w \in Workers, Sweep(w) PROVE Goal
  <2>1. worker[w].pc = "sweep"
    BY <1>21 DEF Sweep
  <2>2. After(w, "cleanStuck", worker[w].job, worker[w].horse,
              {j \in Jobs : inter[j] > 0}, {})
    BY <1>21, SweepMoves
  <2> QED BY <1>0, <2>1, <2>2 DEF After, Hand
<1>22. ASSUME NEW w \in Workers, NEW j \in Jobs, InspectStuck(w, j) PROVE Goal
  <2>1. worker[w].pc = "cleanStuck"
    BY <1>22 DEF InspectStuck
  <2>2. \/ After(w, "failStuck", j, worker[w].horse, worker[w].ids \ {j},
                 worker[w].keys)
        \/ After(w, worker[w].pc, worker[w].job, worker[w].horse,
                 worker[w].ids \ {j}, worker[w].keys)
    BY <1>22, InspectStuckMoves
  <2> QED BY <1>0, <2>1, <2>2 DEF After, Hand
<1>23. ASSUME NEW w \in Workers, FailStuck(w) PROVE Goal
  <2>1. worker[w].pc = "failStuck"
    BY <1>23 DEF FailStuck
  <2>2. After(w, "removeStuck", worker[w].job, worker[w].horse, worker[w].ids, worker[w].keys)
    BY <1>23, FailStuckMoves
  <2> QED BY <1>0, <2>1, <2>2 DEF After, Hand
<1>24. ASSUME NEW w \in Workers, RemoveStuck(w) PROVE Goal
  <2>1. worker[w].pc = "removeStuck"
    BY <1>24 DEF RemoveStuck
  <2>2. After(w, "cleanStuck", NoJob, worker[w].horse, worker[w].ids, worker[w].keys)
    BY <1>24, RemoveStuckMoves
  <2> QED BY <1>0, <2>1, <2>2 DEF After, Hand
<1>25. ASSUME NEW w \in Workers, EndMaintenance(w) PROVE Goal
  BY <1>25, GotoMoves, Labels, <1>0 DEF EndMaintenance, After, Hand
<1>26. ASSUME NEW w \in Workers, Heartbeat(w) PROVE Goal
  BY <1>26, <1>0 DEF Heartbeat
<1>27. ASSUME NEW w \in Workers, RequestStop(w) PROVE Goal
  <2>1. worker[w].pc \notin Busy \cup Dead
        \/ Put(w, [worker[w] EXCEPT !.stop = TRUE])
    BY <1>27 DEF RequestStop, Alive
  <2>2. CASE Put(w, [worker[w] EXCEPT !.stop = TRUE])
    BY <1>0, <2>2, StopMoves DEF After, Hand
  <2>3. CASE worker[w].pc \notin Busy \cup Dead
    <3>1. Loop(w, "teardown")
      BY <1>27, <2>3 DEF RequestStop
    <3>2. ~HorseAlive(w)
      BY <1>0, <2>3 DEF Hand, HorseAlive, Busy, Dead
    <3>3. After(w, "teardown", NoJob, "none", {}, {})
      BY <3>1, <3>2, LoopMoves, Labels
    <3> QED BY <1>0, <3>3 DEF After, Hand
  <2> QED BY <2>1, <2>2, <2>3
<1>28. ASSUME NEW w \in Workers, RequestForceStop(w) PROVE Goal
  <2>1. CASE worker[w].pc = "monitor"
    <3>1. KillGroup(w, "teardown")
      BY <1>28, <2>1 DEF RequestForceStop
    <3>2. \/ After(w, "selfKilled", NoJob, "none", {}, {})
          \/ /\ After(w, "teardown", worker[w].job,
                      IF HorseAlive(w) THEN "killed" ELSE worker[w].horse,
                      worker[w].ids, worker[w].keys)
      BY <3>1, KillGroupMoves, Labels
    <3> QED BY <1>0, <3>2 DEF After, Hand, HorseAlive
  <2>2. CASE worker[w].pc # "monitor"
    <3>1. Loop(w, "teardown") /\ worker[w].pc \notin Dead
      BY <1>28, <2>2 DEF RequestForceStop, Alive
    <3>2. ~HorseAlive(w)
      BY <1>0, <2>2, <3>1 DEF Hand, HorseAlive, Dead
    <3>3. After(w, "teardown", NoJob, "none", {}, {})
      BY <3>1, <3>2, LoopMoves, Labels
    <3> QED BY <1>0, <3>3 DEF After, Hand
  <2> QED BY <2>1, <2>2
<1>29. ASSUME NEW w \in Workers, KillHorseCommand(w) PROVE Goal
  <2>1. After(w, worker[w].pc, worker[w].job, worker[w].horse, worker[w].ids,
              worker[w].keys)
    BY <1>29, KillHorseCommandMoves
  <2> QED BY ONLY <1>0, <2>1 DEF After, Hand
<1>30. ASSUME NEW w \in Workers, NEW j \in Jobs, StopJobCommand(w, j)
      PROVE  Goal
  <2>1. After(w, worker[w].pc, worker[w].job, worker[w].horse, worker[w].ids,
              worker[w].keys)
    BY <1>30, StopJobCommandMoves
  <2> QED BY ONLY <1>0, <2>1 DEF After, Hand
<1>31. ASSUME NEW w \in Workers, KillWorker(w) PROVE Goal
  BY <1>31, LoopMoves, Labels, <1>0 DEF KillWorker, HorseAlive, After, Hand
<1>32. ASSUME NEW w \in Workers, KillHost(w) PROVE Goal
  BY <1>32, FreshMoves, Labels, <1>0 DEF KillHost, After, Hand
<1>33. ASSUME NEW w \in Workers, KillHorse(w) PROVE Goal
  BY <1>33, HorseEndsMoves, Labels, <1>0 DEF KillHorse, HorseAlive, After, Hand
<1>34. ASSUME NEW w \in Workers, KillOverdue(w) PROVE Goal
  <2>1. After(w, "reaped", worker[w].job, "killed", worker[w].ids, worker[w].keys)
    BY <1>34, KillOverdueMoves
  <2>2. worker[w].pc = "monitor"
    BY <1>34 DEF KillOverdue
  <2> QED BY ONLY <1>0, <2>1, <2>2 DEF After, Hand
<1>35. ASSUME LockExpires PROVE Goal
  BY <1>35, <1>0 DEF LockExpires, vars
<1>36. ASSUME NEW j \in Jobs, MinutePasses(j) PROVE Goal
  BY <1>36, <1>0 DEF MinutePasses, vars
<1>37. ASSUME NEW j \in Jobs, JobExpires(j) PROVE Goal
  BY <1>37, <1>0 DEF JobExpires, vars
<1>38. ASSUME NEW w \in Workers, KeyExpires(w) PROVE Goal
  BY <1>38, <1>0 DEF KeyExpires, vars
<1>39. ASSUME NEW w \in Workers, NEW j \in Jobs, Expire(w, j) PROVE Goal
  BY <1>39, <1>0 DEF Expire, vars
<1>40. ASSUME Suspend PROVE Goal
  BY <1>40, <1>0 DEF Suspend, vars
<1>41. ASSUME Resume PROVE Goal
  BY <1>41, <1>0 DEF Resume, vars
<1>42. CASE UNCHANGED vars
  BY <1>42, <1>0 DEF vars
<1> QED
  BY <1>1, <1>2, <1>3, <1>4, <1>5, <1>6, <1>7, <1>8, <1>9, <1>10, <1>11,
     <1>12, <1>13, <1>14, <1>15, <1>16, <1>17, <1>18, <1>19, <1>20, <1>21,
     <1>22, <1>23, <1>24, <1>25, <1>26, <1>27, <1>28, <1>29, <1>30, <1>31,
     <1>32, <1>33, <1>34, <1>35, <1>36, <1>37, <1>38, <1>39, <1>40, <1>41,
     <1>42
     DEF Next, ParentNext, HorseNext, DequeueNext, MaintenanceNext, SignalNext,
         TimeNext
\* The types of what is not a process.
RedisTypes ==
    /\ hash \in [Jobs -> [status : Statuses, left : Nat, count : Nat]]
    /\ queue \in [Jobs -> Nat] /\ inter \in [Jobs -> Nat]
    /\ seen \in [Jobs -> {"none", "new", "old"}]
    /\ execs \subseteq Workers \X Jobs /\ expired \subseteq Workers \X Jobs
    /\ current \in [Workers -> Jobs \cup {NoJob}]
    /\ lock \in BOOLEAN /\ suspended \in BOOLEAN
    /\ members \subseteq Workers
    /\ key \in [Workers -> {"none", "alive", "death"}]
    /\ disputed \subseteq Jobs
    /\ budget \in [Ops -> Nat]

\* The handlers of jobs that end, or are given back.
Hashes == [Jobs -> [status : Statuses, left : Nat, count : Nat]]

\* Job.set_status writes a status.
LEMMA SetStatusTypes ==
  ASSUME hash \in Hashes, NEW j \in Jobs, NEW s \in Statuses, SetStatus(j, s)
  PROVE  hash' \in Hashes
  BY DEF Hashes, SetStatus

\* Job.retry and _handle_retry_result: retries_left is not used below 0.
LEMMA RetryTypes ==
  ASSUME hash \in Hashes, queue \in [Jobs -> Nat], NEW j \in Jobs,
         NEW c \in [left : Nat, count : Nat],
         \/ Retry(j, c) /\ c.left > 0
         \/ HandleRetryResult(j, c)
  PROVE  hash' \in Hashes /\ queue' \in [Jobs -> Nat]
<1>1. "queued" \in Statuses
  BY DEF Statuses
<1>2. /\ c.left \in Nat /\ c.count \in Nat
      /\ c.left > 0 => c.left - 1 \in Nat
      /\ c.count + 1 \in Nat
  OBVIOUS
<1>3. queue' \in [Jobs -> Nat]
  BY DEF Retry, HandleRetryResult
<1>4. hash' \in Hashes
  BY <1>1, <1>2 DEF Retry, HandleRetryResult, Hashes
<1> QED BY <1>3, <1>4

\* cleanup_execution only takes away.
LEMMA CleanupTypes ==
  ASSUME current \in [Workers -> Jobs \cup {NoJob}], execs \subseteq Workers \X Jobs,
         expired \subseteq Workers \X Jobs, NEW w, NEW j, CleanupExecution(w, j)
  PROVE  /\ current' \in [Workers -> Jobs \cup {NoJob}]
         /\ execs' \subseteq Workers \X Jobs /\ expired' \subseteq Workers \X Jobs
  BY DEF CleanupExecution

\* handle_job_failure, in any process.
LEMMA JobFailureTypes ==
  ASSUME RedisTypes, NEW w \in Workers, NEW j \in Jobs,
         NEW c \in [left : Nat, count : Nat], NEW b \in BOOLEAN, JobFailure(w, j, c, b)
  PROVE  /\ hash' \in Hashes /\ queue' \in [Jobs -> Nat]
         /\ current' \in [Workers -> Jobs \cup {NoJob}]
         /\ execs' \subseteq Workers \X Jobs /\ expired' \subseteq Workers \X Jobs
<1>1. {"stopped", "failed"} \subseteq Statuses
  BY DEF Statuses, Ended
<1>2. CleanupExecution(w, j)
  BY DEF JobFailure
<1>3. hash \in Hashes /\ queue \in [Jobs -> Nat]
  BY DEF RedisTypes, Hashes
<1>4. hash' \in Hashes /\ queue' \in [Jobs -> Nat]
  <2>1. CASE c.left > 0 /\ ~b
    BY <1>3, <2>1, RetryTypes DEF JobFailure
  <2>2. CASE ~(c.left > 0 /\ ~b)
    BY <1>1, <1>3, <2>2, SetStatusTypes DEF JobFailure
  <2> QED BY <2>1, <2>2
<1> QED BY <1>2, <1>4, CleanupTypes DEF RedisTypes

\* Every handler keeps the types of what is in Redis.
LEMMA RedisTypesNext ==
  ASSUME Typed, [Next]_vars
  PROVE  RedisTypes'
<1>0. RedisTypes
  BY DEF Typed, TypeOK, RedisTypes
<1>a. \A x \in Workers : /\ worker[x].copy \in [left : Nat, count : Nat]
                         /\ worker[x].mine \in BOOLEAN
                         /\ worker[x].ids \subseteq Jobs
                         /\ worker[x].job \in Jobs \cup {NoJob}
  BY IsWorker DEF Worker
<1>b. \A x \in Workers :
        \/ worker[x].pc \in {"handling", "fetched", "failStuck", "removeStuck"}
        \/ HorseAlive(x)
        => worker[x].job \in Jobs
  BY DEF Typed, Hand, HorseAlive
<1> USE WorkerAssumption DEF RedisTypes
<1>1. ASSUME NEW w \in Workers, RegisterBirth(w) PROVE RedisTypes'
  BY <1>1, <1>0 DEF RegisterBirth, Register
<1>2. ASSUME NEW w \in Workers, EnterLoop(w) PROVE RedisTypes'
  BY <1>2, <1>0 DEF EnterLoop, redis
<1>3. ASSUME NEW w \in Workers, PrepareExecution(w) PROVE RedisTypes'
  <2>1. worker[w].job \in Jobs
    BY <1>3, <1>b DEF PrepareExecution
  <2> QED BY <1>3, <1>0, <2>1 DEF PrepareExecution
<1>4. ASSUME NEW w \in Workers, ForkWorkHorse(w) PROVE RedisTypes'
  BY <1>4, <1>0 DEF ForkWorkHorse, redis
<1>5. ASSUME NEW w \in Workers, WaitForHorse(w) PROVE RedisTypes'
  BY <1>5, <1>0 DEF WaitForHorse, redis
<1>6. ASSUME NEW w \in Workers, JudgeStatus(w) PROVE RedisTypes'
  BY <1>6, <1>0 DEF JudgeStatus, redis
<1>7. ASSUME NEW w \in Workers, HandleFailure(w) PROVE RedisTypes'
  <2>1. worker[w].job \in Jobs
    BY <1>7, <1>b DEF HandleFailure
  <2>2. JobFailure(w, worker[w].job, worker[w].copy, worker[w].stopped = worker[w].job)
    BY <1>7 DEF HandleFailure
  <2>3. /\ hash' \in Hashes /\ queue' \in [Jobs -> Nat]
        /\ current' \in [Workers -> Jobs \cup {NoJob}]
        /\ execs' \subseteq Workers \X Jobs /\ expired' \subseteq Workers \X Jobs
    BY <1>0, <1>a, <2>1, <2>2, JobFailureTypes
  <2> QED BY <1>7, <1>0, <2>3 DEF HandleFailure, Hashes
<1>8. ASSUME NEW w \in Workers, RegisterDeath(w) PROVE RedisTypes'
  BY <1>8, <1>0 DEF RegisterDeath, Unregister
<1>9. ASSUME NEW w \in Workers, ExecCommand(w) PROVE RedisTypes'
  BY <1>9, <1>0 DEF ExecCommand, redis
<1>10. ASSUME NEW w \in Workers, SetGroup(w) PROVE RedisTypes'
  BY <1>10, <1>0 DEF SetGroup, redis
<1>11. ASSUME NEW w \in Workers, PrepareJob(w) PROVE RedisTypes'
  <2>1. worker[w].job \in Jobs
    BY <1>11, <1>b DEF PrepareJob, HorseAlive
  <2>2. "started" \in Statuses
    BY DEF Statuses
  <2>3. hash' \in Hashes
    BY <1>11, <1>0, <2>1, <2>2, SetStatusTypes DEF PrepareJob, Hashes
  <2>4. /\ current' \in [Workers -> Jobs \cup {NoJob}]
        /\ inter' \in [Jobs -> Nat]
    BY <1>11, <1>0, <2>1 DEF PrepareJob
  <2> QED BY <1>11, <1>0, <2>3, <2>4 DEF PrepareJob, Hashes
<1>12. ASSUME NEW w \in Workers, HandleSuccess(w) PROVE RedisTypes'
  <2>1. worker[w].job \in Jobs
    BY <1>12, <1>b DEF HandleSuccess, HorseAlive
  <2>2. {"absent", "finished"} \subseteq Statuses
    BY DEF Statuses, Ended
  <2>3. hash' \in Hashes
    BY <1>12, <1>0, <2>1, <2>2, SetStatusTypes DEF HandleSuccess, Hashes
  <2>4. /\ current' \in [Workers -> Jobs \cup {NoJob}]
        /\ execs' \subseteq Workers \X Jobs /\ expired' \subseteq Workers \X Jobs
    BY <1>12, <1>0, CleanupTypes DEF HandleSuccess
  <2> QED BY <1>12, <1>0, <2>3, <2>4 DEF HandleSuccess, Hashes
<1>13. ASSUME NEW w \in Workers, JobRaises(w) PROVE RedisTypes'
  <2>1. worker[w].job \in Jobs
    BY <1>13, <1>b DEF JobRaises, HorseAlive
  <2>2. JobFailure(w, worker[w].job, worker[w].copy, worker[w].mine)
    BY <1>13 DEF JobRaises
  <2>3. /\ hash' \in Hashes /\ queue' \in [Jobs -> Nat]
        /\ current' \in [Workers -> Jobs \cup {NoJob}]
        /\ execs' \subseteq Workers \X Jobs /\ expired' \subseteq Workers \X Jobs
    BY <1>0, <1>a, <2>1, <2>2, JobFailureTypes
  <2> QED BY <1>13, <1>0, <2>3 DEF JobRaises, Hashes, Spend, Ops
<1>14. ASSUME NEW w \in Workers, JobReturnsRetry(w) PROVE RedisTypes'
  <2>1. worker[w].job \in Jobs
    BY <1>14, <1>b DEF JobReturnsRetry, HorseAlive
  <2>2. "failed" \in Statuses
    BY DEF Statuses, Ended
  <2>3. hash' \in Hashes /\ queue' \in [Jobs -> Nat]
    <3>1. \/ HandleRetryResult(worker[w].job, worker[w].copy)
          \/ SetStatus(worker[w].job, "failed") /\ UNCHANGED queue
      BY <1>14 DEF JobReturnsRetry
    <3> QED BY <1>0, <1>a, <2>1, <2>2, <3>1, SetStatusTypes, RetryTypes DEF Hashes
  <2>4. /\ current' \in [Workers -> Jobs \cup {NoJob}]
        /\ execs' \subseteq Workers \X Jobs /\ expired' \subseteq Workers \X Jobs
    BY <1>14, <1>0, CleanupTypes DEF JobReturnsRetry
  <2>5. /\ budget' \in [Ops -> Nat]
        /\ UNCHANGED <<inter, seen, lock, members, key, suspended, disputed>>
    BY <1>14, <1>0 DEF JobReturnsRetry, Spend, Ops
  <2> QED BY <1>0, <2>3, <2>4, <2>5 DEF Hashes
<1>15. ASSUME NEW w \in Workers, HorseExits(w) PROVE RedisTypes'
  BY <1>15, <1>0 DEF HorseExits, redis
<1>16. ASSUME NEW w \in Workers, NEW j \in Jobs, Dequeue(w, j)
      PROVE  RedisTypes'
  BY <1>16, <1>0 DEF Dequeue, Pop, Copy
<1>17. ASSUME NEW w \in Workers, NEW j \in Jobs, DropId(w, j)
      PROVE  RedisTypes'
  BY <1>17, <1>0 DEF DropId, Pop
<1>18. ASSUME NEW w \in Workers, StartMaintenance(w) PROVE RedisTypes'
  <2>1. lock' \in BOOLEAN
    BY <1>18 DEF StartMaintenance
  <2> QED BY <1>18, <1>0, <2>1 DEF StartMaintenance
<1>19. ASSUME NEW w \in Workers, CleanStarted(w) PROVE RedisTypes'
  <2>1. {"queued", "failed"} \subseteq Statuses
    BY DEF Statuses, Ended
  <2> DEFINE js == {j \in worker[w].ids : hash[j].status # "absent"}
             again == {j \in js : hash[j].left > 0}
             h(j) == IF j \in again
                     THEN [hash[j] EXCEPT !.status = "queued", !.left = @ - 1]
                     ELSE IF j \in js THEN [hash[j] EXCEPT !.status = "failed"]
                     ELSE hash[j]
  <2>2. hash' \in Hashes
    <3>1. hash' = [j \in Jobs |-> h(j)]
      BY <1>19 DEF CleanStarted
    <3>2. ASSUME NEW j \in Jobs
          PROVE  h(j) \in [status : Statuses, left : Nat, count : Nat]
      <4>1. hash[j] \in [status : Statuses, left : Nat, count : Nat]
        BY <1>0
      <4>2. j \in again => hash[j].left - 1 \in Nat
        BY <4>1
      <4> QED BY ONLY <2>1, <4>1, <4>2
    <3> QED BY ONLY <3>1, <3>2 DEF Hashes
  <2>3. queue' \in [Jobs -> Nat] /\ expired' \subseteq Workers \X Jobs
    <3>1. queue' = [j \in Jobs |-> IF j \in again THEN queue[j] + 1 ELSE queue[j]]
      BY <1>19 DEF CleanStarted
    <3>2. expired' \subseteq expired
      BY <1>19 DEF CleanStarted
    <3> HIDE DEF again
    <3> QED BY <1>0, <3>1, <3>2
  <2> QED BY <1>19, <1>0, <2>2, <2>3 DEF CleanStarted, Hashes
<1>20. ASSUME NEW w \in Workers, FindDeadWorkers(w) PROVE RedisTypes'
  BY <1>20, <1>0 DEF FindDeadWorkers, redis
<1>21. ASSUME NEW w \in Workers, Sweep(w) PROVE RedisTypes'
  BY <1>21, <1>0 DEF Sweep, Unregister
<1>22. ASSUME NEW w \in Workers, NEW j \in Jobs, InspectStuck(w, j)
      PROVE  RedisTypes'
  <2>1. seen' \in [Jobs -> {"none", "new", "old"}]
    BY <1>22, <1>0 DEF InspectStuck
  <2>2. inter' \in [Jobs -> Nat]
    BY <1>22, <1>0 DEF InspectStuck
  <2>3. disputed' \subseteq Jobs
    BY <1>22, <1>0 DEF InspectStuck
  <2>4. UNCHANGED <<hash, queue, execs, expired, current, lock, members, key, suspended,
                    budget>>
    BY <1>22 DEF InspectStuck
  <2> QED BY <1>0, <2>1, <2>2, <2>3, <2>4
<1>23. ASSUME NEW w \in Workers, FailStuck(w) PROVE RedisTypes'
  <2>1. worker[w].job \in Jobs
    BY <1>23, <1>b DEF FailStuck
  <2>2. JobFailure(w, worker[w].job, worker[w].copy, worker[w].stopped = worker[w].job)
    BY <1>23 DEF FailStuck
  <2>3. /\ hash' \in Hashes /\ queue' \in [Jobs -> Nat]
        /\ current' \in [Workers -> Jobs \cup {NoJob}]
        /\ execs' \subseteq Workers \X Jobs /\ expired' \subseteq Workers \X Jobs
    BY <1>0, <1>a, <2>1, <2>2, JobFailureTypes
  <2> QED BY <1>23, <1>0, <2>3 DEF FailStuck, Hashes
<1>24. ASSUME NEW w \in Workers, RemoveStuck(w) PROVE RedisTypes'
  <2>1. inter' \in [Jobs -> Nat]
    <3>1. worker[w].job \in Jobs /\ inter \in [Jobs -> Nat]
      BY <1>24, <1>0, <1>b DEF RemoveStuck
    <3>2. inter' = [inter EXCEPT ![worker[w].job] = IF @ > 0 THEN @ - 1 ELSE 0]
      BY ONLY <1>24 DEF RemoveStuck
    <3> QED BY ONLY <3>1, <3>2
  <2> QED BY <1>24, <1>0, <2>1 DEF RemoveStuck
<1>25. ASSUME NEW w \in Workers, EndMaintenance(w) PROVE RedisTypes'
  BY <1>25, <1>0 DEF EndMaintenance
<1>26. ASSUME NEW w \in Workers, Heartbeat(w) PROVE RedisTypes'
  BY <1>26, <1>0 DEF Heartbeat
<1>27. ASSUME NEW w \in Workers, RequestStop(w) PROVE RedisTypes'
  BY <1>27, <1>0 DEF RequestStop, Spend, redis, Ops
<1>28. ASSUME NEW w \in Workers, RequestForceStop(w) PROVE RedisTypes'
  BY <1>28, <1>0 DEF RequestForceStop, Spend, redis, Ops
<1>29. ASSUME NEW w \in Workers, KillHorseCommand(w) PROVE RedisTypes'
  BY <1>29, <1>0 DEF KillHorseCommand, Spend, redis, Ops
<1>30. ASSUME NEW w \in Workers, NEW j \in Jobs, StopJobCommand(w, j)
      PROVE  RedisTypes'
  BY <1>30, <1>0 DEF StopJobCommand, Spend, redis, Ops
<1>31. ASSUME NEW w \in Workers, KillWorker(w) PROVE RedisTypes'
  BY <1>31, <1>0 DEF KillWorker, Spend, redis, Ops
<1>32. ASSUME NEW w \in Workers, KillHost(w) PROVE RedisTypes'
  BY <1>32, <1>0 DEF KillHost, Spend, redis, Ops
<1>33. ASSUME NEW w \in Workers, KillHorse(w) PROVE RedisTypes'
  BY <1>33, <1>0 DEF KillHorse, Spend, redis, Ops
<1>34. ASSUME NEW w \in Workers, KillOverdue(w) PROVE RedisTypes'
  <2>1. budget' \in [Ops -> Nat]
    BY <1>34, <1>0 DEF KillOverdue, Spend, Ops
  <2>2. UNCHANGED <<hash, queue, inter, seen, execs, expired, current, lock,
                    members, key, suspended, disputed>>
    BY ONLY <1>34 DEF KillOverdue, redis
  <2> QED BY ONLY <1>0, <2>1, <2>2 DEF RedisTypes
<1>35. ASSUME LockExpires PROVE RedisTypes'
  <2>1. Spend("delay") \/ UNCHANGED budget
    BY ONLY <1>35 DEF LockExpires
  <2>2. budget' \in [Ops -> Nat]
    BY <1>0, <2>1 DEF Spend, Ops
  <2>3. lock' \in BOOLEAN
        /\ UNCHANGED <<hash, queue, inter, seen, execs, expired, current,
                       members, key, suspended, disputed>>
    BY ONLY <1>35 DEF LockExpires
  <2> QED BY ONLY <1>0, <2>2, <2>3 DEF RedisTypes
<1>36. ASSUME NEW j \in Jobs, MinutePasses(j) PROVE RedisTypes'
  BY <1>36, <1>0 DEF MinutePasses, Spend, Ops
<1>37. ASSUME NEW j \in Jobs, JobExpires(j) PROVE RedisTypes'
  BY <1>37, <1>0 DEF JobExpires, Spend, SetStatus, Statuses, Ended, Ops
<1>38. ASSUME NEW w \in Workers, KeyExpires(w) PROVE RedisTypes'
  BY <1>38, <1>0 DEF KeyExpires, Spend, Ops
<1>39. ASSUME NEW w \in Workers, NEW j \in Jobs, Expire(w, j)
      PROVE  RedisTypes'
  BY <1>39, <1>0 DEF Expire
<1>40. ASSUME Suspend PROVE RedisTypes'
  BY <1>40, <1>0 DEF Suspend, Spend, Ops
<1>41. ASSUME Resume PROVE RedisTypes'
  BY <1>41, <1>0 DEF Resume
<1>42. CASE UNCHANGED vars
  BY <1>42, <1>0 DEF vars, redis
<1> QED
  BY <1>1, <1>2, <1>3, <1>4, <1>5, <1>6, <1>7, <1>8, <1>9, <1>10, <1>11,
     <1>12, <1>13, <1>14, <1>15, <1>16, <1>17, <1>18, <1>19, <1>20, <1>21,
     <1>22, <1>23, <1>24, <1>25, <1>26, <1>27, <1>28, <1>29, <1>30, <1>31,
     <1>32, <1>33, <1>34, <1>35, <1>36, <1>37, <1>38, <1>39, <1>40, <1>41,
     <1>42
     DEF Next, ParentNext, HorseNext, DequeueNext, MaintenanceNext, SignalNext,
         TimeNext

\* The type invariant is inductive.
LEMMA TypedNext ==
  ASSUME Typed, [Next]_vars
  PROVE  Typed'
  BY HandsNext, RedisTypesNext DEF Typed, TypeOK, RedisTypes, Worker

\* The jobs are enqueued, and no worker is born.
LEMMA TypedInit == Init => Typed
<1> SUFFICES ASSUME Init PROVE Typed
  OBVIOUS
<1>1. Idle \in Worker /\ Hand(Idle)
  BY Labels DEF Idle, NoCopy, Worker, Hand
<1>2. worker \in [Workers -> Worker] /\ \A x \in Workers : Hand(worker[x])
  BY <1>1 DEF Init
<1>3. RedisTypes
  BY WorkerAssumption DEF Init, RedisTypes, Statuses, Ended
<1> QED BY <1>2, <1>3 DEF Typed, TypeOK, RedisTypes, Worker

\* Every handler of worker/base.py leaves every variable in its type.
THEOREM TypeCorrect == Spec => []TypeOK
<1>1. Typed => TypeOK
  BY DEF Typed
<1>2. Typed /\ [Next]_vars => Typed'
  BY TypedNext
<1> QED BY <1>1, <1>2, TypedInit, PTL DEF Spec

\* What the environment may do is used up, and never refilled.
LEMMA BudgetNext ==
  ASSUME Typed, [Next]_vars
  PROVE  \A o \in Ops : budget[o] = 0 => budget'[o] = 0
<1> DEFINE Goal == \A o \in Ops : budget[o] = 0 => budget'[o] = 0
<1>0. budget \in [Ops -> Nat]
  BY DEF Typed, TypeOK
<1>1. ASSUME NEW w \in Workers, RegisterBirth(w) PROVE Goal
  BY <1>0, <1>1 DEF RegisterBirth
<1>2. ASSUME NEW w \in Workers, EnterLoop(w) PROVE Goal
  BY <1>0, <1>2 DEF EnterLoop
<1>3. ASSUME NEW w \in Workers, PrepareExecution(w) PROVE Goal
  BY <1>0, <1>3 DEF PrepareExecution
<1>4. ASSUME NEW w \in Workers, ForkWorkHorse(w) PROVE Goal
  BY <1>0, <1>4 DEF ForkWorkHorse
<1>5. ASSUME NEW w \in Workers, WaitForHorse(w) PROVE Goal
  BY <1>0, <1>5 DEF WaitForHorse
<1>6. ASSUME NEW w \in Workers, JudgeStatus(w) PROVE Goal
  BY <1>0, <1>6 DEF JudgeStatus
<1>7. ASSUME NEW w \in Workers, HandleFailure(w) PROVE Goal
  BY <1>0, <1>7 DEF HandleFailure
<1>8. ASSUME NEW w \in Workers, RegisterDeath(w) PROVE Goal
  BY <1>0, <1>8 DEF RegisterDeath
<1>9. ASSUME NEW w \in Workers, ExecCommand(w) PROVE Goal
  BY <1>0, <1>9 DEF ExecCommand
<1>10. ASSUME NEW w \in Workers, SetGroup(w) PROVE Goal
  BY <1>0, <1>10 DEF SetGroup
<1>11. ASSUME NEW w \in Workers, PrepareJob(w) PROVE Goal
  BY <1>0, <1>11 DEF PrepareJob
<1>12. ASSUME NEW w \in Workers, HandleSuccess(w) PROVE Goal
  BY <1>0, <1>12 DEF HandleSuccess
<1>13. ASSUME NEW w \in Workers, JobRaises(w) PROVE Goal
  <2>1. Spend("fail")
    BY ONLY <1>13 DEF JobRaises
  <2> QED BY <1>0, <2>1 DEF Spend, Ops
<1>14. ASSUME NEW w \in Workers, JobReturnsRetry(w) PROVE Goal
  <2>1. Spend("again")
    BY ONLY <1>14 DEF JobReturnsRetry
  <2> QED BY <1>0, <2>1 DEF Spend, Ops
<1>15. ASSUME NEW w \in Workers, HorseExits(w) PROVE Goal
  BY <1>0, <1>15 DEF HorseExits
<1>16. ASSUME NEW w \in Workers, NEW j \in Jobs, Dequeue(w, j) PROVE Goal
  BY <1>0, <1>16 DEF Dequeue
<1>17. ASSUME NEW w \in Workers, NEW j \in Jobs, DropId(w, j) PROVE Goal
  BY <1>0, <1>17 DEF DropId
<1>18. ASSUME NEW w \in Workers, StartMaintenance(w) PROVE Goal
  BY <1>0, <1>18 DEF StartMaintenance
<1>19. ASSUME NEW w \in Workers, CleanStarted(w) PROVE Goal
  BY <1>0, <1>19 DEF CleanStarted
<1>20. ASSUME NEW w \in Workers, FindDeadWorkers(w) PROVE Goal
  BY <1>0, <1>20 DEF FindDeadWorkers
<1>21. ASSUME NEW w \in Workers, Sweep(w) PROVE Goal
  <2>1. UNCHANGED budget
    BY ONLY <1>21 DEF Sweep
  <2> QED BY <1>0, <2>1 DEF Spend, Ops
<1>22. ASSUME NEW w \in Workers, NEW j \in Jobs, InspectStuck(w, j) PROVE Goal
  BY <1>0, <1>22 DEF InspectStuck
<1>23. ASSUME NEW w \in Workers, FailStuck(w) PROVE Goal
  BY <1>0, <1>23 DEF FailStuck
<1>24. ASSUME NEW w \in Workers, RemoveStuck(w) PROVE Goal
  BY <1>0, <1>24 DEF RemoveStuck
<1>25. ASSUME NEW w \in Workers, EndMaintenance(w) PROVE Goal
  BY <1>0, <1>25 DEF EndMaintenance
<1>26. ASSUME NEW w \in Workers, Heartbeat(w) PROVE Goal
  BY <1>0, <1>26 DEF Heartbeat
<1>27. ASSUME NEW w \in Workers, RequestStop(w) PROVE Goal
  <2>1. Spend("stop")
    BY ONLY <1>27 DEF RequestStop
  <2> QED BY <1>0, <2>1 DEF Spend, Ops
<1>28. ASSUME NEW w \in Workers, RequestForceStop(w) PROVE Goal
  <2>1. Spend("stop")
    BY ONLY <1>28 DEF RequestForceStop
  <2> QED BY <1>0, <2>1 DEF Spend, Ops
<1>29. ASSUME NEW w \in Workers, KillHorseCommand(w) PROVE Goal
  <2>1. Spend("stopJob")
    BY ONLY <1>29 DEF KillHorseCommand
  <2> QED BY <1>0, <2>1 DEF Spend, Ops
<1>30. ASSUME NEW w \in Workers, NEW j \in Jobs, StopJobCommand(w, j)
      PROVE  Goal
  <2>1. Spend("stopJob")
    BY ONLY <1>30 DEF StopJobCommand
  <2> QED BY <1>0, <2>1 DEF Spend, Ops
<1>31. ASSUME NEW w \in Workers, KillWorker(w) PROVE Goal
  <2>1. Spend("killWorker")
    BY ONLY <1>31 DEF KillWorker
  <2> QED BY <1>0, <2>1 DEF Spend, Ops
<1>32. ASSUME NEW w \in Workers, KillHost(w) PROVE Goal
  <2>1. Spend("killHost")
    BY ONLY <1>32 DEF KillHost
  <2> QED BY <1>0, <2>1 DEF Spend, Ops
<1>33. ASSUME NEW w \in Workers, KillHorse(w) PROVE Goal
  <2>1. Spend("killHorse")
    BY ONLY <1>33 DEF KillHorse
  <2> QED BY <1>0, <2>1 DEF Spend, Ops
<1>34. ASSUME NEW w \in Workers, KillOverdue(w) PROVE Goal
  <2>1. Spend("killHorse")
    BY ONLY <1>34 DEF KillOverdue
  <2> QED BY <1>0, <2>1 DEF Spend, Ops
<1>35. ASSUME LockExpires PROVE Goal
  <2>1. Spend("delay") \/ UNCHANGED budget
    BY ONLY <1>35 DEF LockExpires
  <2> QED BY <1>0, <2>1 DEF Spend, Ops
<1>36. ASSUME NEW j \in Jobs, MinutePasses(j) PROVE Goal
  <2>1. Spend("delay") \/ UNCHANGED budget
    BY ONLY <1>36 DEF MinutePasses
  <2> QED BY <1>0, <2>1 DEF Spend, Ops
<1>37. ASSUME NEW j \in Jobs, JobExpires(j) PROVE Goal
  <2>1. Spend("ttl")
    BY ONLY <1>37 DEF JobExpires
  <2> QED BY <1>0, <2>1 DEF Spend, Ops
<1>38. ASSUME NEW w \in Workers, KeyExpires(w) PROVE Goal
  <2>1. Spend("late") \/ UNCHANGED budget
    BY ONLY <1>38 DEF KeyExpires
  <2> QED BY <1>0, <2>1 DEF Spend, Ops
<1>39. ASSUME NEW w \in Workers, NEW j \in Jobs, Expire(w, j) PROVE Goal
  BY <1>0, <1>39 DEF Expire
<1>40. ASSUME Suspend PROVE Goal
  <2>1. Spend("suspend")
    BY ONLY <1>40 DEF Suspend
  <2> QED BY <1>0, <2>1 DEF Spend, Ops
<1>41. ASSUME Resume PROVE Goal
  BY <1>0, <1>41 DEF Resume
<1>42. CASE UNCHANGED vars
  BY <1>0, <1>42 DEF vars
<1> QED
  BY <1>1, <1>2, <1>3, <1>4, <1>5, <1>6, <1>7, <1>8, <1>9, <1>10, <1>11,
     <1>12, <1>13, <1>14, <1>15, <1>16, <1>17, <1>18, <1>19, <1>20, <1>21,
     <1>22, <1>23, <1>24, <1>25, <1>26, <1>27, <1>28, <1>29, <1>30, <1>31,
     <1>32, <1>33, <1>34, <1>35, <1>36, <1>37, <1>38, <1>39, <1>40, <1>41,
     <1>42
     DEF Next, ParentNext, HorseNext, DequeueNext, MaintenanceNext, SignalNext,
         TimeNext
-----------------------------------------------------------------------------
(* clean_worker_registry and the workers that live.                        *)

\* A worker that lives is in the sets and has its hash, one that has not been
\* born is in no set, and a cleanup has listed only the keys of the dead.
MemberOK(w) ==
    /\ Alive(w) => w \in members /\ key[w] = "alive"
    /\ worker[w].pc = "new" => w \notin members
    /\ \A v \in worker[w].keys : worker[v].pc \in {"dead", "selfKilled"}

MembersOK == \A w \in Workers : MemberOK(w)

\* The dead stay dead.
LEMMA DeadForEver ==
  ASSUME Typed, NEW w \in Workers, NEW l, NEW k, NEW h, NEW is, NEW ks,
         After(w, l, k, h, is, ks),
         worker[w].pc \in {"dead", "selfKilled"} => l \in {"dead", "selfKilled"}
  PROVE  \A x \in Workers : worker[x].pc \in {"dead", "selfKilled"}
                            => worker'[x].pc \in {"dead", "selfKilled"}
  BY DEF After

\* A step of w that leaves the sets, the hashes and the listed keys alone.
LEMMA MembersQuiet ==
  ASSUME Typed, MembersOK, NEW w \in Workers, NEW l, NEW k, NEW h, NEW is, NEW ks,
         After(w, l, k, h, is, ks), UNCHANGED <<members, key>>,
         ks \subseteq worker[w].keys,
         \/ l = worker[w].pc
         \/ l \in {"dead", "selfKilled"}
         \/ l \notin Dead /\ worker[w].pc \notin Dead
  PROVE  MembersOK'
<1>1. \A x \in Workers : worker[x].pc \in {"dead", "selfKilled"}
                         => worker'[x].pc \in {"dead", "selfKilled"}
  BY DeadForEver DEF Dead
<1>2. \A x \in Workers : worker[x].keys \subseteq Workers
  BY IsWorker DEF Worker
<1> SUFFICES ASSUME NEW x \in Workers PROVE MemberOK(x)'
  BY DEF MembersOK
<1>3. MemberOK(x) /\ x \in Workers
  BY DEF MembersOK
<1>4. CASE x = w
  <2>1. worker'[x].pc = l /\ worker'[x].keys = ks
    BY <1>4 DEF After
  <2>2. \A v \in ks : worker'[v].pc \in {"dead", "selfKilled"}
    BY <1>1, <1>2, <1>3, <1>4 DEF MemberOK
  <2>3. l \notin Dead => worker[w].pc \notin Dead
    BY DEF Dead
  <2>4. l = "new" => worker[w].pc = "new"
    BY DEF Dead
  <2> QED BY <1>3, <1>4, <2>1, <2>2, <2>3, <2>4 DEF MemberOK, Alive
<1>5. CASE x # w
  <2>1. worker'[x] = worker[x]
    BY <1>5 DEF After
  <2> QED BY <1>1, <1>2, <1>3, <2>1 DEF MemberOK, Alive
<1> QED BY <1>4, <1>5

\* Every handler keeps MembersOK, if no heartbeat is late.
LEMMA MembersNext ==
  ASSUME Typed, MembersOK, budget["late"] = 0, [Next]_vars
  PROVE  MembersOK'
<1>0. MembersOK /\ budget["late"] = 0
  OBVIOUS
<1>a. \A x \in Workers : worker[x].keys \subseteq Workers
  BY IsWorker DEF Worker
<1>b. \A x \in Workers : \A v \in worker[x].keys :
         v \in Workers /\ worker[v].pc \in {"dead", "selfKilled"}
  BY <1>0, <1>a DEF MembersOK, MemberOK
<1>1. ASSUME NEW w \in Workers, RegisterBirth(w) PROVE MembersOK'
  <2>1. After(w, "loop", worker[w].job, worker[w].horse, worker[w].ids,
              worker[w].keys)
    BY <1>1, GotoMoves, Labels DEF RegisterBirth
  <2>2. members' = members \cup {w} /\ key' = [key EXCEPT ![w] = "alive"]
        /\ worker[w].pc = "new"
    BY <1>1 DEF RegisterBirth, Register
  <2>3. key' [w] = "alive" /\ \A x \in Workers \ {w} : key'[x] = key[x]
    BY <2>2 DEF Typed, TypeOK
  <2>4. \A x \in Workers : worker[x].pc \in {"dead", "selfKilled"}
                           => worker'[x].pc \in {"dead", "selfKilled"}
    BY <2>1, <2>2 DEF After
  <2>5. ASSUME NEW x \in Workers PROVE MemberOK(x)'
    <3>1. MemberOK(x) /\ worker'[x].keys = worker[x].keys
      BY <1>0, <2>1 DEF MembersOK, After
    <3>2. \A v \in worker'[x].keys : worker'[v].pc \in {"dead", "selfKilled"}
      BY <1>b, <2>4, <3>1
    <3>3. CASE x = w
      BY <2>1, <2>2, <2>3, <3>2, <3>3 DEF After, MemberOK
    <3>4. CASE x # w
      <4>1. worker'[x] = worker[x]
        BY <2>1, <3>4 DEF After
      <4> QED BY <2>2, <2>3, <3>1, <3>2, <3>4, <4>1 DEF MemberOK, Alive
    <3> QED BY <3>3, <3>4
  <2> QED BY <2>5 DEF MembersOK
<1>2. ASSUME NEW w \in Workers, EnterLoop(w) PROVE MembersOK'
  <2>1. \E l \in {"teardown", "idle"} :
           After(w, l, worker[w].job, worker[w].horse, worker[w].ids, worker[w].keys)
    BY <1>2, GotoMoves, Labels DEF EnterLoop
  <2> QED BY <1>2, <1>0, <2>1, MembersQuiet DEF EnterLoop, Dead, redis
<1>3. ASSUME NEW w \in Workers, PrepareExecution(w) PROVE MembersOK'
  <2>1. After(w, "prepared", worker[w].job, worker[w].horse, worker[w].ids,
              worker[w].keys)
    BY <1>3, GotoMoves, Labels DEF PrepareExecution
  <2> QED BY <1>3, <1>0, <2>1, MembersQuiet DEF PrepareExecution, Dead
<1>4. ASSUME NEW w \in Workers, ForkWorkHorse(w) PROVE MembersOK'
  <2>1. \E k, h, is : After(w, "monitor", k, h, is, worker[w].keys)
    BY <1>4, ForkWorkHorseMoves DEF ForkWorkHorse
  <2> QED BY <1>4, <1>0, <2>1, MembersQuiet DEF ForkWorkHorse, Dead, redis
<1>5. ASSUME NEW w \in Workers, WaitForHorse(w) PROVE MembersOK'
  <2>1. \E l \in {"loop", "reaped"} : \E k, h, is, ks :
           After(w, l, k, h, is, ks) /\ ks \subseteq worker[w].keys
    <3>1. CASE Loop(w, "loop")
      BY <3>1, LoopMoves, Labels
    <3>2. CASE Goto(w, "reaped")
      BY <3>2, GotoMoves, Labels
    <3> QED BY <1>5, <3>1, <3>2 DEF WaitForHorse
  <2> QED BY <1>5, <1>0, <2>1, MembersQuiet DEF WaitForHorse, Dead, redis
<1>6. ASSUME NEW w \in Workers, JudgeStatus(w) PROVE MembersOK'
  <2>1. \E l \in {"loop", "handling"} : \E k, h, is, ks :
           After(w, l, k, h, is, ks) /\ ks \subseteq worker[w].keys
    <3>1. CASE Loop(w, "loop")
      BY <3>1, LoopMoves, Labels
    <3>2. CASE Goto(w, "handling")
      BY <3>2, GotoMoves, Labels
    <3> QED BY <1>6, <3>1, <3>2 DEF JudgeStatus
  <2> QED BY <1>6, <1>0, <2>1, MembersQuiet DEF JudgeStatus, Dead, redis
<1>7. ASSUME NEW w \in Workers, HandleFailure(w) PROVE MembersOK'
  <2>1. \E k, h, is : After(w, "loop", k, h, is, worker[w].keys)
    BY <1>7, HandleFailureMoves DEF HandleFailure
  <2> QED BY <1>7, <1>0, <2>1, MembersQuiet DEF HandleFailure, Dead
<1>8. ASSUME NEW w \in Workers, RegisterDeath(w) PROVE MembersOK'
  <2>1. PICK k, h : After(w, "dead", k, h, {}, {})
    BY <1>8, LoopMoves, Labels DEF RegisterDeath
  <2>2. members' = members \ {w} /\ key' = [key EXCEPT ![w] = "death"]
        /\ worker[w].pc = "teardown"
    BY <1>8 DEF RegisterDeath, Unregister
  <2>3. \A x \in Workers \ {w} : key'[x] = key[x]
    BY <2>2 DEF Typed, TypeOK
  <2>4. \A x \in Workers : worker[x].pc \in {"dead", "selfKilled"}
                           => worker'[x].pc \in {"dead", "selfKilled"}
    BY <2>1, <2>2 DEF After
  <2>5. ASSUME NEW x \in Workers PROVE MemberOK(x)'
    <3>1. MemberOK(x)
      BY <1>0 DEF MembersOK
    <3>2. CASE x = w
      BY <2>1, <3>2 DEF After, MemberOK, Alive, Dead
    <3>3. CASE x # w
      <4>1. worker'[x] = worker[x] /\ worker'[x].keys = worker[x].keys
        BY <2>1, <3>3 DEF After
      <4>2. \A v \in worker'[x].keys : worker'[v].pc \in {"dead", "selfKilled"}
        BY <1>b, <2>4, <4>1
      <4> QED BY <2>2, <2>3, <3>1, <3>3, <4>1, <4>2 DEF MemberOK, Alive
    <3> QED BY <3>2, <3>3
  <2> QED BY <2>5 DEF MembersOK
<1>9. ASSUME NEW w \in Workers, ExecCommand(w) PROVE MembersOK'
  <2>1. \E l \in {worker[w].pc, "selfKilled"} : \E k, h, is, ks :
           After(w, l, k, h, is, ks) /\ ks \subseteq worker[w].keys
    <3>1. worker[w].pc \in PCs
      BY IsWorker DEF Worker
    <3>2. KillGroup(w, worker[w].pc)
      BY <1>9 DEF ExecCommand
    <3> QED BY <3>1, <3>2, KillGroupMoves
  <2> QED BY <1>9, <1>0, <2>1, MembersQuiet DEF ExecCommand, redis
<1>10. ASSUME NEW w \in Workers, SetGroup(w) PROVE MembersOK'
  <2>1. \E k, h, is : After(w, worker[w].pc, k, h, is, worker[w].keys)
    BY <1>10, HorseMoves, Labels DEF SetGroup, HorseDone
  <2> QED BY <1>10, <1>0, <2>1, MembersQuiet DEF SetGroup, Dead, redis, HorseDone
<1>11. ASSUME NEW w \in Workers, PrepareJob(w) PROVE MembersOK'
  <2>1. \E k, h, is : After(w, worker[w].pc, k, h, is, worker[w].keys)
    BY <1>11, HorseMoves, Labels DEF PrepareJob, HorseDone
  <2> QED BY <1>11, <1>0, <2>1, MembersQuiet DEF PrepareJob, Dead, redis, HorseDone
<1>12. ASSUME NEW w \in Workers, HandleSuccess(w) PROVE MembersOK'
  <2>1. \E k, h, is : After(w, worker[w].pc, k, h, is, worker[w].keys)
    BY <1>12, HorseMoves, Labels DEF HandleSuccess, HorseDone
  <2> QED BY <1>12, <1>0, <2>1, MembersQuiet DEF HandleSuccess, Dead, redis, HorseDone
<1>13. ASSUME NEW w \in Workers, JobRaises(w) PROVE MembersOK'
  <2>1. \E k, h, is : After(w, worker[w].pc, k, h, is, worker[w].keys)
    BY <1>13, HorseMoves, Labels DEF JobRaises, HorseDone
  <2> QED BY <1>13, <1>0, <2>1, MembersQuiet DEF JobRaises, Dead, redis, HorseDone
<1>14. ASSUME NEW w \in Workers, JobReturnsRetry(w) PROVE MembersOK'
  <2>1. \E k, h, is : After(w, worker[w].pc, k, h, is, worker[w].keys)
    BY <1>14, HorseMoves, Labels DEF JobReturnsRetry, HorseDone
  <2> QED BY <1>14, <1>0, <2>1, MembersQuiet DEF JobReturnsRetry, Dead, redis, HorseDone
<1>15. ASSUME NEW w \in Workers, HorseExits(w) PROVE MembersOK'
  <2>1. \E k, h, is : After(w, worker[w].pc, k, h, is, worker[w].keys)
    BY <1>15, HorseEndsMoves, Labels DEF HorseExits
  <2> QED BY <1>15, <1>0, <2>1, MembersQuiet DEF HorseExits, Dead, redis
<1>16. ASSUME NEW w \in Workers, NEW j \in Jobs, Dequeue(w, j)
      PROVE  MembersOK'
  <2>1. \E k, h, is : After(w, "fetched", k, h, is, worker[w].keys)
    BY <1>16, DequeueMoves DEF Dequeue
  <2> QED BY <1>16, <1>0, <2>1, MembersQuiet DEF Dequeue, Dead
<1>17. ASSUME NEW w \in Workers, NEW j \in Jobs, DropId(w, j) PROVE MembersOK'
  BY <1>17, <1>0 DEF DropId, MembersOK, MemberOK, Alive
<1>18. ASSUME NEW w \in Workers, StartMaintenance(w) PROVE MembersOK'
  <2>1. \E k, h, is : After(w, "cleanStarted", k, h, is, worker[w].keys)
    BY <1>18, StartMaintenanceMoves DEF StartMaintenance
  <2> QED BY <1>18, <1>0, <2>1, MembersQuiet DEF StartMaintenance, Dead
<1>19. ASSUME NEW w \in Workers, CleanStarted(w) PROVE MembersOK'
  <2>1. \E k, h, is : After(w, "cleanWorkers", k, h, is, worker[w].keys)
    BY <1>19, CleanStartedMoves DEF CleanStarted
  <2> QED BY <1>19, <1>0, <2>1, MembersQuiet DEF CleanStarted, Dead
<1>20. ASSUME NEW w \in Workers, FindDeadWorkers(w) PROVE MembersOK'
  <2>1. After(w, "sweep", worker[w].job, worker[w].horse, worker[w].ids,
              {v \in members : key[v] = "none"})
    BY <1>20, FindDeadWorkersMoves
  <2>2. worker[w].pc = "cleanWorkers" /\ UNCHANGED <<members, key>>
    BY <1>20 DEF FindDeadWorkers, redis
  <2>3. \A x \in Workers : worker[x].pc \in {"dead", "selfKilled"}
                           => worker'[x].pc \in {"dead", "selfKilled"}
    BY <2>1, <2>2 DEF After
  <2>4. \A v \in members : key[v] = "none" => worker[v].pc \in {"dead", "selfKilled"}
    BY <1>0 DEF MembersOK, MemberOK, Alive, Dead, Typed, TypeOK
  <2>5. ASSUME NEW x \in Workers PROVE MemberOK(x)'
    <3>1. MemberOK(x)
      BY <1>0 DEF MembersOK
    <3>2. CASE x = w
      <4>1. worker'[x].pc = "sweep"
            /\ worker'[x].keys = {v \in members : key[v] = "none"}
        BY <2>1, <3>2 DEF After
      <4>2. \A v \in worker'[x].keys : worker'[v].pc \in {"dead", "selfKilled"}
        BY <2>3, <2>4, <4>1 DEF Typed, TypeOK
      <4>3. Alive(x)
        BY <2>2, <3>2 DEF Alive, Dead
      <4> QED BY <2>2, <3>1, <4>1, <4>2, <4>3 DEF MemberOK
    <3>3. CASE x # w
      <4>1. worker'[x] = worker[x] /\ worker'[x].keys = worker[x].keys
        BY <2>1, <3>3 DEF After
      <4>2. \A v \in worker'[x].keys : worker'[v].pc \in {"dead", "selfKilled"}
        BY <1>b, <2>3, <4>1
      <4> QED BY <2>2, <3>1, <4>1, <4>2 DEF MemberOK, Alive
    <3> QED BY <3>2, <3>3
  <2> QED BY <2>5 DEF MembersOK
<1>21. ASSUME NEW w \in Workers, Sweep(w) PROVE MembersOK'
  <2>1. PICK is : After(w, "cleanStuck", worker[w].job, worker[w].horse, is, {})
    BY <1>21, SweepMoves
  <2>2. worker[w].pc = "sweep" /\ members' = members \ worker[w].keys
        /\ UNCHANGED key
    BY <1>21 DEF Sweep, Unregister
  <2>3. \A x \in Workers : worker[x].pc \in {"dead", "selfKilled"}
                           => worker'[x].pc \in {"dead", "selfKilled"}
    BY <2>1, <2>2 DEF After
  <2>4. \A v \in worker[w].keys : worker[v].pc \in {"dead", "selfKilled"}
    BY <1>0 DEF MembersOK, MemberOK
  <2>5. ASSUME NEW x \in Workers PROVE MemberOK(x)'
    <3>1. MemberOK(x)
      BY <1>0 DEF MembersOK
    <3>2. Alive(x) => x \in members'
      BY <2>2, <2>4, <3>1 DEF MemberOK, Alive, Dead
    <3>3. CASE x = w
      <4>1. worker'[x].pc = "cleanStuck" /\ worker'[x].keys = {} /\ Alive(x)
        BY <2>1, <2>2, <3>3 DEF After, Alive, Dead
      <4> QED BY <2>2, <3>1, <3>2, <4>1 DEF MemberOK
    <3>4. CASE x # w
      <4>1. worker'[x] = worker[x] /\ worker'[x].keys = worker[x].keys
        BY <2>1, <3>4 DEF After
      <4>2. \A v \in worker'[x].keys : worker'[v].pc \in {"dead", "selfKilled"}
        BY <1>b, <2>3, <4>1
      <4> QED BY <2>2, <3>1, <3>2, <4>1, <4>2 DEF MemberOK, Alive
    <3> QED BY <3>3, <3>4
  <2> QED BY <2>5 DEF MembersOK
<1>22. ASSUME NEW w \in Workers, NEW j \in Jobs, InspectStuck(w, j)
      PROVE  MembersOK'
  <2>1. \E l \in {"cleanStuck", "failStuck"} : \E k, h, is :
           After(w, l, k, h, is, worker[w].keys)
    <3>1. worker[w].pc = "cleanStuck"
      BY <1>22 DEF InspectStuck
    <3> QED BY <1>22, <3>1, InspectStuckMoves
  <2> QED BY <1>22, <1>0, <2>1, MembersQuiet DEF InspectStuck, Dead
<1>23. ASSUME NEW w \in Workers, FailStuck(w) PROVE MembersOK'
  <2>1. \E k, h, is : After(w, "removeStuck", k, h, is, worker[w].keys)
    BY <1>23, FailStuckMoves DEF FailStuck
  <2> QED BY <1>23, <1>0, <2>1, MembersQuiet DEF FailStuck, Dead
<1>24. ASSUME NEW w \in Workers, RemoveStuck(w) PROVE MembersOK'
  <2>1. \E k, h, is : After(w, "cleanStuck", k, h, is, worker[w].keys)
    BY <1>24, RemoveStuckMoves DEF RemoveStuck
  <2> QED BY <1>24, <1>0, <2>1, MembersQuiet DEF RemoveStuck, Dead
<1>25. ASSUME NEW w \in Workers, EndMaintenance(w) PROVE MembersOK'
  <2>1. After(w, "idle", worker[w].job, worker[w].horse, worker[w].ids,
              worker[w].keys)
    BY <1>25, GotoMoves, Labels DEF EndMaintenance
  <2> QED BY <1>25, <1>0, <2>1, MembersQuiet DEF EndMaintenance, Dead
<1>26. ASSUME NEW w \in Workers, Heartbeat(w) PROVE MembersOK'
  <2>1. FALSE
    BY <1>26, <1>0 DEF Heartbeat, MembersOK, MemberOK, Alive, Dead
  <2> QED BY <2>1
<1>27. ASSUME NEW w \in Workers, RequestStop(w) PROVE MembersOK'
  <2>1. CASE Loop(w, "teardown")
    <3>1. \E k, h : After(w, "teardown", k, h, {}, {})
      BY <2>1, LoopMoves, Labels
    <3> QED BY <1>27, <1>0, <3>1, MembersQuiet DEF RequestStop, Alive, Dead, redis
  <2>2. CASE Put(w, [worker[w] EXCEPT !.stop = TRUE])
    <3>1. \E k, h, is : After(w, worker[w].pc, k, h, is, worker[w].keys)
      BY <2>2, StopMoves
    <3> QED BY <1>27, <1>0, <3>1, MembersQuiet DEF RequestStop, redis
  <2> QED BY <1>27, <2>1, <2>2 DEF RequestStop
<1>28. ASSUME NEW w \in Workers, RequestForceStop(w) PROVE MembersOK'
  <2>1. \E l \in {"teardown", "selfKilled"} : \E k, h, is, ks :
           After(w, l, k, h, is, ks) /\ ks \subseteq worker[w].keys
    <3>1. CASE Loop(w, "teardown")
      BY <3>1, LoopMoves, Labels
    <3>2. CASE KillGroup(w, "teardown")
      BY <3>2, KillGroupMoves, Labels
    <3> QED BY <1>28, <3>1, <3>2 DEF RequestForceStop
  <2> QED BY <1>28, <1>0, <2>1, MembersQuiet DEF RequestForceStop, Alive, Dead, redis
<1>29. ASSUME NEW w \in Workers, KillHorseCommand(w) PROVE MembersOK'
  <2>1. \E k, h, is : After(w, worker[w].pc, k, h, is, worker[w].keys)
    BY <1>29, KillHorseCommandMoves DEF KillHorseCommand
  <2> QED BY <1>29, <1>0, <2>1, MembersQuiet DEF KillHorseCommand, Dead, redis
<1>30. ASSUME NEW w \in Workers, NEW j \in Jobs, StopJobCommand(w, j)
      PROVE  MembersOK'
  <2>1. \E k, h, is : After(w, worker[w].pc, k, h, is, worker[w].keys)
    BY <1>30, StopJobCommandMoves DEF StopJobCommand
  <2> QED BY <1>30, <1>0, <2>1, MembersQuiet DEF StopJobCommand, Dead, redis
<1>31. ASSUME NEW w \in Workers, KillWorker(w) PROVE MembersOK'
  <2>1. \E k, h : After(w, "dead", k, h, {}, {})
    BY <1>31, LoopMoves, Labels DEF KillWorker
  <2> QED BY <1>31, <1>0, <2>1, MembersQuiet DEF KillWorker, redis
<1>32. ASSUME NEW w \in Workers, KillHost(w) PROVE MembersOK'
  <2>1. \E k, h, is : After(w, "dead", k, h, is, {})
    BY <1>32, FreshMoves, Labels DEF KillHost
  <2> QED BY <1>32, <1>0, <2>1, MembersQuiet DEF KillHost, Dead, redis
<1>33. ASSUME NEW w \in Workers, KillHorse(w) PROVE MembersOK'
  <2>1. \E k, h, is : After(w, worker[w].pc, k, h, is, worker[w].keys)
    BY <1>33, HorseEndsMoves, Labels DEF KillHorse
  <2> QED BY <1>33, <1>0, <2>1, MembersQuiet DEF KillHorse, Dead, redis
<1>34. ASSUME NEW w \in Workers, KillOverdue(w) PROVE MembersOK'
  <2>1. \E k, h, is : After(w, "reaped", k, h, is, worker[w].keys)
    BY <1>34, KillOverdueMoves DEF KillOverdue
  <2> QED BY <1>34, <1>0, <2>1, MembersQuiet DEF KillOverdue, Dead, redis
<1>35. ASSUME LockExpires PROVE MembersOK'
  BY <1>35, <1>0 DEF LockExpires, MembersOK, MemberOK, Alive
<1>36. ASSUME NEW j \in Jobs, MinutePasses(j) PROVE MembersOK'
  BY <1>36, <1>0 DEF MinutePasses, MembersOK, MemberOK, Alive
<1>37. ASSUME NEW j \in Jobs, JobExpires(j) PROVE MembersOK'
  BY <1>37, <1>0 DEF JobExpires, MembersOK, MemberOK, Alive
<1>38. ASSUME NEW w \in Workers, KeyExpires(w) PROVE MembersOK'
  <2>1. ~Alive(w)
    BY <1>38, <1>0 DEF KeyExpires, Spend, Ops
  <2>2. \A x \in Workers \ {w} : key'[x] = key[x]
    BY <1>38 DEF KeyExpires, Typed, TypeOK
  <2> QED BY <1>38, <1>0, <2>1, <2>2 DEF KeyExpires, MembersOK, MemberOK, Alive
<1>39. ASSUME NEW w \in Workers, NEW j \in Jobs, Expire(w, j) PROVE MembersOK'
  BY <1>39, <1>0 DEF Expire, MembersOK, MemberOK, Alive
<1>40. ASSUME Suspend PROVE MembersOK'
  BY <1>40, <1>0 DEF Suspend, MembersOK, MemberOK, Alive
<1>41. ASSUME Resume PROVE MembersOK'
  BY <1>41, <1>0 DEF Resume, MembersOK, MemberOK, Alive
<1>42. CASE UNCHANGED vars
  BY <1>42, <1>0 DEF vars, redis, MembersOK, MemberOK, Alive
<1> QED
  BY <1>1, <1>2, <1>3, <1>4, <1>5, <1>6, <1>7, <1>8, <1>9, <1>10, <1>11,
     <1>12, <1>13, <1>14, <1>15, <1>16, <1>17, <1>18, <1>19, <1>20, <1>21,
     <1>22, <1>23, <1>24, <1>25, <1>26, <1>27, <1>28, <1>29, <1>30, <1>31,
     <1>32, <1>33, <1>34, <1>35, <1>36, <1>37, <1>38, <1>39, <1>40, <1>41,
     <1>42
     DEF Next, ParentNext, HorseNext, DequeueNext, MaintenanceNext, SignalNext,
         TimeNext

\* clean_worker_registry leaves the workers alone whose heartbeats are in time,
\* for any number of workers, whatever else dies or is stopped.
THEOREM AliveAreRegistered ==
  ASSUME Budget["late"] = 0
  PROVE  Spec => []RegisteredWhileAlive
<1> DEFINE Inv == Typed /\ MembersOK /\ budget["late"] = 0
<1>1. Init => Inv
  <2> SUFFICES ASSUME Init PROVE Inv
    OBVIOUS
  <2>1. \A w \in Workers : worker[w] = Idle
    BY DEF Init
  <2>2. MembersOK
    BY <2>1 DEF Init, MembersOK, MemberOK, Alive, Dead, Idle
  <2> QED BY <2>2, TypedInit DEF Init
<1>2. Inv /\ [Next]_vars => Inv'
  <2> SUFFICES ASSUME Inv, [Next]_vars PROVE Inv'
    OBVIOUS
  <2>1. "late" \in Ops
    BY DEF Ops
  <2> QED BY <2>1, TypedNext, MembersNext, BudgetNext
<1>3. Inv => RegisteredWhileAlive
  BY DEF MembersOK, MemberOK, RegisteredWhileAlive
<1> QED BY <1>1, <1>2, <1>3, PTL DEF Spec

-----------------------------------------------------------------------------
(* No job is lost: what a worker does to its own place in the protocol.    *)

Looking == {"cleanStuck", "failStuck", "removeStuck"}
Forked(r) == r.horse \in {"forked", "ready"}

\* From r to s a worker takes up neither a cleanup nor a job.
Mild(r, s) ==
    /\ s.pc \in Cleaning => r.pc \in Cleaning
    /\ s.pc = "prepared" \/ Forked(s) =>
          s.job = r.job /\ (r.pc = "prepared" \/ Forked(r))
    /\ s.pc = "fetched" => r.pc = "fetched" /\ s.job = r.job
    /\ s.pc \in Looking => r.pc \in Looking /\ s.ids \subseteq r.ids
    /\ s.pc \in {"failStuck", "removeStuck"} => r.pc = s.pc /\ s.job = r.job

AllMild == \A x \in Workers : Mild(worker[x], worker'[x])

\* Time passes, and the workers stay as they are.
LEMMA SameIsMild ==
  ASSUME UNCHANGED worker
  PROVE  AllMild
  BY DEF AllMild, Mild

\* A step of one worker is mild, if it is for that worker.
LEMMA MildAfter ==
  ASSUME NEW w \in Workers, NEW l, NEW k, NEW h, NEW is, NEW ks,
         After(w, l, k, h, is, ks),
         l \in Cleaning => worker[w].pc \in Cleaning,
         l = "prepared" \/ h \in {"forked", "ready"} =>
             k = worker[w].job /\ (worker[w].pc = "prepared" \/ Forked(worker[w])),
         l = "fetched" => worker[w].pc = "fetched" /\ k = worker[w].job,
         l \in Looking => worker[w].pc \in Looking /\ is \subseteq worker[w].ids,
         l \in {"failStuck", "removeStuck"} => worker[w].pc = l /\ k = worker[w].job
  PROVE  AllMild
<1> SUFFICES ASSUME NEW x \in Workers PROVE Mild(worker[x], worker'[x])
  BY DEF AllMild
<1>1. CASE x = w
  BY <1>1 DEF After, Mild, Forked
<1>2. CASE x # w
  <2>1. worker'[x] = worker[x]
    BY <1>2 DEF After
  <2> QED BY <2>1 DEF Mild
<1> QED BY <1>1, <1>2

\* The steps that take up a job or a cleanup.
TakesUp ==
    \E w \in Workers :
       \/ PrepareExecution(w) \/ StartMaintenance(w) \/ Sweep(w) \/ FailStuck(w)
       \/ \E j \in Jobs : Dequeue(w, j) \/ InspectStuck(w, j)

\* The handlers that end something are mild.
LEMMA MildMoves ==
  ASSUME Typed, NEW w \in Workers,
         \/ HandleFailure(w) \/ PrepareJob(w) \/ HandleSuccess(w) \/ JobRaises(w)
         \/ JobReturnsRetry(w) \/ CleanStarted(w) \/ RemoveStuck(w) \/ EndMaintenance(w)
  PROVE  AllMild
<1>0. \A x \in Workers : Hand(worker[x])
  BY DEF Typed
<1>1. CASE HandleFailure(w)
  <2>1. After(w, "loop", NoJob, "none", worker[w].ids, worker[w].keys)
    BY <1>1, HandleFailureMoves DEF HandleFailure
  <2> QED BY <1>1, <1>0, <2>1, MildAfter DEF HandleFailure, Hand, Cleaning, Looking, Forked
<1>2. CASE PrepareJob(w)
  <2>1. After(w, worker[w].pc, worker[w].job, "running",
              worker[w].ids, worker[w].keys)
    BY <1>2, HorseMoves, Labels DEF PrepareJob
  <2> QED BY <1>2, <1>0, <2>1, MildAfter DEF PrepareJob, Hand, Cleaning, Looking, Forked
<1>3. CASE HandleSuccess(w)
  <2>1. After(w, worker[w].pc, worker[w].job, "committed",
              worker[w].ids, worker[w].keys)
    BY <1>3, HorseMoves, Labels DEF HandleSuccess, HorseDone
  <2> QED BY <1>3, <1>0, <2>1, MildAfter
             DEF HandleSuccess, HorseDone, Hand, Cleaning, Looking, Forked
<1>4. CASE JobRaises(w)
  <2>1. After(w, worker[w].pc, worker[w].job, "committed",
              worker[w].ids, worker[w].keys)
    BY <1>4, HorseMoves, Labels DEF JobRaises, HorseDone
  <2> QED BY <1>4, <1>0, <2>1, MildAfter DEF JobRaises, HorseDone, Hand, Cleaning, Looking, Forked
<1>5. CASE JobReturnsRetry(w)
  <2>1. After(w, worker[w].pc, worker[w].job, "committed",
              worker[w].ids, worker[w].keys)
    BY <1>5, HorseMoves, Labels DEF JobReturnsRetry, HorseDone
  <2> QED BY <1>5, <1>0, <2>1, MildAfter
             DEF JobReturnsRetry, HorseDone, Hand, Cleaning, Looking, Forked
<1>6. CASE CleanStarted(w)
  <2>1. After(w, "cleanWorkers", worker[w].job, worker[w].horse,
              {}, worker[w].keys)
    BY <1>6, CleanStartedMoves DEF CleanStarted
  <2> QED BY <1>6, <1>0, <2>1, MildAfter DEF CleanStarted, Hand, Cleaning, Looking, Forked
<1>7. CASE RemoveStuck(w)
  <2>1. After(w, "cleanStuck", NoJob, worker[w].horse,
              worker[w].ids, worker[w].keys)
    BY <1>7, RemoveStuckMoves DEF RemoveStuck
  <2> QED BY <1>7, <1>0, <2>1, MildAfter DEF RemoveStuck, Hand, Cleaning, Looking, Forked
<1>8. CASE EndMaintenance(w)
  <2>1. After(w, "idle", worker[w].job, worker[w].horse,
              worker[w].ids, worker[w].keys)
    BY <1>8, GotoMoves, Labels DEF EndMaintenance
  <2> QED BY <1>8, <1>0, <2>1, MildAfter DEF EndMaintenance, Hand, Cleaning, Looking, Forked
<1> QED BY <1>1, <1>2, <1>3, <1>4, <1>5, <1>6, <1>7, <1>8

\* A step is mild, or takes something up.
LEMMA MildNext ==
  ASSUME Typed, [Next]_vars
  PROVE  AllMild \/ TakesUp
<1> DEFINE Goal == AllMild \/ TakesUp
<1>0. \A x \in Workers : Hand(worker[x])
  BY DEF Typed
<1>1. ASSUME NEW w \in Workers, RegisterBirth(w) PROVE Goal
  <2>1. After(w, "loop", worker[w].job, worker[w].horse,
              worker[w].ids, worker[w].keys)
    BY <1>1, GotoMoves, Labels DEF RegisterBirth
  <2> QED BY <1>1, <1>0, <2>1, MildAfter DEF RegisterBirth, Hand, Cleaning, Looking, Forked
<1>2. ASSUME NEW w \in Workers, EnterLoop(w) PROVE Goal
  <2>1. \E l \in {"teardown", "idle"} :
           After(w, l, worker[w].job, worker[w].horse,
              worker[w].ids, worker[w].keys)
    BY <1>2, GotoMoves, Labels DEF EnterLoop
  <2> QED BY <1>2, <1>0, <2>1, MildAfter DEF EnterLoop, Hand, Cleaning, Looking, Forked
<1>3. ASSUME NEW w \in Workers, PrepareExecution(w) PROVE Goal
  BY <1>3 DEF TakesUp
<1>4. ASSUME NEW w \in Workers, ForkWorkHorse(w) PROVE Goal
  <2>1. After(w, "monitor", worker[w].job, "forked",
              worker[w].ids, worker[w].keys)
    BY <1>4, ForkWorkHorseMoves DEF ForkWorkHorse
  <2> QED BY <1>4, <1>0, <2>1, MildAfter DEF ForkWorkHorse, Hand, Cleaning, Looking, Forked
<1>5. ASSUME NEW w \in Workers, WaitForHorse(w) PROVE Goal
  <2>1. CASE Loop(w, "loop")
    <3>1. IF HorseAlive(w)
          THEN After(w, "loop", worker[w].job, worker[w].horse, {}, {})
          ELSE After(w, "loop", NoJob, "none", {}, {})
      BY <2>1, LoopMoves, Labels
    <3> QED BY <1>0, <3>1, MildAfter DEF HorseAlive, Hand, Cleaning, Looking, Forked
  <2>2. CASE Goto(w, "reaped")
    <3>1. After(w, "reaped", worker[w].job, worker[w].horse,
              worker[w].ids, worker[w].keys)
      BY <2>2, GotoMoves, Labels
    <3> QED BY <1>0, <3>1, MildAfter DEF Hand, Cleaning, Looking, Forked
  <2> QED BY <1>5, <2>1, <2>2 DEF WaitForHorse
<1>6. ASSUME NEW w \in Workers, JudgeStatus(w) PROVE Goal
  <2>1. CASE Loop(w, "loop")
    <3>1. IF HorseAlive(w)
          THEN After(w, "loop", worker[w].job, worker[w].horse, {}, {})
          ELSE After(w, "loop", NoJob, "none", {}, {})
      BY <2>1, LoopMoves, Labels
    <3> QED BY <1>0, <3>1, MildAfter DEF HorseAlive, Hand, Cleaning, Looking, Forked
  <2>2. CASE Goto(w, "handling")
    <3>1. After(w, "handling", worker[w].job, worker[w].horse,
              worker[w].ids, worker[w].keys)
      BY <2>2, GotoMoves, Labels
    <3> QED BY <1>0, <3>1, MildAfter DEF Hand, Cleaning, Looking, Forked
  <2> QED BY <1>6, <2>1, <2>2 DEF JudgeStatus
<1>7. ASSUME NEW w \in Workers, HandleFailure(w) PROVE Goal
  BY <1>7, MildMoves
<1>8. ASSUME NEW w \in Workers, RegisterDeath(w) PROVE Goal
  <2>1. IF HorseAlive(w)
        THEN After(w, "dead", worker[w].job, worker[w].horse, {}, {})
        ELSE After(w, "dead", NoJob, "none", {}, {})
    BY <1>8, LoopMoves, Labels DEF RegisterDeath
  <2> QED BY <1>0, <2>1, MildAfter DEF HorseAlive, Hand, Cleaning, Looking, Forked
<1>9. ASSUME NEW w \in Workers, ExecCommand(w) PROVE Goal
  <2>1. worker[w].pc \in PCs
    BY IsWorker DEF Worker
  <2>2. KillGroup(w, worker[w].pc)
    BY <1>9 DEF ExecCommand
  <2>3. IF Suicide(w)
          THEN After(w, "selfKilled", NoJob, "none", {}, {})
          ELSE After(w, worker[w].pc, worker[w].job,
                     IF HorseAlive(w) THEN "killed" ELSE worker[w].horse,
                     worker[w].ids, worker[w].keys)
    BY <2>1, <2>2, KillGroupMoves
  <2> QED BY <1>0, <2>3, MildAfter DEF HorseAlive, Hand, Cleaning, Looking, Forked
<1>10. ASSUME NEW w \in Workers, SetGroup(w) PROVE Goal
  <2>1. After(w, worker[w].pc, worker[w].job, "ready",
              worker[w].ids, worker[w].keys)
    BY <1>10, HorseMoves, Labels DEF SetGroup
  <2> QED BY <1>10, <1>0, <2>1, MildAfter DEF SetGroup, Hand, Cleaning, Looking, Forked
<1>11. ASSUME NEW w \in Workers, PrepareJob(w) PROVE Goal
  BY <1>11, MildMoves
<1>12. ASSUME NEW w \in Workers, HandleSuccess(w) PROVE Goal
  BY <1>12, MildMoves
<1>13. ASSUME NEW w \in Workers, JobRaises(w) PROVE Goal
  BY <1>13, MildMoves
<1>14. ASSUME NEW w \in Workers, JobReturnsRetry(w) PROVE Goal
  BY <1>14, MildMoves
<1>15. ASSUME NEW w \in Workers, HorseExits(w) PROVE Goal
  <2>1. IF worker[w].pc = "monitor"
        THEN After(w, worker[w].pc, worker[w].job, "exited", worker[w].ids, worker[w].keys)
        ELSE After(w, worker[w].pc, NoJob, "none", worker[w].ids, worker[w].keys)
    BY <1>15, HorseEndsMoves, Labels DEF HorseExits, HorseAlive
  <2> QED BY <1>15, <1>0, <2>1, MildAfter
             DEF HorseExits, HorseAlive, Hand, Cleaning, Looking, Forked
<1>16. ASSUME NEW w \in Workers, NEW j \in Jobs, Dequeue(w, j) PROVE Goal
  BY <1>16 DEF TakesUp
<1>17. ASSUME NEW w \in Workers, NEW j \in Jobs, DropId(w, j) PROVE Goal
  BY <1>17, SameIsMild DEF DropId
<1>18. ASSUME NEW w \in Workers, StartMaintenance(w) PROVE Goal
  BY <1>18 DEF TakesUp
<1>19. ASSUME NEW w \in Workers, CleanStarted(w) PROVE Goal
  BY <1>19, MildMoves
<1>20. ASSUME NEW w \in Workers, FindDeadWorkers(w) PROVE Goal
  <2>1. After(w, "sweep", worker[w].job, worker[w].horse,
              worker[w].ids, {v \in members : key[v] = "none"})
    BY <1>20, FindDeadWorkersMoves DEF FindDeadWorkers
  <2> QED BY <1>20, <1>0, <2>1, MildAfter DEF FindDeadWorkers, Hand, Cleaning, Looking, Forked
<1>21. ASSUME NEW w \in Workers, Sweep(w) PROVE Goal
  BY <1>21 DEF TakesUp
<1>22. ASSUME NEW w \in Workers, NEW j \in Jobs, InspectStuck(w, j) PROVE Goal
  BY <1>22 DEF TakesUp
<1>23. ASSUME NEW w \in Workers, FailStuck(w) PROVE Goal
  BY <1>23 DEF TakesUp
<1>24. ASSUME NEW w \in Workers, RemoveStuck(w) PROVE Goal
  BY <1>24, MildMoves
<1>25. ASSUME NEW w \in Workers, EndMaintenance(w) PROVE Goal
  BY <1>25, MildMoves
<1>26. ASSUME NEW w \in Workers, Heartbeat(w) PROVE Goal
  BY <1>26, SameIsMild DEF Heartbeat
<1>27. ASSUME NEW w \in Workers, RequestStop(w) PROVE Goal
  <2>1. CASE Loop(w, "teardown")
    <3>1. IF HorseAlive(w)
          THEN After(w, "teardown", worker[w].job, worker[w].horse, {}, {})
          ELSE After(w, "teardown", NoJob, "none", {}, {})
      BY <2>1, LoopMoves, Labels
    <3> QED BY <1>0, <3>1, MildAfter DEF HorseAlive, Hand, Cleaning, Looking, Forked
  <2>2. CASE Put(w, [worker[w] EXCEPT !.stop = TRUE])
    <3>1. After(w, worker[w].pc, worker[w].job, worker[w].horse,
              worker[w].ids, worker[w].keys)
      BY <2>2, StopMoves
    <3> QED BY <1>0, <3>1, MildAfter DEF Hand, Cleaning, Looking, Forked
  <2> QED BY <1>27, <2>1, <2>2 DEF RequestStop
<1>28. ASSUME NEW w \in Workers, RequestForceStop(w) PROVE Goal
  <2>1. CASE Loop(w, "teardown")
    <3>1. IF HorseAlive(w)
          THEN After(w, "teardown", worker[w].job, worker[w].horse, {}, {})
          ELSE After(w, "teardown", NoJob, "none", {}, {})
      BY <2>1, LoopMoves, Labels
    <3> QED BY <1>0, <3>1, MildAfter DEF HorseAlive, Hand, Cleaning, Looking, Forked
  <2>2. CASE KillGroup(w, "teardown")
    <3>1. IF Suicide(w)
          THEN After(w, "selfKilled", NoJob, "none", {}, {})
          ELSE After(w, "teardown", worker[w].job,
                     IF HorseAlive(w) THEN "killed" ELSE worker[w].horse,
                     worker[w].ids, worker[w].keys)
      BY <2>2, KillGroupMoves, Labels
    <3> QED BY <1>0, <3>1, MildAfter DEF HorseAlive, Hand, Cleaning, Looking, Forked
  <2> QED BY <1>28, <2>1, <2>2 DEF RequestForceStop
<1>29. ASSUME NEW w \in Workers, KillHorseCommand(w) PROVE Goal
  <2>1. After(w, worker[w].pc, worker[w].job, worker[w].horse,
              worker[w].ids, worker[w].keys)
    BY <1>29, KillHorseCommandMoves DEF KillHorseCommand
  <2> QED BY <1>29, <1>0, <2>1, MildAfter DEF KillHorseCommand, Hand, Cleaning, Looking, Forked
<1>30. ASSUME NEW w \in Workers, NEW j \in Jobs, StopJobCommand(w, j)
      PROVE  Goal
  <2>1. After(w, worker[w].pc, worker[w].job, worker[w].horse,
              worker[w].ids, worker[w].keys)
    BY <1>30, StopJobCommandMoves DEF StopJobCommand
  <2> QED BY <1>30, <1>0, <2>1, MildAfter DEF StopJobCommand, Hand, Cleaning, Looking, Forked
<1>31. ASSUME NEW w \in Workers, KillWorker(w) PROVE Goal
  <2>1. IF HorseAlive(w)
        THEN After(w, "dead", worker[w].job, worker[w].horse, {}, {})
        ELSE After(w, "dead", NoJob, "none", {}, {})
    BY <1>31, LoopMoves, Labels DEF KillWorker
  <2> QED BY <1>0, <2>1, MildAfter DEF HorseAlive, Hand, Cleaning, Looking, Forked
<1>32. ASSUME NEW w \in Workers, KillHost(w) PROVE Goal
  <2>1. After(w, "dead", NoJob, "none", {}, {})
    BY <1>32, FreshMoves, Labels DEF KillHost
  <2> QED BY <1>32, <1>0, <2>1, MildAfter DEF KillHost, Hand, Cleaning, Looking, Forked
<1>33. ASSUME NEW w \in Workers, KillHorse(w) PROVE Goal
  <2>1. IF worker[w].pc = "monitor"
        THEN After(w, worker[w].pc, worker[w].job, "killed", worker[w].ids, worker[w].keys)
        ELSE After(w, worker[w].pc, NoJob, "none", worker[w].ids, worker[w].keys)
    BY <1>33, HorseEndsMoves, Labels DEF KillHorse, HorseAlive
  <2> QED BY <1>33, <1>0, <2>1, MildAfter DEF KillHorse, HorseAlive, Hand, Cleaning, Looking, Forked
<1>34. ASSUME NEW w \in Workers, KillOverdue(w) PROVE Goal
  <2>1. After(w, "reaped", worker[w].job, "killed",
              worker[w].ids, worker[w].keys)
    BY <1>34, KillOverdueMoves DEF KillOverdue
  <2> QED BY <1>34, <1>0, <2>1, MildAfter DEF KillOverdue, Hand, Cleaning, Looking, Forked
<1>35. ASSUME LockExpires PROVE Goal
  BY <1>35, SameIsMild DEF LockExpires
<1>36. ASSUME NEW j \in Jobs, MinutePasses(j) PROVE Goal
  BY <1>36, SameIsMild DEF MinutePasses
<1>37. ASSUME NEW j \in Jobs, JobExpires(j) PROVE Goal
  BY <1>37, SameIsMild DEF JobExpires
<1>38. ASSUME NEW w \in Workers, KeyExpires(w) PROVE Goal
  BY <1>38, SameIsMild DEF KeyExpires
<1>39. ASSUME NEW w \in Workers, NEW j \in Jobs, Expire(w, j) PROVE Goal
  BY <1>39, SameIsMild DEF Expire
<1>40. ASSUME Suspend PROVE Goal
  BY <1>40, SameIsMild DEF Suspend
<1>41. ASSUME Resume PROVE Goal
  BY <1>41, SameIsMild DEF Resume
<1>42. CASE UNCHANGED vars
  BY <1>42, SameIsMild DEF vars
<1> QED
  BY <1>1, <1>2, <1>3, <1>4, <1>5, <1>6, <1>7, <1>8, <1>9, <1>10, <1>11,
     <1>12, <1>13, <1>14, <1>15, <1>16, <1>17, <1>18, <1>19, <1>20, <1>21,
     <1>22, <1>23, <1>24, <1>25, <1>26, <1>27, <1>28, <1>29, <1>30, <1>31,
     <1>32, <1>33, <1>34, <1>35, <1>36, <1>37, <1>38, <1>39, <1>40, <1>41,
     <1>42
     DEF Next, ParentNext, HorseNext, DequeueNext, MaintenanceNext, SignalNext,
         TimeNext

\* The steps that change what is known of the jobs, or the lock.
kept == <<hash, queue, inter, seen, execs, expired, lock, disputed>>

Disturbs ==
    \/ \E w \in Workers :
          \/ HandleFailure(w) \/ PrepareJob(w) \/ HandleSuccess(w) \/ JobRaises(w)
          \/ JobReturnsRetry(w) \/ PrepareExecution(w) \/ StartMaintenance(w)
          \/ CleanStarted(w) \/ FailStuck(w) \/ RemoveStuck(w) \/ EndMaintenance(w)
          \/ \E j \in Jobs : Dequeue(w, j) \/ DropId(w, j) \/ InspectStuck(w, j)
                             \/ Expire(w, j)
    \/ \E j \in Jobs : MinutePasses(j) \/ JobExpires(j)
    \/ LockExpires

\* A step leaves the jobs alone, or is one of those that are listed.
LEMMA KeptNext ==
  ASSUME [Next]_vars
  PROVE  UNCHANGED kept \/ Disturbs
<1> DEFINE Goal == UNCHANGED kept \/ Disturbs
<1>1. ASSUME NEW w \in Workers, RegisterBirth(w) PROVE Goal
  BY <1>1 DEF RegisterBirth, kept, redis
<1>2. ASSUME NEW w \in Workers, EnterLoop(w) PROVE Goal
  BY <1>2 DEF EnterLoop, kept, redis
<1>3. ASSUME NEW w \in Workers, PrepareExecution(w) PROVE Goal
  BY <1>3 DEF Disturbs
<1>4. ASSUME NEW w \in Workers, ForkWorkHorse(w) PROVE Goal
  BY <1>4 DEF ForkWorkHorse, kept, redis
<1>5. ASSUME NEW w \in Workers, WaitForHorse(w) PROVE Goal
  BY <1>5 DEF WaitForHorse, kept, redis
<1>6. ASSUME NEW w \in Workers, JudgeStatus(w) PROVE Goal
  BY <1>6 DEF JudgeStatus, kept, redis
<1>7. ASSUME NEW w \in Workers, HandleFailure(w) PROVE Goal
  BY <1>7 DEF Disturbs
<1>8. ASSUME NEW w \in Workers, RegisterDeath(w) PROVE Goal
  BY <1>8 DEF RegisterDeath, kept, redis
<1>9. ASSUME NEW w \in Workers, ExecCommand(w) PROVE Goal
  BY <1>9 DEF ExecCommand, kept, redis
<1>10. ASSUME NEW w \in Workers, SetGroup(w) PROVE Goal
  BY <1>10 DEF SetGroup, kept, redis
<1>11. ASSUME NEW w \in Workers, PrepareJob(w) PROVE Goal
  BY <1>11 DEF Disturbs
<1>12. ASSUME NEW w \in Workers, HandleSuccess(w) PROVE Goal
  BY <1>12 DEF Disturbs
<1>13. ASSUME NEW w \in Workers, JobRaises(w) PROVE Goal
  BY <1>13 DEF Disturbs
<1>14. ASSUME NEW w \in Workers, JobReturnsRetry(w) PROVE Goal
  BY <1>14 DEF Disturbs
<1>15. ASSUME NEW w \in Workers, HorseExits(w) PROVE Goal
  BY <1>15 DEF HorseExits, kept, redis
<1>16. ASSUME NEW w \in Workers, NEW j \in Jobs, Dequeue(w, j) PROVE Goal
  BY <1>16 DEF Disturbs
<1>17. ASSUME NEW w \in Workers, NEW j \in Jobs, DropId(w, j) PROVE Goal
  BY <1>17 DEF Disturbs
<1>18. ASSUME NEW w \in Workers, StartMaintenance(w) PROVE Goal
  BY <1>18 DEF Disturbs
<1>19. ASSUME NEW w \in Workers, CleanStarted(w) PROVE Goal
  BY <1>19 DEF Disturbs
<1>20. ASSUME NEW w \in Workers, FindDeadWorkers(w) PROVE Goal
  BY <1>20 DEF FindDeadWorkers, kept, redis
<1>21. ASSUME NEW w \in Workers, Sweep(w) PROVE Goal
  BY <1>21 DEF Sweep, kept, redis
<1>22. ASSUME NEW w \in Workers, NEW j \in Jobs, InspectStuck(w, j) PROVE Goal
  BY <1>22 DEF Disturbs
<1>23. ASSUME NEW w \in Workers, FailStuck(w) PROVE Goal
  BY <1>23 DEF Disturbs
<1>24. ASSUME NEW w \in Workers, RemoveStuck(w) PROVE Goal
  BY <1>24 DEF Disturbs
<1>25. ASSUME NEW w \in Workers, EndMaintenance(w) PROVE Goal
  BY <1>25 DEF Disturbs
<1>26. ASSUME NEW w \in Workers, Heartbeat(w) PROVE Goal
  BY <1>26 DEF Heartbeat, kept, redis
<1>27. ASSUME NEW w \in Workers, RequestStop(w) PROVE Goal
  BY <1>27 DEF RequestStop, kept, redis
<1>28. ASSUME NEW w \in Workers, RequestForceStop(w) PROVE Goal
  BY <1>28 DEF RequestForceStop, kept, redis
<1>29. ASSUME NEW w \in Workers, KillHorseCommand(w) PROVE Goal
  BY <1>29 DEF KillHorseCommand, kept, redis
<1>30. ASSUME NEW w \in Workers, NEW j \in Jobs, StopJobCommand(w, j)
      PROVE  Goal
  BY <1>30 DEF StopJobCommand, kept, redis
<1>31. ASSUME NEW w \in Workers, KillWorker(w) PROVE Goal
  BY <1>31 DEF KillWorker, kept, redis
<1>32. ASSUME NEW w \in Workers, KillHost(w) PROVE Goal
  BY <1>32 DEF KillHost, kept, redis
<1>33. ASSUME NEW w \in Workers, KillHorse(w) PROVE Goal
  BY <1>33 DEF KillHorse, kept, redis
<1>34. ASSUME NEW w \in Workers, KillOverdue(w) PROVE Goal
  BY <1>34 DEF KillOverdue, kept, redis
<1>35. ASSUME LockExpires PROVE Goal
  BY <1>35 DEF Disturbs
<1>36. ASSUME NEW j \in Jobs, MinutePasses(j) PROVE Goal
  BY <1>36 DEF Disturbs
<1>37. ASSUME NEW j \in Jobs, JobExpires(j) PROVE Goal
  BY <1>37 DEF Disturbs
<1>38. ASSUME NEW w \in Workers, KeyExpires(w) PROVE Goal
  BY <1>38 DEF KeyExpires, kept, redis
<1>39. ASSUME NEW w \in Workers, NEW j \in Jobs, Expire(w, j) PROVE Goal
  BY <1>39 DEF Disturbs
<1>40. ASSUME Suspend PROVE Goal
  BY <1>40 DEF Suspend, kept, redis
<1>41. ASSUME Resume PROVE Goal
  BY <1>41 DEF Resume, kept, redis
<1>42. CASE UNCHANGED vars
  BY <1>42 DEF vars, kept, redis
<1> QED
  BY <1>1, <1>2, <1>3, <1>4, <1>5, <1>6, <1>7, <1>8, <1>9, <1>10, <1>11,
     <1>12, <1>13, <1>14, <1>15, <1>16, <1>17, <1>18, <1>19, <1>20, <1>21,
     <1>22, <1>23, <1>24, <1>25, <1>26, <1>27, <1>28, <1>29, <1>30, <1>31,
     <1>32, <1>33, <1>34, <1>35, <1>36, <1>37, <1>38, <1>39, <1>40, <1>41,
     <1>42
     DEF Next, ParentNext, HorseNext, DequeueNext, MaintenanceNext, SignalNext,
         TimeNext

-----------------------------------------------------------------------------
(* No job is lost: the invariant.                                          *)

\* Under the lock there is one cleanup at a time.
OneCleaner ==
    \A x \in Workers : worker[x].pc \in Cleaning =>
        /\ lock
        /\ \A y \in Workers : worker[y].pc \in Cleaning => y = x

\* The execution is registered from prepare_execution to the start of the job.
Registers(r) == r.pc = "prepared" \/ Forked(r)
ExecutionsOK ==
    \A x \in Workers : Registers(worker[x]) => <<x, worker[x].job>> \in execs

\* The entry that a cleanup takes for stuck is not that of a worker that is just
\* starting the job, if it is not disputed: each of these has an entry of its own.
Handles(r, j) == r.pc \in {"failStuck", "removeStuck"} /\ r.job = j
Suspects(r, j, d) == Handles(r, j) /\ j \notin d
StuckOK ==
    \A x \in Workers, j \in Jobs :
        /\ Suspects(worker[x], j, disputed) => inter[j] > Cardinality(Starters(j))
        /\ Handles(worker[x], j) => j \notin worker[x].ids

\* Where a job is that has not ended and is not disputed.  A cleanup that has given it back is
\* about to remove one entry, and that is not the last.
Held(j) == \E e \in execs \cup expired : e[2] = j
Removes(j) == \E x \in Workers : worker[x].pc = "removeStuck" /\ worker[x].job = j
PlaceOK(j) ==
    j \notin disputed /\ hash[j].status \notin Ended =>
        /\ queue[j] + inter[j] > 0 \/ Held(j)
        /\ Removes(j) => queue[j] + inter[j] > 1 \/ Held(j)
PlacesOK == \A j \in Jobs : PlaceOK(j)

Punctual == budget["delay"] = 0

\* retries_left only falls, and a process has read what it was.
CopyOK(r) == r.job \in Jobs => r.copy.left =< Retries[r.job]
LeftOK ==
    /\ \A j \in Jobs : hash[j].left =< Retries[j]
    /\ \A x \in Workers : CopyOK(worker[x])

\* A cleanup has j in its list of the intermediate queue.
Listed(j) == \E x \in Workers : worker[x].pc \in Looking /\ j \in worker[x].ids

\* A job that no retry has put back in the queue has one entry, which is in the
\* queue until the first worker takes it.  When its first_seen key is old, no worker
\* starts it any more, and what a cleanup has listed is what a dead worker has left.
FreshOK(j) ==
    ~Retried(j) =>
        /\ j \notin disputed
        /\ queue[j] + inter[j] =< 1
        /\ seen[j] # "none" \/ Listed(j) => queue[j] = 0
        /\ seen[j] = "old" => Starters(j) = {} /\ (Listed(j) => inter[j] > 0)
AllFresh == \A j \in Jobs : FreshOK(j)

Safe == OneCleaner /\ ExecutionsOK /\ StuckOK /\ PlacesOK /\ LeftOK /\ AllFresh

-----------------------------------------------------------------------------
(* The mild steps.                                                         *)

\* Without a new cleanup there is still one at most.
LEMMA MildCleaner ==
  ASSUME OneCleaner, AllMild, UNCHANGED lock
  PROVE  OneCleaner'
  BY DEF OneCleaner, AllMild, Mild

\* The executions of the workers that need them stay.
LEMMA MildExecutions ==
  ASSUME ExecutionsOK, AllMild,
         \A x \in Workers : Registers(worker'[x]) =>
             \A j : <<x, j>> \in execs => <<x, j>> \in execs'
  PROVE  ExecutionsOK'
  BY DEF ExecutionsOK, AllMild, Mild, Registers

\* Starters, of the state of one worker.
Starts(r, j) == r.job = j /\ (r.pc \in {"fetched", "prepared"} \/ Forked(r))

\* The workers that start j can be counted.
LEMMA StartersFinite ==
  ASSUME IsFiniteSet(Workers), NEW j \in Jobs
  PROVE  /\ IsFiniteSet(Starters(j)) /\ Cardinality(Starters(j)) \in Nat
         /\ Starters(j) = {x \in Workers : Starts(worker[x], j)}
<1>1. Starters(j) \subseteq Workers
  BY DEF Starters
<1>2. Starters(j) = {x \in Workers : Starts(worker[x], j)}
  BY DEF Starters, Starts, Forked
<1> QED BY <1>1, <1>2, FS_Subset, FS_CardinalityType

\* There are no more workers that start j than before.
LEMMA MildStarters ==
  ASSUME IsFiniteSet(Workers), NEW j \in Jobs,
         \A x \in Workers : Starts(worker'[x], j) => Starts(worker[x], j)
  PROVE  /\ Cardinality(Starters(j)') \in Nat
         /\ Cardinality(Starters(j)') =< Cardinality(Starters(j))
<1>1. Starters(j)' \subseteq Starters(j)
  BY DEF Starters, Starts, Forked
<1> QED BY <1>1, StartersFinite, FS_Subset, FS_CardinalityType

\* A mild step starts no job.
LEMMA MildStarts ==
  ASSUME AllMild, NEW x \in Workers, NEW j
  PROVE  Starts(worker'[x], j) => Starts(worker[x], j)
  BY DEF AllMild, Mild, Starts

\* A mild step suspects no entry.
LEMMA MildSuspects ==
  ASSUME AllMild, NEW x \in Workers, NEW j, NEW d
  PROVE  /\ Suspects(worker'[x], j, d) => Suspects(worker[x], j, d)
         /\ Handles(worker'[x], j) => Handles(worker[x], j)
         /\ worker'[x].pc \in Looking => worker'[x].ids \subseteq worker[x].ids
  BY DEF AllMild, Mild, Suspects, Handles, Looking

\* Nothing is suspected, no job is started, and no entry of a suspect is taken.
LEMMA StuckKept ==
  ASSUME IsFiniteSet(Workers), Typed, StuckOK, inter' \in [Jobs -> Nat],
         \A x \in Workers, j \in Jobs : Starts(worker'[x], j) => Starts(worker[x], j),
         \A x \in Workers, j \in Jobs : Suspects(worker'[x], j, disputed') =>
             Suspects(worker[x], j, disputed) /\ inter'[j] >= inter[j],
         \A x \in Workers, j \in Jobs : Handles(worker'[x], j) => j \notin worker'[x].ids
  PROVE  StuckOK'
<1> SUFFICES ASSUME NEW x \in Workers, NEW j \in Jobs,
                    Suspects(worker'[x], j, disputed')
             PROVE  inter'[j] > Cardinality(Starters(j)')
  BY DEF StuckOK
<1>1. Suspects(worker[x], j, disputed) /\ inter'[j] >= inter[j]
  OBVIOUS
<1>2. inter[j] > Cardinality(Starters(j))
  BY <1>1 DEF StuckOK
<1>3. inter[j] \in Nat /\ inter'[j] \in Nat
  BY DEF Typed, TypeOK
<1>4. /\ Cardinality(Starters(j)') \in Nat /\ Cardinality(Starters(j)) \in Nat
      /\ Cardinality(Starters(j)') =< Cardinality(Starters(j))
  BY MildStarters, StartersFinite
<1> QED BY <1>1, <1>2, <1>3, <1>4

\* A mild step that takes no entry from the intermediate queue.
LEMMA MildStuck ==
  ASSUME IsFiniteSet(Workers), Typed, StuckOK, AllMild, UNCHANGED <<inter, disputed>>
  PROVE  StuckOK'
<1>1. inter' \in [Jobs -> Nat] /\ \A j \in Jobs : inter'[j] >= inter[j]
  BY DEF Typed, TypeOK
<1>2. ASSUME NEW x \in Workers, NEW j \in Jobs
      PROVE  /\ Starts(worker'[x], j) => Starts(worker[x], j)
             /\ Suspects(worker'[x], j, disputed') => Suspects(worker[x], j, disputed)
             /\ Handles(worker'[x], j) => j \notin worker'[x].ids
  <2>1. Handles(worker[x], j) => j \notin worker[x].ids
    BY DEF StuckOK
  <2>2. Handles(worker'[x], j) => j \notin worker'[x].ids
    BY <2>1, MildSuspects DEF Handles, Looking
  <2> QED BY <2>2, MildStarts, MildSuspects
<1> QED BY <1>1, <1>2, StuckKept

\* Nobody is about to remove an entry of j who was not before.
LEMMA MildRemoves ==
  ASSUME AllMild, NEW j
  PROVE  Removes(j)' => Removes(j)
  BY DEF AllMild, Mild, Removes

\* The entry that a cleanup is about to remove is there, unless the job is disputed.
LEMMA HandledHasEntry ==
  ASSUME IsFiniteSet(Workers), Typed, StuckOK, NEW j \in Jobs, NEW x \in Workers,
         Suspects(worker[x], j, disputed)
  PROVE  inter[j] > 0
<1>1. inter[j] > Cardinality(Starters(j)) /\ Cardinality(Starters(j)) \in Nat
  BY StartersFinite DEF StuckOK
<1>2. inter[j] \in Nat
  BY DEF Typed, TypeOK
<1> QED BY <1>1, <1>2

-----------------------------------------------------------------------------
(* No job is lost: the steps.                                              *)

\* Every handler keeps OneCleaner, if the lock outlives the cleanup.
LEMMA CleanerNext ==
  ASSUME Typed, Punctual, OneCleaner, [Next]_vars
  PROVE  OneCleaner'
<1>1. ASSUME NEW w \in Workers, HandleFailure(w) PROVE OneCleaner'
  BY <1>1, MildMoves, MildCleaner DEF HandleFailure
<1>2. ASSUME NEW w \in Workers, PrepareJob(w) PROVE OneCleaner'
  BY <1>2, MildMoves, MildCleaner DEF PrepareJob
<1>3. ASSUME NEW w \in Workers, HandleSuccess(w) PROVE OneCleaner'
  BY <1>3, MildMoves, MildCleaner DEF HandleSuccess
<1>4. ASSUME NEW w \in Workers, JobRaises(w) PROVE OneCleaner'
  BY <1>4, MildMoves, MildCleaner DEF JobRaises
<1>5. ASSUME NEW w \in Workers, JobReturnsRetry(w) PROVE OneCleaner'
  BY <1>5, MildMoves, MildCleaner DEF JobReturnsRetry
<1>6. ASSUME NEW w \in Workers, PrepareExecution(w) PROVE OneCleaner'
  <2>1. \A x \in Workers : worker'[x].pc \in Cleaning => worker[x].pc \in Cleaning
    BY <1>6, GotoMoves, Labels DEF PrepareExecution, After, Cleaning
  <2> QED BY <1>6, <2>1 DEF PrepareExecution, OneCleaner
<1>7. ASSUME NEW w \in Workers, StartMaintenance(w) PROVE OneCleaner'
  <2>1. \E is : After(w, "cleanStarted", worker[w].job, worker[w].horse, is,
                     worker[w].keys)
    BY <1>7, StartMaintenanceMoves
  <2>2. lock' = TRUE /\ \A x \in Workers : worker[x].pc \notin Cleaning
    BY <1>7 DEF StartMaintenance, OneCleaner
  <2>3. \A x \in Workers : worker'[x].pc \in Cleaning => x = w
    BY <2>1, <2>2 DEF After
  <2> QED BY <2>2, <2>3 DEF OneCleaner
<1>8. ASSUME NEW w \in Workers, CleanStarted(w) PROVE OneCleaner'
  BY <1>8, MildMoves, MildCleaner DEF CleanStarted
<1>9. ASSUME NEW w \in Workers, FailStuck(w) PROVE OneCleaner'
  <2>1. \A x \in Workers : worker'[x].pc \in Cleaning => worker[x].pc \in Cleaning
    BY <1>9, FailStuckMoves DEF FailStuck, After, Cleaning
  <2> QED BY <1>9, <2>1 DEF FailStuck, OneCleaner
<1>10. ASSUME NEW w \in Workers, RemoveStuck(w) PROVE OneCleaner'
  BY <1>10, MildMoves, MildCleaner DEF RemoveStuck
<1>11. ASSUME NEW w \in Workers, EndMaintenance(w) PROVE OneCleaner'
  <2>1. After(w, "idle", worker[w].job, worker[w].horse, worker[w].ids,
              worker[w].keys)
    BY <1>11, GotoMoves, Labels DEF EndMaintenance
  <2>2. worker[w].pc \in Cleaning
    BY <1>11 DEF EndMaintenance, Cleaning
  <2>3. \A x \in Workers : worker'[x].pc \notin Cleaning
    BY <2>1, <2>2 DEF After, OneCleaner, Cleaning
  <2> QED BY <2>3 DEF OneCleaner
<1>12. ASSUME NEW w \in Workers, NEW j \in Jobs, Dequeue(w, j)
      PROVE  OneCleaner'
  <2>1. \A x \in Workers : worker'[x].pc \in Cleaning => worker[x].pc \in Cleaning
    BY <1>12, DequeueMoves DEF Dequeue, After, Cleaning
  <2> QED BY <1>12, <2>1 DEF Dequeue, OneCleaner
<1>13. ASSUME NEW w \in Workers, NEW j \in Jobs, DropId(w, j)
      PROVE  OneCleaner'
  BY <1>13, SameIsMild, MildCleaner DEF DropId
<1>14. ASSUME NEW w \in Workers, NEW j \in Jobs, InspectStuck(w, j)
      PROVE  OneCleaner'
  <2>1. worker[w].pc \in Cleaning
    BY <1>14 DEF InspectStuck, Cleaning
  <2>2. \A x \in Workers \ {w} : worker'[x] = worker[x]
    BY <1>14, InspectStuckMoves DEF After
  <2> QED BY <1>14, <2>1, <2>2 DEF InspectStuck, OneCleaner
<1>15. ASSUME NEW w \in Workers, NEW j \in Jobs, Expire(w, j)
      PROVE  OneCleaner'
  BY <1>15, SameIsMild, MildCleaner DEF Expire
<1>16. ASSUME NEW j \in Jobs, MinutePasses(j) PROVE OneCleaner'
  BY <1>16, SameIsMild, MildCleaner DEF MinutePasses
<1>17. ASSUME NEW j \in Jobs, JobExpires(j) PROVE OneCleaner'
  BY <1>17, SameIsMild, MildCleaner DEF JobExpires
<1>18. ASSUME LockExpires PROVE OneCleaner'
  <2>1. \A x \in Workers : worker[x].pc \notin Cleaning
    BY <1>18 DEF LockExpires, Spend, Punctual
  <2> QED BY <1>18, <2>1 DEF LockExpires, OneCleaner
<1>19. ASSUME NEW w \in Workers, Sweep(w) PROVE OneCleaner'
  <2>1. \A x \in Workers : worker'[x].pc \in Cleaning => worker[x].pc \in Cleaning
    BY <1>19, SweepMoves DEF Sweep, After, Cleaning
  <2> QED BY <1>19, <2>1 DEF Sweep, OneCleaner
<1>20. CASE UNCHANGED kept /\ AllMild
  BY <1>20, MildCleaner DEF kept
<1> QED
  BY <1>1, <1>2, <1>3, <1>4, <1>5, <1>6, <1>7, <1>8, <1>9, <1>10, <1>11,
     <1>12, <1>13, <1>14, <1>15, <1>16, <1>17, <1>18, <1>19, <1>20, MildNext,
     KeptNext DEF Disturbs, TakesUp

\* Every handler keeps ExecutionsOK.
LEMMA ExecutionsNext ==
  ASSUME Typed, ExecutionsOK, [Next]_vars
  PROVE  ExecutionsOK'
<1>0. \A x \in Workers : Hand(worker[x])
  BY DEF Typed
<1>1. ASSUME NEW w \in Workers, HandleFailure(w) PROVE ExecutionsOK'
  <2>1. CleanupExecution(w, worker[w].job)
    BY <1>1 DEF HandleFailure, JobFailure
  <2>2. ~Registers(worker'[w])
    BY <1>1, <1>0, HandleFailureMoves DEF HandleFailure, After, Registers, Forked, Hand
  <2>3. \A x \in Workers : Registers(worker'[x]) =>
            \A j : <<x, j>> \in execs => <<x, j>> \in execs'
    BY <2>1, <2>2 DEF CleanupExecution
  <2> QED BY <1>1, <2>3, MildMoves, MildExecutions
<1>2. ASSUME NEW w \in Workers, PrepareJob(w) PROVE ExecutionsOK'
  BY <1>2, MildMoves, MildExecutions DEF PrepareJob
<1>3. ASSUME NEW w \in Workers, HandleSuccess(w) PROVE ExecutionsOK'
  <2>1. CleanupExecution(w, worker[w].job)
    BY <1>3 DEF HandleSuccess
  <2>2. ~Registers(worker'[w])
    BY <1>3, <1>0, HorseMoves, Labels DEF HandleSuccess, HorseDone, After, Registers, Forked, Hand
  <2>3. \A x \in Workers : Registers(worker'[x]) =>
            \A j : <<x, j>> \in execs => <<x, j>> \in execs'
    BY <2>1, <2>2 DEF CleanupExecution
  <2> QED BY <1>3, <2>3, MildMoves, MildExecutions
<1>4. ASSUME NEW w \in Workers, JobRaises(w) PROVE ExecutionsOK'
  <2>1. CleanupExecution(w, worker[w].job)
    BY <1>4 DEF JobRaises, JobFailure
  <2>2. ~Registers(worker'[w])
    BY <1>4, <1>0, HorseMoves, Labels DEF JobRaises, HorseDone, After, Registers, Forked, Hand
  <2>3. \A x \in Workers : Registers(worker'[x]) =>
            \A j : <<x, j>> \in execs => <<x, j>> \in execs'
    BY <2>1, <2>2 DEF CleanupExecution
  <2> QED BY <1>4, <2>3, MildMoves, MildExecutions
<1>5. ASSUME NEW w \in Workers, JobReturnsRetry(w) PROVE ExecutionsOK'
  <2>1. CleanupExecution(w, worker[w].job)
    BY <1>5 DEF JobReturnsRetry
  <2>2. ~Registers(worker'[w])
    BY <1>5, <1>0, HorseMoves, Labels DEF JobReturnsRetry, HorseDone, After, Registers, Forked, Hand
  <2>3. \A x \in Workers : Registers(worker'[x]) =>
            \A j : <<x, j>> \in execs => <<x, j>> \in execs'
    BY <2>1, <2>2 DEF CleanupExecution
  <2> QED BY <1>5, <2>3, MildMoves, MildExecutions
<1>6. ASSUME NEW w \in Workers, PrepareExecution(w) PROVE ExecutionsOK'
  <2>1. After(w, "prepared", worker[w].job, worker[w].horse, worker[w].ids,
              worker[w].keys)
    BY <1>6, GotoMoves, Labels DEF PrepareExecution
  <2>2. execs' = execs \cup {<<w, worker[w].job>>}
    BY <1>6 DEF PrepareExecution
  <2>3. ASSUME NEW x \in Workers, Registers(worker'[x])
        PROVE  <<x, worker'[x].job>> \in execs'
    <3>1. CASE x = w
      BY <2>1, <2>2, <3>1 DEF After
    <3>2. CASE x # w
      BY <2>1, <2>2, <2>3, <3>2 DEF After, ExecutionsOK
    <3> QED BY <3>1, <3>2
  <2> QED BY <2>3 DEF ExecutionsOK
<1>7. ASSUME NEW w \in Workers, StartMaintenance(w) PROVE ExecutionsOK'
  <2>1. ~Registers(worker'[w]) /\ \A x \in Workers \ {w} : worker'[x] = worker[x]
    BY <1>7, <1>0, StartMaintenanceMoves DEF StartMaintenance, After, Registers, Forked, Hand
  <2>2. ASSUME NEW x \in Workers, Registers(worker'[x])
        PROVE  <<x, worker'[x].job>> \in execs'
    BY <1>7, <2>1, <2>2 DEF StartMaintenance, ExecutionsOK
  <2> QED BY <2>2 DEF ExecutionsOK
<1>8. ASSUME NEW w \in Workers, CleanStarted(w) PROVE ExecutionsOK'
  BY <1>8, MildMoves, MildExecutions DEF CleanStarted
<1>9. ASSUME NEW w \in Workers, FailStuck(w) PROVE ExecutionsOK'
  <2>1. CleanupExecution(w, worker[w].job)
    BY <1>9 DEF FailStuck, JobFailure
  <2>2. ~Registers(worker'[w]) /\ \A x \in Workers \ {w} : worker'[x] = worker[x]
    BY <1>9, <1>0, FailStuckMoves DEF FailStuck, After, Registers, Forked, Hand
  <2>3. ASSUME NEW x \in Workers, Registers(worker'[x])
        PROVE  <<x, worker'[x].job>> \in execs'
    <3>1. x # w /\ worker'[x] = worker[x] /\ <<x, worker[x].job>> \in execs
      BY <2>2, <2>3 DEF ExecutionsOK
    <3> QED BY <2>1, <3>1 DEF CleanupExecution
  <2> QED BY <2>3 DEF ExecutionsOK
<1>10. ASSUME NEW w \in Workers, RemoveStuck(w) PROVE ExecutionsOK'
  BY <1>10, MildMoves, MildExecutions DEF RemoveStuck
<1>11. ASSUME NEW w \in Workers, EndMaintenance(w) PROVE ExecutionsOK'
  BY <1>11, MildMoves, MildExecutions DEF EndMaintenance
<1>12. ASSUME NEW w \in Workers, NEW j \in Jobs, Dequeue(w, j)
      PROVE  ExecutionsOK'
  <2>1. ~Registers(worker'[w]) /\ \A x \in Workers \ {w} : worker'[x] = worker[x]
    BY <1>12, <1>0, DequeueMoves DEF Dequeue, After, Registers, Forked, Hand
  <2>2. ASSUME NEW x \in Workers, Registers(worker'[x])
        PROVE  <<x, worker'[x].job>> \in execs'
    BY <1>12, <2>1, <2>2 DEF Dequeue, ExecutionsOK
  <2> QED BY <2>2 DEF ExecutionsOK
<1>13. ASSUME NEW w \in Workers, NEW j \in Jobs, DropId(w, j)
      PROVE  ExecutionsOK'
  BY <1>13, SameIsMild, MildExecutions DEF DropId
<1>14. ASSUME NEW w \in Workers, NEW j \in Jobs, InspectStuck(w, j)
      PROVE  ExecutionsOK'
  <2>1. ~Registers(worker'[w]) /\ \A x \in Workers \ {w} : worker'[x] = worker[x]
    BY <1>14, <1>0, InspectStuckMoves DEF InspectStuck, After, Registers, Forked, Hand
  <2>2. ASSUME NEW x \in Workers, Registers(worker'[x])
        PROVE  <<x, worker'[x].job>> \in execs'
    BY <1>14, <2>1, <2>2 DEF InspectStuck, ExecutionsOK
  <2> QED BY <2>2 DEF ExecutionsOK
<1>15. ASSUME NEW w \in Workers, NEW j \in Jobs, Expire(w, j)
      PROVE  ExecutionsOK'
  <2>1. ~Registers(worker[w]) /\ UNCHANGED worker
    BY <1>15 DEF Expire, Registers, Forked, Busy
  <2>2. \A x \in Workers : Registers(worker'[x]) =>
            \A k : <<x, k>> \in execs => <<x, k>> \in execs'
    BY <1>15, <2>1 DEF Expire
  <2> QED BY <2>1, <2>2, SameIsMild, MildExecutions
<1>16. ASSUME NEW j \in Jobs, MinutePasses(j) PROVE ExecutionsOK'
  BY <1>16, SameIsMild, MildExecutions DEF MinutePasses
<1>17. ASSUME NEW j \in Jobs, JobExpires(j) PROVE ExecutionsOK'
  BY <1>17, SameIsMild, MildExecutions DEF JobExpires
<1>18. ASSUME LockExpires PROVE ExecutionsOK'
  BY <1>18, SameIsMild, MildExecutions DEF LockExpires
<1>19. ASSUME NEW w \in Workers, Sweep(w) PROVE ExecutionsOK'
  <2>1. ~Registers(worker'[w]) /\ \A x \in Workers \ {w} : worker'[x] = worker[x]
    BY <1>19, <1>0, SweepMoves DEF Sweep, After, Registers, Forked, Hand
  <2>2. ASSUME NEW x \in Workers, Registers(worker'[x])
        PROVE  <<x, worker'[x].job>> \in execs'
    BY <1>19, <2>1, <2>2 DEF Sweep, ExecutionsOK
  <2> QED BY <2>2 DEF ExecutionsOK
<1>20. CASE UNCHANGED kept /\ AllMild
  BY <1>20, MildExecutions DEF kept
<1> QED
  BY <1>1, <1>2, <1>3, <1>4, <1>5, <1>6, <1>7, <1>8, <1>9, <1>10, <1>11,
     <1>12, <1>13, <1>14, <1>15, <1>16, <1>17, <1>18, <1>19, <1>20, MildNext,
     KeptNext DEF Disturbs, TakesUp

\* Every handler keeps StuckOK: LMOVE and LREM move both sides by one.
LEMMA StuckNext ==
  ASSUME IsFiniteSet(Workers), Intermediate, Typed, Punctual, OneCleaner, StuckOK,
         inter' \in [Jobs -> Nat], [Next]_vars
  PROVE  StuckOK'
<1>0. /\ \A x \in Workers : Hand(worker[x])
      /\ inter \in [Jobs -> Nat] /\ inter' \in [Jobs -> Nat]
      /\ IsFiniteSet(Workers) /\ Intermediate
  BY DEF Typed, TypeOK
<1>1. ASSUME NEW w \in Workers, HandleFailure(w) PROVE StuckOK'
  BY <1>1, <1>0, MildMoves, MildStuck DEF HandleFailure
<1>2. ASSUME NEW w \in Workers, PrepareJob(w) PROVE StuckOK'
  <2>1. After(w, worker[w].pc, worker[w].job, "running", worker[w].ids, worker[w].keys)
    BY <1>2, HorseMoves, Labels DEF PrepareJob
  <2>2. /\ UNCHANGED disputed /\ worker[w].horse = "ready"
        /\ inter' = [inter EXCEPT ![worker[w].job] = IF Intermediate /\ @ > 0
                                                     THEN @ - 1 ELSE @]
    BY <1>2 DEF PrepareJob
  <2>3. worker[w].job \in Jobs /\ worker[w].pc \in {"monitor", "dead"}
    BY <1>0, <2>2 DEF Hand
  <2>4. AllMild
    BY <1>2, MildMoves
  <2>5. ASSUME NEW k \in Jobs
        PROVE  /\ Cardinality(Starters(k)') - inter'[k] =< Cardinality(Starters(k)) - inter[k]
               /\ Cardinality(Starters(k)') \in Nat
    <3>1. CASE k # worker[w].job
      <4>1. Cardinality(Starters(k)') =< Cardinality(Starters(k))
            /\ Cardinality(Starters(k)') \in Nat
        BY <1>0, <2>4, MildStarts, MildStarters
      <4> QED BY <1>0, <2>2, <3>1, <4>1, StartersFinite
    <3>2. CASE k = worker[w].job
      <4>1. Starters(k)' \subseteq Starters(k) \ {w} /\ w \in Starters(k)
        <5>1. ~Starts(worker'[w], k) /\ Starts(worker[w], k)
          BY <2>1, <2>2, <2>3, <3>2 DEF After, Starts, Forked
        <5> QED BY <1>0, <2>4, <5>1, MildStarts DEF Starters, Starts, Forked
      <4>2. IsFiniteSet(Starters(k)) /\ Cardinality(Starters(k)) \in Nat
        BY <1>0, StartersFinite
      <4>3. IsFiniteSet(Starters(k) \ {w})
            /\ Cardinality(Starters(k) \ {w}) = Cardinality(Starters(k)) - 1
        BY <4>1, <4>2, FS_RemoveElement
      <4>4. /\ Cardinality(Starters(k)') =< Cardinality(Starters(k) \ {w})
            /\ Cardinality(Starters(k)') \in Nat
        BY <4>1, <4>3, FS_Subset, FS_CardinalityType
      <4>5. inter[k] \in Nat /\ inter'[k] \in Nat /\ inter'[k] >= inter[k] - 1
        BY <1>0, <2>2, <3>2
      <4> QED BY <4>2, <4>3, <4>4, <4>5
    <3> QED BY <3>1, <3>2
  <2>6. ASSUME NEW x \in Workers, NEW k \in Jobs
        PROVE  /\ Suspects(worker'[x], k, disputed') => inter'[k] > Cardinality(Starters(k)')
               /\ Handles(worker'[x], k) => k \notin worker'[x].ids
    <3>1. inter[k] \in Nat /\ inter'[k] \in Nat /\ Cardinality(Starters(k)) \in Nat
      BY <1>0, StartersFinite
    <3>2. /\ Suspects(worker'[x], k, disputed) => Suspects(worker[x], k, disputed)
          /\ Handles(worker'[x], k) => Handles(worker[x], k)
      BY <2>4, MildSuspects
    <3>3. worker'[x].ids = worker[x].ids
      BY <2>1 DEF After
    <3> QED BY <2>2, <2>5, <3>1, <3>2, <3>3 DEF StuckOK
  <2> QED BY <2>6 DEF StuckOK
<1>3. ASSUME NEW w \in Workers, HandleSuccess(w) PROVE StuckOK'
  BY <1>3, <1>0, MildMoves, MildStuck DEF HandleSuccess
<1>4. ASSUME NEW w \in Workers, JobRaises(w) PROVE StuckOK'
  BY <1>4, <1>0, MildMoves, MildStuck DEF JobRaises
<1>5. ASSUME NEW w \in Workers, JobReturnsRetry(w) PROVE StuckOK'
  BY <1>5, <1>0, MildMoves, MildStuck DEF JobReturnsRetry
<1>6. ASSUME NEW w \in Workers, PrepareExecution(w) PROVE StuckOK'
  <2>1. \A x \in Workers \ {w} : worker'[x] = worker[x]
    BY <1>6, GotoMoves, Labels DEF PrepareExecution, After
  <2>2. \A k \in Jobs : /\ Starts(worker'[w], k) => Starts(worker[w], k)
                        /\ ~Suspects(worker'[w], k, disputed')
                        /\ ~Handles(worker'[w], k)
    BY <1>6, <1>0, GotoMoves, Labels
       DEF PrepareExecution, After, Starts, Suspects, Handles, Looking, Forked, Hand
  <2>3. UNCHANGED <<inter, disputed>>
    BY <1>6 DEF PrepareExecution
  <2>4. ASSUME NEW x \in Workers, NEW k \in Jobs
        PROVE  /\ Starts(worker'[x], k) => Starts(worker[x], k)
               /\ Suspects(worker'[x], k, disputed') =>
                     Suspects(worker[x], k, disputed) /\ inter'[k] >= inter[k]
               /\ Handles(worker'[x], k) => k \notin worker'[x].ids
    BY <1>0, <2>1, <2>2, <2>3 DEF StuckOK
  <2> QED BY <1>0, <2>4, StuckKept
<1>7. ASSUME NEW w \in Workers, StartMaintenance(w) PROVE StuckOK'
  <2>1. \A x \in Workers \ {w} : worker'[x] = worker[x]
    BY <1>7, StartMaintenanceMoves DEF StartMaintenance, After
  <2>2. \A k \in Jobs : /\ Starts(worker'[w], k) => Starts(worker[w], k)
                        /\ ~Suspects(worker'[w], k, disputed')
                        /\ ~Handles(worker'[w], k)
    BY <1>7, <1>0, StartMaintenanceMoves
       DEF StartMaintenance, After, Starts, Suspects, Handles, Looking, Forked, Hand
  <2>3. UNCHANGED <<inter, disputed>>
    BY <1>7 DEF StartMaintenance
  <2>4. ASSUME NEW x \in Workers, NEW k \in Jobs
        PROVE  /\ Starts(worker'[x], k) => Starts(worker[x], k)
               /\ Suspects(worker'[x], k, disputed') =>
                     Suspects(worker[x], k, disputed) /\ inter'[k] >= inter[k]
               /\ Handles(worker'[x], k) => k \notin worker'[x].ids
    BY <1>0, <2>1, <2>2, <2>3 DEF StuckOK
  <2> QED BY <1>0, <2>4, StuckKept
<1>8. ASSUME NEW w \in Workers, CleanStarted(w) PROVE StuckOK'
  BY <1>8, <1>0, MildMoves, MildStuck DEF CleanStarted
<1>9. ASSUME NEW w \in Workers, FailStuck(w) PROVE StuckOK'
  <2>1. \A x \in Workers \ {w} : worker'[x] = worker[x] /\ worker[x].pc \notin Cleaning
    BY <1>9, FailStuckMoves DEF FailStuck, After, OneCleaner, Cleaning
  <2>2. \A x \in Workers \ {w} : \A k, d : ~Suspects(worker'[x], k, d) /\ ~Handles(worker'[x], k)
    BY <2>1 DEF Suspects, Handles, Looking, Cleaning
  <2>3. After(w, "removeStuck", worker[w].job, worker[w].horse, worker[w].ids,
              worker[w].keys)
    BY <1>9, FailStuckMoves
  <2>4. worker[w].pc = "failStuck" /\ UNCHANGED <<inter, disputed>>
    BY <1>9 DEF FailStuck
  <2>5. \A k \in Jobs : /\ Starts(worker'[w], k) => Starts(worker[w], k)
                        /\ Suspects(worker'[w], k, disputed) =>
                              Suspects(worker[w], k, disputed)
                        /\ Handles(worker'[w], k) => k \notin worker'[w].ids
    BY <1>0, <2>3, <2>4 DEF After, Starts, Suspects, Handles, Looking, Forked, Hand, StuckOK
  <2>6. ASSUME NEW x \in Workers, NEW k \in Jobs
        PROVE  /\ Starts(worker'[x], k) => Starts(worker[x], k)
               /\ Suspects(worker'[x], k, disputed') =>
                     Suspects(worker[x], k, disputed) /\ inter'[k] >= inter[k]
               /\ Handles(worker'[x], k) => k \notin worker'[x].ids
    <3>1. CASE x = w
      BY <1>0, <2>4, <2>5, <3>1
    <3>2. CASE x # w
      BY <2>1, <2>2, <3>2
    <3> QED BY <3>1, <3>2
  <2> QED BY <1>0, <2>6, StuckKept
<1>10. ASSUME NEW w \in Workers, RemoveStuck(w) PROVE StuckOK'
  <2>1. \A x \in Workers \ {w} : worker'[x] = worker[x] /\ worker[x].pc \notin Cleaning
    BY <1>10, RemoveStuckMoves DEF RemoveStuck, After, OneCleaner, Cleaning
  <2>2. \A x \in Workers \ {w} : \A k, d : ~Suspects(worker'[x], k, d) /\ ~Handles(worker'[x], k)
    BY <2>1 DEF Suspects, Handles, Looking, Cleaning
  <2>3. After(w, "cleanStuck", NoJob, worker[w].horse, worker[w].ids, worker[w].keys)
    BY <1>10, RemoveStuckMoves
  <2>4. worker[w].pc = "removeStuck" /\ UNCHANGED disputed
    BY <1>10 DEF RemoveStuck
  <2>5. \A k \in Jobs : /\ Starts(worker'[w], k) => Starts(worker[w], k)
                        /\ ~Suspects(worker'[w], k, disputed)
                        /\ ~Handles(worker'[w], k)
    BY <1>0, <2>3, <2>4 DEF After, Starts, Suspects, Handles, Forked, Hand
  <2>6. ASSUME NEW x \in Workers, NEW k \in Jobs
        PROVE  /\ Starts(worker'[x], k) => Starts(worker[x], k)
               /\ Suspects(worker'[x], k, disputed') =>
                     Suspects(worker[x], k, disputed) /\ inter'[k] >= inter[k]
               /\ Handles(worker'[x], k) => k \notin worker'[x].ids
    <3>1. CASE x = w
      BY <1>0, <2>4, <2>5, <3>1
    <3>2. CASE x # w
      BY <2>1, <2>2, <3>2
    <3> QED BY <3>1, <3>2
  <2> QED BY <1>0, <2>6, StuckKept
<1>11. ASSUME NEW w \in Workers, EndMaintenance(w) PROVE StuckOK'
  BY <1>11, <1>0, MildMoves, MildStuck DEF EndMaintenance
<1>12. ASSUME NEW w \in Workers, NEW j \in Jobs, Dequeue(w, j) PROVE StuckOK'
  <2>1. After(w, "fetched", j, worker[w].horse, worker[w].ids, worker[w].keys)
    BY <1>12, DequeueMoves
  <2>2. UNCHANGED disputed /\ inter' = [inter EXCEPT ![j] = @ + 1] /\ worker[w].pc = "idle"
    BY <1>12, <1>0 DEF Dequeue, Pop
  <2>3. ASSUME NEW x \in Workers, NEW k \in Jobs
        PROVE  /\ Suspects(worker'[x], k, disputed') => Suspects(worker[x], k, disputed)
               /\ Handles(worker'[x], k) => Handles(worker[x], k) /\ worker'[x] = worker[x]
               /\ Starts(worker'[x], k) => Starts(worker[x], k) \/ (x = w /\ k = j)
    <3>1. CASE x = w
      <4>1. worker'[x].pc = "fetched" /\ worker'[x].job = j /\ ~Forked(worker'[x])
        BY <1>0, <2>1, <2>2, <3>1 DEF After, Hand, Forked
      <4> QED BY <3>1, <4>1 DEF Suspects, Handles, Looking, Starts
    <3>2. CASE x # w
      <4>1. worker'[x] = worker[x]
        BY <2>1, <3>2 DEF After
      <4> QED BY <2>2, <4>1 DEF Suspects, Handles, Starts
    <3> QED BY <3>1, <3>2
  <2>4. ASSUME NEW k \in Jobs
        PROVE  /\ Cardinality(Starters(k)') =< Cardinality(Starters(k)) + inter'[k] - inter[k]
               /\ Cardinality(Starters(k)') \in Nat
    <3>1. CASE k # j
      <4>1. Cardinality(Starters(k)') =< Cardinality(Starters(k))
            /\ Cardinality(Starters(k)') \in Nat
        BY <1>0, <2>3, <3>1, MildStarters
      <4> QED BY <1>0, <2>2, <3>1, <4>1, StartersFinite
    <3>2. CASE k = j
      <4>1. Starters(k)' \subseteq Starters(k) \cup {w}
        BY <2>3 DEF Starters, Starts, Forked
      <4>2. IsFiniteSet(Starters(k)) /\ Cardinality(Starters(k)) \in Nat
        BY <1>0, StartersFinite
      <4>3. IsFiniteSet(Starters(k) \cup {w})
            /\ Cardinality(Starters(k) \cup {w}) =< Cardinality(Starters(k)) + 1
        <5>1. /\ IsFiniteSet(Starters(k) \cup {w})
              /\ Cardinality(Starters(k) \cup {w}) =
                    IF w \in Starters(k) THEN Cardinality(Starters(k))
                                        ELSE Cardinality(Starters(k)) + 1
          BY ONLY <4>2, FS_AddElement
        <5> DEFINE c == Cardinality(Starters(k))
        <5>2. c \in Nat
          BY <4>2
        <5> HIDE DEF c
        <5>3. Cardinality(Starters(k) \cup {w}) \in {c, c + 1}
          BY ONLY <5>1 DEF c
        <5>4. Cardinality(Starters(k) \cup {w}) =< c + 1
          BY ONLY <5>2, <5>3
        <5> QED BY <5>1, <5>4 DEF c
      <4>4. /\ Cardinality(Starters(k)') =< Cardinality(Starters(k) \cup {w})
            /\ Cardinality(Starters(k)') \in Nat /\ Cardinality(Starters(k) \cup {w}) \in Nat
        BY <4>1, <4>3, FS_Subset, FS_CardinalityType
      <4>5. inter[k] \in Nat /\ inter'[k] = inter[k] + 1
        BY <1>0, <2>2, <3>2
      <4> QED BY <4>2, <4>3, <4>4, <4>5
    <3> QED BY <3>1, <3>2
  <2>5. ASSUME NEW x \in Workers, NEW k \in Jobs
        PROVE  /\ Suspects(worker'[x], k, disputed') => inter'[k] > Cardinality(Starters(k)')
               /\ Handles(worker'[x], k) => k \notin worker'[x].ids
    <3>1. inter[k] \in Nat /\ inter'[k] \in Nat /\ Cardinality(Starters(k)) \in Nat
      BY <1>0, StartersFinite
    <3> QED BY <2>3, <2>4, <3>1 DEF StuckOK
  <2> QED BY <2>5 DEF StuckOK
<1>13. ASSUME NEW w \in Workers, NEW j \in Jobs, DropId(w, j) PROVE StuckOK'
  <2>1. UNCHANGED <<worker, disputed>> /\ \A k \in Jobs : inter'[k] >= inter[k]
    BY <1>13, <1>0 DEF DropId, Pop
  <2>2. \A x \in Workers, k \in Jobs :
           /\ Starts(worker'[x], k) => Starts(worker[x], k)
           /\ Suspects(worker'[x], k, disputed') => Suspects(worker[x], k, disputed)
           /\ Handles(worker'[x], k) => k \notin worker'[x].ids
    BY <2>1 DEF StuckOK
  <2> QED BY <1>0, <2>1, <2>2, StuckKept
<1>14. ASSUME NEW w \in Workers, NEW j \in Jobs, InspectStuck(w, j)
      PROVE  StuckOK'
  <2> DEFINE started == \E e \in execs \cup expired : e[2] = j
             stuck == ~started /\ hash[j].status # "absent" /\ seen[j] = "old"
  <2>1. \A x \in Workers \ {w} : worker'[x] = worker[x] /\ worker[x].pc \notin Cleaning
    BY <1>14, InspectStuckMoves DEF InspectStuck, After, OneCleaner, Cleaning
  <2>2. \A x \in Workers \ {w} : \A k : ~Handles(worker'[x], k)
    BY <2>1 DEF Handles, Cleaning
  <2>3. IF stuck
        THEN After(w, "failStuck", j, worker[w].horse, worker[w].ids \ {j}, worker[w].keys)
        ELSE After(w, worker[w].pc, worker[w].job, worker[w].horse,
                   worker[w].ids \ {j}, worker[w].keys)
    BY <1>14, InspectStuckMoves
  <2>4. worker[w].pc = "cleanStuck"
    BY <1>14 DEF InspectStuck
  <2>5. ~Forked(worker[w])
    BY <1>0, <2>4 DEF Forked, Hand
  <2>6. stuck => /\ inter' = inter
                 /\ j \notin disputed' => inter[j] > Cardinality(Starters(j))
    <3>1. inter' = [inter EXCEPT ![j] = IF hash[j].status = "absent" /\ ~started
                                           /\ @ > 0 THEN @ - 1 ELSE @]
      BY <1>14 DEF InspectStuck
    <3>2. /\ disputed' = IF stuck /\ inter[j] <= Cardinality(Starters(j))
                         THEN disputed \cup {j} ELSE disputed
      BY <1>14 DEF InspectStuck
    <3>3. inter[j] \in Nat /\ Cardinality(Starters(j)) \in Nat
      BY <1>0, StartersFinite
    <3> HIDE DEF started
    <3> QED BY <1>0, <3>1, <3>2, <3>3
  <2> HIDE DEF stuck
  <2>7. CASE ~stuck
    <3>1. worker'[w].pc = "cleanStuck"
      BY <2>3, <2>4, <2>7 DEF After
    <3> QED BY <2>2, <3>1 DEF StuckOK, Suspects, Handles
  <2>8. CASE stuck
    <3>1. /\ worker'[w].pc = "failStuck" /\ worker'[w].job = j
          /\ worker'[w].ids = worker[w].ids \ {j} /\ ~Forked(worker'[w])
      BY <2>3, <2>5, <2>8 DEF After, Forked
    <3>2. \A x \in Workers : Starts(worker'[x], j) => Starts(worker[x], j)
      BY <2>1, <3>1 DEF Starts
    <3>3. /\ Cardinality(Starters(j)') \in Nat /\ Cardinality(Starters(j)) \in Nat
          /\ Cardinality(Starters(j)') =< Cardinality(Starters(j))
      BY <1>0, <3>2, MildStarters, StartersFinite
    <3>4. j \notin disputed' => inter'[j] > Cardinality(Starters(j)')
      BY <1>0, <2>6, <2>8, <3>3
    <3>5. ASSUME NEW x \in Workers, NEW k \in Jobs, Handles(worker'[x], k)
          PROVE  x = w /\ k = j
      BY <2>2, <3>1, <3>5 DEF Handles
    <3> QED BY <3>1, <3>4, <3>5 DEF StuckOK, Suspects
  <2> QED BY <2>7, <2>8
<1>15. ASSUME NEW w \in Workers, NEW j \in Jobs, Expire(w, j) PROVE StuckOK'
  BY <1>15, <1>0, SameIsMild, MildStuck DEF Expire
<1>16. ASSUME NEW j \in Jobs, MinutePasses(j) PROVE StuckOK'
  BY <1>16, <1>0, SameIsMild, MildStuck DEF MinutePasses
<1>17. ASSUME NEW j \in Jobs, JobExpires(j) PROVE StuckOK'
  BY <1>17, <1>0, SameIsMild, MildStuck DEF JobExpires
<1>18. ASSUME LockExpires PROVE StuckOK'
  BY <1>18, <1>0, SameIsMild, MildStuck DEF LockExpires
<1>19. ASSUME NEW w \in Workers, Sweep(w) PROVE StuckOK'
  <2>1. \A x \in Workers \ {w} : worker'[x] = worker[x] /\ worker[x].pc \notin Cleaning
    BY <1>19, SweepMoves DEF Sweep, After, OneCleaner, Cleaning
  <2>2. worker'[w].pc = "cleanStuck"
    BY <1>19, SweepMoves DEF After
  <2>3. \A x \in Workers, k \in Jobs : ~Handles(worker'[x], k)
    BY <2>1, <2>2 DEF Handles, Cleaning
  <2> QED BY <2>3 DEF StuckOK, Suspects
<1>20. CASE UNCHANGED kept /\ AllMild
  BY <1>20, <1>0, MildStuck DEF kept
<1> QED
  BY <1>1, <1>2, <1>3, <1>4, <1>5, <1>6, <1>7, <1>8, <1>9, <1>10, <1>11,
     <1>12, <1>13, <1>14, <1>15, <1>16, <1>17, <1>18, <1>19, <1>20, MildNext,
     KeptNext DEF Disturbs, TakesUp

\* A job that ends, or whose entries and executions stay.
LEMMA PlaceKept ==
  ASSUME PlacesOK, NEW j \in Jobs, disputed \subseteq disputed',
         j \notin disputed' /\ hash'[j].status \notin Ended =>
             /\ hash[j].status \notin Ended
             /\ queue'[j] + inter'[j] = queue[j] + inter[j]
             /\ Held(j) => Held(j)'
             /\ Removes(j)' => Removes(j)
  PROVE  PlaceOK(j)'
<1>1. PlaceOK(j)
  BY DEF PlacesOK
<1> QED BY <1>1 DEF PlaceOK

\* A mild step that leaves the jobs where they are.
LEMMA MildPlaces ==
  ASSUME PlacesOK, AllMild, UNCHANGED <<hash, queue, inter, execs, expired, disputed>>
  PROVE  PlacesOK'
<1>1. \A j \in Jobs : Held(j)' = Held(j)
  BY DEF Held
<1> QED BY <1>1, MildRemoves, PlaceKept DEF PlacesOK

\* A cleanup that is about to remove an entry of j has one to remove.
LEMMA RemovesHasEntry ==
  ASSUME IsFiniteSet(Workers), Typed, StuckOK, NEW j \in Jobs, Removes(j),
         j \notin disputed
  PROVE  inter[j] > 0
  BY HandledHasEntry DEF Removes, Handles, Suspects

\* cleanup_execution for one job keeps the executions of the others.
LEMMA CleanupHolds ==
  ASSUME NEW w, NEW i, CleanupExecution(w, i), NEW j, j # i
  PROVE  Held(j) => Held(j)'
  BY DEF CleanupExecution, Held

\* What is left of the executions when a job ends, or is given back.
LEMMA EndedPlaces ==
  ASSUME Typed, PlacesOK, NEW w, NEW i \in Jobs, CleanupExecution(w, i),
         UNCHANGED <<queue, inter, disputed>>, NEW s \in Ended, SetStatus(i, s),
         \A k : k # i => (Removes(k)' => Removes(k))
  PROVE  PlacesOK'
<1>0. hash \in [Jobs -> [status : Statuses, left : Nat, count : Nat]]
  BY DEF Typed, TypeOK
<1> SUFFICES ASSUME NEW j \in Jobs PROVE PlaceOK(j)'
  BY DEF PlacesOK
<1>1. CASE j = i
  BY <1>0, <1>1 DEF SetStatus, PlaceOK
<1>2. CASE j # i
  <2>1. hash'[j] = hash[j]
    BY <1>0, <1>2 DEF SetStatus
  <2> QED BY <1>2, <2>1, CleanupHolds, PlaceKept
<1> QED BY <1>1, <1>2

\* A job that is pushed again is in the queue, next to the entry to be removed.
LEMMA RetryPlaces ==
  ASSUME Typed, PlacesOK, NEW w, NEW i \in Jobs, CleanupExecution(w, i),
         UNCHANGED <<inter, disputed>>, NEW c, Retry(i, c) \/ HandleRetryResult(i, c),
         \A k : k # i => (Removes(k)' => Removes(k)),
         Removes(i)' /\ i \notin disputed => inter[i] > 0
  PROVE  PlacesOK'
<1>0. /\ hash \in [Jobs -> [status : Statuses, left : Nat, count : Nat]]
      /\ queue \in [Jobs -> Nat] /\ inter \in [Jobs -> Nat]
  BY DEF Typed, TypeOK
<1>1. queue' = [queue EXCEPT ![i] = @ + 1]
  BY DEF Retry, HandleRetryResult
<1> SUFFICES ASSUME NEW j \in Jobs PROVE PlaceOK(j)'
  BY DEF PlacesOK
<1>2. CASE j = i
  <2>1. queue'[j] = queue[j] + 1 /\ queue[j] \in Nat /\ inter[j] \in Nat
    BY <1>0, <1>1, <1>2
  <2> QED BY <1>2, <2>1 DEF PlaceOK
<1>3. CASE j # i
  <2>1. hash'[j] = hash[j]
    BY <1>0, <1>3 DEF Retry, HandleRetryResult
  <2>2. queue'[j] = queue[j]
    BY <1>0, <1>1, <1>3
  <2> QED BY <1>3, <2>1, <2>2, CleanupHolds, PlaceKept
<1> QED BY <1>2, <1>3

\* handle_job_failure: the job is pushed again, or has ended.
LEMMA FailurePlaces ==
  ASSUME Typed, PlacesOK, NEW w, NEW i \in Jobs, NEW c, NEW b, JobFailure(w, i, c, b),
         UNCHANGED <<inter, disputed>>, \A k : k # i => (Removes(k)' => Removes(k)),
         Removes(i)' /\ i \notin disputed => inter[i] > 0
  PROVE  PlacesOK'
<1>1. CleanupExecution(w, i)
  BY DEF JobFailure
<1>2. Retry(i, c) \/ \E s \in Ended : SetStatus(i, s) /\ UNCHANGED queue
  BY DEF JobFailure, Ended
<1> QED BY <1>1, <1>2, RetryPlaces, EndedPlaces

\* Every handler keeps PlacesOK.
LEMMA PlacesNext ==
  ASSUME IsFiniteSet(Workers), Intermediate, Typed, OneCleaner, ExecutionsOK, StuckOK,
         PlacesOK, [Next]_vars
  PROVE  PlacesOK'
<1>0. /\ \A x \in Workers : Hand(worker[x])
      /\ hash \in [Jobs -> [status : Statuses, left : Nat, count : Nat]]
      /\ queue \in [Jobs -> Nat] /\ inter \in [Jobs -> Nat]
      /\ IsFiniteSet(Workers) /\ Intermediate
  BY DEF Typed, TypeOK
<1>1. ASSUME NEW w \in Workers, HandleFailure(w) PROVE PlacesOK'
  <2>1. PICK i \in Jobs : i = worker[w].job
    BY <1>1, <1>0 DEF HandleFailure, HorseAlive, Hand
  <2>2. /\ JobFailure(w, i, worker[w].copy, worker[w].stopped = worker[w].job)
        /\ UNCHANGED <<inter, disputed>>
    BY <1>1, <2>1 DEF HandleFailure
  <2>3. \A k : Removes(k)' => Removes(k)
    BY <1>1, MildMoves, MildRemoves
  <2>4. Removes(i)' /\ i \notin disputed => inter[i] > 0
    BY <1>0, <2>3, RemovesHasEntry
  <2> QED BY <2>2, <2>3, <2>4, FailurePlaces
<1>2. ASSUME NEW w \in Workers, PrepareJob(w) PROVE PlacesOK'
  <2>1. PICK i \in Jobs : i = worker[w].job
    BY <1>2, <1>0 DEF PrepareJob, Hand
  <2>2. /\ Registers(worker[w]) /\ SetStatus(i, "started")
        /\ UNCHANGED <<queue, execs, expired, disputed>>
        /\ inter' = [inter EXCEPT ![i] = IF Intermediate /\ @ > 0 THEN @ - 1 ELSE @]
    BY <1>2, <2>1 DEF PrepareJob, Registers, Forked
  <2>3. Held(i)'
    <3>1. <<w, i>> \in execs'
      BY <2>1, <2>2 DEF ExecutionsOK
    <3>2. <<w, i>>[2] = i
      OBVIOUS
    <3> QED BY ONLY <3>1, <3>2 DEF Held
  <2>4. \A k : Removes(k)' => Removes(k)
    BY <1>2, MildMoves, MildRemoves
  <2>5. ASSUME NEW k \in Jobs PROVE PlaceOK(k)'
    <3>1. CASE k = i
      BY <2>3, <3>1 DEF PlaceOK
    <3>2. CASE k # i
      <4>1. hash'[k] = hash[k] /\ queue'[k] = queue[k] /\ inter'[k] = inter[k]
        BY <1>0, <2>2, <3>2 DEF SetStatus
      <4>2. (Held(k) => Held(k)') /\ UNCHANGED disputed
        BY <2>2 DEF Held
      <4> QED BY <2>4, <4>1, <4>2, PlaceKept DEF PlacesOK
    <3> QED BY <3>1, <3>2
  <2> QED BY <2>5 DEF PlacesOK
<1>3. ASSUME NEW w \in Workers, HandleSuccess(w) PROVE PlacesOK'
  <2>1. worker[w].job \in Jobs /\ UNCHANGED <<queue, inter, disputed>>
    BY <1>3, <1>0 DEF HandleSuccess, HorseAlive, Hand
  <2>2. CleanupExecution(w, worker[w].job)
        /\ \E s \in Ended : SetStatus(worker[w].job, s)
    BY <1>3 DEF HandleSuccess, Ended
  <2>3. \A k : Removes(k)' => Removes(k)
    BY <1>3, MildMoves, MildRemoves
  <2> QED BY <1>0, <2>1, <2>2, <2>3, EndedPlaces
<1>4. ASSUME NEW w \in Workers, JobRaises(w) PROVE PlacesOK'
  <2>1. PICK i \in Jobs : i = worker[w].job
    BY <1>4, <1>0 DEF JobRaises, HorseAlive, Hand
  <2>2. JobFailure(w, i, worker[w].copy, worker[w].mine) /\ UNCHANGED <<inter, disputed>>
    BY <1>4, <2>1 DEF JobRaises
  <2>3. \A k : Removes(k)' => Removes(k)
    BY <1>4, MildMoves, MildRemoves
  <2>4. Removes(i)' /\ i \notin disputed => inter[i] > 0
    BY <1>0, <2>3, RemovesHasEntry
  <2> QED BY <2>2, <2>3, <2>4, FailurePlaces
<1>5. ASSUME NEW w \in Workers, JobReturnsRetry(w) PROVE PlacesOK'
  <2>1. PICK i \in Jobs : i = worker[w].job
    BY <1>5, <1>0 DEF JobReturnsRetry, HorseAlive, Hand
  <2>2. CleanupExecution(w, i) /\ UNCHANGED <<inter, disputed>>
    BY <1>5, <2>1 DEF JobReturnsRetry
  <2>3. \A k : Removes(k)' => Removes(k)
    BY <1>5, MildMoves, MildRemoves
  <2>4. CASE SetStatus(i, "failed") /\ UNCHANGED queue
    BY <2>2, <2>3, <2>4, EndedPlaces DEF Ended
  <2>5. CASE HandleRetryResult(i, worker[w].copy)
    <3>1. Removes(i)' /\ i \notin disputed => inter[i] > 0
      BY <1>0, <2>3, RemovesHasEntry
    <3> QED BY <2>2, <2>3, <2>5, <3>1, RetryPlaces
  <2> QED BY <1>5, <2>1, <2>4, <2>5 DEF JobReturnsRetry
<1>6. ASSUME NEW w \in Workers, PrepareExecution(w) PROVE PlacesOK'
  <2>1. \A k : Removes(k)' => Removes(k)
    BY <1>6, GotoMoves, Labels DEF PrepareExecution, After, Removes
  <2>2. \A k \in Jobs : Held(k) => Held(k)'
    BY <1>6 DEF PrepareExecution, Held
  <2>3. UNCHANGED <<hash, queue, inter, disputed>>
    BY <1>6 DEF PrepareExecution
  <2> QED BY <2>1, <2>2, <2>3, PlaceKept DEF PlacesOK
<1>7. ASSUME NEW w \in Workers, StartMaintenance(w) PROVE PlacesOK'
  <2>1. \A k : Removes(k)' => Removes(k)
    BY <1>7, StartMaintenanceMoves DEF StartMaintenance, After, Removes
  <2>2. \A k \in Jobs : Held(k) => Held(k)'
    BY <1>7 DEF StartMaintenance, Held
  <2>3. UNCHANGED <<hash, queue, inter, disputed>>
    BY <1>7 DEF StartMaintenance
  <2> QED BY <2>1, <2>2, <2>3, PlaceKept DEF PlacesOK
<1>8. ASSUME NEW w \in Workers, CleanStarted(w) PROVE PlacesOK'
  <2> DEFINE js == {j \in worker[w].ids : hash[j].status # "absent"}
             again == {j \in js : hash[j].left > 0}
  <2>1. /\ hash' = [j \in Jobs |->
               IF j \in again THEN [hash[j] EXCEPT !.status = "queued", !.left = @ - 1]
               ELSE IF j \in js THEN [hash[j] EXCEPT !.status = "failed"] ELSE hash[j]]
        /\ queue' = [j \in Jobs |-> IF j \in again THEN queue[j] + 1 ELSE queue[j]]
        /\ expired' = {e \in expired : e[2] \notin worker[w].ids}
        /\ UNCHANGED <<inter, execs, disputed>> /\ worker[w].pc \in Cleaning
    BY <1>8 DEF CleanStarted, Cleaning
  <2>2. \A k : ~Removes(k)'
    <3>1. After(w, "cleanWorkers", worker[w].job, worker[w].horse, {}, worker[w].keys)
      BY <1>8, CleanStartedMoves
    <3>2. \A x \in Workers \ {w} : worker[x].pc # "removeStuck"
      BY <2>1 DEF OneCleaner, Cleaning
    <3> QED BY <3>1, <3>2 DEF After, Removes
  <2>3. again \subseteq js /\ js \subseteq worker[w].ids
        /\ \A k \in worker[w].ids : k \notin js => hash[k].status \in Ended
    BY DEF Ended
  <2>4. \A k \in js : k \in Jobs => hash[k] \in [status : Statuses, left : Nat, count : Nat]
    BY DEF Typed, TypeOK
  <2> HIDE DEF js, again
  <2>5. ASSUME NEW k \in Jobs PROVE PlaceOK(k)'
    <3>1. CASE k \in again
      <4>1. queue'[k] = queue[k] + 1 /\ inter'[k] = inter[k]
        BY <2>1, <3>1
      <4>2. queue[k] \in Nat /\ inter[k] \in Nat
        BY <1>0
      <4>3. queue'[k] + inter'[k] > 0
        BY ONLY <4>1, <4>2
      <4> QED BY <2>2, <4>3 DEF PlaceOK
    <3>2. CASE k \in js \ again
      <4>1. hash'[k] = [hash[k] EXCEPT !.status = "failed"]
        BY <2>1, <3>2
      <4>2. hash'[k].status = "failed"
        BY <2>4, <3>2, <4>1
      <4> QED BY <4>2 DEF PlaceOK, Ended
    <3>3. CASE k \notin js
      <4>1. hash'[k] = hash[k] /\ queue'[k] = queue[k] /\ inter'[k] = inter[k]
        BY <2>1, <2>3, <3>3
      <4>2. CASE hash[k].status \in Ended
        BY <4>1, <4>2 DEF PlaceOK
      <4>3. CASE hash[k].status \notin Ended
        <5>1. k \notin worker[w].ids
          BY <2>3, <3>3, <4>3
        <5>2. (Held(k) => Held(k)') /\ UNCHANGED disputed
          BY <2>1, <5>1 DEF Held
        <5> QED BY <2>2, <4>1, <5>2, PlaceKept DEF PlacesOK
      <4> QED BY <4>2, <4>3
    <3> QED BY <3>1, <3>2, <3>3
  <2> QED BY <2>5 DEF PlacesOK
<1>9. ASSUME NEW w \in Workers, FailStuck(w) PROVE PlacesOK'
  <2>1. PICK i \in Jobs : i = worker[w].job
    BY <1>9, <1>0 DEF FailStuck, HorseAlive, Hand
  <2>2. /\ JobFailure(w, i, worker[w].copy, worker[w].stopped = worker[w].job)
        /\ UNCHANGED <<inter, disputed>>
    BY <1>9, <2>1 DEF FailStuck
  <2>3. \A k : k # i => (Removes(k)' => Removes(k))
    BY <1>9, <2>1, FailStuckMoves DEF After, Removes
  <2>4. i \notin disputed => inter[i] > 0
    BY <1>9, <1>0, <2>1, HandledHasEntry DEF FailStuck, Handles, Suspects
  <2> QED BY <2>2, <2>3, <2>4, FailurePlaces
<1>10. ASSUME NEW w \in Workers, RemoveStuck(w) PROVE PlacesOK'
  <2>1. /\ worker[w].pc = "removeStuck" /\ worker[w].job \in Jobs
        /\ inter' = [inter EXCEPT ![worker[w].job] = IF @ > 0 THEN @ - 1 ELSE 0]
        /\ UNCHANGED <<hash, queue, execs, expired, disputed>>
    BY <1>10, <1>0 DEF RemoveStuck, Hand
  <2>2. \A k : ~Removes(k)'
    <3>1. After(w, "cleanStuck", NoJob, worker[w].horse, worker[w].ids, worker[w].keys)
      BY <1>10, RemoveStuckMoves
    <3>2. \A x \in Workers \ {w} : worker[x].pc # "removeStuck"
      BY <2>1 DEF OneCleaner, Cleaning
    <3> QED BY <3>1, <3>2 DEF After, Removes
  <2>3. Removes(worker[w].job)
    BY <2>1 DEF Removes
  <2>4. ASSUME NEW k \in Jobs PROVE PlaceOK(k)'
    <3>1. PlaceOK(k) /\ Held(k)' = Held(k)
      BY <2>1 DEF PlacesOK, Held
    <3>2. CASE k = worker[w].job
      <4>1. inter'[k] = IF inter[k] > 0 THEN inter[k] - 1 ELSE 0
        BY <1>0, <2>1, <3>2
      <4>2. queue[k] \in Nat /\ inter[k] \in Nat
        BY <1>0
      <4> QED BY <2>1, <2>2, <2>3, <3>1, <3>2, <4>1, <4>2 DEF PlaceOK
    <3>3. CASE k # worker[w].job
      <4>1. inter'[k] = inter[k]
        BY <1>0, <2>1, <3>3
      <4> QED BY <2>1, <2>2, <3>1, <4>1 DEF PlaceOK
    <3> QED BY <3>2, <3>3
  <2> QED BY <2>4 DEF PlacesOK
<1>11. ASSUME NEW w \in Workers, EndMaintenance(w) PROVE PlacesOK'
  BY <1>11, MildMoves, MildPlaces DEF EndMaintenance
<1>12. ASSUME NEW w \in Workers, NEW j \in Jobs, Dequeue(w, j) PROVE PlacesOK'
  <2>1. \A k : Removes(k)' => Removes(k)
    BY <1>12, DequeueMoves DEF Dequeue, After, Removes
  <2>2. (\A k \in Jobs : hash'[k] = hash[k] /\ Held(k)' = Held(k)) /\ UNCHANGED disputed
    BY <1>12 DEF Dequeue, Held
  <2>3. \A k \in Jobs : queue'[k] + inter'[k] = queue[k] + inter[k]
    <3>1. /\ queue[j] > 0 /\ queue' = [queue EXCEPT ![j] = @ - 1]
          /\ inter' = [inter EXCEPT ![j] = @ + 1]
      BY <1>12, <1>0 DEF Dequeue, Pop
    <3> QED BY <1>0, <3>1
  <2> QED BY <2>1, <2>2, <2>3, PlaceKept DEF PlacesOK
<1>13. ASSUME NEW w \in Workers, NEW j \in Jobs, DropId(w, j) PROVE PlacesOK'
  <2>1. \A k : Removes(k)' => Removes(k)
    BY <1>13 DEF DropId, Removes
  <2>2. (\A k \in Jobs : hash'[k] = hash[k] /\ Held(k)' = Held(k)) /\ UNCHANGED disputed
    BY <1>13 DEF DropId, Held
  <2>3. \A k \in Jobs : queue'[k] + inter'[k] = queue[k] + inter[k]
    <3>1. /\ queue[j] > 0 /\ queue' = [queue EXCEPT ![j] = @ - 1]
          /\ inter' = [inter EXCEPT ![j] = @ + 1]
      BY <1>13, <1>0 DEF DropId, Pop
    <3> QED BY <1>0, <3>1
  <2> QED BY <2>1, <2>2, <2>3, PlaceKept DEF PlacesOK
<1>14. ASSUME NEW w \in Workers, NEW j \in Jobs, InspectStuck(w, j)
      PROVE  PlacesOK'
  <2>1. \A k : Removes(k)' => Removes(k)
    <3>1. worker[w].pc = "cleanStuck"
      BY <1>14 DEF InspectStuck
    <3> QED BY <1>14, <3>1, InspectStuckMoves DEF After, Removes
  <2>2. UNCHANGED <<hash, queue, execs, expired>> /\ disputed \subseteq disputed'
    BY <1>14 DEF InspectStuck
  <2>3. \A k \in Jobs : Held(k)' = Held(k)
    BY <2>2 DEF Held
  <2>4. ASSUME NEW k \in Jobs, hash[k].status \notin Ended PROVE inter'[k] = inter[k]
    BY <1>14, <1>0, <2>4 DEF InspectStuck, Ended
  <2> QED BY <2>1, <2>2, <2>3, <2>4, PlaceKept DEF PlacesOK
<1>15. ASSUME NEW w \in Workers, NEW j \in Jobs, Expire(w, j) PROVE PlacesOK'
  <2>1. UNCHANGED <<worker, hash, queue, inter, disputed>>
    BY <1>15 DEF Expire
  <2>2. \A k \in Jobs : Held(k) => Held(k)'
    BY <1>15 DEF Expire, Held
  <2> QED BY <2>1, <2>2, PlaceKept DEF PlacesOK, Removes
<1>16. ASSUME NEW j \in Jobs, MinutePasses(j) PROVE PlacesOK'
  BY <1>16, SameIsMild, MildPlaces DEF MinutePasses
<1>17. ASSUME NEW j \in Jobs, JobExpires(j) PROVE PlacesOK'
  <2>1. UNCHANGED <<worker, queue, inter, execs, expired, disputed>>
    BY <1>17 DEF JobExpires
  <2>2. \A k \in Jobs : Held(k)' = Held(k) /\ Removes(k)' = Removes(k)
    BY <2>1 DEF Held, Removes
  <2>3. ASSUME NEW k \in Jobs, hash'[k].status \notin Ended PROVE hash'[k] = hash[k]
    BY <1>17, <1>0, <2>3 DEF JobExpires, SetStatus, Ended
  <2> QED BY <2>1, <2>2, <2>3, PlaceKept DEF PlacesOK
<1>18. ASSUME LockExpires PROVE PlacesOK'
  BY <1>18, SameIsMild, MildPlaces DEF LockExpires
<1>19. ASSUME NEW w \in Workers, Sweep(w) PROVE PlacesOK'
  <2>1. \A k : Removes(k)' => Removes(k)
    BY <1>19, SweepMoves DEF Sweep, After, Removes
  <2>2. \A k \in Jobs : Held(k) => Held(k)'
    BY <1>19 DEF Sweep, Held
  <2>3. UNCHANGED <<hash, queue, inter, disputed>>
    BY <1>19 DEF Sweep
  <2> QED BY <2>1, <2>2, <2>3, PlaceKept DEF PlacesOK
<1>20. CASE UNCHANGED kept /\ AllMild
  BY <1>20, MildPlaces DEF kept
<1> QED
  BY <1>1, <1>2, <1>3, <1>4, <1>5, <1>6, <1>7, <1>8, <1>9, <1>10, <1>11,
     <1>12, <1>13, <1>14, <1>15, <1>16, <1>17, <1>18, <1>19, <1>20, MildNext,
     KeptNext DEF Disturbs, TakesUp

-----------------------------------------------------------------------------
(* No job is lost: the retries that are left, and the first visit.         *)

\* No process has read more retries than a job had at first.
LEMMA CopiesNext ==
  ASSUME Typed, LeftOK, [Next]_vars
  PROVE  \A x \in Workers : CopyOK(worker'[x])
<1> DEFINE Goal == \A x \in Workers : CopyOK(worker'[x])
<1>0. /\ \A x \in Workers : worker[x] \in Worker /\ CopyOK(worker[x])
      /\ worker \in [Workers -> Worker]
      /\ \A j \in Jobs : Retries[j] \in Nat /\ hash[j].left =< Retries[j]
      /\ NoJob \notin Jobs /\ Idle.job = NoJob /\ NoCopy.left = 0
  BY IsWorker, WorkerAssumption DEF Idle, NoCopy, LeftOK, Worker, Typed, TypeOK
<1>a. ASSUME NEW w \in Workers, NEW l, Goto(w, l) PROVE Goal
  BY <1>0, <1>a DEF Goto, Worker, CopyOK, Put
<1>b. ASSUME NEW w \in Workers, NEW l, Loop(w, l) PROVE Goal
  <2> DEFINE r == worker[w]
             base == IF l \in Dead THEN Idle ELSE [r EXCEPT !.ids = {}, !.keys = {}]
             same == [base EXCEPT !.pc = l, !.job = r.job, !.copy = r.copy,
                                   !.horse = r.horse, !.mine = r.mine]
             none == [base EXCEPT !.pc = l, !.job = NoJob, !.copy = NoCopy,
                                  !.horse = "none", !.mine = FALSE]
             s == IF HorseAlive(w) THEN same ELSE none
  <2>1. base \in Worker
    <3>1. [r EXCEPT !.ids = {}, !.keys = {}] \in Worker
      <4>1. r \in Worker
        BY <1>0
      <4> QED BY ONLY <4>1 DEF Worker
    <3>2. Idle \in Worker
      BY Labels DEF Idle, NoCopy, Worker
    <3> QED BY <3>1, <3>2
  <2> HIDE DEF base
  <2>2. CopyOK(s)
    <3>1. same.job = r.job /\ same.copy = r.copy /\ none.job = NoJob
      BY ONLY <2>1 DEF Worker
    <3> HIDE DEF same, none
    <3>2. CopyOK(same) /\ CopyOK(none)
      BY <1>0, <3>1 DEF CopyOK
    <3> QED BY <3>2
  <2>3. Put(w, s)
    BY <1>b DEF Loop, base
  <2> HIDE DEF s
  <2> QED BY <1>0, <2>2, <2>3 DEF Put
<1>d. ASSUME NEW w \in Workers, NEW l, KillGroup(w, l) PROVE Goal
  <2>1. CASE Put(w, [Idle EXCEPT !.pc = "selfKilled"])
    BY <1>0, <2>1 DEF Idle, CopyOK, Put
  <2>2. CASE Put(w, [worker[w] EXCEPT !.pc = l, !.cmd = FALSE,
                        !.horse = IF HorseAlive(w) THEN "killed" ELSE @])
    BY <1>0, <2>2 DEF Worker, CopyOK, Put
  <2> QED BY <1>d, <2>1, <2>2 DEF KillGroup
<1>1. ASSUME NEW w \in Workers, RegisterBirth(w) PROVE Goal
  BY <1>a, <1>1 DEF RegisterBirth
<1>2. ASSUME NEW w \in Workers, EnterLoop(w) PROVE Goal
  BY <1>a, <1>2 DEF EnterLoop
<1>3. ASSUME NEW w \in Workers, PrepareExecution(w) PROVE Goal
  BY <1>a, <1>3 DEF PrepareExecution
<1>4. ASSUME NEW w \in Workers, ForkWorkHorse(w) PROVE Goal
  BY <1>0, <1>4 DEF ForkWorkHorse, Worker, CopyOK, Put
<1>5. ASSUME NEW w \in Workers, WaitForHorse(w) PROVE Goal
  BY <1>a, <1>b, <1>5 DEF WaitForHorse
<1>6. ASSUME NEW w \in Workers, JudgeStatus(w) PROVE Goal
  BY <1>a, <1>b, <1>6 DEF JudgeStatus
<1>7. ASSUME NEW w \in Workers, HandleFailure(w) PROVE Goal
  BY <1>0, <1>7 DEF HandleFailure, Worker, CopyOK, Put
<1>8. ASSUME NEW w \in Workers, RegisterDeath(w) PROVE Goal
  BY <1>b, <1>8 DEF RegisterDeath
<1>9. ASSUME NEW w \in Workers, ExecCommand(w) PROVE Goal
  BY <1>d, <1>9 DEF ExecCommand
<1>10. ASSUME NEW w \in Workers, SetGroup(w) PROVE Goal
  BY <1>0, <1>10 DEF SetGroup, Worker, CopyOK, Put
<1>11. ASSUME NEW w \in Workers, PrepareJob(w) PROVE Goal
  BY <1>0, <1>11 DEF PrepareJob, Worker, CopyOK, Put
<1>12. ASSUME NEW w \in Workers, HandleSuccess(w) PROVE Goal
  BY <1>0, <1>12 DEF HandleSuccess, HorseDone, Worker, CopyOK, Put
<1>13. ASSUME NEW w \in Workers, JobRaises(w) PROVE Goal
  BY <1>0, <1>13 DEF JobRaises, HorseDone, Worker, CopyOK, Put
<1>14. ASSUME NEW w \in Workers, JobReturnsRetry(w) PROVE Goal
  BY <1>0, <1>14 DEF JobReturnsRetry, HorseDone, Worker, CopyOK, Put
<1>15. ASSUME NEW w \in Workers, HorseExits(w) PROVE Goal
  BY <1>0, <1>15 DEF HorseExits, HorseEnds, Worker, CopyOK, Put
<1>16. ASSUME NEW w \in Workers, NEW j \in Jobs, Dequeue(w, j) PROVE Goal
  <2>1. Copy(j).left = hash[j].left
    BY DEF Copy
  <2> QED BY <1>0, <1>16, <2>1 DEF Dequeue, Worker, CopyOK, Put
<1>17. ASSUME NEW w \in Workers, NEW j \in Jobs, DropId(w, j) PROVE Goal
  BY <1>0, <1>17 DEF DropId
<1>18. ASSUME NEW w \in Workers, StartMaintenance(w) PROVE Goal
  BY <1>0, <1>18 DEF StartMaintenance, Worker, CopyOK, Put
<1>19. ASSUME NEW w \in Workers, CleanStarted(w) PROVE Goal
  BY <1>0, <1>19 DEF CleanStarted, Worker, CopyOK, Put
<1>20. ASSUME NEW w \in Workers, FindDeadWorkers(w) PROVE Goal
  BY <1>0, <1>20 DEF FindDeadWorkers, Worker, CopyOK, Put
<1>21. ASSUME NEW w \in Workers, Sweep(w) PROVE Goal
  BY <1>0, <1>21 DEF Sweep, Worker, CopyOK, Put
<1>22. ASSUME NEW w \in Workers, NEW j \in Jobs, InspectStuck(w, j) PROVE Goal
  <2> DEFINE stuck == /\ ~ \E e \in execs \cup expired : e[2] = j
                      /\ ~ hash[j].status = "absent"
                      /\ seen[j] = "old"
  <2>1. Copy(j).left = hash[j].left
    BY DEF Copy
  <2>2. Put(w, [worker[w] EXCEPT !.ids = @ \ {j},
                                 !.pc = IF stuck THEN "failStuck" ELSE @,
                                 !.job = IF stuck THEN j ELSE @,
                                 !.copy = IF stuck THEN Copy(j) ELSE @])
    BY <1>22 DEF InspectStuck
  <2> HIDE DEF stuck
  <2>3. CASE stuck
    BY <1>0, <2>1, <2>2, <2>3 DEF Worker, CopyOK, Put
  <2>4. CASE ~stuck
    BY <1>0, <2>2, <2>4 DEF Worker, CopyOK, Put
  <2> QED BY <2>3, <2>4
<1>23. ASSUME NEW w \in Workers, FailStuck(w) PROVE Goal
  BY <1>0, <1>23 DEF FailStuck, Worker, CopyOK, Put
<1>24. ASSUME NEW w \in Workers, RemoveStuck(w) PROVE Goal
  BY <1>0, <1>24 DEF RemoveStuck, Worker, CopyOK, Put
<1>25. ASSUME NEW w \in Workers, EndMaintenance(w) PROVE Goal
  BY <1>a, <1>25 DEF EndMaintenance
<1>26. ASSUME NEW w \in Workers, Heartbeat(w) PROVE Goal
  BY <1>0, <1>26 DEF Heartbeat
<1>27. ASSUME NEW w \in Workers, RequestStop(w) PROVE Goal
  BY <1>0, <1>b, <1>27 DEF RequestStop, Worker, CopyOK, Put
<1>28. ASSUME NEW w \in Workers, RequestForceStop(w) PROVE Goal
  BY <1>0, <1>b, <1>d, <1>28 DEF RequestForceStop
<1>29. ASSUME NEW w \in Workers, KillHorseCommand(w) PROVE Goal
  BY <1>0, <1>29 DEF KillHorseCommand, Worker, CopyOK, Put
<1>30. ASSUME NEW w \in Workers, NEW j \in Jobs, StopJobCommand(w, j) PROVE Goal
  BY <1>0, <1>30 DEF StopJobCommand, Worker, CopyOK, Put
<1>31. ASSUME NEW w \in Workers, KillWorker(w) PROVE Goal
  BY <1>b, <1>31 DEF KillWorker
<1>32. ASSUME NEW w \in Workers, KillHost(w) PROVE Goal
  BY <1>0, <1>32 DEF KillHost, Worker, CopyOK, Put
<1>33. ASSUME NEW w \in Workers, KillHorse(w) PROVE Goal
  BY <1>0, <1>33 DEF KillHorse, HorseEnds, Worker, CopyOK, Put
<1>34. ASSUME NEW w \in Workers, KillOverdue(w) PROVE Goal
  BY <1>0, <1>34 DEF KillOverdue, Worker, CopyOK, Put
<1>35. ASSUME LockExpires PROVE Goal
  BY <1>0, <1>35 DEF LockExpires
<1>36. ASSUME NEW j \in Jobs, MinutePasses(j) PROVE Goal
  BY <1>0, <1>36 DEF MinutePasses
<1>37. ASSUME NEW j \in Jobs, JobExpires(j) PROVE Goal
  BY <1>0, <1>37 DEF JobExpires
<1>38. ASSUME NEW w \in Workers, KeyExpires(w) PROVE Goal
  BY <1>0, <1>38 DEF KeyExpires
<1>39. ASSUME NEW w \in Workers, NEW j \in Jobs, Expire(w, j) PROVE Goal
  BY <1>0, <1>39 DEF Expire
<1>40. ASSUME Suspend PROVE Goal
  BY <1>0, <1>40 DEF Suspend
<1>41. ASSUME Resume PROVE Goal
  BY <1>0, <1>41 DEF Resume
<1>42. CASE UNCHANGED vars
  BY <1>0, <1>42 DEF vars
<1> QED
  BY <1>1, <1>2, <1>3, <1>4, <1>5, <1>6, <1>7, <1>8, <1>9, <1>10, <1>11,
     <1>12, <1>13, <1>14, <1>15, <1>16, <1>17, <1>18, <1>19, <1>20, <1>21,
     <1>22, <1>23, <1>24, <1>25, <1>26, <1>27, <1>28, <1>29, <1>30, <1>31,
     <1>32, <1>33, <1>34, <1>35, <1>36, <1>37, <1>38, <1>39, <1>40, <1>41,
     <1>42
     DEF Next, ParentNext, HorseNext, DequeueNext, MaintenanceNext, SignalNext,
         TimeNext

\* j has no more retries than at first, and is not pushed but for a retry.
LeftKept(j) ==
    /\ hash'[j].left =< Retries[j]
    /\ ~Retried(j)' => ~Retried(j) /\ queue'[j] =< queue[j]

\* Only the status is written: nothing is pushed.
LEMMA StatusLeft ==
  ASSUME Typed, LeftOK, NEW i \in Jobs, NEW s, SetStatus(i, s), UNCHANGED queue
  PROVE  \A j \in Jobs : LeftKept(j)
<1>0. /\ hash \in [Jobs -> [status : Statuses, left : Nat, count : Nat]]
      /\ queue \in [Jobs -> Nat]
  BY DEF Typed, TypeOK
<1>1. ASSUME NEW j \in Jobs
      PROVE  hash'[j].left = hash[j].left /\ hash'[j].count = hash[j].count
  <2>1. hash[j] \in [status : Statuses, left : Nat, count : Nat]
    BY <1>0
  <2> QED BY <1>0, <2>1 DEF SetStatus
<1> QED BY <1>0, <1>1 DEF LeftOK, LeftKept, Retried

\* A retry is one of those that the job had, or is counted.
LEMMA RetryLeft ==
  ASSUME Typed, LeftOK, NEW i \in Jobs, NEW c \in [left : Nat, count : Nat],
         c.left =< Retries[i], (Retry(i, c) /\ c.left > 0) \/ HandleRetryResult(i, c)
  PROVE  \A j \in Jobs : LeftKept(j)
<1>0. /\ hash \in [Jobs -> [status : Statuses, left : Nat, count : Nat]]
      /\ queue \in [Jobs -> Nat] /\ Retries \in [Jobs -> Nat]
  BY WorkerAssumption DEF Typed, TypeOK
<1> SUFFICES ASSUME NEW j \in Jobs
             PROVE  LeftKept(j)
  OBVIOUS
<1>1. CASE j # i
  <2>1. hash'[j] = hash[j] /\ queue'[j] = queue[j]
    BY <1>0, <1>1 DEF Retry, HandleRetryResult
  <2> QED BY <1>0, <2>1 DEF LeftOK, LeftKept, Retried
<1>2. CASE j = i /\ Retry(i, c) /\ c.left > 0
  <2>1. hash'[j].left = c.left - 1
    BY <1>0, <1>2 DEF Retry
  <2>2. c.left \in Nat /\ Retries[j] \in Nat /\ c.left =< Retries[j]
    BY <1>0, <1>2
  <2> QED BY <1>2, <2>1, <2>2 DEF LeftKept, Retried
<1>3. CASE j = i /\ HandleRetryResult(i, c)
  <2>1. hash'[j].left = c.left /\ hash'[j].count = c.count + 1
    BY <1>0, <1>3 DEF HandleRetryResult
  <2>2. c.count + 1 > 0
    OBVIOUS
  <2> QED BY <1>3, <2>1, <2>2 DEF LeftKept, Retried
<1> QED BY <1>1, <1>2, <1>3

\* handle_job_failure.
LEMMA FailureLeft ==
  ASSUME Typed, LeftOK, NEW w, NEW i \in Jobs, NEW c \in [left : Nat, count : Nat],
         c.left =< Retries[i], NEW b, JobFailure(w, i, c, b)
  PROVE  \A j \in Jobs : LeftKept(j)
<1>1. CASE c.left > 0 /\ ~b
  BY <1>1, RetryLeft DEF JobFailure
<1>2. CASE ~(c.left > 0 /\ ~b)
  BY <1>2, StatusLeft DEF JobFailure
<1> QED BY <1>1, <1>2

\* No handler gives a job more retries, and only a retry pushes it.
LEMMA LeftNext ==
  ASSUME Typed, LeftOK, [Next]_vars
  PROVE  \A j \in Jobs : LeftKept(j)
<1> DEFINE Goal == \A j \in Jobs : LeftKept(j)
<1>0. /\ \A x \in Workers : Hand(worker[x]) /\ CopyOK(worker[x])
                            /\ worker[x].copy \in [left : Nat, count : Nat]
      /\ hash \in [Jobs -> [status : Statuses, left : Nat, count : Nat]]
      /\ queue \in [Jobs -> Nat] /\ Retries \in [Jobs -> Nat]
  BY IsWorker, WorkerAssumption DEF Typed, TypeOK, LeftOK, Worker
<1>a. ASSUME UNCHANGED hash, \A j \in Jobs : queue'[j] =< queue[j] PROVE Goal
  BY <1>0, <1>a DEF LeftOK, LeftKept, Retried
<1>1. ASSUME NEW w \in Workers, HandleFailure(w) PROVE Goal
  BY <1>1, <1>0, FailureLeft DEF HandleFailure, Hand, CopyOK
<1>2. ASSUME NEW w \in Workers, PrepareJob(w) PROVE Goal
  BY <1>2, <1>0, StatusLeft DEF PrepareJob, Hand
<1>3. ASSUME NEW w \in Workers, HandleSuccess(w) PROVE Goal
  BY <1>3, <1>0, StatusLeft DEF HandleSuccess, Hand
<1>4. ASSUME NEW w \in Workers, JobRaises(w) PROVE Goal
  BY <1>4, <1>0, FailureLeft DEF JobRaises, Hand, CopyOK
<1>5. ASSUME NEW w \in Workers, JobReturnsRetry(w) PROVE Goal
  <2>1. worker[w].job \in Jobs
    BY <1>5, <1>0 DEF JobReturnsRetry, Hand
  <2>2. \/ SetStatus(worker[w].job, "failed") /\ UNCHANGED queue
        \/ HandleRetryResult(worker[w].job, worker[w].copy)
    BY <1>5 DEF JobReturnsRetry
  <2> QED BY <1>0, <2>1, <2>2, StatusLeft, RetryLeft DEF CopyOK
<1>6. ASSUME NEW w \in Workers, CleanStarted(w) PROVE Goal
  <2> DEFINE js == {j \in worker[w].ids : hash[j].status # "absent"}
             again == {j \in js : hash[j].left > 0}
  <2>1. /\ hash' = [j \in Jobs |->
               IF j \in again THEN [hash[j] EXCEPT !.status = "queued", !.left = @ - 1]
               ELSE IF j \in js THEN [hash[j] EXCEPT !.status = "failed"] ELSE hash[j]]
        /\ queue' = [j \in Jobs |-> IF j \in again THEN queue[j] + 1 ELSE queue[j]]
    BY <1>6 DEF CleanStarted
  <2> SUFFICES ASSUME NEW j \in Jobs
               PROVE  LeftKept(j)
    OBVIOUS
  <2>2. /\ hash[j] \in [status : Statuses, left : Nat, count : Nat]
        /\ Retries[j] \in Nat /\ hash[j].left =< Retries[j] /\ queue[j] \in Nat
    BY <1>0 DEF LeftOK
  <2>3. CASE j \in again
    <3>1. hash'[j].left = hash[j].left - 1
      BY <2>1, <2>2, <2>3
    <3> QED BY <2>2, <3>1 DEF LeftKept, Retried
  <2>4. CASE j \notin again
    <3>1. /\ hash'[j].left = hash[j].left /\ hash'[j].count = hash[j].count
          /\ queue'[j] = queue[j]
      BY <2>1, <2>2, <2>4
    <3> QED BY <2>2, <3>1 DEF LeftKept, Retried
  <2> QED BY <2>3, <2>4
<1>7. ASSUME NEW w \in Workers, FailStuck(w) PROVE Goal
  BY <1>7, <1>0, FailureLeft DEF FailStuck, Hand, CopyOK
<1>8. ASSUME NEW w \in Workers, NEW j \in Jobs, Dequeue(w, j) \/ DropId(w, j) PROVE Goal
  BY <1>8, <1>0, <1>a DEF Dequeue, DropId, Pop
<1>9. ASSUME NEW j \in Jobs, JobExpires(j) PROVE Goal
  BY <1>9, StatusLeft DEF JobExpires
<1>10. CASE UNCHANGED <<hash, queue>>
  BY <1>10, <1>0, <1>a
<1>11. UNCHANGED <<hash, queue>> \/
       \/ \E w \in Workers :
             \/ HandleFailure(w) \/ PrepareJob(w) \/ HandleSuccess(w) \/ JobRaises(w)
             \/ JobReturnsRetry(w) \/ CleanStarted(w) \/ FailStuck(w)
             \/ \E j \in Jobs : Dequeue(w, j) \/ DropId(w, j)
       \/ \E j \in Jobs : JobExpires(j)
  BY KeptNext
     DEF kept, Disturbs, PrepareExecution, StartMaintenance, RemoveStuck, EndMaintenance,
         InspectStuck, Expire, MinutePasses, LockExpires
<1> QED
  BY <1>1, <1>2, <1>3, <1>4, <1>5, <1>6, <1>7, <1>8, <1>9, <1>10, <1>11

-----------------------------------------------------------------------------
(* No job is lost: a job that no retry has put back.                       *)

\* A step that starts no job, lists none and sees none for the first time, and
\* takes no entry of what is left behind.
LEMMA FreshKept ==
  ASSUME IsFiniteSet(Workers), Typed, NEW j \in Jobs, FreshOK(j),
         ~Retried(j)' => ~Retried(j) /\ queue'[j] =< queue[j],
         queue' \in [Jobs -> Nat], inter' \in [Jobs -> Nat],
         j \in disputed' => j \in disputed, seen'[j] = seen[j], inter'[j] =< inter[j],
         inter'[j] = inter[j] \/ Starters(j) # {} \/ ~Listed(j)',
         Listed(j)' => Listed(j),
         \A x \in Workers : Starts(worker'[x], j) => Starts(worker[x], j)
  PROVE  FreshOK(j)'
<1>0. /\ queue[j] \in Nat /\ inter[j] \in Nat
      /\ queue'[j] \in Nat /\ inter'[j] \in Nat
  BY DEF Typed, TypeOK
<1>1. Starters(j)' \subseteq Starters(j)
  BY DEF Starters, Starts, Forked
<1> SUFFICES ASSUME ~Retried(j)' PROVE /\ j \notin disputed'
                                       /\ queue'[j] + inter'[j] =< 1
                                       /\ seen'[j] # "none" \/ Listed(j)' => queue'[j] = 0
                                       /\ seen'[j] = "old" =>
                                             Starters(j)' = {} /\ (Listed(j)' => inter'[j] > 0)
  BY DEF FreshOK
<1> HIDE DEF Listed, Starters, Retried
<1> QED BY <1>0, <1>1 DEF FreshOK

\* A mild step that leaves the entries, the first_seen keys and the disputes.
LEMMA MildFresh ==
  ASSUME IsFiniteSet(Workers), Typed, AllFresh, AllMild,
         UNCHANGED <<inter, seen, disputed>>, queue' \in [Jobs -> Nat],
         \A j \in Jobs : ~Retried(j)' => ~Retried(j) /\ queue'[j] =< queue[j]
  PROVE  AllFresh'
<1> SUFFICES ASSUME NEW j \in Jobs PROVE FreshOK(j)'
  BY DEF AllFresh
<1>0. inter' \in [Jobs -> Nat] /\ inter'[j] =< inter[j]
  BY DEF Typed, TypeOK
<1>1. Listed(j)' => Listed(j)
  BY DEF AllMild, Mild, Listed
<1>2. FreshOK(j)
  BY DEF AllFresh
<1> QED BY <1>0, <1>1, <1>2, MildStarts, FreshKept

\* The only entry of j goes from the queue to the intermediate queue: no cleanup has
\* seen it yet.
LEMMA FreshTaken ==
  ASSUME Typed, NEW j \in Jobs, FreshOK(j), ~Retried(j)' => ~Retried(j),
         UNCHANGED <<seen, disputed>>, queue[j] > 0,
         queue' = [queue EXCEPT ![j] = @ - 1], inter' = [inter EXCEPT ![j] = @ + 1],
         Listed(j)' => Listed(j)
  PROVE  FreshOK(j)'
<1>1. /\ queue[j] \in Nat /\ inter[j] \in Nat
      /\ queue'[j] = queue[j] - 1 /\ inter'[j] = inter[j] + 1
  BY DEF Typed, TypeOK
<1>2. ~Retried(j)' => seen[j] = "none" /\ ~Listed(j)
  BY <1>1 DEF FreshOK
<1> SUFFICES ASSUME ~Retried(j)'
             PROVE  /\ j \notin disputed' /\ queue'[j] + inter'[j] =< 1
                    /\ seen'[j] = "none" /\ ~Listed(j)'
  BY DEF FreshOK
<1> QED BY <1>1, <1>2 DEF FreshOK

\* Every handler keeps AllFresh: an old first_seen key of a job that comes for the
\* first time is that of an entry that a dead worker has left.
LEMMA FreshNext ==
  ASSUME IsFiniteSet(Workers), Intermediate, Typed, Punctual, OneCleaner, StuckOK, LeftOK,
         AllFresh, queue' \in [Jobs -> Nat], inter' \in [Jobs -> Nat], [Next]_vars
  PROVE  AllFresh'
<1>0. /\ \A x \in Workers : Hand(worker[x])
      /\ inter \in [Jobs -> Nat] /\ queue \in [Jobs -> Nat]
      /\ queue' \in [Jobs -> Nat] /\ inter' \in [Jobs -> Nat]
      /\ seen \in [Jobs -> {"none", "new", "old"}]
      /\ IsFiniteSet(Workers) /\ Intermediate
      /\ \A k \in Jobs : FreshOK(k) /\ inter[k] =< inter[k]
  BY DEF Typed, TypeOK, AllFresh
<1>a. \A k \in Jobs : ~Retried(k)' => ~Retried(k) /\ queue'[k] =< queue[k]
  BY LeftNext DEF LeftKept
<1>1. ASSUME NEW w \in Workers, HandleFailure(w) PROVE AllFresh'
  BY <1>1, <1>0, <1>a, MildMoves, MildFresh DEF HandleFailure
<1>2. ASSUME NEW w \in Workers, PrepareJob(w) PROVE AllFresh'
  <2>1. /\ UNCHANGED <<seen, disputed>> /\ worker[w].horse = "ready"
        /\ inter' = [inter EXCEPT ![worker[w].job] = IF Intermediate /\ @ > 0
                                                     THEN @ - 1 ELSE @]
    BY <1>2 DEF PrepareJob
  <2>2. AllMild
    BY <1>2, MildMoves
  <2>3. ASSUME NEW k \in Jobs PROVE FreshOK(k)'
    <3>1. Listed(k)' => Listed(k)
      BY <2>2 DEF AllMild, Mild, Listed
    <3>2. inter'[k] =< inter[k] /\ (inter'[k] = inter[k] \/ Starters(k) # {})
      <4>1. CASE k = worker[w].job
        <5>1. w \in Starters(k)
          BY <2>1, <4>1 DEF Starters
        <5>2. inter'[k] =< inter[k]
          BY <1>0, <2>1, <4>1
        <5> QED BY <5>1, <5>2
      <4>2. CASE k # worker[w].job
        BY <1>0, <2>1, <4>2
      <4> QED BY <4>1, <4>2
    <3> QED BY <1>0, <1>a, <2>1, <2>2, <3>1, <3>2, MildStarts, FreshKept
  <2> QED BY <2>3 DEF AllFresh
<1>3. ASSUME NEW w \in Workers, HandleSuccess(w) PROVE AllFresh'
  BY <1>3, <1>0, <1>a, MildMoves, MildFresh DEF HandleSuccess
<1>4. ASSUME NEW w \in Workers, JobRaises(w) PROVE AllFresh'
  BY <1>4, <1>0, <1>a, MildMoves, MildFresh DEF JobRaises
<1>5. ASSUME NEW w \in Workers, JobReturnsRetry(w) PROVE AllFresh'
  BY <1>5, <1>0, <1>a, MildMoves, MildFresh DEF JobReturnsRetry
<1>6. ASSUME NEW w \in Workers, PrepareExecution(w) PROVE AllFresh'
  <2>1. After(w, "prepared", worker[w].job, worker[w].horse, worker[w].ids, worker[w].keys)
    BY <1>6, GotoMoves, Labels DEF PrepareExecution
  <2>2. UNCHANGED <<inter, seen, disputed>> /\ worker[w].pc = "fetched"
    BY <1>6 DEF PrepareExecution
  <2>3. ASSUME NEW k \in Jobs
        PROVE  /\ Listed(k)' => Listed(k)
               /\ \A x \in Workers : Starts(worker'[x], k) => Starts(worker[x], k)
    BY <2>1, <2>2 DEF After, Listed, Looking, Starts, Forked
  <2> QED BY <1>0, <1>a, <2>2, <2>3, FreshKept DEF AllFresh
<1>7. ASSUME NEW w \in Workers, StartMaintenance(w) PROVE AllFresh'
  <2>1. \E is : After(w, "cleanStarted", worker[w].job, worker[w].horse, is,
                     worker[w].keys)
    BY <1>7, StartMaintenanceMoves
  <2>2. UNCHANGED <<inter, seen, disputed>> /\ worker[w].pc = "idle"
    BY <1>7 DEF StartMaintenance
  <2>3. ASSUME NEW k \in Jobs
        PROVE  /\ Listed(k)' => Listed(k)
               /\ \A x \in Workers : Starts(worker'[x], k) => Starts(worker[x], k)
    BY <2>1, <2>2 DEF After, Listed, Looking, Starts, Forked
  <2> QED BY <1>0, <1>a, <2>2, <2>3, FreshKept DEF AllFresh
<1>8. ASSUME NEW w \in Workers, CleanStarted(w) PROVE AllFresh'
  BY <1>8, <1>0, <1>a, MildMoves, MildFresh DEF CleanStarted
<1>9. ASSUME NEW w \in Workers, FailStuck(w) PROVE AllFresh'
  <2>1. After(w, "removeStuck", worker[w].job, worker[w].horse, worker[w].ids,
              worker[w].keys)
    BY <1>9, FailStuckMoves
  <2>2. UNCHANGED <<inter, seen, disputed>> /\ worker[w].pc = "failStuck"
    BY <1>9 DEF FailStuck
  <2>3. ASSUME NEW k \in Jobs
        PROVE  /\ Listed(k)' => Listed(k)
               /\ \A x \in Workers : Starts(worker'[x], k) => Starts(worker[x], k)
    BY <2>1, <2>2 DEF After, Listed, Looking, Starts, Forked
  <2> QED BY <1>0, <1>a, <2>2, <2>3, FreshKept DEF AllFresh
<1>10. ASSUME NEW w \in Workers, RemoveStuck(w) PROVE AllFresh'
  <2>1. /\ UNCHANGED <<seen, disputed>> /\ worker[w].pc = "removeStuck"
        /\ worker[w].job \in Jobs
        /\ inter' = [inter EXCEPT ![worker[w].job] = IF @ > 0 THEN @ - 1 ELSE 0]
    BY <1>10, <1>0 DEF RemoveStuck, Hand
  <2>2. AllMild
    BY <1>10, MildMoves
  <2>3. After(w, "cleanStuck", NoJob, worker[w].horse, worker[w].ids, worker[w].keys)
    BY <1>10, RemoveStuckMoves
  <2>4. ASSUME NEW k \in Jobs PROVE FreshOK(k)'
    <3>1. Listed(k)' => Listed(k)
      BY <2>2 DEF AllMild, Mild, Listed
    <3>2. inter'[k] =< inter[k] /\ (inter'[k] = inter[k] \/ ~Listed(k)')
      <4>1. CASE k = worker[w].job
        <5>1. k \notin worker'[w].ids
          BY <2>1, <2>3, <4>1 DEF StuckOK, Handles, After
        <5>2. \A x \in Workers \ {w} : worker'[x].pc \notin Looking
          BY <2>1, <2>3 DEF OneCleaner, Cleaning, Looking, After
        <5>3. inter'[k] =< inter[k]
          BY <1>0, <2>1, <4>1
        <5> QED BY <5>1, <5>2, <5>3 DEF Listed
      <4>2. CASE k # worker[w].job
        BY <1>0, <2>1, <4>2
      <4> QED BY <4>1, <4>2
    <3> QED BY <1>0, <1>a, <2>1, <2>2, <3>1, <3>2, MildStarts, FreshKept
  <2> QED BY <2>4 DEF AllFresh
<1>11. ASSUME NEW w \in Workers, EndMaintenance(w) PROVE AllFresh'
  BY <1>11, <1>0, <1>a, MildMoves, MildFresh DEF EndMaintenance
<1>12. ASSUME NEW w \in Workers, NEW j \in Jobs, Dequeue(w, j) PROVE AllFresh'
  <2>1. After(w, "fetched", j, worker[w].horse, worker[w].ids, worker[w].keys)
    BY <1>12, DequeueMoves
  <2>2. /\ UNCHANGED <<seen, disputed>> /\ worker[w].pc = "idle" /\ queue[j] > 0
        /\ queue' = [queue EXCEPT ![j] = @ - 1] /\ inter' = [inter EXCEPT ![j] = @ + 1]
    BY <1>12, <1>0 DEF Dequeue, Pop
  <2>3. ASSUME NEW k \in Jobs PROVE FreshOK(k)'
    <3>1. Listed(k)' => Listed(k)
      BY <2>1, <2>2 DEF After, Listed, Looking
    <3>2. CASE k = j
      BY <1>0, <1>a, <2>2, <3>1, <3>2, FreshTaken
    <3>3. CASE k # j
      <4>1. inter'[k] = inter[k]
        BY <1>0, <2>2, <3>3
      <4>2. \A x \in Workers : Starts(worker'[x], k) => Starts(worker[x], k)
        BY <1>0, <2>1, <2>2, <3>3 DEF After, Starts, Forked, Hand
      <4> QED BY <1>0, <1>a, <2>2, <3>1, <4>1, <4>2, FreshKept
    <3> QED BY <3>2, <3>3
  <2> QED BY <2>3 DEF AllFresh
<1>13. ASSUME NEW w \in Workers, NEW j \in Jobs, DropId(w, j) PROVE AllFresh'
  <2>1. /\ UNCHANGED <<worker, seen, disputed>> /\ queue[j] > 0
        /\ queue' = [queue EXCEPT ![j] = @ - 1] /\ inter' = [inter EXCEPT ![j] = @ + 1]
    BY <1>13, <1>0 DEF DropId, Pop
  <2>2. ASSUME NEW k \in Jobs PROVE FreshOK(k)'
    <3>1. Listed(k)' => Listed(k)
      BY <2>1 DEF Listed
    <3>2. CASE k = j
      BY <1>0, <1>a, <2>1, <3>1, <3>2, FreshTaken
    <3>3. CASE k # j
      <4>1. inter'[k] = inter[k]
        BY <1>0, <2>1, <3>3
      <4> QED BY <1>0, <1>a, <2>1, <3>1, <4>1, FreshKept
    <3> QED BY <3>2, <3>3
  <2> QED BY <2>2 DEF AllFresh
<1>14. ASSUME NEW w \in Workers, NEW j \in Jobs, InspectStuck(w, j)
      PROVE  AllFresh'
  <2>1. \A x \in Workers \ {w} : worker'[x] = worker[x] /\ worker[x].pc \notin Cleaning
    BY <1>14, InspectStuckMoves DEF InspectStuck, After, OneCleaner, Cleaning
  <2>2. /\ worker'[w].pc \in Looking /\ worker'[w].ids = worker[w].ids \ {j}
        /\ ~Forked(worker'[w]) /\ worker[w].pc = "cleanStuck" /\ j \in worker[w].ids
    <3>1. worker[w].pc = "cleanStuck" /\ j \in worker[w].ids
      BY <1>14 DEF InspectStuck
    <3>2. /\ worker'[w].pc \in {"cleanStuck", "failStuck"}
          /\ worker'[w].ids = worker[w].ids \ {j} /\ worker'[w].horse = worker[w].horse
      BY <1>14, <3>1, InspectStuckMoves DEF After
    <3> QED BY <1>0, <3>1, <3>2 DEF Looking, Forked, Hand
  <2>3. ASSUME NEW k \in Jobs
        PROVE  /\ Listed(k)' => Listed(k) /\ k # j
               /\ \A x \in Workers : Starts(worker'[x], k) => Starts(worker[x], k)
    <3>1. \A x \in Workers \ {w} : worker'[x].pc \notin Looking
      BY <2>1 DEF Looking, Cleaning
    <3>2. Listed(k)' => Listed(k) /\ k # j
      BY <2>2, <3>1 DEF Listed, Looking
    <3>3. ~Starts(worker'[w], k)
      BY <2>2 DEF Starts, Looking
    <3> QED BY <2>1, <3>2, <3>3
  <2>4. Listed(j)
    BY <2>2 DEF Listed, Looking
  <2>5. /\ \A k \in Jobs \ {j} : seen'[k] = seen[k] /\ inter'[k] = inter[k]
        /\ inter'[j] =< inter[j] /\ (seen'[j] = "old" => seen[j] = "old")
        /\ \A k \in Jobs \ {j} : k \in disputed' => k \in disputed
        /\ j \in disputed' /\ j \notin disputed =>
              seen[j] = "old" /\ inter[j] =< Cardinality(Starters(j))
    <3> DEFINE gone == hash[j].status = "absent"
               started == \E e \in execs \cup expired : e[2] = j
               stuck == ~started /\ ~gone /\ seen[j] = "old"
    <3>1. /\ seen' = [seen EXCEPT ![j] = IF ~started /\ ~gone /\ @ = "none"
                                         THEN "new" ELSE @]
          /\ inter' = [inter EXCEPT ![j] = IF gone /\ ~started /\ @ > 0 THEN @ - 1 ELSE @]
      BY <1>14 DEF InspectStuck
    <3>2. disputed' = IF stuck /\ inter[j] <= Cardinality(Starters(j))
                      THEN disputed \cup {j} ELSE disputed
      BY <1>14 DEF InspectStuck
    <3>3. stuck => seen[j] = "old"
      OBVIOUS
    <3> HIDE DEF gone, started, stuck
    <3>4. /\ \A k \in Jobs \ {j} : seen'[k] = seen[k] /\ inter'[k] = inter[k]
          /\ inter'[j] =< inter[j] /\ (seen'[j] = "old" => seen[j] = "old")
      BY <1>0, <3>1
    <3> QED BY <3>2, <3>3, <3>4
  <2>6. ASSUME NEW k \in Jobs PROVE FreshOK(k)'
    <3>1. CASE k # j
      BY <1>0, <1>a, <2>3, <2>5, <3>1, FreshKept
    <3>2. CASE k = j
      <4> SUFFICES ASSUME ~Retried(j)'
                   PROVE  /\ j \notin disputed' /\ queue'[j] + inter'[j] =< 1
                          /\ queue'[j] = 0
                          /\ seen'[j] = "old" => Starters(j)' = {}
        BY <2>3, <3>2 DEF FreshOK
      <4>1. /\ j \notin disputed /\ queue[j] = 0 /\ queue[j] + inter[j] =< 1
            /\ seen[j] = "old" => Starters(j) = {} /\ inter[j] > 0
            /\ queue'[j] =< queue[j]
        BY <1>0, <1>a, <2>4 DEF FreshOK
      <4>2. /\ queue'[j] \in Nat /\ inter'[j] \in Nat /\ inter[j] \in Nat
        BY <1>0
      <4>3. queue'[j] = 0 /\ queue'[j] + inter'[j] =< 1
        BY <2>5, <4>1, <4>2
      <4>4. seen'[j] = "old" => Starters(j)' = {}
        BY <2>3, <2>5, <4>1 DEF Starters, Starts, Forked
      <4>5. j \notin disputed'
        BY <2>5, <4>1, <4>2, FS_EmptySet
      <4> QED BY <4>3, <4>4, <4>5
    <3> QED BY <3>1, <3>2
  <2> QED BY <2>6 DEF AllFresh
<1>15. ASSUME NEW w \in Workers, NEW j \in Jobs, Expire(w, j) PROVE AllFresh'
  BY <1>15, <1>0, <1>a, SameIsMild, MildFresh DEF Expire
<1>16. ASSUME NEW j \in Jobs, MinutePasses(j) PROVE AllFresh'
  <2>1. /\ UNCHANGED <<worker, hash, queue, inter, disputed>> /\ seen[j] = "new"
        /\ \A k \in Jobs \ {j} : seen'[k] = seen[k]
    BY <1>16, <1>0 DEF MinutePasses
  <2>2. ~Starting(j) /\ ~Inspected(j)
    BY <1>16 DEF MinutePasses, Spend, Punctual
  <2>3. Starters(j)' = {} /\ ~Listed(j)'
    BY <2>1, <2>2 DEF Starting, Starters, Inspected, Listed, Looking
  <2>4. ASSUME NEW k \in Jobs PROVE FreshOK(k)'
    <3>1. CASE k # j
      BY <1>0, <1>a, <2>1, <3>1, FreshKept DEF Listed
    <3>2. CASE k = j
      <4>1. FreshOK(j) /\ Retried(j)' = Retried(j)
        BY <1>0, <2>1 DEF Retried
      <4> QED BY <2>1, <2>3, <3>2, <4>1 DEF FreshOK
    <3> QED BY <3>1, <3>2
  <2> QED BY <2>4 DEF AllFresh
<1>17. ASSUME NEW j \in Jobs, JobExpires(j) PROVE AllFresh'
  BY <1>17, <1>0, <1>a, SameIsMild, MildFresh DEF JobExpires
<1>18. ASSUME LockExpires PROVE AllFresh'
  BY <1>18, <1>0, <1>a, SameIsMild, MildFresh DEF LockExpires
<1>19. ASSUME NEW w \in Workers, Sweep(w) PROVE AllFresh'
  <2>1. After(w, "cleanStuck", worker[w].job, worker[w].horse,
              {k \in Jobs : inter[k] > 0}, {})
    BY <1>19, SweepMoves
  <2>2. /\ UNCHANGED <<hash, queue, inter, seen, disputed>> /\ worker[w].pc = "sweep"
    BY <1>19 DEF Sweep
  <2>3. ASSUME NEW k \in Jobs, ~Retried(k)'
        PROVE  /\ k \notin disputed' /\ queue'[k] + inter'[k] =< 1
               /\ seen'[k] # "none" \/ Listed(k)' => queue'[k] = 0
               /\ seen'[k] = "old" => Starters(k)' = {} /\ (Listed(k)' => inter'[k] > 0)
    <3>1. FreshOK(k) /\ ~Retried(k)
      BY <1>0, <1>a, <2>3
    <3>2. \A x \in Workers \ {w} : worker'[x].pc \notin Looking
      BY <2>1, <2>2 DEF OneCleaner, Cleaning, Looking, After
    <3>3. Listed(k)' => inter[k] > 0
      BY <2>1, <3>2 DEF Listed, After
    <3>4. Starters(k)' \subseteq Starters(k)
      BY <1>0, <2>1, <2>2 DEF After, Starters, Hand
    <3>5. queue[k] \in Nat /\ inter[k] \in Nat
      BY <1>0
    <3> HIDE DEF Listed, Starters
    <3> QED BY <2>2, <3>1, <3>3, <3>4, <3>5 DEF FreshOK
  <2> QED BY <2>3 DEF AllFresh, FreshOK
<1>20. CASE UNCHANGED kept /\ AllMild
  BY <1>20, <1>0, <1>a, MildFresh DEF kept
<1> QED
  BY <1>1, <1>2, <1>3, <1>4, <1>5, <1>6, <1>7, <1>8, <1>9, <1>10, <1>11,
     <1>12, <1>13, <1>14, <1>15, <1>16, <1>17, <1>18, <1>19, <1>20, MildNext,
     KeptNext DEF Disturbs, TakesUp

\* At first no one cleans, and every job is in the queue.
LEMMA SafeInit == Init => Safe
<1> SUFFICES ASSUME Init PROVE Safe
  OBVIOUS
<1>1. \A w \in Workers : worker[w] = Idle
  BY DEF Init
<1>2. Idle.pc = "new" /\ Idle.horse = "none"
  BY DEF Idle
<1>3. OneCleaner
  BY <1>1, <1>2 DEF OneCleaner, Cleaning
<1>4. ExecutionsOK
  BY <1>1, <1>2 DEF ExecutionsOK, Registers, Forked
<1>5. StuckOK
  BY <1>1, <1>2 DEF StuckOK, Suspects, Handles, Looking
<1>6. PlacesOK
  <2>1. \A j : ~Removes(j)
    BY <1>1, <1>2 DEF Removes
  <2>2. \A j \in Jobs : queue[j] + inter[j] > 0
    BY DEF Init
  <2> QED BY <2>1, <2>2 DEF PlacesOK, PlaceOK
<1>7. LeftOK
  <2>1. \A j \in Jobs : hash[j].left = Retries[j] /\ Retries[j] \in Nat
    BY WorkerAssumption DEF Init
  <2>2. Idle.job \notin Jobs
    BY WorkerAssumption DEF Idle
  <2> QED BY <1>1, <2>1, <2>2 DEF LeftOK, CopyOK
<1>8. AllFresh
  <2>1. \A j \in Jobs : /\ queue[j] = 1 /\ inter[j] = 0 /\ seen[j] = "none"
                        /\ j \notin disputed
    BY DEF Init
  <2>2. \A j : ~Listed(j)
    BY <1>1, <1>2 DEF Listed, Looking
  <2> QED BY <2>1, <2>2 DEF AllFresh, FreshOK
<1> QED BY <1>3, <1>4, <1>5, <1>6, <1>7, <1>8 DEF Safe

\* Every step keeps the parts together.
LEMMA SafeNext ==
  ASSUME IsFiniteSet(Workers), Intermediate, Typed, Punctual, Safe, [Next]_vars
  PROVE  (Typed /\ Punctual /\ Safe)'
<1>1. Typed'
  BY TypedNext
<1>2. Punctual'
  BY BudgetNext DEF Punctual, Ops
<1>3. inter' \in [Jobs -> Nat] /\ queue' \in [Jobs -> Nat]
  BY <1>1 DEF Typed, TypeOK
<1>4. LeftOK'
  BY LeftNext, CopiesNext DEF Safe, LeftOK, LeftKept, CopyOK
<1> QED BY <1>1, <1>2, <1>3, <1>4, CleanerNext, ExecutionsNext, StuckNext, PlacesNext,
           FreshNext DEF Safe

\* No job is lost when a worker, a horse or a host dies between two steps, at any
\* place: for every number of workers and jobs, with one queue and LMOVE, while no
\* process is held up for a minute or more.  The jobs that NoJobIsLost leaves out are
\* those of which a retry has made IntermediateQueue.cleanup read an old first_seen
\* key: for all others the key does what its minute is for.
THEOREM NothingLost ==
  ASSUME IsFiniteSet(Workers), Intermediate, Budget["delay"] = 0
  PROVE  Spec => []NoJobIsLost
<1> DEFINE Inv == Typed /\ Punctual /\ Safe
<1>1. Init => Inv
  BY TypedInit, SafeInit DEF Init, Punctual
<1>2. Inv /\ [Next]_vars => Inv'
  BY SafeNext
<1>3. Inv => NoJobIsLost
  BY DEF Safe, PlacesOK, PlaceOK, AllFresh, FreshOK, NoJobIsLost, Held
<1> QED BY <1>1, <1>2, <1>3, PTL DEF Spec

-----------------------------------------------------------------------------
(* The workers implement Delivery.                                         *)

\* What cannot happen here: a process that is held up, a command or a signal
\* that stops a worker, and a ttl that ends a job while it waits.
Never == {"delay", "killWorker", "stop", "stopJob", "ttl"}
Calm == \A o \in Never : budget[o] = 0

\* A process is killed where the entries of its job tell how far it got.
Spared == Mortal \cap {"prepared", "removeStuck"} = {} /\ HorseMortal \subseteq {"running"}

\* What a worker in the place l with job k and horse h has to do with j.
Spot(l, k, h, j) ==
    IF l = "dead" THEN "dead"
    ELSE IF k # j THEN "none"
    ELSE IF l = "fetched" THEN "fetched"
    ELSE IF l = "prepared" \/ (l = "monitor" /\ h \in {"forked", "ready"}) THEN "begun"
    ELSE IF l \in {"reaped", "handling"} \/ (l = "monitor" /\ h \in {"running", "killed"})
         THEN "runs"
    ELSE IF l = "removeStuck" THEN "removes"
    ELSE "none"
At(x, j) == Spot(worker[x].pc, worker[x].job, worker[x].horse, j)

\* A horse lives no longer than the parent that waits for it, and is not told
\* to stop.
TiedTo(l, h) ==
    /\ h \in {"forked", "ready", "running", "committed"} => l = "monitor"
    /\ l = "monitor" => h # "none"
Tied == \A x \in Workers : TiedTo(worker[x].pc, worker[x].horse) /\ ~worker[x].cmd

\* j has left the queue and was not started.
Taken(j) == hash[j].status = "queued" /\ queue[j] = 0
Removing(j) == \E x \in Workers : At(x, j) = "removes"
Owns(x, j) == At(x, j) \in {"fetched", "begun", "runs"} \/ <<x, j>> \in execs \cup expired

\* The status of a job and its entries agree with the one worker that has it.
OwnerOK(x, j) ==
    /\ At(x, j) \in {"fetched", "begun"} => Taken(j)
    /\ At(x, j) = "runs" => hash[j].status = "started"
    /\ <<x, j>> \in execs =>
          \/ At(x, j) \in {"begun", "runs"}
          \/ At(x, j) = "dead" /\ hash[j].status = "started"
    /\ <<x, j>> \in expired =>
          At(x, j) = "dead" /\ hash[j].status = "started" /\ <<x, j>> \notin execs
JobOK(j) ==
    /\ queue[j] \in {0, 1}
    /\ queue[j] = 1 => hash[j].status = "queued"
    /\ \A x \in Workers : OwnerOK(x, j)
    /\ \A x, y \in Workers : Owns(x, j) /\ Owns(y, j) => x = y
    /\ inter[j] = (IF Removing(j) THEN 1 ELSE 0) + (IF Taken(j) THEN 1 ELSE 0)
JobsOK == \A j \in Jobs : j \notin disputed => JobOK(j)

\* The jobs that a cleanup of the StartedJobRegistry has listed are abandoned.
ListedOK ==
    \A x \in Workers : worker[x].pc = "cleanStarted" =>
        \A j \in worker[x].ids : j \notin disputed =>
            \E y \in Workers : <<y, j>> \in expired

-----------------------------------------------------------------------------

\* Nobody tells a worker to kill its horse.
LEMMA CmdNext ==
  ASSUME Typed, Calm, \A x \in Workers : ~worker[x].cmd, [Next]_vars
  PROVE  \A x \in Workers : ~worker'[x].cmd
<1> DEFINE Goal == \A x \in Workers : ~worker'[x].cmd
<1>0. /\ \A x \in Workers : worker[x] \in Worker
      /\ worker \in [Workers -> Worker]
      /\ \A x \in Workers : ~worker[x].cmd
      /\ ~Idle.cmd
  BY IsWorker DEF Idle, Worker, Typed, TypeOK
<1>a. ASSUME NEW w \in Workers, NEW l, Goto(w, l) PROVE Goal
  BY <1>0, <1>a DEF Goto, Put, Worker
<1>b. ASSUME NEW w \in Workers, NEW l, Loop(w, l) PROVE Goal
  <2> DEFINE r == worker[w]
             base == IF l \in Dead THEN Idle ELSE [r EXCEPT !.ids = {}, !.keys = {}]
  <2>1. base.cmd = FALSE /\ base \in Worker
    <3>1. r.cmd = FALSE /\ r \in Worker
      BY <1>0 DEF Worker
    <3>2. [r EXCEPT !.ids = {}, !.keys = {}].cmd = FALSE
          /\ [r EXCEPT !.ids = {}, !.keys = {}] \in Worker
      BY ONLY <3>1 DEF Worker
    <3>3. Idle.cmd = FALSE /\ Idle \in Worker
      BY Labels DEF Idle, NoCopy, Worker
    <3> QED BY <3>2, <3>3
  <2> HIDE DEF base
  <2>2. Put(w, IF HorseAlive(w)
              THEN [base EXCEPT !.pc = l, !.job = r.job, !.copy = r.copy,
                                !.horse = r.horse, !.mine = r.mine]
              ELSE [base EXCEPT !.pc = l, !.job = NoJob, !.copy = NoCopy,
                                !.horse = "none", !.mine = FALSE])
    BY <1>b DEF Loop, base
  <2>3. CASE HorseAlive(w)
    BY <1>0, <2>1, <2>2, <2>3 DEF Put, Worker
  <2>4. CASE ~HorseAlive(w)
    BY <1>0, <2>1, <2>2, <2>4 DEF Put, Worker
  <2> QED BY <2>3, <2>4
<1>c. \A o \in Never : ~Spend(o)
  BY DEF Calm, Spend
<1>1. ASSUME NEW w \in Workers, RegisterBirth(w) PROVE Goal
  BY <1>a, <1>1 DEF RegisterBirth
<1>2. ASSUME NEW w \in Workers, EnterLoop(w) PROVE Goal
  BY <1>a, <1>2 DEF EnterLoop
<1>3. ASSUME NEW w \in Workers, PrepareExecution(w) PROVE Goal
  BY <1>a, <1>3 DEF PrepareExecution
<1>4. ASSUME NEW w \in Workers, ForkWorkHorse(w) PROVE Goal
  BY <1>0, <1>4 DEF ForkWorkHorse, Worker, Put
<1>5. ASSUME NEW w \in Workers, WaitForHorse(w) PROVE Goal
  BY <1>a, <1>b, <1>5 DEF WaitForHorse
<1>6. ASSUME NEW w \in Workers, JudgeStatus(w) PROVE Goal
  BY <1>a, <1>b, <1>6 DEF JudgeStatus
<1>7. ASSUME NEW w \in Workers, HandleFailure(w) PROVE Goal
  BY <1>0, <1>7 DEF HandleFailure, Worker, Put
<1>8. ASSUME NEW w \in Workers, RegisterDeath(w) PROVE Goal
  BY <1>b, <1>8 DEF RegisterDeath
<1>9. ASSUME NEW w \in Workers, ExecCommand(w) PROVE Goal
  BY <1>0, <1>9 DEF ExecCommand
<1>10. ASSUME NEW w \in Workers, SetGroup(w) PROVE Goal
  BY <1>0, <1>10 DEF SetGroup, Worker, Put
<1>11. ASSUME NEW w \in Workers, PrepareJob(w) PROVE Goal
  BY <1>0, <1>11 DEF PrepareJob, Worker, Put
<1>12. ASSUME NEW w \in Workers, HandleSuccess(w) PROVE Goal
  BY <1>0, <1>12 DEF HandleSuccess, HorseDone, Worker, Put
<1>13. ASSUME NEW w \in Workers, JobRaises(w) PROVE Goal
  BY <1>0, <1>13 DEF JobRaises, HorseDone, Worker, Put
<1>14. ASSUME NEW w \in Workers, JobReturnsRetry(w) PROVE Goal
  BY <1>0, <1>14 DEF JobReturnsRetry, HorseDone, Worker, Put
<1>15. ASSUME NEW w \in Workers, HorseExits(w) PROVE Goal
  BY <1>0, <1>15 DEF HorseExits, HorseEnds, Worker, Put
<1>16. ASSUME NEW w \in Workers, NEW j \in Jobs, Dequeue(w, j) PROVE Goal
  BY <1>0, <1>16 DEF Dequeue, Worker, Put
<1>17. ASSUME NEW w \in Workers, NEW j \in Jobs, DropId(w, j) PROVE Goal
  BY <1>0, <1>17 DEF DropId
<1>18. ASSUME NEW w \in Workers, StartMaintenance(w) PROVE Goal
  BY <1>0, <1>18 DEF StartMaintenance, Worker, Put
<1>19. ASSUME NEW w \in Workers, CleanStarted(w) PROVE Goal
  BY <1>0, <1>19 DEF CleanStarted, Worker, Put
<1>20. ASSUME NEW w \in Workers, FindDeadWorkers(w) PROVE Goal
  BY <1>0, <1>20 DEF FindDeadWorkers, Worker, Put
<1>21. ASSUME NEW w \in Workers, Sweep(w) PROVE Goal
  BY <1>0, <1>21 DEF Sweep, Worker, Put
<1>22. ASSUME NEW w \in Workers, NEW j \in Jobs, InspectStuck(w, j) PROVE Goal
  BY <1>0, <1>22 DEF InspectStuck, Worker, Put
<1>23. ASSUME NEW w \in Workers, FailStuck(w) PROVE Goal
  BY <1>0, <1>23 DEF FailStuck, Worker, Put
<1>24. ASSUME NEW w \in Workers, RemoveStuck(w) PROVE Goal
  BY <1>0, <1>24 DEF RemoveStuck, Worker, Put
<1>25. ASSUME NEW w \in Workers, EndMaintenance(w) PROVE Goal
  BY <1>a, <1>25 DEF EndMaintenance
<1>26. ASSUME NEW w \in Workers, Heartbeat(w) PROVE Goal
  BY <1>0, <1>26 DEF Heartbeat
<1>27. ASSUME NEW w \in Workers, RequestStop(w) PROVE Goal
  BY <1>c, <1>27 DEF RequestStop, Never
<1>28. ASSUME NEW w \in Workers, RequestForceStop(w) PROVE Goal
  BY <1>c, <1>28 DEF RequestForceStop, Never
<1>29. ASSUME NEW w \in Workers, KillHorseCommand(w) PROVE Goal
  BY <1>c, <1>29 DEF KillHorseCommand, Never
<1>30. ASSUME NEW w \in Workers, NEW j \in Jobs, StopJobCommand(w, j) PROVE Goal
  BY <1>c, <1>30 DEF StopJobCommand, Never
<1>31. ASSUME NEW w \in Workers, KillWorker(w) PROVE Goal
  BY <1>c, <1>31 DEF KillWorker, Never
<1>32. ASSUME NEW w \in Workers, KillHost(w) PROVE Goal
  BY <1>0, <1>32 DEF KillHost, Worker, Put
<1>33. ASSUME NEW w \in Workers, KillHorse(w) PROVE Goal
  BY <1>0, <1>33 DEF KillHorse, HorseEnds, Worker, Put
<1>34. ASSUME NEW w \in Workers, KillOverdue(w) PROVE Goal
  BY <1>0, <1>34 DEF KillOverdue, Worker, Put
<1>35. ASSUME LockExpires PROVE Goal
  BY <1>0, <1>35 DEF LockExpires
<1>36. ASSUME NEW j \in Jobs, MinutePasses(j) PROVE Goal
  BY <1>0, <1>36 DEF MinutePasses
<1>37. ASSUME NEW j \in Jobs, JobExpires(j) PROVE Goal
  BY <1>0, <1>37 DEF JobExpires
<1>38. ASSUME NEW w \in Workers, KeyExpires(w) PROVE Goal
  BY <1>0, <1>38 DEF KeyExpires
<1>39. ASSUME NEW w \in Workers, NEW j \in Jobs, Expire(w, j) PROVE Goal
  BY <1>0, <1>39 DEF Expire
<1>40. ASSUME Suspend PROVE Goal
  BY <1>0, <1>40 DEF Suspend
<1>41. ASSUME Resume PROVE Goal
  BY <1>0, <1>41 DEF Resume
<1>42. CASE UNCHANGED vars
  BY <1>0, <1>42 DEF vars
<1> QED
  BY <1>1, <1>2, <1>3, <1>4, <1>5, <1>6, <1>7, <1>8, <1>9, <1>10, <1>11,
     <1>12, <1>13, <1>14, <1>15, <1>16, <1>17, <1>18, <1>19, <1>20, <1>21,
     <1>22, <1>23, <1>24, <1>25, <1>26, <1>27, <1>28, <1>29, <1>30, <1>31,
     <1>32, <1>33, <1>34, <1>35, <1>36, <1>37, <1>38, <1>39, <1>40, <1>41,
     <1>42
     DEF Next, ParentNext, HorseNext, DequeueNext, MaintenanceNext, SignalNext,
         TimeNext

\* The steps that change what a worker has to do with a job that is not disputed.
Acts(w) ==
    \/ PrepareExecution(w) \/ PrepareJob(w) \/ HandleSuccess(w) \/ JobRaises(w)
    \/ JobReturnsRetry(w) \/ HandleFailure(w) \/ StartMaintenance(w)
    \/ FailStuck(w) \/ RemoveStuck(w) \/ RegisterDeath(w) \/ KillHost(w)
    \/ \E j \in Jobs : Dequeue(w, j)
AllSame == \A x \in Workers, j \in Jobs : j \notin disputed => At(x, j)' = At(x, j)

\* No worker goes to clean the StartedJobRegistry.
Listing ==
    \A x \in Workers : worker'[x].pc = "cleanStarted" =>
        worker[x].pc = "cleanStarted" /\ worker'[x].ids = worker[x].ids

\* What has become of a worker that has moved, and of the others.
LEMMA SpotAfter ==
  ASSUME NEW w \in Workers, NEW l, NEW k, NEW h, NEW is, NEW ks, After(w, l, k, h, is, ks)
  PROVE  /\ \A j : At(w, j)' = Spot(l, k, h, j)
         /\ \A x \in Workers \ {w} : \A j : At(x, j)' = At(x, j)
  BY DEF After, At

\* A worker is still tied to its horse.
LEMMA TiedAfter ==
  ASSUME Tied, NEW w \in Workers, NEW l, NEW k, NEW h, NEW is, NEW ks,
         After(w, l, k, h, is, ks), TiedTo(l, h)
  PROVE  /\ \A x \in Workers : TiedTo(worker'[x].pc, worker'[x].horse)
         /\ (l = "cleanStarted" => worker[w].pc = l /\ is = worker[w].ids) => Listing
  BY DEF After, Tied, Listing

\* A move that changes nothing of a worker's jobs.
LEMMA SameAfter ==
  ASSUME Tied, NEW w \in Workers, NEW l, NEW k, NEW h, NEW is, NEW ks,
         After(w, l, k, h, is, ks), TiedTo(l, h),
         \A j \in Jobs : j \notin disputed => Spot(l, k, h, j) = At(w, j),
         l = "cleanStarted" => worker[w].pc = l /\ is = worker[w].ids
  PROVE  AllSame /\ Listing /\ \A x \in Workers : TiedTo(worker'[x].pc, worker'[x].horse)
  BY SpotAfter, TiedAfter DEF AllSame

\* A step changes nothing of that, or it is one of those that are listed.
LEMMA SpotsNext ==
  ASSUME Typed, Calm, Spared, Tied, JobsOK, [Next]_vars
  PROVE  /\ \A x \in Workers : TiedTo(worker'[x].pc, worker'[x].horse)
         /\ AllSame \/ \E w \in Workers : Acts(w)
         /\ Listing \/ \E w \in Workers : StartMaintenance(w)
<1> DEFINE T == /\ \A x \in Workers : TiedTo(worker'[x].pc, worker'[x].horse)
                /\ Listing \/ \E w \in Workers : StartMaintenance(w)
           Goal == T /\ (AllSame \/ \E w \in Workers : Acts(w))
<1>0. \A x \in Workers : Hand(worker[x])
  BY DEF Typed
<1>a. ASSUME UNCHANGED worker PROVE Goal
  BY <1>a DEF AllSame, At, Tied, Listing
<1>b. \A x \in Workers : TiedTo(worker[x].pc, worker[x].horse) /\ ~worker[x].cmd
  BY DEF Tied
<1>c. \A o \in Never : ~Spend(o)
  BY DEF Calm, Spend
<1>1. ASSUME NEW w \in Workers, RegisterBirth(w) PROVE Goal
  <2>1. After(w, "loop", worker[w].job, worker[w].horse, worker[w].ids, worker[w].keys)
    BY <1>1, GotoMoves, Labels DEF RegisterBirth
  <2> QED BY <1>1, <1>b, <2>1, SameAfter DEF RegisterBirth, At, Spot, TiedTo
<1>2. ASSUME NEW w \in Workers, EnterLoop(w) PROVE Goal
  <2>1. \E l \in {"teardown", "idle"} :
           After(w, l, worker[w].job, worker[w].horse, worker[w].ids, worker[w].keys)
    BY <1>2, GotoMoves, Labels DEF EnterLoop
  <2> QED BY <1>2, <1>b, <2>1, SameAfter DEF EnterLoop, At, Spot, TiedTo
<1>3. ASSUME NEW w \in Workers, PrepareExecution(w) PROVE Goal
  <2>1. After(w, "prepared", worker[w].job, worker[w].horse, worker[w].ids, worker[w].keys)
    BY <1>3, GotoMoves, Labels DEF PrepareExecution
  <2>2. T
    BY <1>3, <1>b, <2>1, TiedAfter DEF PrepareExecution, TiedTo
  <2> QED BY <1>3, <2>2 DEF Acts
<1>4. ASSUME NEW w \in Workers, ForkWorkHorse(w) PROVE Goal
  <2>1. After(w, "monitor", worker[w].job, "forked", worker[w].ids, worker[w].keys)
    BY <1>4, ForkWorkHorseMoves
  <2> QED BY <1>4, <1>b, <2>1, SameAfter DEF ForkWorkHorse, At, Spot, TiedTo
<1>5. ASSUME NEW w \in Workers, WaitForHorse(w) PROVE Goal
  <2>0. worker[w].pc = "monitor" /\ worker[w].horse \in {"exited", "killed"}
    BY <1>5, <1>b, IsWorker DEF WaitForHorse, HorseAlive, TiedTo, Worker, HorsePCs
  <2>1. CASE worker[w].horse = "exited"
    <3>1. After(w, "loop", NoJob, "none", {}, {})
      BY <1>5, <2>1, LoopMoves, Labels DEF WaitForHorse
    <3> QED BY <1>b, <2>0, <2>1, <3>1, SameAfter DEF At, Spot, TiedTo
  <2>2. CASE worker[w].horse = "killed"
    <3>1. After(w, "reaped", worker[w].job, worker[w].horse, worker[w].ids, worker[w].keys)
      BY <1>5, <2>2, GotoMoves, Labels DEF WaitForHorse
    <3> QED BY <1>b, <2>0, <2>2, <3>1, SameAfter DEF At, Spot, TiedTo
  <2> QED BY <2>0, <2>1, <2>2
<1>6. ASSUME NEW w \in Workers, JudgeStatus(w) PROVE Goal
  <2>1. worker[w].pc = "reaped" /\ worker[w].job \in Jobs
    BY <1>0, <1>6 DEF JudgeStatus, Hand
  <2>2. CASE Goto(w, "handling")
    <3>1. After(w, "handling", worker[w].job, worker[w].horse, worker[w].ids,
                worker[w].keys)
      BY <2>2, GotoMoves, Labels
    <3> QED BY <1>b, <2>1, <3>1, SameAfter DEF At, Spot, TiedTo
  <2>3. CASE ~Goto(w, "handling")
    <3>1. hash[worker[w].job].status \in {"absent", "finished", "failed"} /\ Loop(w, "loop")
      BY <1>6, <2>3 DEF JudgeStatus
    <3>2. At(w, worker[w].job) = "runs"
      BY <2>1 DEF At, Spot
    <3>3. worker[w].job \in disputed
      BY <2>1, <3>1, <3>2 DEF JobsOK, JobOK, OwnerOK
    <3>4. After(w, "loop", NoJob, "none", {}, {})
      BY <1>b, <2>1, <3>1, LoopMoves, Labels DEF HorseAlive, TiedTo
    <3>5. \A j \in Jobs : j \notin disputed => Spot("loop", NoJob, "none", j) = At(w, j)
      BY <2>1, <3>3 DEF At, Spot
    <3> QED BY <1>b, <3>4, <3>5, SameAfter DEF TiedTo
  <2> QED BY <2>2, <2>3
<1>7. ASSUME NEW w \in Workers, HandleFailure(w) PROVE Goal
  <2>1. After(w, "loop", NoJob, "none", worker[w].ids, worker[w].keys)
    BY <1>7, HandleFailureMoves
  <2>2. T
    BY <1>7, <1>b, <2>1, TiedAfter DEF HandleFailure, TiedTo
  <2> QED BY <1>7, <2>2 DEF Acts
<1>8. ASSUME NEW w \in Workers, RegisterDeath(w) PROVE Goal
  <2>1. IF HorseAlive(w)
        THEN After(w, "dead", worker[w].job, worker[w].horse, {}, {})
        ELSE After(w, "dead", NoJob, "none", {}, {})
    BY <1>8, LoopMoves, Labels DEF RegisterDeath
  <2>2. T
    BY <1>8, <1>b, <2>1, TiedAfter DEF RegisterDeath, TiedTo, HorseAlive
  <2> QED BY <1>8, <2>2 DEF Acts
<1>9. ASSUME NEW w \in Workers, ExecCommand(w) PROVE Goal
  BY <1>9, <1>b DEF ExecCommand
<1>10. ASSUME NEW w \in Workers, SetGroup(w) PROVE Goal
  <2>1. After(w, worker[w].pc, worker[w].job, "ready", worker[w].ids, worker[w].keys)
    BY <1>10, HorseMoves, Labels DEF SetGroup
  <2> QED BY <1>10, <1>b, <2>1, SameAfter DEF SetGroup, At, Spot, TiedTo
<1>11. ASSUME NEW w \in Workers, PrepareJob(w) PROVE Goal
  <2>1. After(w, worker[w].pc, worker[w].job, "running", worker[w].ids, worker[w].keys)
    BY <1>11, HorseMoves, Labels DEF PrepareJob
  <2>2. T
    BY <1>11, <1>b, <2>1, TiedAfter DEF PrepareJob, TiedTo
  <2> QED BY <1>11, <2>2 DEF Acts
<1>12. ASSUME NEW w \in Workers, HandleSuccess(w) PROVE Goal
  <2>1. After(w, worker[w].pc, worker[w].job, "committed", worker[w].ids, worker[w].keys)
    BY <1>12, HorseMoves, Labels DEF HandleSuccess, HorseDone
  <2>2. T
    BY <1>12, <1>b, <2>1, TiedAfter DEF HandleSuccess, TiedTo
  <2> QED BY <1>12, <2>2 DEF Acts
<1>13. ASSUME NEW w \in Workers, JobRaises(w) PROVE Goal
  <2>1. After(w, worker[w].pc, worker[w].job, "committed", worker[w].ids, worker[w].keys)
    BY <1>13, HorseMoves, Labels DEF JobRaises, HorseDone
  <2>2. T
    BY <1>13, <1>b, <2>1, TiedAfter DEF JobRaises, TiedTo
  <2> QED BY <1>13, <2>2 DEF Acts
<1>14. ASSUME NEW w \in Workers, JobReturnsRetry(w) PROVE Goal
  <2>1. After(w, worker[w].pc, worker[w].job, "committed", worker[w].ids, worker[w].keys)
    BY <1>14, HorseMoves, Labels DEF JobReturnsRetry, HorseDone
  <2>2. T
    BY <1>14, <1>b, <2>1, TiedAfter DEF JobReturnsRetry, TiedTo
  <2> QED BY <1>14, <2>2 DEF Acts
<1>15. ASSUME NEW w \in Workers, HorseExits(w) PROVE Goal
  <2>1. worker[w].pc = "monitor" /\ worker[w].horse = "committed"
    BY <1>15, <1>b DEF HorseExits, TiedTo
  <2>2. After(w, worker[w].pc, worker[w].job, "exited", worker[w].ids, worker[w].keys)
    BY <1>15, <2>1, HorseEndsMoves, Labels DEF HorseExits
  <2> QED BY <2>1, <2>2, SameAfter DEF At, Spot, TiedTo
<1>16. ASSUME NEW w \in Workers, NEW j \in Jobs, Dequeue(w, j) PROVE Goal
  <2>1. After(w, "fetched", j, worker[w].horse, worker[w].ids, worker[w].keys)
    BY <1>16, DequeueMoves
  <2>2. T
    BY <1>16, <1>b, <2>1, TiedAfter DEF Dequeue, TiedTo
  <2> QED BY <1>16, <2>2 DEF Acts
<1>17. ASSUME NEW w \in Workers, NEW j \in Jobs, DropId(w, j) PROVE Goal
  BY <1>a, <1>17 DEF DropId
<1>18. ASSUME NEW w \in Workers, StartMaintenance(w) PROVE Goal
  <2>1. After(w, "cleanStarted", worker[w].job, worker[w].horse,
              {e[2] : e \in expired}, worker[w].keys)
    BY <1>18, StartMaintenanceMoves
  <2>2. T
    BY <1>18, <1>b, <2>1, TiedAfter DEF StartMaintenance, TiedTo
  <2> QED BY <1>18, <2>2 DEF Acts
<1>19. ASSUME NEW w \in Workers, CleanStarted(w) PROVE Goal
  <2>1. After(w, "cleanWorkers", worker[w].job, worker[w].horse, {}, worker[w].keys)
    BY <1>19, CleanStartedMoves
  <2>2. worker[w].pc = "cleanStarted"
    BY <1>19 DEF CleanStarted
  <2> QED BY <1>b, <2>1, <2>2, SameAfter DEF At, Spot, TiedTo
<1>20. ASSUME NEW w \in Workers, FindDeadWorkers(w) PROVE Goal
  <2>1. After(w, "sweep", worker[w].job, worker[w].horse,
              worker[w].ids, {v \in members : key[v] = "none"})
    BY <1>20, FindDeadWorkersMoves
  <2> QED BY <1>20, <1>b, <2>1, SameAfter DEF FindDeadWorkers, At, Spot, TiedTo
<1>21. ASSUME NEW w \in Workers, Sweep(w) PROVE Goal
  <2>1. After(w, "cleanStuck", worker[w].job, worker[w].horse,
              {j \in Jobs : inter[j] > 0}, {})
    BY <1>21, SweepMoves
  <2>2. worker[w].pc = "sweep"
    BY <1>21 DEF Sweep
  <2> QED BY <1>b, <2>1, <2>2, SameAfter DEF At, Spot, TiedTo
<1>22. ASSUME NEW w \in Workers, NEW j \in Jobs, InspectStuck(w, j)
      PROVE  Goal
  <2>1. worker[w].pc = "cleanStuck"
    BY <1>22 DEF InspectStuck
  <2>2. \/ After(w, "failStuck", j, worker[w].horse, worker[w].ids \ {j}, worker[w].keys)
        \/ After(w, "cleanStuck", worker[w].job, worker[w].horse, worker[w].ids \ {j},
                 worker[w].keys)
    BY <1>22, <2>1, InspectStuckMoves
  <2> QED BY <1>b, <2>1, <2>2, SameAfter DEF At, Spot, TiedTo
<1>23. ASSUME NEW w \in Workers, FailStuck(w) PROVE Goal
  <2>1. After(w, "removeStuck", worker[w].job, worker[w].horse, worker[w].ids, worker[w].keys)
    BY <1>23, FailStuckMoves
  <2>2. T
    BY <1>23, <1>b, <2>1, TiedAfter DEF FailStuck, TiedTo
  <2> QED BY <1>23, <2>2 DEF Acts
<1>24. ASSUME NEW w \in Workers, RemoveStuck(w) PROVE Goal
  <2>1. After(w, "cleanStuck", NoJob, worker[w].horse, worker[w].ids, worker[w].keys)
    BY <1>24, RemoveStuckMoves
  <2>2. T
    BY <1>24, <1>b, <2>1, TiedAfter DEF RemoveStuck, TiedTo
  <2> QED BY <1>24, <2>2 DEF Acts
<1>25. ASSUME NEW w \in Workers, EndMaintenance(w) PROVE Goal
  <2>1. After(w, "idle", worker[w].job, worker[w].horse, worker[w].ids, worker[w].keys)
    BY <1>25, GotoMoves, Labels DEF EndMaintenance
  <2> QED BY <1>25, <1>b, <2>1, SameAfter DEF EndMaintenance, At, Spot, TiedTo
<1>26. ASSUME NEW w \in Workers, Heartbeat(w) PROVE Goal
  BY <1>a, <1>26 DEF Heartbeat
<1>27. ASSUME NEW w \in Workers, RequestStop(w) PROVE Goal
  BY <1>c, <1>27 DEF RequestStop, Never
<1>28. ASSUME NEW w \in Workers, RequestForceStop(w) PROVE Goal
  BY <1>c, <1>28 DEF RequestForceStop, Never
<1>29. ASSUME NEW w \in Workers, KillHorseCommand(w) PROVE Goal
  BY <1>c, <1>29 DEF KillHorseCommand, Never
<1>30. ASSUME NEW w \in Workers, NEW j \in Jobs, StopJobCommand(w, j)
      PROVE  Goal
  BY <1>c, <1>30 DEF StopJobCommand, Never
<1>31. ASSUME NEW w \in Workers, KillWorker(w) PROVE Goal
  BY <1>c, <1>31 DEF KillWorker, Never
<1>32. ASSUME NEW w \in Workers, KillHost(w) PROVE Goal
  <2>1. After(w, "dead", NoJob, "none", {}, {})
    BY <1>32, FreshMoves, Labels DEF KillHost
  <2>2. T
    BY <1>32, <1>b, <2>1, TiedAfter DEF KillHost, TiedTo, HorseAlive
  <2> QED BY <1>32, <2>2 DEF Acts
<1>33. ASSUME NEW w \in Workers, KillHorse(w) PROVE Goal
  <2>1. worker[w].pc = "monitor" /\ worker[w].horse = "running"
    BY <1>33, <1>b DEF KillHorse, HorseAlive, Spared, TiedTo
  <2>2. After(w, worker[w].pc, worker[w].job, "killed", worker[w].ids, worker[w].keys)
    BY <1>33, <2>1, HorseEndsMoves, Labels DEF KillHorse
  <2> QED BY <2>1, <2>2, SameAfter DEF At, Spot, TiedTo
<1>34. ASSUME NEW w \in Workers, KillOverdue(w) PROVE Goal
  <2>1. worker[w].pc = "monitor" /\ worker[w].horse = "running"
    BY <1>34 DEF KillOverdue, Spared
  <2>2. After(w, "reaped", worker[w].job, "killed", worker[w].ids, worker[w].keys)
    BY <1>34, KillOverdueMoves
  <2> QED BY <2>1, <2>2, SameAfter DEF At, Spot, TiedTo
<1>35. ASSUME LockExpires PROVE Goal
  BY <1>a, <1>35 DEF LockExpires
<1>36. ASSUME NEW j \in Jobs, MinutePasses(j) PROVE Goal
  BY <1>a, <1>36 DEF MinutePasses
<1>37. ASSUME NEW j \in Jobs, JobExpires(j) PROVE Goal
  BY <1>c, <1>37 DEF JobExpires, Never
<1>38. ASSUME NEW w \in Workers, KeyExpires(w) PROVE Goal
  BY <1>a, <1>38 DEF KeyExpires
<1>39. ASSUME NEW w \in Workers, NEW j \in Jobs, Expire(w, j) PROVE Goal
  BY <1>a, <1>39 DEF Expire
<1>40. ASSUME Suspend PROVE Goal
  BY <1>a, <1>40 DEF Suspend
<1>41. ASSUME Resume PROVE Goal
  BY <1>a, <1>41 DEF Resume
<1>42. CASE UNCHANGED vars
  BY <1>42, <1>a DEF vars
<1> QED
  BY <1>1, <1>2, <1>3, <1>4, <1>5, <1>6, <1>7, <1>8, <1>9, <1>10, <1>11,
     <1>12, <1>13, <1>14, <1>15, <1>16, <1>17, <1>18, <1>19, <1>20, <1>21,
     <1>22, <1>23, <1>24, <1>25, <1>26, <1>27, <1>28, <1>29, <1>30, <1>31,
     <1>32, <1>33, <1>34, <1>35, <1>36, <1>37, <1>38, <1>39, <1>40, <1>41,
     <1>42
     DEF Next, ParentNext, HorseNext, DequeueNext, MaintenanceNext, SignalNext,
         TimeNext

-----------------------------------------------------------------------------

\* What the abstract specification sees of j: nothing, or one of its moves.
Goes(j) ==
    \/ Place(j)' \in {Place(j), "disputed"}
    \/ Place(j) = "waiting" /\ Place(j)' = "taken"
    \/ Place(j) = "taken" /\ Place(j)' \in {"waiting", "ended"}
Fine(j) == (j \notin disputed' => JobOK(j)') /\ Goes(j)

\* Nothing that counts for j has changed.
Untouched(j) ==
    /\ hash'[j].status = hash[j].status /\ queue'[j] = queue[j] /\ inter'[j] = inter[j]
    /\ j \in disputed' <=> j \in disputed
    /\ \A x \in Workers : /\ At(x, j)' = At(x, j)
                          /\ <<x, j>> \in execs' <=> <<x, j>> \in execs
                          /\ <<x, j>> \in expired' <=> <<x, j>> \in expired

\* Of a job that is disputed nothing is asked.
LEMMA DisputedIsFine ==
  ASSUME NEW j \in Jobs, j \in disputed'
  PROVE  Fine(j)
<1>1. Place(j)' = "disputed"
  BY DEF Place
<1> QED BY <1>1 DEF Fine, Goes

\* A step that leaves j alone is fine for j.
LEMMA UntouchedIsFine ==
  ASSUME NEW j \in Jobs, JobsOK, Untouched(j) \/ j \in disputed'
  PROVE  Fine(j)
<1> SUFFICES ASSUME j \notin disputed, JobOK(j), Untouched(j) PROVE Fine(j)
  BY DisputedIsFine DEF JobsOK, Untouched
<1>1. Taken(j)' = Taken(j) /\ Place(j)' = Place(j)
  BY DEF Untouched, Taken, Place
<1>2. Removing(j)' <=> Removing(j)
  BY DEF Untouched, Removing
<1>3. \A x \in Workers : Owns(x, j)' <=> Owns(x, j)
  BY DEF Untouched, Owns
<1>4. \A x \in Workers : OwnerOK(x, j)'
  BY <1>1 DEF Untouched, OwnerOK, JobOK
<1> QED BY <1>1, <1>2, <1>3, <1>4 DEF Fine, Goes, JobOK, Untouched

\* A worker that moves with its job, or away from it, has nothing to do with others.
LEMMA ElsewhereSame ==
  ASSUME NEW w \in Workers, NEW l, NEW k, NEW h, NEW is, NEW ks, After(w, l, k, h, is, ks),
         worker[w].pc # "dead", l # "dead", NEW j \in Jobs, worker[w].job # j, k # j
  PROVE  \A x \in Workers : At(x, j)' = At(x, j)
<1>1. At(w, j)' = "none" /\ At(w, j) = "none"
  BY SpotAfter DEF At, Spot
<1> QED BY <1>1, SpotAfter

\* j is pushed again, or ended, and its execution by w is deleted.
Verdict(w, i) ==
    /\ CleanupExecution(w, i)
    /\ \A j \in Jobs \ {i} : hash'[j] = hash[j] /\ queue'[j] = queue[j]
    /\ \/ hash'[i].status = "queued" /\ queue'[i] = queue[i] + 1
       \/ hash'[i].status \in Ended /\ queue'[i] = queue[i]

\* Job.retry, or _handle_retry_result: the job is pushed again.
LEMMA RetryIsVerdict ==
  ASSUME Typed, NEW w, NEW i \in Jobs, NEW c, Retry(i, c) \/ HandleRetryResult(i, c),
         CleanupExecution(w, i)
  PROVE  Verdict(w, i)
<1>1. hash \in [Jobs -> [status : Statuses, left : Nat, count : Nat]]
      /\ queue \in [Jobs -> Nat]
  BY DEF Typed, TypeOK
<1>2. /\ queue' = [queue EXCEPT ![i] = @ + 1] /\ hash'[i].status = "queued"
      /\ \A j \in Jobs \ {i} : hash'[j] = hash[j]
  BY <1>1 DEF Retry, HandleRetryResult
<1> QED BY <1>1, <1>2 DEF Verdict

\* A status that ends the job.
LEMMA EndIsVerdict ==
  ASSUME Typed, NEW w, NEW i \in Jobs, NEW s \in Ended, SetStatus(i, s), UNCHANGED queue,
         CleanupExecution(w, i)
  PROVE  Verdict(w, i)
<1>1. hash \in [Jobs -> [status : Statuses, left : Nat, count : Nat]]
  BY DEF Typed, TypeOK
<1>2. hash'[i].status = s /\ \A j \in Jobs \ {i} : hash'[j] = hash[j]
  BY <1>1 DEF SetStatus
<1> QED BY <1>2 DEF Verdict

\* handle_job_failure does the one or the other.
LEMMA FailureIsVerdict ==
  ASSUME Typed, NEW w, NEW i \in Jobs, NEW c, NEW b, JobFailure(w, i, c, b)
  PROVE  Verdict(w, i)
<1>1. CleanupExecution(w, i)
  BY DEF JobFailure
<1>2. Retry(i, c) \/ \E s \in Ended : SetStatus(i, s) /\ UNCHANGED queue
  BY DEF JobFailure, Ended
<1> QED BY <1>1, <1>2, RetryIsVerdict, EndIsVerdict

\* cleanup_execution leaves the entries of other jobs alone.
LEMMA CleanupElsewhere ==
  ASSUME NEW w, NEW i, CleanupExecution(w, i), NEW j, j # i
  PROVE  \A x : /\ <<x, j>> \in execs' <=> <<x, j>> \in execs
                /\ <<x, j>> \in expired' <=> <<x, j>> \in expired
  BY DEF CleanupExecution

\* The worker that runs a job comes to a verdict.
LEMMA VerdictOnOwn ==
  ASSUME Typed, NEW w \in Workers, NEW i \in Jobs, i \notin disputed, JobOK(i),
         At(w, i) = "runs", At(w, i)' = "none",
         \A x \in Workers \ {w} : At(x, i)' = At(x, i),
         Verdict(w, i), inter'[i] = inter[i], UNCHANGED disputed
  PROVE  Fine(i)
<1>1. hash[i].status = "started" /\ queue[i] = 0
  BY DEF JobOK, OwnerOK
<1>2. \A x \in Workers : Owns(x, i) => x = w
  BY DEF JobOK, Owns
<1>3. <<w, i>> \notin expired
  BY DEF JobOK, OwnerOK
<1>4. \A x \in Workers : <<x, i>> \notin execs' \cup expired'
  BY <1>2, <1>3 DEF Verdict, CleanupExecution, Owns
<1>5. \A x \in Workers : At(x, i)' \notin {"fetched", "begun", "runs"}
  BY <1>2 DEF Owns
<1>6. Removing(i)' <=> Removing(i)
  BY DEF Removing
<1>7. ~Taken(i) /\ ~Taken(i)' /\ queue'[i] \in {0, 1}
      /\ (queue'[i] = 1 => hash'[i].status = "queued")
  BY <1>1 DEF Taken, Verdict, Ended
<1>8. Place(i) = "taken" /\ Place(i)' \in {"waiting", "ended"}
  BY <1>1 DEF Place, Verdict, Ended
<1>9. \A x \in Workers : OwnerOK(x, i)' /\ ~Owns(x, i)'
  BY <1>4, <1>5 DEF OwnerOK, Owns
<1>10. JobOK(i)'
  BY <1>6, <1>7, <1>9 DEF JobOK
<1> QED BY <1>8, <1>10 DEF Fine, Goes

\* So does every step of it that ends with a verdict, for all the jobs.
LEMMA VerdictIsFine ==
  ASSUME Typed, JobsOK, NEW w \in Workers, NEW i \in Jobs, worker[w].job = i,
         Verdict(w, i), UNCHANGED <<inter, disputed>>, At(w, i) = "runs",
         NEW l, NEW k \in {i, NoJob}, NEW h, NEW is, NEW ks, After(w, l, k, h, is, ks),
         l # "dead", Spot(l, k, h, i) = "none"
  PROVE  \A j \in Jobs : Fine(j)
<1>1. At(w, i)' = "none" /\ \A x \in Workers \ {w} : At(x, i)' = At(x, i)
  BY SpotAfter
<1>2. Fine(i)
  BY <1>1, VerdictOnOwn, DisputedIsFine DEF JobsOK
<1>3. ASSUME NEW j \in Jobs, j # i PROVE Fine(j)
  <2>1. \A x \in Workers : At(x, j)' = At(x, j)
    <3>1. worker[w].pc # "dead" /\ k # j /\ worker[w].job # j
      BY <1>3, WorkerAssumption DEF At, Spot
    <3> QED BY <3>1, ElsewhereSame
  <2>2. hash'[j] = hash[j] /\ queue'[j] = queue[j] /\ CleanupExecution(w, i)
    BY <1>3 DEF Verdict
  <2>3. Untouched(j)
    BY <1>3, <2>1, <2>2, CleanupElsewhere DEF Untouched
  <2> QED BY <2>3, UntouchedIsFine
<1> QED BY <1>2, <1>3

\* dequeue_job_and_maintain_ttl: the only entry of i is popped.
LEMMA DequeueIsFine ==
  ASSUME Typed, Intermediate, JobsOK, NEW w \in Workers, NEW i \in Jobs, Dequeue(w, i)
  PROVE  \A j \in Jobs : Fine(j)
<1>1. /\ worker[w].pc = "idle" /\ queue[i] > 0
      /\ queue' = [queue EXCEPT ![i] = @ - 1] /\ inter' = [inter EXCEPT ![i] = @ + 1]
      /\ UNCHANGED <<hash, execs, expired, disputed>>
  BY DEF Dequeue, Pop
<1>2. queue \in [Jobs -> Nat] /\ inter \in [Jobs -> Nat]
  BY DEF Typed, TypeOK
<1>3. After(w, "fetched", i, worker[w].horse, worker[w].ids, worker[w].keys)
  BY DequeueMoves
<1>4. At(w, i)' = "fetched" /\ \A x \in Workers \ {w} : At(x, i)' = At(x, i)
  BY <1>3, SpotAfter DEF Spot
<1>5. \A j \in Jobs : At(w, j) = "none"
  BY <1>1 DEF At, Spot
<1>6. Fine(i)
  <2> SUFFICES ASSUME i \notin disputed PROVE Fine(i)
    BY <1>1, DisputedIsFine
  <2>0. /\ queue[i] = 1 /\ queue'[i] = 0 /\ hash[i].status = "queued" /\ JobOK(i)
        /\ inter'[i] = inter[i] + 1
    BY <1>1, <1>2 DEF JobsOK, JobOK
  <2>1. ~Taken(i) /\ Taken(i)'
    BY <1>1, <2>0 DEF Taken
  <2>2. \A x \in Workers : ~Owns(x, i)
    BY <2>0, <2>1 DEF JobOK, OwnerOK, Owns
  <2>3. \A x \in Workers : Owns(x, i)' => x = w
    BY <1>1, <1>4, <2>2 DEF Owns
  <2>4. \A x \in Workers : OwnerOK(x, i)'
    BY <1>1, <1>4, <2>1, <2>2 DEF OwnerOK, Owns
  <2>5. Removing(i)' <=> Removing(i)
    BY <1>4, <1>5 DEF Removing
  <2>6. JobOK(i)'
    BY <1>2, <2>0, <2>1, <2>3, <2>4, <2>5 DEF JobOK
  <2>7. Place(i) = "waiting" /\ Place(i)' = "taken"
    BY <1>1, <2>0 DEF Place, Ended
  <2> QED BY <2>6, <2>7 DEF Fine, Goes
<1>7. ASSUME NEW j \in Jobs, j # i PROVE Fine(j)
  <2>1. \A x \in Workers : At(x, j)' = At(x, j)
    BY <1>3, <1>5, <1>7, SpotAfter DEF Spot
  <2>2. Untouched(j)
    BY <1>1, <1>2, <1>7, <2>1 DEF Untouched
  <2> QED BY <2>2, UntouchedIsFine
<1> QED BY <1>6, <1>7

\* prepare_execution: the entry of the one that has the job.
LEMMA PrepareExecutionIsFine ==
  ASSUME Typed, JobsOK, NEW w \in Workers, PrepareExecution(w)
  PROVE  \A j \in Jobs : Fine(j)
<1>1. PICK i : i = worker[w].job
  OBVIOUS
<1>2. /\ worker[w].pc = "fetched" /\ i \in Jobs
      /\ execs' = execs \cup {<<w, i>>} /\ UNCHANGED <<hash, queue, inter, expired, disputed>>
  BY <1>1 DEF PrepareExecution, Typed, Hand
<1>3. After(w, "prepared", i, worker[w].horse, worker[w].ids, worker[w].keys)
  BY <1>1, GotoMoves, Labels DEF PrepareExecution
<1>4. /\ At(w, i) = "fetched" /\ At(w, i)' = "begun"
      /\ \A x \in Workers \ {w} : At(x, i)' = At(x, i)
  BY <1>1, <1>2, <1>3, SpotAfter DEF Spot, At
<1>5. Fine(i)
  <2> SUFFICES ASSUME i \notin disputed PROVE Fine(i)
    BY <1>2, DisputedIsFine
  <2>0. JobOK(i)
    BY <1>2 DEF JobsOK
  <2>1. Taken(i) /\ Taken(i)' = Taken(i) /\ Place(i)' = Place(i)
    BY <1>2, <1>4, <2>0 DEF JobOK, OwnerOK, Taken, Place
  <2>2. \A x \in Workers : Owns(x, i) => x = w
    BY <1>4, <2>0 DEF JobOK, Owns
  <2>3. \A x \in Workers : Owns(x, i)' => x = w
    BY <1>2, <1>4, <2>2 DEF Owns
  <2>4. \A x \in Workers : OwnerOK(x, i)'
    <3>1. OwnerOK(w, i) /\ <<w, i>> \notin expired
      BY <1>4, <2>0 DEF JobOK, OwnerOK
    <3>2. OwnerOK(w, i)'
      BY <1>2, <1>4, <2>1, <3>1 DEF OwnerOK
    <3>3. ASSUME NEW x \in Workers, x # w PROVE OwnerOK(x, i)'
      BY <1>2, <1>4, <2>2, <3>3 DEF OwnerOK, Owns
    <3> QED BY <3>2, <3>3
  <2>5. Removing(i)' <=> Removing(i)
    BY <1>4 DEF Removing
  <2>6. JobOK(i)'
    BY <1>2, <2>0, <2>1, <2>3, <2>4, <2>5 DEF JobOK
  <2> QED BY <2>1, <2>6 DEF Fine, Goes
<1>6. ASSUME NEW j \in Jobs, j # i PROVE Fine(j)
  <2>1. \A x \in Workers : At(x, j)' = At(x, j)
    BY <1>1, <1>2, <1>3, <1>6, ElsewhereSame
  <2>2. \A x : <<x, j>> \in execs' <=> <<x, j>> \in execs
    BY <1>2, <1>6
  <2>3. Untouched(j)
    BY <1>2, <2>1, <2>2 DEF Untouched
  <2> QED BY <2>3, UntouchedIsFine
<1> QED BY <1>5, <1>6

\* prepare_job_execution: the entry of the intermediate queue is removed.
LEMMA PrepareJobIsFine ==
  ASSUME Typed, Intermediate, Tied, JobsOK, NEW w \in Workers, PrepareJob(w)
  PROVE  \A j \in Jobs : Fine(j)
<1>1. PICK i : i = worker[w].job
  OBVIOUS
<1>2. /\ worker[w].horse = "ready" /\ i \in Jobs
      /\ SetStatus(i, "started") /\ UNCHANGED <<queue, execs, expired, disputed>>
      /\ inter' = [inter EXCEPT ![i] = IF @ > 0 THEN @ - 1 ELSE @]
  BY <1>1 DEF PrepareJob, Typed, Hand
<1>3. worker[w].pc = "monitor"
  BY <1>2 DEF Tied, TiedTo
<1>4. After(w, "monitor", i, "running", worker[w].ids, worker[w].keys)
  BY <1>1, <1>3, HorseMoves, Labels DEF PrepareJob
<1>5. /\ At(w, i) = "begun" /\ At(w, i)' = "runs"
      /\ \A x \in Workers \ {w} : At(x, i)' = At(x, i)
  BY <1>1, <1>2, <1>3, <1>4, SpotAfter DEF Spot, At
<1>6. /\ inter \in [Jobs -> Nat]
      /\ hash \in [Jobs -> [status : Statuses, left : Nat, count : Nat]]
  BY DEF Typed, TypeOK
<1>7. hash'[i].status = "started" /\ \A j \in Jobs \ {i} : hash'[j] = hash[j]
  BY <1>2, <1>6 DEF SetStatus
<1>8. Fine(i)
  <2> SUFFICES ASSUME i \notin disputed PROVE Fine(i)
    BY <1>2, DisputedIsFine
  <2>0. JobOK(i) /\ Taken(i)
    BY <1>2, <1>5 DEF JobsOK, JobOK, OwnerOK
  <2>1. ~Taken(i)' /\ Place(i)' = Place(i)
    BY <1>2, <2>0, <1>7 DEF Taken, Place, Ended
  <2>2. \A x \in Workers : Owns(x, i) => x = w
    BY <1>5, <2>0 DEF JobOK, Owns
  <2>3. \A x \in Workers : Owns(x, i)' => x = w
    BY <1>2, <1>5, <2>2 DEF Owns
  <2>4. \A x \in Workers : OwnerOK(x, i)'
    <3>1. <<w, i>> \notin expired
      BY <1>5, <2>0 DEF JobOK, OwnerOK
    <3>2. OwnerOK(w, i)'
      BY <1>2, <1>5, <1>7, <3>1 DEF OwnerOK
    <3>3. ASSUME NEW x \in Workers, x # w PROVE OwnerOK(x, i)'
      BY <1>2, <1>5, <2>2, <3>3 DEF OwnerOK, Owns
    <3> QED BY <3>2, <3>3
  <2>5. Removing(i)' <=> Removing(i)
    BY <1>5 DEF Removing
  <2>6. inter[i] > 0 /\ inter'[i] = inter[i] - 1
    <3>1. inter[i] = (IF Removing(i) THEN 1 ELSE 0) + 1
      BY <2>0 DEF JobOK
    <3>2. inter[i] > 0
      BY <3>1
    <3> QED BY <1>2, <1>6, <3>2
  <2>7. JobOK(i)'
    BY <1>2, <1>6, <2>0, <2>1, <2>3, <2>4, <2>5, <2>6 DEF JobOK, Taken
  <2> QED BY <2>1, <2>7 DEF Fine, Goes
<1>9. ASSUME NEW j \in Jobs, j # i PROVE Fine(j)
  <2>1. \A x \in Workers : At(x, j)' = At(x, j)
    BY <1>1, <1>3, <1>4, <1>9, ElsewhereSame
  <2>2. inter'[j] = inter[j]
    BY <1>2, <1>6, <1>9
  <2>3. Untouched(j)
    BY <1>2, <1>7, <1>9, <2>1, <2>2 DEF Untouched
  <2> QED BY <2>3, UntouchedIsFine
<1> QED BY <1>8, <1>9

\* The transactions that end the work on a job, of the horse or of its parent.
LEMMA EndsAreFine ==
  ASSUME Typed, Tied, JobsOK, NEW w \in Workers,
         HandleSuccess(w) \/ JobRaises(w) \/ JobReturnsRetry(w) \/ HandleFailure(w)
  PROVE  \A j \in Jobs : Fine(j)
<1>1. PICK i : i = worker[w].job
  OBVIOUS
<1>2. CASE HandleFailure(w)
  <2>1. worker[w].pc = "handling" /\ i \in Jobs /\ UNCHANGED <<inter, disputed>>
    BY <1>1, <1>2 DEF HandleFailure, Typed, Hand
  <2>2. Verdict(w, i)
    BY <1>1, <1>2, <2>1, FailureIsVerdict DEF HandleFailure
  <2>3. After(w, "loop", NoJob, "none", worker[w].ids, worker[w].keys)
    BY <1>2, HandleFailureMoves
  <2>4. At(w, i) = "runs" /\ Spot("loop", NoJob, "none", i) = "none"
    BY <1>1, <2>1 DEF At, Spot
  <2> QED BY <1>1, <2>1, <2>2, <2>3, <2>4, VerdictIsFine
<1>3. CASE HandleSuccess(w) \/ JobRaises(w) \/ JobReturnsRetry(w)
  <2>1. /\ worker[w].horse = "running" /\ i \in Jobs
        /\ UNCHANGED <<inter, disputed>> /\ HorseDone(w)
    BY <1>1, <1>3 DEF HandleSuccess, JobRaises, JobReturnsRetry, Typed, Hand
  <2>2. worker[w].pc = "monitor"
    BY <2>1 DEF Tied, TiedTo
  <2>3. After(w, "monitor", i, "committed", worker[w].ids, worker[w].keys)
    BY <1>1, <2>1, <2>2, HorseMoves, Labels DEF HorseDone
  <2>4. At(w, i) = "runs" /\ Spot("monitor", i, "committed", i) = "none"
    BY <1>1, <2>1, <2>2 DEF At, Spot
  <2>5. Verdict(w, i)
    <3>1. CASE HandleSuccess(w)
      <4>1. CleanupExecution(w, i) /\ UNCHANGED queue /\ \E s \in Ended : SetStatus(i, s)
        BY <1>1, <3>1 DEF HandleSuccess, Ended
      <4> QED BY <2>1, <4>1, EndIsVerdict
    <3>2. CASE JobRaises(w)
      BY <1>1, <2>1, <3>2, FailureIsVerdict DEF JobRaises
    <3>3. CASE JobReturnsRetry(w)
      <4>1. CleanupExecution(w, i) /\ (\/ SetStatus(i, "failed") /\ UNCHANGED queue
                                       \/ HandleRetryResult(i, worker[w].copy))
        BY <1>1, <3>3 DEF JobReturnsRetry
      <4> QED BY <2>1, <4>1, EndIsVerdict, RetryIsVerdict DEF Ended
    <3> QED BY <1>3, <3>1, <3>2, <3>3
  <2> QED BY <1>1, <2>1, <2>3, <2>4, <2>5, VerdictIsFine
<1> QED BY <1>2, <1>3

\* IntermediateQueue.cleanup gives up a job that nobody has, whose one entry is
\* the one in the intermediate queue.
LEMMA FailStuckIsFine ==
  ASSUME IsFiniteSet(Workers), Typed, OneCleaner, StuckOK, JobsOK,
         NEW w \in Workers, FailStuck(w)
  PROVE  \A j \in Jobs : Fine(j)
<1>1. PICK i : i = worker[w].job
  OBVIOUS
<1>2. worker[w].pc = "failStuck" /\ i \in Jobs /\ UNCHANGED <<inter, disputed>>
  BY <1>1 DEF FailStuck, Typed, Hand
<1>3. Verdict(w, i)
  BY <1>1, <1>2, FailureIsVerdict DEF FailStuck
<1>4. After(w, "removeStuck", i, worker[w].horse, worker[w].ids, worker[w].keys)
  BY <1>1, FailStuckMoves
<1>5. /\ At(w, i) = "none" /\ At(w, i)' = "removes"
      /\ \A x \in Workers \ {w} : At(x, i)' = At(x, i)
  BY <1>1, <1>2, <1>4, SpotAfter DEF Spot, At
<1>6. Fine(i)
  <2> SUFFICES ASSUME i \notin disputed PROVE Fine(i)
    BY <1>2, DisputedIsFine
  <2>1. JobOK(i)
    BY <1>2 DEF JobsOK
  <2>2. ~Removing(i)
    <3>1. \A x \in Workers : worker[x].pc # "removeStuck"
      BY <1>2 DEF OneCleaner, Cleaning
    <3> QED BY <3>1 DEF Removing, At, Spot
  <2>3. Taken(i) /\ inter[i] = 1 /\ \A x \in Workers : ~Starts(worker[x], i)
    <3>1. inter[i] > Cardinality(Starters(i))
      BY <1>1, <1>2 DEF StuckOK, Suspects, Handles
    <3>2. IsFiniteSet(Starters(i)) /\ Cardinality(Starters(i)) \in Nat
          /\ Starters(i) = {x \in Workers : Starts(worker[x], i)}
      BY <1>2, StartersFinite
    <3>3. inter[i] = (IF Taken(i) THEN 1 ELSE 0)
      BY <2>1, <2>2 DEF JobOK
    <3>4. Taken(i) /\ inter[i] = 1 /\ Cardinality(Starters(i)) = 0
      BY <3>1, <3>2, <3>3
    <3>5. Starters(i) = {}
      BY <3>2, <3>4, FS_EmptySet
    <3> QED BY <3>2, <3>4, <3>5
  <2>4. hash[i].status = "queued" /\ queue[i] = 0
    BY <2>3 DEF Taken
  <2>5. \A x \in Workers : ~Owns(x, i)
    <3>1. \A x \in Workers : At(x, i) \notin {"fetched", "begun"}
      BY <2>3 DEF Starts, Forked, At, Spot
    <3>2. \A x \in Workers : At(x, i) # "runs"
      BY <2>1, <2>4 DEF JobOK, OwnerOK
    <3> QED BY <2>1, <2>4, <3>1, <3>2 DEF JobOK, OwnerOK, Owns
  <2>6. /\ ~Taken(i)' /\ queue'[i] \in {0, 1}
        /\ queue'[i] = 1 => hash'[i].status = "queued"
    BY <1>3, <2>4 DEF Taken, Verdict, Ended
  <2>7. Place(i) = "taken" /\ Place(i)' \in {"waiting", "ended"}
    BY <1>2, <1>3, <2>4 DEF Place, Verdict, Ended
  <2>8. \A x \in Workers : <<x, i>> \notin execs' \cup expired'
    BY <1>3, <2>5 DEF Verdict, CleanupExecution, Owns
  <2>9. \A x \in Workers : At(x, i)' \notin {"fetched", "begun", "runs"}
    BY <1>5, <2>5 DEF Owns
  <2>10. \A x \in Workers : OwnerOK(x, i)' /\ ~Owns(x, i)'
    BY <2>8, <2>9 DEF OwnerOK, Owns
  <2>11. Removing(i)'
    BY <1>5 DEF Removing
  <2>12. JobOK(i)'
    BY <1>2, <2>3, <2>6, <2>10, <2>11 DEF JobOK
  <2> QED BY <2>7, <2>12 DEF Fine, Goes
<1>7. ASSUME NEW j \in Jobs, j # i PROVE Fine(j)
  <2>1. \A x \in Workers : At(x, j)' = At(x, j)
    BY <1>1, <1>2, <1>4, <1>7, ElsewhereSame
  <2>2. hash'[j] = hash[j] /\ queue'[j] = queue[j] /\ CleanupExecution(w, i)
    BY <1>7, <1>3 DEF Verdict
  <2>3. Untouched(j)
    BY <1>2, <1>7, <2>1, <2>2, CleanupElsewhere DEF Untouched
  <2> QED BY <2>3, UntouchedIsFine
<1> QED BY <1>6, <1>7

\* Its entry is removed from the intermediate queue.
LEMMA RemoveStuckIsFine ==
  ASSUME Typed, OneCleaner, JobsOK, NEW w \in Workers, RemoveStuck(w)
  PROVE  \A j \in Jobs : Fine(j)
<1>1. PICK i : i = worker[w].job
  OBVIOUS
<1>2. /\ worker[w].pc = "removeStuck" /\ i \in Jobs
      /\ UNCHANGED <<hash, queue, execs, expired, disputed>>
      /\ inter' = [inter EXCEPT ![i] = IF @ > 0 THEN @ - 1 ELSE 0]
  BY <1>1 DEF RemoveStuck, Typed, Hand
<1>3. After(w, "cleanStuck", NoJob, worker[w].horse, worker[w].ids, worker[w].keys)
  BY RemoveStuckMoves
<1>4. /\ At(w, i) = "removes" /\ At(w, i)' = "none"
      /\ \A x \in Workers \ {w} : At(x, i)' = At(x, i)
  BY <1>1, <1>2, <1>3, SpotAfter DEF Spot, At
<1>5. inter \in [Jobs -> Nat]
  BY DEF Typed, TypeOK
<1>6. Fine(i)
  <2> SUFFICES ASSUME i \notin disputed PROVE Fine(i)
    BY <1>2, DisputedIsFine
  <2>0. JobOK(i)
    BY <1>2 DEF JobsOK
  <2>1. Taken(i)' = Taken(i) /\ Place(i)' = Place(i)
    BY <1>2 DEF Taken, Place
  <2>2. Removing(i)
    BY <1>4 DEF Removing
  <2>3. ~Removing(i)'
    <3>1. \A x \in Workers \ {w} : worker[x].pc # "removeStuck"
      BY <1>2 DEF OneCleaner, Cleaning
    <3>2. \A x \in Workers \ {w} : At(x, i) # "removes"
      BY <3>1 DEF At, Spot
    <3> QED BY <1>4, <3>2 DEF Removing
  <2>4. inter[i] > 0 /\ inter'[i] = inter[i] - 1
    <3>1. inter[i] = 1 + (IF Taken(i) THEN 1 ELSE 0)
      BY <2>0, <2>2 DEF JobOK
    <3>2. inter[i] > 0
      BY <3>1
    <3> QED BY <1>2, <1>5, <3>2
  <2>5. \A x \in Workers : OwnerOK(x, i)' /\ (Owns(x, i)' <=> Owns(x, i))
    BY <1>2, <1>4, <2>0, <2>1 DEF JobOK, OwnerOK, Owns
  <2>6. JobOK(i)'
    BY <1>2, <1>5, <2>0, <2>1, <2>2, <2>3, <2>4, <2>5 DEF JobOK
  <2> QED BY <2>1, <2>6 DEF Fine, Goes
<1>7. ASSUME NEW j \in Jobs, j # i PROVE Fine(j)
  <2>1. \A x \in Workers : At(x, j)' = At(x, j)
    BY <1>1, <1>2, <1>3, <1>7, ElsewhereSame, WorkerAssumption
  <2>2. inter'[j] = inter[j]
    BY <1>2, <1>5, <1>7
  <2>3. Untouched(j)
    BY <1>2, <2>1, <2>2 DEF Untouched
  <2> QED BY <2>3, UntouchedIsFine
<1> QED BY <1>6, <1>7

\* A worker dies: in order, or with its horse.
LEMMA DeathIsFine ==
  ASSUME Typed, Spared, Tied, JobsOK, NEW w \in Workers, RegisterDeath(w) \/ KillHost(w)
  PROVE  \A j \in Jobs : Fine(j)
<1>1. UNCHANGED <<hash, queue, inter, execs, expired, disputed>>
  BY DEF RegisterDeath, KillHost, redis
<1>2. \A j \in Jobs : At(w, j) \notin {"begun", "removes"}
  <2>1. CASE RegisterDeath(w)
    BY <2>1 DEF RegisterDeath, At, Spot
  <2>2. CASE KillHost(w)
    <3>1. /\ worker[w].pc \notin {"prepared", "removeStuck"}
          /\ worker[w].pc = "monitor" => worker[w].horse = "running"
      BY <2>2 DEF KillHost, Spared, Tied, TiedTo, HorseAlive
    <3> QED BY <3>1 DEF At, Spot
  <2> QED BY <2>1, <2>2
<1>3. \E k, h : After(w, "dead", k, h, {}, {})
  <2>1. CASE RegisterDeath(w)
    BY <2>1, LoopMoves, Labels DEF RegisterDeath
  <2>2. CASE KillHost(w)
    BY <2>2, FreshMoves, Labels DEF KillHost
  <2> QED BY <2>1, <2>2
<1>4. \A j \in Jobs : /\ At(w, j)' = "dead"
                      /\ \A x \in Workers \ {w} : At(x, j)' = At(x, j)
  BY <1>3, SpotAfter DEF Spot
<1>5. ASSUME NEW j \in Jobs PROVE Fine(j)
  <2> SUFFICES ASSUME j \notin disputed PROVE Fine(j)
    BY <1>1, DisputedIsFine
  <2>1. JobOK(j)
    BY DEF JobsOK
  <2>2. Taken(j)' = Taken(j) /\ Place(j)' = Place(j)
    BY <1>1 DEF Taken, Place
  <2>3. \A x \in Workers : Owns(x, j)' => Owns(x, j)
    BY <1>1, <1>4 DEF Owns
  <2>4. \A x \in Workers : OwnerOK(x, j)'
    <3>1. OwnerOK(w, j)'
      BY <1>1, <1>2, <1>4, <2>1 DEF JobOK, OwnerOK
    <3>2. ASSUME NEW x \in Workers, x # w PROVE OwnerOK(x, j)'
      BY <1>1, <1>4, <2>1, <2>2, <3>2 DEF JobOK, OwnerOK
    <3> QED BY <3>1, <3>2
  <2>5. Removing(j)' <=> Removing(j)
    BY <1>2, <1>4 DEF Removing
  <2>6. JobOK(j)'
    BY <1>1, <2>1, <2>2, <2>3, <2>4, <2>5 DEF JobOK
  <2> QED BY <2>2, <2>6 DEF Fine, Goes
<1> QED BY <1>5

\* StartedJobRegistry.cleanup: the jobs that are listed are nobody's any more.
LEMMA CleanStartedIsFine ==
  ASSUME Typed, JobsOK, ListedOK, AllSame, NEW w \in Workers, CleanStarted(w)
  PROVE  \A j \in Jobs : Fine(j)
<1> DEFINE js == {j \in worker[w].ids : hash[j].status # "absent"}
           again == {j \in js : hash[j].left > 0}
<1>1. /\ hash' = [j \in Jobs |->
              IF j \in again THEN [hash[j] EXCEPT !.status = "queued", !.left = @ - 1]
              ELSE IF j \in js THEN [hash[j] EXCEPT !.status = "failed"] ELSE hash[j]]
      /\ queue' = [j \in Jobs |-> IF j \in again THEN queue[j] + 1 ELSE queue[j]]
      /\ expired' = {e \in expired : e[2] \notin worker[w].ids}
      /\ UNCHANGED <<inter, execs, disputed>> /\ worker[w].pc = "cleanStarted"
  BY DEF CleanStarted
<1>2. again \subseteq js /\ js \subseteq worker[w].ids
      /\ \A k \in worker[w].ids : k \notin js => hash[k].status = "absent"
  OBVIOUS
<1> HIDE DEF js, again
<1>3. \A j \in Jobs : hash[j] \in [status : Statuses, left : Nat, count : Nat]
  BY DEF Typed, TypeOK
<1>4. \A x \in Workers, j \in Jobs : j \notin disputed => At(x, j)' = At(x, j)
  BY DEF AllSame
<1>5. ASSUME NEW j \in Jobs, j \in worker[w].ids PROVE Fine(j)
  <2> SUFFICES ASSUME j \notin disputed PROVE Fine(j)
    BY <1>1, DisputedIsFine
  <2>1. PICK y \in Workers : <<y, j>> \in expired
    BY <1>1, <1>5 DEF ListedOK
  <2>2. JobOK(j) /\ At(y, j) = "dead" /\ hash[j].status = "started" /\ <<y, j>> \notin execs
    BY <2>1 DEF JobsOK, JobOK, OwnerOK
  <2>3. queue[j] = 0 /\ ~Taken(j) /\ \A x \in Workers : Owns(x, j) => x = y
    BY <2>1, <2>2 DEF JobOK, Owns, Taken
  <2>4. \/ hash'[j].status = "queued" /\ queue'[j] = 1
        \/ hash'[j].status = "failed" /\ queue'[j] = 0
    <3>1. CASE j \in again
      <4>1. /\ hash'[j] = [hash[j] EXCEPT !.status = "queued", !.left = @ - 1]
            /\ queue'[j] = queue[j] + 1
        BY <1>1, <3>1
      <4>2. hash'[j].status = "queued"
        BY <1>3, <4>1
      <4> QED BY <2>3, <4>1, <4>2
    <3>2. CASE j \notin again
      <4>1. /\ hash'[j] = [hash[j] EXCEPT !.status = "failed"]
            /\ queue'[j] = queue[j]
        BY <1>1, <1>2, <1>5, <2>2, <3>2
      <4>2. hash'[j].status = "failed"
        BY <1>3, <4>1
      <4> QED BY <2>3, <4>1, <4>2
    <3> QED BY <3>1, <3>2
  <2>5. \A x \in Workers : <<x, j>> \notin execs' \cup expired'
    <3>1. \A x \in Workers : <<x, j>> \notin execs
      BY <2>2, <2>3 DEF Owns
    <3>2. \A x \in Workers : <<x, j>>[2] = j
      OBVIOUS
    <3> QED BY <1>1, <1>5, <3>1, <3>2
  <2>6. \A x \in Workers : At(x, j)' \notin {"fetched", "begun", "runs"}
    BY <1>4, <2>2, <2>3 DEF Owns
  <2>7. \A x \in Workers : OwnerOK(x, j)' /\ ~Owns(x, j)'
    BY <2>5, <2>6 DEF OwnerOK, Owns
  <2>8. Removing(j)' <=> Removing(j)
    BY <1>4 DEF Removing
  <2>9. ~Taken(j)' /\ Place(j) = "taken" /\ Place(j)' \in {"waiting", "ended"}
    <3>1. j \notin disputed'
      BY <1>1
    <3> QED BY <2>2, <2>3, <2>4, <3>1 DEF Taken, Place, Ended
  <2>10. JobOK(j)'
    BY <1>1, <2>2, <2>3, <2>4, <2>7, <2>8, <2>9 DEF JobOK
  <2> QED BY <2>9, <2>10 DEF Fine, Goes
<1>6. ASSUME NEW j \in Jobs, j \notin worker[w].ids PROVE Fine(j)
  <2>1. hash'[j] = hash[j] /\ queue'[j] = queue[j]
    BY <1>1, <1>2, <1>6
  <2>2. \A x : <<x, j>> \in expired' <=> <<x, j>> \in expired
    <3>1. \A x : <<x, j>>[2] = j
      OBVIOUS
    <3> QED BY <1>1, <1>6, <3>1
  <2>3. j \notin disputed => Untouched(j)
    BY <1>1, <1>4, <2>1, <2>2 DEF Untouched
  <2> QED BY <1>1, <2>3, UntouchedIsFine
<1> QED BY <1>5, <1>6

\* An execution without heartbeats is one of a worker that is dead.
LEMMA ExpireIsFine ==
  ASSUME Typed, JobsOK, AllSame, NEW w \in Workers, NEW i \in Jobs, Expire(w, i)
  PROVE  \A j \in Jobs : Fine(j)
<1>1. /\ <<w, i>> \in execs /\ UNCHANGED <<hash, queue, inter, disputed>>
      /\ execs' = execs \ {<<w, i>>} /\ expired' = expired \cup {<<w, i>>}
      /\ worker[w].pc \notin {"prepared", "monitor", "reaped", "handling"}
  BY DEF Expire, Busy
<1>2. \A x \in Workers, j \in Jobs : j \notin disputed => At(x, j)' = At(x, j)
  BY DEF AllSame
<1>3. Fine(i)
  <2> SUFFICES ASSUME i \notin disputed PROVE Fine(i)
    BY <1>1, DisputedIsFine
  <2>1. JobOK(i)
    BY DEF JobsOK
  <2>2. At(w, i) \notin {"begun", "runs"}
    BY <1>1 DEF At, Spot
  <2>3. At(w, i) = "dead" /\ hash[i].status = "started"
    BY <1>1, <2>1, <2>2 DEF JobOK, OwnerOK
  <2>4. Taken(i)' = Taken(i) /\ Place(i)' = Place(i)
    BY <1>1 DEF Taken, Place
  <2>5. \A x \in Workers : OwnerOK(x, i)' /\ (Owns(x, i)' <=> Owns(x, i))
    <3>1. OwnerOK(w, i)' /\ Owns(w, i)' /\ Owns(w, i)
      BY <1>1, <1>2, <2>3 DEF OwnerOK, Owns
    <3>2. ASSUME NEW x \in Workers, x # w
          PROVE  OwnerOK(x, i)' /\ (Owns(x, i)' <=> Owns(x, i))
      BY <1>1, <1>2, <2>1, <2>4, <3>2 DEF JobOK, OwnerOK, Owns
    <3> QED BY <3>1, <3>2
  <2>6. Removing(i)' <=> Removing(i)
    BY <1>2 DEF Removing
  <2>7. JobOK(i)'
    BY <1>1, <2>1, <2>4, <2>5, <2>6 DEF JobOK
  <2> QED BY <2>4, <2>7 DEF Fine, Goes
<1>4. ASSUME NEW j \in Jobs, j # i PROVE Fine(j)
  <2>1. j \notin disputed => Untouched(j)
    BY <1>1, <1>2, <1>4 DEF Untouched
  <2> QED BY <1>1, <2>1, UntouchedIsFine
<1> QED BY <1>3, <1>4

\* Every handler keeps JobsOK, and is a move of Delivery for each job.
LEMMA JobsNext ==
  ASSUME IsFiniteSet(Workers), Intermediate, Spared, Typed, Calm, Tied, OneCleaner,
         StuckOK, JobsOK, ListedOK, [Next]_vars
  PROVE  \A j \in Jobs : Fine(j)
<1> DEFINE Goal == \A j \in Jobs : Fine(j)
<1>0. AllSame \/ \E w \in Workers : Acts(w)
  BY SpotsNext
<1>1. CASE \E w \in Workers : Acts(w)
  <2>1. PICK w \in Workers : Acts(w)
    BY <1>1
  <2>2. CASE StartMaintenance(w)
    <3>1. After(w, "cleanStarted", worker[w].job, worker[w].horse,
                {e[2] : e \in expired}, worker[w].keys)
      BY <2>2, StartMaintenanceMoves
    <3>2. worker[w].pc = "idle" /\ UNCHANGED <<hash, queue, inter, execs, expired, disputed>>
      BY <2>2 DEF StartMaintenance
    <3>3. \A x \in Workers, j \in Jobs : At(x, j)' = At(x, j)
      <4>1. \A j \in Jobs : At(w, j) = "none" /\ At(w, j)' = "none"
        BY <3>1, <3>2, SpotAfter DEF At, Spot
      <4> QED BY <3>1, <4>1, SpotAfter
    <3>4. \A j \in Jobs : Untouched(j)
      BY <3>2, <3>3 DEF Untouched
    <3> QED BY <3>4, UntouchedIsFine
  <2> QED BY <2>1, <2>2, DequeueIsFine, PrepareExecutionIsFine, PrepareJobIsFine, EndsAreFine,
             FailStuckIsFine, RemoveStuckIsFine, DeathIsFine DEF Acts
<1>2. CASE AllSame /\ \A w \in Workers : ~Acts(w)
  <2>1. ASSUME UNCHANGED <<hash, queue, inter, execs, expired, disputed>> PROVE Goal
    <3>1. \A j \in Jobs : j \notin disputed => Untouched(j)
      BY <1>2, <2>1 DEF Untouched, AllSame
    <3> QED BY <2>1, <3>1, UntouchedIsFine
  <2>2. CASE UNCHANGED kept
    BY <2>1, <2>2 DEF kept
  <2>3. CASE Disturbs
    <3>1. ASSUME NEW w \in Workers, CleanStarted(w) PROVE Goal
      BY <1>2, <3>1, CleanStartedIsFine
    <3>2. ASSUME NEW w \in Workers, EndMaintenance(w) PROVE Goal
      BY <2>1, <3>2 DEF EndMaintenance
    <3>3. ASSUME NEW w \in Workers, NEW i \in Jobs, DropId(w, i) PROVE Goal
      <4>1. /\ hash[i].status = "absent" /\ queue[i] > 0
            /\ \A j \in Jobs : j # i => queue'[j] = queue[j] /\ inter'[j] = inter[j]
            /\ UNCHANGED <<hash, execs, expired, disputed>>
        BY <3>3 DEF DropId, Pop, Typed, TypeOK
      <4>2. i \in disputed
        BY <4>1 DEF JobsOK, JobOK
      <4>3. \A j \in Jobs : j \notin disputed => Untouched(j)
        BY <1>2, <4>1, <4>2 DEF Untouched, AllSame
      <4> QED BY <4>1, <4>3, UntouchedIsFine
    <3>4. ASSUME NEW w \in Workers, NEW i \in Jobs, InspectStuck(w, i) PROVE Goal
      <4>1. /\ worker[w].pc = "cleanStuck" /\ UNCHANGED <<hash, queue, execs, expired>>
            /\ inter' = [inter EXCEPT ![i] =
                   IF hash[i].status = "absent" /\ ~Held(i) /\ @ > 0 THEN @ - 1 ELSE @]
            /\ disputed' \in {disputed, disputed \cup {i}}
        BY <3>4 DEF InspectStuck, Held
      <4>2. inter \in [Jobs -> Nat]
        BY DEF Typed, TypeOK
      <4>3. i \in disputed \/ inter' = inter
        <5>1. \A x \in Workers : worker[x].pc # "removeStuck"
          BY <4>1 DEF OneCleaner, Cleaning
        <5>2. ~Removing(i)
          BY <5>1 DEF Removing, At, Spot
        <5>3. i \in disputed \/ (hash[i].status = "absent" => inter[i] = 0)
          BY <5>2 DEF JobsOK, JobOK, Taken
        <5> QED BY <4>1, <4>2, <5>3
      <4>4. \A j \in Jobs : j \notin disputed' => Untouched(j)
        BY <1>2, <4>1, <4>2, <4>3 DEF Untouched, AllSame
      <4>5. disputed \subseteq disputed'
        BY <4>1
      <4> QED BY <4>4, <4>5, UntouchedIsFine, DisputedIsFine
    <3>5. ASSUME NEW w \in Workers, NEW i \in Jobs, Expire(w, i) PROVE Goal
      BY <1>2, <3>5, ExpireIsFine
    <3>6. ASSUME NEW j \in Jobs, MinutePasses(j) PROVE Goal
      BY <2>1, <3>6 DEF MinutePasses
    <3>7. ASSUME NEW j \in Jobs, JobExpires(j) PROVE Goal
      BY <3>7 DEF JobExpires, Spend, Calm, Never
    <3>8. ASSUME LockExpires PROVE Goal
      BY <2>1, <3>8 DEF LockExpires
    <3> QED BY <1>2, <2>3, <3>1, <3>2, <3>3, <3>4, <3>5, <3>6, <3>7, <3>8 DEF Disturbs, Acts
  <2> QED BY <2>2, <2>3, KeptNext
<1> QED BY <1>0, <1>1, <1>2

\* The entries of an abandoned job stay until the cleanup that has listed it.
LEMMA ListedNext ==
  ASSUME Typed, Calm, Spared, Tied, OneCleaner, JobsOK, ListedOK, [Next]_vars
  PROVE  ListedOK'
<1>1. CASE \E w \in Workers : StartMaintenance(w)
  <2>1. PICK w \in Workers : StartMaintenance(w)
    BY <1>1
  <2>2. After(w, "cleanStarted", worker[w].job, worker[w].horse,
              {e[2] : e \in expired}, worker[w].keys)
    BY <2>1, StartMaintenanceMoves
  <2>3. UNCHANGED <<expired, disputed>> /\ expired \subseteq Workers \X Jobs
    BY <2>1 DEF StartMaintenance, Typed, TypeOK
  <2>4. \A j \in {e[2] : e \in expired} : \E y \in Workers : <<y, j>> \in expired
    BY <2>3
  <2> QED BY <2>2, <2>3, <2>4 DEF ListedOK, After
<1>2. CASE Listing
  <2>1. ASSUME expired \subseteq expired', disputed \subseteq disputed' PROVE ListedOK'
    BY <1>2, <2>1 DEF ListedOK, Listing
  <2>2. ASSUME NEW w \in Workers, worker[w].job \in Jobs, worker[w].pc # "dead",
               CleanupExecution(w, worker[w].job), UNCHANGED disputed
        PROVE  ListedOK'
    <3>1. worker[w].job \notin disputed => <<w, worker[w].job>> \notin expired
      BY <2>2 DEF JobsOK, JobOK, OwnerOK, At, Spot
    <3>2. \A y, j : j \notin disputed /\ <<y, j>> \in expired => <<y, j>> \in expired'
      BY <2>2, <3>1 DEF CleanupExecution
    <3> QED BY <1>2, <2>2, <3>2 DEF ListedOK, Listing
  <2>3. CASE UNCHANGED kept
    BY <2>1, <2>3 DEF kept
  <2>4. CASE Disturbs
    <3>1. ASSUME NEW w \in Workers, HandleFailure(w) \/ FailStuck(w) PROVE ListedOK'
      BY <2>2, <3>1 DEF HandleFailure, FailStuck, JobFailure, Typed, Hand
    <3>2. ASSUME NEW w \in Workers, HandleSuccess(w) \/ JobRaises(w) \/ JobReturnsRetry(w)
          PROVE  ListedOK'
      <4>1. /\ worker[w].horse = "running" /\ CleanupExecution(w, worker[w].job)
            /\ UNCHANGED disputed
        BY <3>2 DEF HandleSuccess, JobRaises, JobReturnsRetry, JobFailure
      <4> QED BY <2>2, <4>1 DEF Tied, TiedTo, Typed, Hand
    <3>3. ASSUME NEW w \in Workers, CleanStarted(w) PROVE ListedOK'
      <4>1. worker[w].pc = "cleanStarted"
        BY <3>3 DEF CleanStarted
      <4>2. After(w, "cleanWorkers", worker[w].job, worker[w].horse, {}, worker[w].keys)
        BY <3>3, CleanStartedMoves
      <4>3. \A x \in Workers \ {w} : worker[x].pc # "cleanStarted"
        BY <4>1 DEF OneCleaner, Cleaning
      <4> QED BY <4>2, <4>3 DEF After, ListedOK
    <3>4. ASSUME NEW w \in Workers, NEW j \in Jobs, Expire(w, j) PROVE ListedOK'
      BY <2>1, <3>4 DEF Expire
    <3>5. ASSUME NEW w \in Workers,
                 \/ PrepareJob(w) \/ PrepareExecution(w) \/ StartMaintenance(w)
                 \/ RemoveStuck(w) \/ EndMaintenance(w)
          PROVE  expired' = expired /\ disputed \subseteq disputed'
      BY <3>5 DEF PrepareJob, PrepareExecution, StartMaintenance, RemoveStuck, EndMaintenance
    <3>6. ASSUME NEW w \in Workers, NEW j \in Jobs,
                 Dequeue(w, j) \/ DropId(w, j) \/ InspectStuck(w, j)
          PROVE  expired' = expired /\ disputed \subseteq disputed'
      BY <3>6 DEF Dequeue, DropId, InspectStuck
    <3>7. ASSUME NEW j \in Jobs, MinutePasses(j) \/ JobExpires(j)
          PROVE  UNCHANGED <<expired, disputed>>
      BY <3>7 DEF MinutePasses, JobExpires
    <3>8. ASSUME LockExpires PROVE UNCHANGED <<expired, disputed>>
      BY <3>8 DEF LockExpires
    <3> QED
      BY <2>1, <2>4, <3>1, <3>2, <3>3, <3>4, <3>5, <3>6, <3>7, <3>8 DEF Disturbs
  <2> QED BY <2>3, <2>4, KeptNext
<1> QED BY <1>1, <1>2, SpotsNext

-----------------------------------------------------------------------------

\* The workers implement Delivery, for every number of workers and jobs: no job is
\* handled after its end, and none is started that was not in the queue.  Jobs may
\* fail and be retried, hosts go down and horses be killed while a job runs, and workers
\* die while they wait, with a job that they have just taken, or in the maintenance.
\* Never and Spared exclude what lets the code handle a job twice: a process that is held
\* up; a parent that dies without its horse; a death between prepare_execution and the
\* LREM of the horse, or of the cleanup between the verdict on a stuck job and its LREM;
\* a horse that is killed after its transaction; a stop that comes to one of these.
\* And a ttl ends a job that waits, which Delivery does not know.  Of a job that a cleanup
\* takes for stuck in the hands of a worker nothing more is promised: see NothingLost for
\* how the key of an earlier visit brings that about.
THEOREM WorkersDeliver ==
  ASSUME IsFiniteSet(Workers), Intermediate, \A o \in Never : Budget[o] = 0, Spared
  PROVE  Spec => Delivered
<1> DEFINE Inv == /\ Typed /\ Punctual /\ Safe
                  /\ Calm /\ Tied /\ JobsOK /\ ListedOK
<1>1. Init => Inv
  <2> SUFFICES ASSUME Init PROVE Inv
    OBVIOUS
  <2>1. \A x \in Workers : worker[x] = Idle
    BY DEF Init
  <2>2. Idle.pc = "new" /\ Idle.horse = "none" /\ ~Idle.cmd
    BY DEF Idle
  <2>3. Tied /\ ListedOK
    BY <2>1, <2>2 DEF Tied, TiedTo, ListedOK
  <2>4. Calm
    BY DEF Init, Calm
  <2>5. JobsOK
    <3> SUFFICES ASSUME NEW j \in Jobs PROVE JobOK(j)
      BY DEF JobsOK
    <3>1. \A x \in Workers : At(x, j) = "none"
      BY <2>1, <2>2 DEF At, Spot
    <3>2. /\ hash[j].status = "queued" /\ queue[j] = 1 /\ inter[j] = 0
          /\ execs = {} /\ expired = {}
      BY DEF Init
    <3> QED BY <3>1, <3>2 DEF JobOK, OwnerOK, Owns, Removing, Taken
  <2> QED BY <2>3, <2>4, <2>5, SafeInit, TypedInit DEF Init, Punctual, Never
<1>2. Inv /\ [Next]_vars => Inv'
  <2> SUFFICES ASSUME Inv, [Next]_vars PROVE Inv'
    OBVIOUS
  <2>1. (Typed /\ Punctual /\ Safe)'
    BY SafeNext
  <2>2. Calm'
    BY BudgetNext DEF Calm, Never, Ops
  <2>3. JobsOK'
    BY JobsNext DEF Safe, Fine, JobsOK
  <2>4. ListedOK'
    BY ListedNext DEF Safe
  <2>5. Tied'
    BY SpotsNext, CmdNext DEF Tied
  <2> QED BY <2>1, <2>2, <2>3, <2>4, <2>5
<1>3. Init => Abstract!Init
  BY DEF Init, Abstract!Init, Place, Ended
<1>4. Inv /\ [Next]_vars => [Abstract!Next]_[j \in Jobs |-> Place(j)]
  <2> SUFFICES ASSUME Inv, [Next]_vars PROVE Abstract!Next
    OBVIOUS
  <2>1. \A j \in Jobs : Goes(j)
    BY JobsNext DEF Safe, Fine
  <2>2. \A j \in Jobs : Place(j)' \in {"waiting", "taken", "ended", "disputed"}
    BY DEF Place
  <2>3. /\ \A j \in Jobs : [k \in Jobs |-> Place(k)][j] = Place(j)
        /\ \A j \in Jobs : [k \in Jobs |-> Place(k)'][j] = Place(j)'
    OBVIOUS
  <2> QED
    BY <2>1, <2>2, <2>3
       DEF Abstract!Next, Abstract!Take, Abstract!GiveBack, Abstract!End, Abstract!Dispute,
           Abstract!Move, Abstract!Places, Goes
<1> QED
  BY <1>1, <1>2, <1>3, <1>4, PTL DEF Spec, Delivered, Abstract!Spec

=============================================================================
