------------------------- MODULE MCWorkerLifecycle -------------------------
(***************************************************************************)
(* Instances of WorkerLifecycle for TLC.                                   *)
(***************************************************************************)
EXTENDS WorkerLifecycle, TLC

CONSTANTS u, v,     \* workers
          i         \* a job

CONSTANTS Left, KillWorkers, KillHosts, KillHorses, Stops, StopJobs, Suspends,
          Fails, Agains, Delays, Lates, Ttls

MCRetries == [k \in Jobs |-> IF k = i THEN Left ELSE 0]
MCBudget == [killWorker |-> KillWorkers, killHost |-> KillHosts,
             killHorse |-> KillHorses, stop |-> Stops, stopJob |-> StopJobs,
             suspend |-> Suspends, fail |-> Fails, again |-> Agains,
             delay |-> Delays, late |-> Lates, ttl |-> Ttls]

AllPCs == PCs \ Dead
AllHorsePCs == {"forked", "ready", "running", "committed"}

\* A worker is killed while it waits, has just dequeued, runs a job or cleans: not
\* between prepare_execution and the horse's LREM, nor between the verdict on a
\* stuck job and its LREM.
WaitingPCs == {"loop", "idle", "fetched", "monitor"} \cup (Cleaning \ {"removeStuck"})
RunningPCs == {"running"}

WorkerSymmetry == Permutations(Workers)

=============================================================================
