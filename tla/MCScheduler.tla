----------------------------- MODULE MCScheduler -----------------------------
(***************************************************************************)
(* Instances of Scheduler for TLC.                                         *)
(***************************************************************************)
EXTENDS Scheduler, TLC

CONSTANTS u, v,     \* workers
          q1, q2,   \* queues
          i, j      \* jobs

CONSTANTS KillSchedulers, KillWorkers, KillHosts, Stops, Delays, Cancels, Agains

MCQueuesOf == [w \in Workers |-> Queues]
MCQueueOf == [k \in Jobs |-> IF k = i THEN q1 ELSE q2]
MCQueueOfOne == [k \in Jobs |-> q1]
MCBudget == [killScheduler |-> KillSchedulers, killWorker |-> KillWorkers,
             killHost |-> KillHosts, stop |-> Stops, delay |-> Delays,
             cancel |-> Cancels, again |-> Agains]

=============================================================================
