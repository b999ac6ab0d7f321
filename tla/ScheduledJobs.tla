---------------------------- MODULE ScheduledJobs ----------------------------
(***************************************************************************)
(* What the scheduler promises: a job that is put in the                   *)
(* ScheduledJobRegistry stays there until it is due, and is then moved to  *)
(* its queue, once.  Nothing else reaches the queue.                       *)
(***************************************************************************)
EXTENDS Naturals

CONSTANT Jobs

VARIABLES
    registry,       \* the jobs in the ScheduledJobRegistry
    due,            \* those of them whose time has come
    queue           \* queue[j]: entries for j in the queue

vars == <<registry, due, queue>>

Init ==
    /\ registry = {} /\ due = {}
    /\ queue = [j \in Jobs |-> 0]

Schedule(j) ==
    /\ registry' = registry \cup {j}
    /\ due' = due \ {j}
    /\ UNCHANGED queue

ComesDue(j) ==
    /\ j \in registry
    /\ due' = due \cup {j}
    /\ UNCHANGED <<registry, queue>>

Move(S) ==
    /\ registry' = registry \ S
    /\ due' = due \ S
    /\ queue' = [j \in Jobs |-> IF j \in S THEN queue[j] + 1 ELSE queue[j]]

Take(j) ==
    /\ queue[j] > 0
    /\ queue' = [queue EXCEPT ![j] = @ - 1]
    /\ UNCHANGED <<registry, due>>

Next ==
    \/ \E j \in Jobs : Schedule(j) \/ ComesDue(j) \/ Take(j)
    \/ \E S \in SUBSET due : Move(S)

Spec == Init /\ [][Next]_vars

=============================================================================
