------------------------------ MODULE Delivery ------------------------------
(***************************************************************************)
(* What the workers promise together about the jobs of a queue: a job that *)
(* waits is taken, a job that was taken is given back or comes to its end, *)
(* and the end is the end.  No job vanishes, none starts without having    *)
(* waited, and none is run, failed or retried after its end.  Nothing is   *)
(* promised of a job that a cleanup took for stuck while no dead worker    *)
(* had left it behind.                                                     *)
(***************************************************************************)
CONSTANT Jobs

VARIABLE place      \* place[j]: where job j is

Places == {"waiting", "taken", "ended", "disputed"}

Init == place = [j \in Jobs |-> "waiting"]

Move(j, from, to) ==
    /\ place[j] = from
    /\ place'[j] = to

\* A worker takes j from the queue.
Take(j) == Move(j, "waiting", "taken")

\* A retry, or the recovery of a job whose worker has died.
GiveBack(j) == Move(j, "taken", "waiting")

\* j is finished, failed or stopped.
End(j) == Move(j, "taken", "ended")

\* A cleanup takes j for stuck that is, or has been, in the hands of a worker.
Dispute(j) == place[j] # "disputed" /\ place'[j] = "disputed"

\* Several jobs may move at once: a cleanup recovers all those that it finds.
Next ==
    /\ place' \in [Jobs -> Places]
    /\ \A j \in Jobs : \/ Take(j) \/ GiveBack(j) \/ End(j) \/ Dispute(j)
                       \/ place'[j] = place[j]

Spec == Init /\ [][Next]_place

TypeOK == place \in [Jobs -> Places]

=============================================================================
