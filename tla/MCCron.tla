------------------------------- MODULE MCCron -------------------------------
(***************************************************************************)
(* Instances of Cron for TLC: a cron string of two minutes and an          *)
(* interval of one and a half.                                             *)
(***************************************************************************)
EXTENDS Cron

CONSTANTS p1, p2,           \* processes
          string, interval  \* cron jobs

MCName == [p \in Processes |-> p]
MCEvery == [k \in CronJobs |-> IF k = string THEN 4 ELSE 3]

=============================================================================
