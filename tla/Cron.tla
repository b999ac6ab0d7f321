-------------------------------- MODULE Cron --------------------------------
(***************************************************************************)
(* CronScheduler: the loop that enqueues the cron jobs that are due, and   *)
(* the registry of schedulers with its heartbeats and its cleanup.         *)
(*                                                                         *)
(* Time is a clock of units of 30 seconds.  A scheduler that is not        *)
(* delayed does in no time what it does between two sleeps; Delays and     *)
(* Slow bound the ticks of the clock at which one is late.                 *)
(***************************************************************************)
EXTENDS Naturals

CONSTANTS
    Processes,
    Names, Name,    \* Name[p]: the name of the scheduler that p runs
    CronJobs,       \* those of the configuration file
    Strings,        \* the ones with a cron string; the others have an interval
    Every,          \* Every[k]: units between two enqueues of k
    MaxSleep,       \* 60 s
    BirthTTL,       \* of a scheduler's hash at its birth, 60 s
    HeartbeatTTL,   \* of the hash from then on, 120 s
    Threshold,      \* cleanup() takes a score of that age for stale, 120 s
    MaxTime, Delays, Slow, Kills, Stops     \* bounds

ASSUME CronAssumption ==
    /\ Name \in [Processes -> Names]
    /\ Strings \subseteq CronJobs
    /\ Every \in [CronJobs -> Nat \ {0}]
    /\ MaxSleep \in Nat /\ BirthTTL \in Nat /\ HeartbeatTTL \in Nat /\ Threshold \in Nat
    /\ MaxTime \in Nat /\ Delays \in Nat /\ Slow \in Nat /\ Kills \in Nat
    /\ Stops \in Nat

VARIABLES
    clock,
    process,        \* process[p]: where p is in start(), and its cron jobs
    registry,       \* the names in rq:cron_schedulers
    score,          \* their scores: the time of the last heartbeat
    hash,           \* hash[n]: when it expires, and whether it is whole
    delays, slow, kills, stops

vars == <<clock, process, registry, score, hash, delays, slow, kills, stops>>

Init ==
    /\ clock = 0
    /\ process = [p \in Processes |->
           [pc |-> "off", born |-> 0, time |-> 0, todo |-> {}, enqueued |-> FALSE,
            next |-> [k \in CronJobs |-> 0], runs |-> [k \in CronJobs |-> 0],
            wake |-> 0]]
    /\ registry = {}
    /\ score = [n \in Names |-> 0]
    /\ hash = [n \in Names |-> [until |-> 0, whole |-> FALSE]]
    /\ delays = 0 /\ slow = 0 /\ kills = 0 /\ stops = 0

\* The process of p is in the state r.
Put(p, r) == process' = [process EXCEPT ![p] = r]

Running(p) == process[p].pc \in {"loop", "jobs", "save", "beat", "doze", "sleep"}

\* CronJob.get_next_enqueue_time after an enqueue at time t: croniter.get_next
\* is the first time of the cron string that is later.
NextTime(k, t) ==
    IF k \in Strings THEN (t \div Every[k] + 1) * Every[k] ELSE t + Every[k]

\* A cron job that is made at time t: the first time of a cron string is known
\* then, that of an interval after its first run.
FirstTime(k, t) == IF k \in Strings THEN NextTime(k, t) ELSE 0

\* CronJob.should_run: now() is read once more for each job.  An interval job
\* that has never run is due.
ShouldRun(p, k) == clock >= process[p].next[k]

Lives(n) == hash[n].until > clock

\* CronScheduler.fetch: a hash that is gone is not found, and restore() needs
\* more than the field that save_jobs_data writes.
Fetchable(n) == Lives(n) /\ hash[n].whole

\* A score of the registry that cleanup() does not take for stale.
Fresh(n) == score[n] + Threshold > clock

\* CronScheduler.all: the schedulers that a monitor is shown.
Shown == {n \in registry : Fresh(n) /\ Fetchable(n)}

-----------------------------------------------------------------------------
\* register: NX keeps the score of a name that is there, and the pipeline does
\* not see that it was.
Register(n) ==
    /\ registry' = registry \cup {n}
    /\ score' = [score EXCEPT ![n] = IF n \in registry THEN @ ELSE clock]

\* unregister: SchedulerNotFound if the name is gone.
Unregister(p) ==
    /\ registry' = registry \ {Name[p]}
    /\ Put(p, [process[p] EXCEPT !.pc = IF Name[p] \in registry THEN "stopped"
                                                                ELSE "error"])

\* The configuration is loaded, and register_birth registers and saves.
Birth(p) ==
    LET n == Name[p] IN
    /\ process[p].pc = "off"
    /\ Put(p, [process[p] EXCEPT !.pc = "loop", !.born = clock,
                                 !.next = [k \in CronJobs |-> FirstTime(k, clock)]])
    /\ Register(n)
    /\ hash' = [hash EXCEPT ![n] = [until |-> clock + BirthTTL, whole |-> TRUE]]
    /\ UNCHANGED <<clock, delays, slow, kills, stops>>

\* enqueue_jobs begins: enqueue_time is read.
StartPass(p) ==
    /\ process[p].pc = "loop"
    /\ Put(p, [process[p] EXCEPT !.pc = "jobs", !.time = clock,
                                 !.todo = CronJobs, !.enqueued = FALSE])
    /\ UNCHANGED <<clock, registry, score, hash, delays, slow, kills, stops>>

\* set_enqueue_time(t) of job k, and the round of the loop is over.
Enqueued(r, k, t) ==
    [r EXCEPT !.todo = @ \ {k}, !.enqueued = TRUE, !.runs[k] = @ + 1, !.next[k] = t]

\* Mutant of EnqueueJob: the next time counts from the time that was planned.
EnqueueJobDrifting(p, k) ==
    LET r == process[p] IN
    /\ r.pc = "jobs" /\ k \in r.todo
    /\ Put(p, IF ShouldRun(p, k)
              THEN Enqueued(r, k, r.next[k] + Every[k])
              ELSE [r EXCEPT !.todo = @ \ {k}])
    /\ UNCHANGED <<clock, registry, score, hash, delays, slow, kills, stops>>

\* One round of its loop: a job that is due is enqueued, and set_enqueue_time
\* plans the next time from enqueue_time.
EnqueueJob(p, k) ==
    LET r == process[p] IN
    /\ r.pc = "jobs" /\ k \in r.todo
    /\ Put(p, IF ShouldRun(p, k)
              THEN Enqueued(r, k, NextTime(k, r.time))
              ELSE [r EXCEPT !.todo = @ \ {k}])
    /\ UNCHANGED <<clock, registry, score, hash, delays, slow, kills, stops>>

EndPass(p) ==
    /\ process[p].pc = "jobs" /\ process[p].todo = {}
    /\ Put(p, [process[p] EXCEPT !.pc = IF process[p].enqueued THEN "save" ELSE "beat"])
    /\ UNCHANGED <<clock, registry, score, hash, delays, slow, kills, stops>>

\* save_jobs_data: an HSET, which makes a hash of one field if there is none.
SaveJobsData(p) ==
    LET n == Name[p] IN
    /\ process[p].pc = "save"
    /\ Put(p, [process[p] EXCEPT !.pc = "beat"])
    /\ hash' = [hash EXCEPT ![n] = IF Lives(n) THEN @
                                   ELSE [until |-> MaxTime + 1, whole |-> FALSE]]
    /\ UNCHANGED <<clock, registry, score, delays, slow, kills, stops>>

\* heartbeat: a name that is not in the registry does not come back.
Heartbeat(p) ==
    LET n == Name[p] IN
    /\ process[p].pc = "beat"
    /\ Put(p, [process[p] EXCEPT !.pc = "doze"])
    /\ score' = [score EXCEPT ![n] = IF n \in registry THEN clock ELSE @]
    /\ hash' = [hash EXCEPT ![n].until = IF Lives(n) THEN clock + HeartbeatTTL ELSE @]
    /\ UNCHANGED <<clock, registry, delays, slow, kills, stops>>

\* calculate_sleep_interval: until the closest of the times, or not at all.
SleepUntil(p, times) ==
    /\ process[p].pc = "doze"
    /\ \E t \in times :
          /\ \A u \in times : t <= u
          /\ Put(p, [process[p] EXCEPT !.pc = "sleep",
                                       !.wake = IF t > clock THEN t ELSE clock])
    /\ UNCHANGED <<clock, registry, score, hash, delays, slow, kills, stops>>

NextTimes(p) == {process[p].next[k] : k \in CronJobs}

\* Mutant of Sleep: it sleeps until the next job.
SleepLong(p) == SleepUntil(p, NextTimes(p))

\* Mutant of Sleep: the cap of a minute is taken for the least sleep.
SleepMinute(p) == SleepUntil(p, {clock + MaxSleep})

\* A minute at most.
Sleep(p) == SleepUntil(p, NextTimes(p) \cup {clock + MaxSleep})

Wake(p) ==
    /\ process[p].pc = "sleep"
    /\ clock >= process[p].wake
    /\ Put(p, [process[p] EXCEPT !.pc = "loop"])
    /\ UNCHANGED <<clock, registry, score, hash, delays, slow, kills, stops>>

\* A signal raises StopRequested in the loop, which ends in register_death.
Stop(p) ==
    /\ Running(p)
    /\ stops < Stops
    /\ stops' = stops + 1
    /\ Unregister(p)
    /\ UNCHANGED <<clock, score, hash, delays, slow, kills>>

Kill(p) ==
    /\ Running(p)
    /\ kills < Kills
    /\ kills' = kills + 1
    /\ Put(p, [process[p] EXCEPT !.pc = "killed"])
    /\ UNCHANGED <<clock, registry, score, hash, delays, slow, stops>>

\* Mutant of Cleanup: half of the threshold.
CleanupEarly ==
    /\ registry' = {n \in registry : score[n] + Threshold \div 2 > clock}
    /\ UNCHANGED <<clock, process, score, hash, delays, slow, kills, stops>>

\* CronScheduler.all lists the schedulers and removes the stale ones first.
Cleanup ==
    /\ registry' = {n \in registry : Fresh(n)}
    /\ UNCHANGED <<clock, process, score, hash, delays, slow, kills, stops>>

\* A unit of time passes.  It is a delay if a scheduler had something to do.
Tick ==
    LET late == {p \in Processes : Running(p) /\ (process[p].pc = "sleep" =>
                                                  process[p].wake <= clock)}
        midPass == \E p \in late : process[p].pc = "jobs"
    IN
    /\ clock < MaxTime
    /\ clock' = clock + 1
    /\ late # {} => IF midPass THEN slow < Slow ELSE delays < Delays
    /\ slow' = IF midPass THEN slow + 1 ELSE slow
    /\ delays' = IF late # {} /\ ~midPass THEN delays + 1 ELSE delays
    /\ UNCHANGED <<process, registry, score, hash, kills, stops>>

SchedulerNext(p) ==
    \/ Birth(p) \/ StartPass(p) \/ EndPass(p) \/ SaveJobsData(p) \/ Heartbeat(p)
    \/ Sleep(p) \/ Wake(p)
    \/ \E k \in CronJobs : EnqueueJob(p, k)

Next ==
    \/ \E p \in Processes : SchedulerNext(p) \/ Stop(p) \/ Kill(p)
    \/ Cleanup \/ Tick

Spec == Init /\ [][Next]_vars

-----------------------------------------------------------------------------
(* Properties.                                                             *)

\* Every variable has its type, and no scheduler sleeps for more than MaxSleep.
TypeOK ==
    /\ clock \in 0..MaxTime
    /\ process \in [Processes -> [
           pc : {"off", "loop", "jobs", "save", "beat", "doze", "sleep", "stopped",
                 "error", "killed"},
           born : Nat, time : Nat, todo : SUBSET CronJobs, enqueued : BOOLEAN,
           next : [CronJobs -> Nat], runs : [CronJobs -> Nat], wake : Nat]]
    /\ \A p \in Processes : process[p].wake <= clock + MaxSleep
    /\ registry \subseteq Names
    /\ score \in [Names -> Nat]
    /\ hash \in [Names -> [until : Nat, whole : BOOLEAN]]
    /\ delays \in 0..Delays /\ slow \in 0..Slow /\ kills \in 0..Kills
    /\ stops \in 0..Stops

\* The times at which k should have been enqueued since t.
Due(k, t) ==
    IF k \in Strings THEN clock \div Every[k] - t \div Every[k]
                     ELSE 1 + (clock - t) \div Every[k]

\* enqueue_jobs: a scheduler enqueues a job once for each of its times.
NoTimeTwice ==
    \A p \in Processes, k \in CronJobs : process[p].pc # "off" =>
        process[p].runs[k] <= Due(k, process[p].born)

\* calculate_sleep_interval: a scheduler that sleeps has missed no time of a
\* cron string, even if it was late once.
NoTimeMissed ==
    \A p \in Processes, k \in Strings :
        process[p].pc = "sleep" /\ clock < process[p].wake =>
            process[p].runs[k] = Due(k, process[p].born)

\* heartbeat against cleanup and the TTL: a scheduler that is at most one unit
\* late is in the list that CronScheduler.all shows.
RunningIsListed ==
    \A p \in Processes : Running(p) => Name[p] \in Shown

=============================================================================
