------------------------------ MODULE CronProofs ------------------------------
(***************************************************************************)
(* Proofs about CronScheduler, for every number of schedulers and of cron  *)
(* jobs, and every clock:                                                  *)
(*   - CronTypeCorrect: the types, and no sleep of more than a minute;     *)
(*   - TimesOnce: no time of a cron job is used twice, if no scheduler is  *)
(*     late inside of enqueue_jobs;                                        *)
(*   - TimesKept: none is missed, if it is late for less than a period;    *)
(*   - ListedWhileRunning: a scheduler is listed, if it is late for less   *)
(*     than what its heartbeats leave.                                     *)
(***************************************************************************)
EXTENDS Cron, TLAPS

Process == [
    pc : {"off", "loop", "jobs", "save", "beat", "doze", "sleep", "stopped",
          "error", "killed"},
    born : Nat, time : Nat, todo : SUBSET CronJobs, enqueued : BOOLEAN,
    next : [CronJobs -> Nat], runs : [CronJobs -> Nat], wake : Nat]

-----------------------------------------------------------------------------
(* Division, as get_next of croniter and the intervals use it.             *)

\* What is left of a division is less than the divisor.
LEMMA DivBounds ==
  ASSUME NEW a \in Nat, NEW e \in Nat \ {0}
  PROVE  /\ a \div e \in Nat
         /\ (a \div e) * e =< a
         /\ a < (a \div e) * e + e
  OBVIOUS

\* One period more.
LEMMA MultMono ==
  ASSUME NEW p \in Nat, NEW q \in Nat, NEW e \in Nat \ {0}, p < q
  PROVE  p * e + e =< q * e
<1>1. (p + 1) * e =< q * e
  OBVIOUS
<1>2. (p + 1) * e = p * e + e
  OBVIOUS
<1>3. p * e \in Nat /\ q * e \in Nat
  OBVIOUS
<1> QED BY <1>1, <1>2, <1>3

\* The multiples of a period.
LEMMA NextMultiple ==
  ASSUME NEW q \in Nat, NEW e \in Nat \ {0}
  PROVE  (q + 1) * e = q * e + e /\ (q + 1) * e \in Nat /\ q * e \in Nat
  OBVIOUS

\* The quotient is the greatest number of periods that fit.
LEMMA DivMax ==
  ASSUME NEW a \in Nat, NEW q \in Nat, NEW e \in Nat \ {0}, q * e =< a
  PROVE  q =< a \div e
<1>1. CASE a \div e < q
  <2>1. (a \div e) * e + e =< q * e
    BY <1>1, DivBounds, MultMono
  <2> QED BY <2>1, DivBounds
<1>2. CASE ~(a \div e < q)
  BY <1>2, DivBounds
<1> QED BY <1>1, <1>2

\* The quotient is the number of periods between which a lies.
LEMMA DivUnique ==
  ASSUME NEW a \in Nat, NEW q \in Nat, NEW e \in Nat \ {0}, q * e =< a, a < q * e + e
  PROVE  a \div e = q
<1>1. CASE q < a \div e
  <2>1. q * e + e =< (a \div e) * e /\ (a \div e) * e =< a
    BY <1>1, DivBounds, MultMono
  <2> QED BY <2>1, DivBounds
<1>2. CASE ~(q < a \div e)
  BY <1>2, DivBounds, DivMax
<1> QED BY <1>1, <1>2

\* The quotient does not shrink.
LEMMA DivMono ==
  ASSUME NEW a \in Nat, NEW b \in Nat, NEW e \in Nat \ {0}, a =< b
  PROVE  a \div e =< b \div e
<1>1. (a \div e) * e =< b /\ a \div e \in Nat
  <2>1. (a \div e) * e =< a /\ a \div e \in Nat /\ (a \div e) * e \in Nat
    BY DivBounds
  <2> QED BY <2>1
<1> QED BY <1>1, DivMax

\* The next time of a cron job is a time in the future.
LEMMA NextTimeLater ==
  ASSUME NEW k \in CronJobs, NEW t \in Nat
  PROVE  NextTime(k, t) \in Nat /\ NextTime(k, t) > t
<1>1. Every[k] \in Nat \ {0}
  BY CronAssumption
<1>2. CASE k \in Strings
  <2> DEFINE q == t \div Every[k]
  <2>1. q \in Nat /\ t < q * Every[k] + Every[k]
    BY <1>1, DivBounds
  <2> HIDE DEF q
  <2>2. (q + 1) * Every[k] = q * Every[k] + Every[k] /\ (q + 1) * Every[k] \in Nat
    BY ONLY <1>1, <2>1, NextMultiple
  <2> QED BY <1>2, <2>1, <2>2 DEF NextTime, q
<1>3. CASE k \notin Strings
  BY <1>1, <1>3 DEF NextTime
<1> QED BY <1>2, <1>3

-----------------------------------------------------------------------------
(* The types.                                                              *)

\* Only p has moved.
Moved(p) ==
    /\ process' \in [Processes -> Process]
    /\ \A x \in Processes \ {p} : process'[x] = process[x]

\* What p becomes, and that nobody else moves.
LEMMA PutMoves ==
  ASSUME TypeOK, NEW p \in Processes, NEW r \in Process, Put(p, r)
  PROVE  Moved(p) /\ process'[p] = r
<1>1. process \in [Processes -> Process]
  BY DEF TypeOK, Process
<1> QED BY <1>1 DEF Put, Moved

\* The state of a process.
LEMMA IsProcess ==
  ASSUME TypeOK, NEW p \in Processes
  PROVE  process[p] \in Process
  BY DEF TypeOK, Process

\* Only the label of p has changed: it goes on to l.
LEMMA GotoMoves ==
  ASSUME TypeOK, NEW p \in Processes,
         NEW l \in {"save", "beat", "doze", "loop", "stopped", "error", "killed"},
         Put(p, [process[p] EXCEPT !.pc = l])
  PROVE  /\ Moved(p) /\ process'[p].pc = l
         /\ process'[p].born = process[p].born /\ process'[p].next = process[p].next
         /\ process'[p].runs = process[p].runs /\ process'[p].wake = process[p].wake
         /\ process'[p].time = process[p].time
<1> DEFINE r == [process[p] EXCEPT !.pc = l]
<1>1. /\ r \in Process /\ r.pc = l /\ r.born = process[p].born
      /\ r.next = process[p].next /\ r.runs = process[p].runs
      /\ r.wake = process[p].wake /\ r.time = process[p].time
  BY IsProcess DEF Process
<1> HIDE DEF r
<1>2. Put(p, r)
  BY DEF r
<1> QED BY <1>1, <1>2, PutMoves

\* register_birth: the jobs are made, and nothing has run.
LEMMA BirthMoves ==
  ASSUME TypeOK, NEW p \in Processes, Birth(p)
  PROVE  /\ Moved(p) /\ process'[p].pc = "loop" /\ process'[p].born = clock
         /\ process'[p].next = [k \in CronJobs |-> FirstTime(k, clock)]
         /\ process'[p].runs = process[p].runs /\ process'[p].wake = process[p].wake
<1> DEFINE r == [process[p] EXCEPT !.pc = "loop", !.born = clock,
                                   !.next = [k \in CronJobs |-> FirstTime(k, clock)]]
<1>1. clock \in Nat
  BY CronAssumption DEF TypeOK
<1>2. \A k \in CronJobs : FirstTime(k, clock) \in Nat
  BY <1>1, NextTimeLater DEF FirstTime
<1>3. [k \in CronJobs |-> FirstTime(k, clock)] \in [CronJobs -> Nat]
  BY <1>2
<1>4. /\ r \in Process /\ r.pc = "loop" /\ r.born = clock
      /\ r.next = [k \in CronJobs |-> FirstTime(k, clock)]
      /\ r.runs = process[p].runs /\ r.wake = process[p].wake
  BY <1>1, <1>3, IsProcess DEF Process
<1>5. Put(p, r)
  BY DEF Birth
<1> HIDE DEF r
<1> QED BY <1>4, <1>5, PutMoves

\* A pass begins at the time of the clock.
LEMMA StartPassMoves ==
  ASSUME TypeOK, NEW p \in Processes, StartPass(p)
  PROVE  /\ Moved(p) /\ process'[p].pc = "jobs" /\ process'[p].time = clock
         /\ process'[p].born = process[p].born /\ process'[p].next = process[p].next
         /\ process'[p].runs = process[p].runs /\ process'[p].wake = process[p].wake
<1> DEFINE r == [process[p] EXCEPT !.pc = "jobs", !.time = clock, !.todo = CronJobs,
                                   !.enqueued = FALSE]
<1>1. clock \in Nat
  BY CronAssumption DEF TypeOK
<1>2. /\ r \in Process /\ r.pc = "jobs" /\ r.time = clock /\ r.born = process[p].born
      /\ r.next = process[p].next /\ r.runs = process[p].runs
      /\ r.wake = process[p].wake
  BY <1>1, IsProcess DEF Process
<1>3. Put(p, r)
  BY DEF StartPass
<1> HIDE DEF r
<1> QED BY <1>2, <1>3, PutMoves

\* A cron job is enqueued, or is not due.
LEMMA EnqueueJobMoves ==
  ASSUME TypeOK, NEW p \in Processes, NEW k \in CronJobs, EnqueueJob(p, k)
  PROVE  /\ Moved(p) /\ process[p].pc = "jobs" /\ process'[p].pc = "jobs"
         /\ process'[p].time = process[p].time
         /\ process'[p].born = process[p].born /\ process'[p].wake = process[p].wake
         /\ IF ShouldRun(p, k)
            THEN /\ process'[p].runs = [process[p].runs EXCEPT ![k] = @ + 1]
                 /\ process'[p].next = [process[p].next EXCEPT
                                            ![k] = NextTime(k, process[p].time)]
            ELSE process'[p].runs = process[p].runs /\ process'[p].next = process[p].next
<1> DEFINE o == process[p]
           t == NextTime(k, o.time)
           r == [o EXCEPT !.todo = @ \ {k}, !.enqueued = TRUE, !.runs[k] = @ + 1,
                          !.next[k] = t]
           s == [o EXCEPT !.todo = @ \ {k}]
<1>1. o \in Process /\ o.pc = "jobs"
  BY IsProcess DEF EnqueueJob
<1>2. t \in Nat
  BY <1>1, NextTimeLater DEF Process
<1> HIDE DEF o, t
<1>3. /\ r \in Process /\ r.pc = o.pc /\ r.time = o.time /\ r.born = o.born
      /\ r.wake = o.wake /\ r.runs = [o.runs EXCEPT ![k] = @ + 1]
      /\ r.next = [o.next EXCEPT ![k] = t]
  <2> DEFINE n == [o.runs EXCEPT ![k] = @ + 1]
             m == [o.next EXCEPT ![k] = t]
  <2>1. n \in [CronJobs -> Nat] /\ m \in [CronJobs -> Nat]
    BY <1>1, <1>2 DEF Process
  <2>2. r = [o EXCEPT !.todo = @ \ {k}, !.enqueued = TRUE, !.runs = n, !.next = m]
    OBVIOUS
  <2> HIDE DEF n, m, r
  <2>3. /\ r \in Process /\ r.pc = o.pc /\ r.time = o.time /\ r.born = o.born
        /\ r.wake = o.wake /\ r.runs = n /\ r.next = m
    BY <1>1, <2>1, <2>2 DEF Process
  <2> QED BY <2>3 DEF n, m
<1>4. /\ s \in Process /\ s.pc = o.pc /\ s.time = o.time /\ s.born = o.born
      /\ s.wake = o.wake /\ s.runs = o.runs /\ s.next = o.next
  BY <1>1 DEF Process
<1>5. Put(p, IF ShouldRun(p, k) THEN r ELSE s)
  BY DEF EnqueueJob, Enqueued, o, t
<1> HIDE DEF r, s
<1>6. CASE ShouldRun(p, k)
  BY <1>1, <1>3, <1>5, <1>6, PutMoves DEF o, t
<1>7. CASE ~ShouldRun(p, k)
  BY <1>1, <1>4, <1>5, <1>7, PutMoves DEF o
<1> QED BY <1>6, <1>7

\* calculate_sleep_interval: to the closest time, or a minute, or not at all.
LEMMA SleepMoves ==
  ASSUME TypeOK, NEW p \in Processes, Sleep(p)
  PROVE  /\ Moved(p) /\ process[p].pc = "doze" /\ process'[p].pc = "sleep"
         /\ process'[p].born = process[p].born /\ process'[p].next = process[p].next
         /\ process'[p].runs = process[p].runs /\ process'[p].time = process[p].time
         /\ process'[p].wake =< clock + MaxSleep
         /\ process'[p].wake > clock =>
               \A k \in CronJobs : process'[p].wake =< process[p].next[k]
<1>1. clock \in Nat /\ MaxSleep \in Nat /\ process[p] \in Process
  BY CronAssumption, IsProcess DEF TypeOK
<1> DEFINE times == NextTimes(p) \cup {clock + MaxSleep}
<1>2. \A u \in times : u \in Nat
  BY <1>1 DEF NextTimes, Process
<1>3. PICK t \in times :
         /\ \A u \in times : t <= u
         /\ Put(p, [process[p] EXCEPT !.pc = "sleep",
                                      !.wake = IF t > clock THEN t ELSE clock])
  BY DEF Sleep, SleepUntil
<1>4. t \in Nat /\ t =< clock + MaxSleep /\ \A k \in CronJobs : t =< process[p].next[k]
  BY <1>2, <1>3 DEF NextTimes
<1> HIDE DEF times
<1> DEFINE w == IF t > clock THEN t ELSE clock
           r == [process[p] EXCEPT !.pc = "sleep", !.wake = w]
<1>5. w \in Nat /\ w =< clock + MaxSleep /\ (w > clock => w = t)
  BY <1>1, <1>4
<1>6. Put(p, r)
  BY <1>3
<1> HIDE DEF w
<1>7. /\ r \in Process /\ r.pc = "sleep" /\ r.born = process[p].born
      /\ r.next = process[p].next /\ r.runs = process[p].runs
      /\ r.time = process[p].time /\ r.wake = w
  BY <1>1, <1>5 DEF Process
<1> HIDE DEF r
<1>8. Moved(p) /\ process'[p] = r
  BY <1>6, <1>7, PutMoves
<1>9. process[p].pc = "doze"
  BY DEF Sleep, SleepUntil
<1> QED BY <1>4, <1>5, <1>7, <1>8, <1>9

\* The steps that only go on at another label.
Goes(p) == EndPass(p) \/ SaveJobsData(p) \/ Heartbeat(p) \/ Wake(p) \/ Stop(p) \/ Kill(p)

\* They move nothing else.
LEMMA GoesMoves ==
  ASSUME TypeOK, NEW p \in Processes, Goes(p)
  PROVE  /\ Moved(p) /\ process[p].pc \in {"loop", "jobs", "save", "beat", "doze", "sleep"}
         /\ process'[p].pc \in {"save", "beat", "doze", "loop", "stopped", "error",
                                "killed"}
         /\ process'[p].born = process[p].born /\ process'[p].next = process[p].next
         /\ process'[p].runs = process[p].runs /\ process'[p].wake = process[p].wake
         /\ process'[p].time = process[p].time /\ clock' = clock
<1>1. \E l \in {"save", "beat", "doze", "loop", "stopped", "error", "killed"} :
         Put(p, [process[p] EXCEPT !.pc = l])
  <2>1. CASE EndPass(p)
    BY <2>1 DEF EndPass
  <2>2. CASE SaveJobsData(p) \/ Heartbeat(p) \/ Wake(p) \/ Kill(p)
    BY <2>2 DEF SaveJobsData, Heartbeat, Wake, Kill
  <2>3. CASE Stop(p)
    BY <2>3 DEF Stop, Unregister
  <2> QED BY <2>1, <2>2, <2>3 DEF Goes
<1>2. process[p].pc \in {"loop", "jobs", "save", "beat", "doze", "sleep"} /\ clock' = clock
  BY DEF Goes, EndPass, SaveJobsData, Heartbeat, Wake, Stop, Kill, Running
<1> QED BY <1>1, <1>2, GotoMoves

\* Every step keeps the states of the processes, and no sleep is too long.
LEMMA ProcessTypes ==
  ASSUME TypeOK, [Next]_vars
  PROVE  /\ process' \in [Processes -> Process]
         /\ \A p \in Processes : process'[p].wake <= clock' + MaxSleep
<1> DEFINE Goal == /\ process' \in [Processes -> Process]
                   /\ \A p \in Processes : process'[p].wake <= clock' + MaxSleep
<1>0. /\ process \in [Processes -> Process] /\ clock \in Nat /\ MaxSleep \in Nat
      /\ \A p \in Processes : process[p].wake \in Nat /\ process[p].wake <= clock + MaxSleep
  BY CronAssumption DEF TypeOK, Process
<1>1. ASSUME NEW p \in Processes, Goes(p) PROVE Goal
  BY <1>0, <1>1, GoesMoves DEF Moved
<1>2. ASSUME NEW p \in Processes, Birth(p) PROVE Goal
  BY <1>0, <1>2, BirthMoves DEF Birth, Moved
<1>3. ASSUME NEW p \in Processes, StartPass(p) PROVE Goal
  BY <1>0, <1>3, StartPassMoves DEF StartPass, Moved
<1>4. ASSUME NEW p \in Processes, NEW k \in CronJobs, EnqueueJob(p, k) PROVE Goal
  BY <1>0, <1>4, EnqueueJobMoves DEF EnqueueJob, Moved
<1>5. ASSUME NEW p \in Processes, Sleep(p) PROVE Goal
  BY <1>0, <1>5, SleepMoves DEF Sleep, SleepUntil, Moved
<1>6. CASE Cleanup
  BY <1>0, <1>6 DEF Cleanup
<1>7. CASE Tick
  <2>1. process' = process /\ clock' = clock + 1
    BY <1>7 DEF Tick
  <2> QED BY <1>0, <2>1
<1>8. CASE UNCHANGED vars
  BY <1>0, <1>8 DEF vars
<1> QED
  BY <1>1, <1>2, <1>3, <1>4, <1>5, <1>6, <1>7, <1>8 DEF Next, SchedulerNext, Goes

\* Every step keeps the types.
LEMMA TypesNext ==
  ASSUME TypeOK, [Next]_vars
  PROVE  TypeOK'
<1> DEFINE Goal == /\ clock' \in 0..MaxTime
                   /\ registry' \subseteq Names /\ score' \in [Names -> Nat]
                   /\ hash' \in [Names -> [until : Nat, whole : BOOLEAN]]
                   /\ delays' \in 0..Delays /\ slow' \in 0..Slow /\ kills' \in 0..Kills
                   /\ stops' \in 0..Stops
<1>0. /\ clock \in 0..MaxTime /\ clock \in Nat /\ MaxTime \in Nat
      /\ BirthTTL \in Nat /\ HeartbeatTTL \in Nat
      /\ Name \in [Processes -> Names]
      /\ registry \subseteq Names /\ score \in [Names -> Nat]
      /\ hash \in [Names -> [until : Nat, whole : BOOLEAN]]
      /\ delays \in 0..Delays /\ slow \in 0..Slow /\ kills \in 0..Kills
      /\ stops \in 0..Stops
      /\ Delays \in Nat /\ Slow \in Nat /\ Kills \in Nat /\ Stops \in Nat
  BY CronAssumption DEF TypeOK
<1>1. ASSUME NEW p \in Processes, Birth(p) PROVE Goal
  <2>1. clock + BirthTTL \in Nat /\ Name[p] \in Names
    BY <1>0
  <2> QED BY <1>0, <1>1, <2>1 DEF Birth, Register
<1>2. ASSUME NEW p \in Processes, StartPass(p) PROVE Goal
  BY <1>0, <1>2 DEF StartPass
<1>3. ASSUME NEW p \in Processes, NEW k \in CronJobs, EnqueueJob(p, k) PROVE Goal
  BY <1>0, <1>3 DEF EnqueueJob
<1>4. ASSUME NEW p \in Processes, EndPass(p) PROVE Goal
  BY <1>0, <1>4 DEF EndPass
<1>5. ASSUME NEW p \in Processes, SaveJobsData(p) PROVE Goal
  BY <1>0, <1>5 DEF SaveJobsData
<1>6. ASSUME NEW p \in Processes, Heartbeat(p) PROVE Goal
  <2>1. clock + HeartbeatTTL \in Nat /\ Name[p] \in Names
    BY <1>0
  <2> QED BY <1>0, <1>6, <2>1 DEF Heartbeat
<1>7. ASSUME NEW p \in Processes, Sleep(p) PROVE Goal
  BY <1>0, <1>7 DEF Sleep, SleepUntil
<1>8. ASSUME NEW p \in Processes, Wake(p) PROVE Goal
  BY <1>0, <1>8 DEF Wake
<1>9. ASSUME NEW p \in Processes, Stop(p) PROVE Goal
  <2>1. stops' \in 0..Stops
    BY <1>0, <1>9 DEF Stop
  <2>2. /\ clock' = clock /\ score' = score /\ hash' = hash /\ delays' = delays
        /\ slow' = slow /\ kills' = kills /\ registry' = registry \ {Name[p]}
    BY <1>9 DEF Stop, Unregister
  <2> QED BY <1>0, <2>1, <2>2
<1>10. ASSUME NEW p \in Processes, Kill(p) PROVE Goal
  <2>1. kills' \in 0..Kills
    BY <1>0, <1>10 DEF Kill
  <2>2. /\ clock' = clock /\ score' = score /\ hash' = hash /\ delays' = delays
        /\ slow' = slow /\ stops' = stops /\ registry' = registry
    BY <1>10 DEF Kill
  <2> QED BY <1>0, <2>1, <2>2
<1>11. ASSUME Cleanup PROVE Goal
  <2>1. /\ clock' = clock /\ score' = score /\ hash' = hash /\ delays' = delays
        /\ slow' = slow /\ kills' = kills /\ stops' = stops
    BY <1>11 DEF Cleanup
  <2>2. registry' \subseteq registry
    BY <1>11 DEF Cleanup
  <2> QED BY <1>0, <2>1, <2>2
<1>12. ASSUME Tick PROVE Goal
  <2>1. /\ score' = score /\ hash' = hash /\ registry' = registry
        /\ kills' = kills /\ stops' = stops
    BY <1>12 DEF Tick
  <2>2. clock < MaxTime /\ clock' = clock + 1
    BY <1>12 DEF Tick
  <2>3. \/ slow' = slow /\ delays' = delays
        \/ slow < Slow /\ slow' = slow + 1 /\ delays' = delays
        \/ delays < Delays /\ delays' = delays + 1 /\ slow' = slow
    BY <1>12 DEF Tick
  <2>4. slow' \in 0..Slow /\ delays' \in 0..Delays
    BY <1>0, <2>3
  <2>5. clock' \in 0..MaxTime
    BY <1>0, <2>2
  <2> QED BY <1>0, <2>1, <2>4, <2>5
<1>13. ASSUME UNCHANGED vars PROVE Goal
  <2>1. /\ clock' = clock /\ score' = score /\ hash' = hash /\ delays' = delays
        /\ slow' = slow /\ kills' = kills /\ stops' = stops /\ registry' = registry
    BY <1>13 DEF vars
  <2> QED BY <1>0, <2>1
<1>14. Goal
  BY <1>1, <1>2, <1>3, <1>4, <1>5, <1>6, <1>7, <1>8, <1>9, <1>10, <1>11, <1>12, <1>13
     DEF Next, SchedulerNext
<1> HIDE DEF Goal
<1>15. process' \in [Processes -> Process]
       /\ \A p \in Processes : process'[p].wake <= clock' + MaxSleep
  BY ProcessTypes
<1> QED BY <1>14, <1>15 DEF TypeOK, Process, Goal

\* The types at the start.
LEMMA TypesInit == Init => TypeOK
<1> SUFFICES ASSUME Init PROVE TypeOK
  OBVIOUS
<1>1. \A p \in Processes : process[p] \in Process /\ process[p].wake = 0
  BY DEF Init, Process
<1>2. process \in [Processes -> Process]
  BY <1>1 DEF Init
<1>3. clock = 0 /\ MaxTime \in Nat /\ MaxSleep \in Nat /\ Delays \in Nat /\ Slow \in Nat
      /\ Kills \in Nat /\ Stops \in Nat
  BY CronAssumption DEF Init
<1>4. \A p \in Processes : process[p].wake <= clock + MaxSleep
  <2>1. 0 <= 0 + MaxSleep
    BY <1>3
  <2> QED BY <1>1, <1>3, <2>1
<1>5. /\ registry \subseteq Names /\ score \in [Names -> Nat]
      /\ hash \in [Names -> [until : Nat, whole : BOOLEAN]]
  BY DEF Init
<1>6. /\ clock \in 0..MaxTime /\ delays \in 0..Delays /\ slow \in 0..Slow
      /\ kills \in 0..Kills /\ stops \in 0..Stops
  BY <1>3 DEF Init
<1> QED BY <1>2, <1>4, <1>5, <1>6 DEF TypeOK, Process

\* start(): every variable keeps its type, and calculate_sleep_interval never
\* makes a scheduler sleep for more than a minute.
THEOREM CronTypeCorrect == Spec => []TypeOK
  BY TypesInit, TypesNext, PTL DEF Spec

-----------------------------------------------------------------------------
(* No time is used twice: what is planned at the time t.                   *)

\* enqueue_time is the time of the whole pass, and nothing is older.
PassOK(r, t) == r.born <= t /\ (r.pc = "jobs" => r.time = t)

\* The next time of a cron string is one of its times, after as many as have
\* been used, and not later than the first one that is still to come.
StringOK(r, k, t) ==
    \E m \in Nat :
        /\ r.next[k] = m * Every[k]
        /\ r.runs[k] + 1 + r.born \div Every[k] <= m
        /\ m <= t \div Every[k] + 1

\* The next time of an interval is at least as many intervals after the birth.
IntervalOK(r, k, t) ==
    \/ r.runs[k] = 0 /\ r.next[k] = 0
    \/ /\ r.runs[k] > 0
       /\ r.next[k] <= t + Every[k]
       /\ r.born + r.runs[k] * Every[k] <= r.next[k]

PlanOK(r, k, t) == IF k \in Strings THEN StringOK(r, k, t) ELSE IntervalOK(r, k, t)

ProcessOK(r, t) ==
    IF r.pc = "off" THEN \A k \in CronJobs : r.runs[k] = 0
    ELSE PassOK(r, t) /\ \A k \in CronJobs : PlanOK(r, k, t)

TimesOK == \A p \in Processes : ProcessOK(process[p], clock)

\* What a plan looks at stays.
LEMMA PlanKept ==
  ASSUME NEW t \in Nat, NEW r \in Process, NEW s \in Process, NEW k \in CronJobs,
         s.next[k] = r.next[k], s.runs[k] = r.runs[k], s.born = r.born, PlanOK(r, k, t)
  PROVE  PlanOK(s, k, t)
  BY DEF PlanOK, StringOK, IntervalOK

\* A plan is not spoilt by the time that passes.
LEMMA PlanTick ==
  ASSUME NEW t \in Nat, NEW r \in Process, NEW k \in CronJobs, PlanOK(r, k, t)
  PROVE  PlanOK(r, k, t + 1)
<1>1. Every[k] \in Nat \ {0}
  BY CronAssumption
<1>2. CASE k \in Strings
  <2>1. /\ t \div Every[k] \in Nat /\ (t + 1) \div Every[k] \in Nat
        /\ t \div Every[k] <= (t + 1) \div Every[k]
    BY <1>1, DivMono, DivBounds
  <2>2. PICK m \in Nat : /\ r.next[k] = m * Every[k]
                         /\ r.runs[k] + 1 + r.born \div Every[k] <= m
                         /\ m <= t \div Every[k] + 1
    BY <1>2 DEF PlanOK, StringOK
  <2>3. m <= (t + 1) \div Every[k] + 1
    BY <2>1, <2>2
  <2> QED BY <1>2, <2>2, <2>3 DEF PlanOK, StringOK
<1>3. CASE k \notin Strings
  <2>1. r.next[k] \in Nat
    BY DEF Process
  <2> QED BY <1>1, <1>3, <2>1 DEF PlanOK, IntervalOK
<1> QED BY <1>2, <1>3

\* A cron job is made: the first time of its string is the next one.
LEMMA PlanFirst ==
  ASSUME NEW t \in Nat, NEW s \in Process, NEW k \in CronJobs,
         s.next[k] = FirstTime(k, t), s.runs[k] = 0, s.born = t
  PROVE  PlanOK(s, k, t)
<1>1. Every[k] \in Nat \ {0}
  BY CronAssumption
<1>2. CASE k \in Strings
  <2> DEFINE m == t \div Every[k] + 1
  <2>1. t \div Every[k] \in Nat
    BY <1>1, DivBounds
  <2>2. m \in Nat /\ s.next[k] = m * Every[k]
    BY <1>2, <2>1 DEF FirstTime, NextTime
  <2>3. s.runs[k] + 1 + s.born \div Every[k] <= m /\ m <= t \div Every[k] + 1
    BY <2>1
  <2> HIDE DEF m
  <2> QED BY <1>2, <2>2, <2>3 DEF PlanOK, StringOK
<1>3. CASE k \notin Strings
  BY <1>3 DEF PlanOK, IntervalOK, FirstTime
<1> QED BY <1>2, <1>3

\* set_enqueue_time for a job that is due, at the time of the pass.
LEMMA PlanNext ==
  ASSUME NEW t \in Nat, NEW r \in Process, NEW s \in Process, NEW k \in CronJobs,
         PlanOK(r, k, t), r.born <= t, t >= r.next[k],
         s.next[k] = NextTime(k, t), s.runs[k] = r.runs[k] + 1, s.born = r.born
  PROVE  PlanOK(s, k, t)
<1> DEFINE e == Every[k]
           q == t \div e
           n == r.runs[k]
           b == r.born
<1>1. e \in Nat \ {0} /\ n \in Nat /\ b \in Nat /\ r.next[k] \in Nat
  BY CronAssumption DEF Process
<1>2. q \in Nat /\ b \div e \in Nat
  BY <1>1, DivBounds
<1>3. CASE k \in Strings
  <2>1. PICK m \in Nat : /\ r.next[k] = m * e
                         /\ n + 1 + b \div e <= m
                         /\ m <= q + 1
    BY <1>3 DEF PlanOK, StringOK
  <2>2. m =< q
    BY <1>1, <2>1, DivMax
  <2>3. s.next[k] = (q + 1) * e
    BY <1>3 DEF NextTime
  <2> HIDE DEF e, q, n, b
  <2>4. (n + 1) + 1 + b \div e <= q + 1 /\ q + 1 \in Nat
    BY <1>1, <1>2, <2>1, <2>2
  <2> QED BY <1>2, <1>3, <2>3, <2>4 DEF PlanOK, StringOK, e, q, n, b
<1>4. CASE k \notin Strings
  <2>1. s.next[k] = t + e
    BY <1>4 DEF NextTime
  <2>2. /\ n = 0 \/ b + n * e <= r.next[k]
        /\ n * e \in Nat /\ (n + 1) * e = n * e + e /\ (n + 1) * e \in Nat
    BY <1>1, <1>4, NextMultiple DEF PlanOK, IntervalOK
  <2> HIDE DEF e, q
  <2>3. b + (n + 1) * e <= t + e
    <3>1. CASE n = 0
      BY <1>1, <2>2, <3>1
    <3>2. CASE b + n * e <= r.next[k]
      BY <1>1, <2>2, <3>2
    <3> QED BY <2>2, <3>1, <3>2
  <2> QED BY <1>1, <1>4, <2>1, <2>3 DEF PlanOK, IntervalOK, e
<1> QED BY <1>3, <1>4

\* A step of p that leaves p as it should be leaves the others so too.
LEMMA OthersOK ==
  ASSUME TypeOK, TimesOK, NEW p \in Processes, Moved(p), clock' = clock,
         ProcessOK(process'[p], clock)
  PROVE  TimesOK'
<1> SUFFICES ASSUME NEW x \in Processes PROVE ProcessOK(process'[x], clock')
  BY DEF TimesOK
<1>1. CASE x = p
  BY <1>1
<1>2. CASE x # p
  BY <1>2 DEF Moved, TimesOK
<1> QED BY <1>1, <1>2

\* A step that changes no plan: born, next and runs are what they were.
LEMMA PlansKept ==
  ASSUME TypeOK, TimesOK, NEW p \in Processes, Moved(p), process[p].pc # "off",
         process'[p].born = process[p].born, process'[p].next = process[p].next,
         process'[p].runs = process[p].runs,
         process'[p].pc # "off", process'[p].pc = "jobs" => process'[p].time = clock
  PROVE  ProcessOK(process'[p], clock)
<1>1. /\ clock \in Nat /\ process[p] \in Process /\ process'[p] \in Process
      /\ ProcessOK(process[p], clock)
  BY CronAssumption, IsProcess DEF TypeOK, Moved, TimesOK
<1>2. ASSUME NEW k \in CronJobs PROVE PlanOK(process'[p], k, clock)
  <2>1. PlanOK(process[p], k, clock)
    BY <1>1 DEF ProcessOK
  <2> QED BY <1>1, <2>1, PlanKept
<1>3. PassOK(process'[p], clock)
  BY <1>1 DEF ProcessOK, PassOK
<1> QED BY <1>2, <1>3 DEF ProcessOK

\* Every step keeps the plans, if no scheduler is late inside of a pass.
LEMMA TimesNext ==
  ASSUME Slow = 0, TypeOK, TimesOK, [Next]_vars
  PROVE  TimesOK'
<1>0. /\ clock \in Nat /\ \A p \in Processes : process[p] \in Process
      /\ \A p \in Processes : ProcessOK(process[p], clock)
  BY CronAssumption, IsProcess DEF TypeOK, TimesOK
<1>1. ASSUME NEW p \in Processes, Goes(p) PROVE TimesOK'
  BY <1>1, GoesMoves, PlansKept, OthersOK
<1>2. ASSUME NEW p \in Processes, Birth(p) PROVE TimesOK'
  <2>1. /\ Moved(p) /\ process'[p].pc = "loop" /\ process'[p].born = clock
        /\ process'[p].next = [k \in CronJobs |-> FirstTime(k, clock)]
        /\ process'[p].runs = process[p].runs /\ process'[p] \in Process
    BY <1>2, BirthMoves DEF Moved
  <2>2. process[p].pc = "off" /\ clock' = clock
    BY <1>2 DEF Birth
  <2>3. \A k \in CronJobs : process'[p].runs[k] = 0
    BY <1>0, <2>1, <2>2 DEF ProcessOK
  <2>4. \A k \in CronJobs : PlanOK(process'[p], k, clock)
    BY <1>0, <2>1, <2>3, PlanFirst
  <2>5. ProcessOK(process'[p], clock)
    BY <1>0, <2>1, <2>4 DEF ProcessOK, PassOK
  <2> QED BY <2>1, <2>2, <2>5, OthersOK
<1>3. ASSUME NEW p \in Processes, StartPass(p) PROVE TimesOK'
  BY <1>3, StartPassMoves, PlansKept, OthersOK DEF StartPass
<1>4. ASSUME NEW p \in Processes, NEW k \in CronJobs, EnqueueJob(p, k) PROVE TimesOK'
  <2>1. /\ Moved(p) /\ process[p].pc = "jobs" /\ process'[p].pc = "jobs"
        /\ process'[p].time = process[p].time /\ process'[p].born = process[p].born
        /\ process[p] \in Process /\ process'[p] \in Process /\ clock' = clock
        /\ ProcessOK(process[p], clock)
    BY <1>0, <1>4, EnqueueJobMoves DEF Moved, EnqueueJob
  <2>2. process[p].time = clock /\ process[p].born <= clock
    BY <2>1 DEF ProcessOK, PassOK
  <2>3. CASE ShouldRun(p, k)
    <3>1. /\ process'[p].runs = [process[p].runs EXCEPT ![k] = @ + 1]
          /\ process'[p].next = [process[p].next EXCEPT ![k] = NextTime(k, clock)]
      BY <1>4, <2>2, <2>3, EnqueueJobMoves
    <3>2. /\ process[p].runs \in [CronJobs -> Nat] /\ process[p].next \in [CronJobs -> Nat]
      BY <2>1 DEF Process
    <3>3. PlanOK(process'[p], k, clock)
      <4>1. /\ process'[p].next[k] = NextTime(k, clock)
            /\ process'[p].runs[k] = process[p].runs[k] + 1
        BY <3>1, <3>2
      <4>2. PlanOK(process[p], k, clock) /\ clock >= process[p].next[k]
        BY <2>1, <2>3 DEF ProcessOK, ShouldRun
      <4> QED BY <1>0, <2>1, <2>2, <4>1, <4>2, PlanNext
    <3>4. ASSUME NEW h \in CronJobs, h # k PROVE PlanOK(process'[p], h, clock)
      <4>1. process'[p].next[h] = process[p].next[h] /\ process'[p].runs[h] = process[p].runs[h]
        BY <3>1, <3>2, <3>4
      <4>2. PlanOK(process[p], h, clock)
        BY <2>1 DEF ProcessOK
      <4> QED BY <1>0, <2>1, <4>1, <4>2, PlanKept
    <3>5. ProcessOK(process'[p], clock)
      BY <2>1, <2>2, <3>3, <3>4 DEF ProcessOK, PassOK
    <3> QED BY <2>1, <3>5, OthersOK
  <2>4. CASE ~ShouldRun(p, k)
    BY <1>4, <2>1, <2>2, <2>4, EnqueueJobMoves, PlansKept, OthersOK
  <2> QED BY <2>3, <2>4
<1>5. ASSUME NEW p \in Processes, Sleep(p) PROVE TimesOK'
  BY <1>5, SleepMoves, PlansKept, OthersOK DEF Sleep, SleepUntil
<1>6. CASE Tick
  <2>1. process' = process /\ clock' = clock + 1 /\ \A p \in Processes : process[p].pc # "jobs"
    BY <1>6 DEF Tick, Running, TypeOK
  <2>2. ASSUME NEW p \in Processes PROVE ProcessOK(process[p], clock + 1)
    BY <1>0, <2>1, PlanTick DEF ProcessOK, PassOK, Process
  <2> QED BY <2>1, <2>2 DEF TimesOK
<1>7. CASE Cleanup \/ UNCHANGED vars
  BY <1>7 DEF Cleanup, vars, TimesOK
<1> QED
  BY <1>1, <1>2, <1>3, <1>4, <1>5, <1>6, <1>7 DEF Next, SchedulerNext, Goes

\* At the start nobody is born.
LEMMA TimesInit == Init => TimesOK
<1> SUFFICES ASSUME Init, NEW p \in Processes PROVE ProcessOK(process[p], clock)
  BY DEF TimesOK
<1>1. process[p].pc = "off" /\ process[p].runs = [k \in CronJobs |-> 0]
  BY DEF Init
<1> QED BY <1>1 DEF ProcessOK

\* What is planned bounds what has been used.
LEMMA OnceFollows == TypeOK /\ TimesOK => NoTimeTwice
<1> SUFFICES ASSUME TypeOK, TimesOK, NEW p \in Processes, NEW k \in CronJobs,
                    process[p].pc # "off"
             PROVE  process[p].runs[k] <= Due(k, process[p].born)
  BY DEF NoTimeTwice
<1> DEFINE e == Every[k]
           n == process[p].runs[k]
           b == process[p].born
           x == process[p].next[k]
<1>1. clock \in Nat /\ e \in Nat \ {0} /\ n \in Nat /\ b \in Nat /\ x \in Nat
  BY CronAssumption, IsProcess DEF TypeOK, Process
<1>2. b <= clock /\ PlanOK(process[p], k, clock)
  BY DEF TimesOK, ProcessOK, PassOK
<1>3. CASE k \in Strings
  <2>1. clock \div e \in Nat /\ b \div e \in Nat
    BY <1>1, DivBounds
  <2>2. n + 1 + b \div e <= clock \div e + 1
    <3>1. PICK m \in Nat : n + 1 + b \div e <= m /\ m <= clock \div e + 1
      BY <1>2, <1>3 DEF PlanOK, StringOK
    <3> HIDE DEF e, n, b
    <3> QED BY <1>1, <2>1, <3>1
  <2>3. Due(k, b) = clock \div e - b \div e
    BY <1>3 DEF Due
  <2> HIDE DEF e, n, b
  <2>4. n <= Due(k, b)
    BY <1>1, <2>1, <2>2, <2>3
  <2> QED BY <2>4 DEF n, b
<1>4. CASE k \notin Strings
  <2> DEFINE d == clock - b
  <2>1. d \in Nat
    BY <1>1, <1>2
  <2>2. d \div e \in Nat /\ Due(k, b) = 1 + d \div e
    BY <1>1, <1>4, <2>1, DivBounds DEF Due
  <2>3. n = 0 \/ (x <= clock + e /\ b + n * e <= x)
    BY <1>2, <1>4 DEF PlanOK, IntervalOK
  <2>4. ASSUME n > 0 PROVE n - 1 <= d \div e
    <3>1. n - 1 \in Nat /\ n = (n - 1) + 1
      BY <1>1, <2>4
    <3>2. n * e = (n - 1) * e + e /\ (n - 1) * e \in Nat
      BY <1>1, <3>1, NextMultiple
    <3>3. (n - 1) * e <= d
      <4> HIDE DEF e, n, b, x
      <4> QED BY <1>1, <1>2, <2>3, <2>4, <3>1, <3>2
    <3> HIDE DEF e, n, d
    <3> QED BY <1>1, <2>1, <3>1, <3>3, DivMax
  <2> HIDE DEF e, n, b, d, x
  <2>5. n <= Due(k, b)
    BY <1>1, <2>2, <2>4
  <2> QED BY <2>5 DEF n, b
<1> QED BY <1>3, <1>4

\* enqueue_jobs: no time of a cron job is used twice, if no scheduler is late
\* between two jobs of one pass.
THEOREM TimesOnce ==
  ASSUME Slow = 0
  PROVE  Spec => []NoTimeTwice
<1>1. Init => TypeOK /\ TimesOK
  BY TypesInit, TimesInit
<1>2. (TypeOK /\ TimesOK) /\ [Next]_vars => (TypeOK /\ TimesOK)'
  BY TypesNext, TimesNext
<1> QED BY <1>1, <1>2, OnceFollows, PTL DEF Spec

-----------------------------------------------------------------------------
(* No time is missed.                                                      *)

\* The next time is the one after those that have been used, and is late by no
\* more than the delays.  Whoever sleeps gets up for it.
StringKept(r, k) ==
    /\ r.next[k] = (r.runs[k] + 1 + r.born \div Every[k]) * Every[k]
    /\ clock <= r.next[k] + delays
    /\ r.pc = "sleep" /\ r.wake > clock => r.wake <= r.next[k]

KeptOK == \A p \in Processes : Running(p) => \A k \in Strings : StringKept(process[p], k)

\* A step of p, in no time.
LEMMA OthersKept ==
  ASSUME KeptOK, NEW p \in Processes, Moved(p), clock' = clock, delays' = delays,
         Running(p)' => \A k \in Strings : StringKept(process[p], k)'
  PROVE  KeptOK'
<1> SUFFICES ASSUME NEW x \in Processes, x # p, Running(x)', NEW k \in Strings
             PROVE  StringKept(process[x], k)'
  BY DEF KeptOK
<1>1. process'[x] = process[x]
  BY DEF Moved
<1>2. StringKept(process[x], k)
  BY <1>1 DEF KeptOK, Running
<1> QED BY <1>1, <1>2 DEF StringKept

\* A step that changes no plan.
LEMMA PlansStay ==
  ASSUME KeptOK, NEW p \in Processes, Moved(p), clock' = clock, delays' = delays, Running(p),
         process'[p].born = process[p].born, process'[p].next = process[p].next,
         process'[p].runs = process[p].runs, process'[p].pc # "sleep"
  PROVE  KeptOK'
<1>1. ASSUME NEW k \in Strings PROVE StringKept(process[p], k)'
  BY <1>1 DEF KeptOK, StringKept
<1> QED BY <1>1, OthersKept

\* The steps that only go on plan nothing.
LEMMA GoesKeep ==
  ASSUME TypeOK, KeptOK, NEW p \in Processes, Goes(p)
  PROVE  KeptOK'
<1>1. delays' = delays /\ Running(p)
  BY GoesMoves DEF Goes, EndPass, SaveJobsData, Heartbeat, Wake, Stop, Kill, Running
<1> QED BY <1>1, GoesMoves, PlansStay

\* The first time of a string is still to come.
LEMMA BirthKeeps ==
  ASSUME TypeOK, TimesOK, KeptOK, NEW p \in Processes, Birth(p)
  PROVE  KeptOK'
<1>1. /\ Moved(p) /\ process'[p].pc = "loop" /\ process'[p].born = clock
      /\ process'[p].next = [k \in CronJobs |-> FirstTime(k, clock)]
      /\ process'[p].runs = process[p].runs /\ process[p].pc = "off"
      /\ clock' = clock /\ delays' = delays
  BY BirthMoves DEF Birth
<1>2. clock \in Nat /\ delays \in Nat
  BY CronAssumption DEF TypeOK
<1>3. ASSUME NEW k \in Strings PROVE StringKept(process[p], k)'
  <2> DEFINE e == Every[k]
             q == clock \div e
  <2>1. k \in CronJobs /\ e \in Nat \ {0}
    BY CronAssumption
  <2>2. q \in Nat
    BY <1>2, <2>1, DivBounds
  <2>3. process'[p].runs[k] = 0
    BY <1>1, <2>1 DEF TimesOK, ProcessOK
  <2>4. process'[p].next[k] = NextTime(k, clock)
    BY <1>1, <2>1 DEF FirstTime
  <2>5. process'[p].next[k] = (q + 1) * e
    BY <2>4 DEF NextTime
  <2>6. clock < process'[p].next[k] /\ process'[p].next[k] \in Nat
    BY <1>2, <2>1, <2>4, NextTimeLater
  <2> HIDE DEF e, q
  <2>7. clock <= process'[p].next[k] + delays
    BY <1>2, <2>6
  <2>8. process'[p].runs[k] + 1 + q = q + 1
    BY <2>2, <2>3
  <2> QED BY <1>1, <2>5, <2>7, <2>8 DEF StringKept, e, q
<1> QED BY <1>1, <1>3, OthersKept

\* A job that is due is due for the last time that has passed, so that the
\* next time is the one after it.
LEMMA EnqueueJobKeeps ==
  ASSUME \A k \in Strings : Delays < Every[k],
         TypeOK, TimesOK, KeptOK, NEW p \in Processes, NEW h \in CronJobs, EnqueueJob(p, h)
  PROVE  KeptOK'
<1>1. /\ Moved(p) /\ process[p].pc = "jobs" /\ process'[p].pc = "jobs"
      /\ process'[p].born = process[p].born
      /\ clock' = clock /\ delays' = delays /\ Running(p)
  BY EnqueueJobMoves DEF EnqueueJob, Running
<1>2. process[p].time = clock
  BY <1>1 DEF TimesOK, ProcessOK, PassOK
<1>3. clock \in Nat /\ delays \in Nat /\ delays <= Delays /\ Delays \in Nat
      /\ process[p] \in Process
  BY CronAssumption, IsProcess DEF TypeOK
<1>4. CASE ~ShouldRun(p, h)
  BY <1>1, <1>4, EnqueueJobMoves, PlansStay
<1>5. CASE ShouldRun(p, h)
  <2>1. /\ process'[p].runs = [process[p].runs EXCEPT ![h] = @ + 1]
        /\ process'[p].next = [process[p].next EXCEPT ![h] = NextTime(h, clock)]
        /\ process[p].runs \in [CronJobs -> Nat] /\ process[p].next \in [CronJobs -> Nat]
        /\ process[p].born \in Nat
    BY <1>2, <1>3, <1>5, EnqueueJobMoves DEF Process
  <2>2. ASSUME NEW k \in Strings PROVE StringKept(process[p], k)'
    <3>0. StringKept(process[p], k) /\ k \in CronJobs
      BY <1>1, CronAssumption DEF KeptOK
    <3>1. CASE k # h
      BY <1>1, <2>1, <3>0, <3>1 DEF StringKept
    <3>2. CASE k = h
      <4> DEFINE e == Every[k]
                 n == process[p].runs[k]
                 x == process[p].next[k]
                 b == process[p].born \div e
      <4>1. /\ e \in Nat \ {0} /\ n \in Nat /\ x \in Nat /\ b \in Nat /\ Delays < e
            /\ x <= clock /\ x = (n + 1 + b) * e /\ clock <= x + delays
        BY <1>5, <2>1, <3>0, <3>2, CronAssumption, DivBounds DEF StringKept, ShouldRun
      <4>2. /\ process'[p].runs[k] = n + 1
            /\ process'[p].next[k] = (clock \div e + 1) * e
        BY <2>1, <3>0, <3>2 DEF NextTime
      <4>3. process'[p].born \div e = b
        BY <1>1
      <4> HIDE DEF e, n, x, b
      <4>4. clock < (n + 1 + b) * e + e /\ (n + 1 + b) * e <= clock /\ n + 1 + b \in Nat
        BY <1>3, <4>1
      <4>5. clock \div e = n + 1 + b
        BY <1>3, <4>1, <4>4, DivUnique
      <4>6. process'[p].next[k] = ((n + 1) + 1 + b) * e
        <5>1. clock \div e + 1 = (n + 1) + 1 + b
          BY <4>1, <4>5
        <5> QED BY <4>2, <5>1
      <4>7. clock <= process'[p].next[k] + delays
        <5>1. process'[p].next[k] = (n + 1 + b) * e + e /\ (n + 1 + b) * e \in Nat
          BY <4>1, <4>2, <4>4, <4>5, NextMultiple
        <5> QED BY <1>3, <4>1, <4>4, <5>1
      <4> QED BY <1>1, <4>2, <4>3, <4>6, <4>7 DEF StringKept, e, n, x, b
    <3> QED BY <3>1, <3>2
  <2> QED BY <1>1, <2>2, OthersKept
<1> QED BY <1>4, <1>5

\* A sleep ends at the next time or before.
LEMMA SleepKeeps ==
  ASSUME TypeOK, KeptOK, NEW p \in Processes, Sleep(p)
  PROVE  KeptOK'
<1>1. /\ Moved(p) /\ process[p].pc = "doze"
      /\ process'[p].born = process[p].born /\ process'[p].next = process[p].next
      /\ process'[p].runs = process[p].runs
      /\ process'[p].wake > clock =>
            \A k \in CronJobs : process'[p].wake =< process[p].next[k]
      /\ clock' = clock /\ delays' = delays /\ Running(p)
  BY SleepMoves DEF Sleep, SleepUntil, Running
<1>2. ASSUME NEW k \in Strings PROVE StringKept(process[p], k)'
  BY <1>1, CronAssumption DEF KeptOK, StringKept
<1> QED BY <1>1, <1>2, OthersKept

\* Time passes: a scheduler that has something to do spends a delay, and one
\* that sleeps is not late yet.
LEMMA TickKeeps ==
  ASSUME Slow = 0, TypeOK, KeptOK, Tick
  PROVE  KeptOK'
<1> SUFFICES ASSUME NEW p \in Processes, Running(p)', NEW k \in Strings
             PROVE  StringKept(process[p], k)'
  BY DEF KeptOK
<1>1. process' = process /\ clock' = clock + 1
  BY DEF Tick
<1>2. Running(p) /\ StringKept(process[p], k)
  BY <1>1 DEF KeptOK, Running
<1>3. /\ process[p] \in Process /\ clock \in Nat /\ delays \in Nat
      /\ process[p].next[k] \in Nat /\ process[p].wake \in Nat
  <2>1. process[p] \in Process /\ clock \in Nat /\ delays \in Nat /\ k \in CronJobs
    BY CronAssumption, IsProcess DEF TypeOK
  <2> QED BY <2>1 DEF Process
<1>4. \/ delays' = delays + 1
      \/ delays' = delays /\ process[p].pc = "sleep" /\ process[p].wake > clock
  <2>1. slow \in 0..0
    BY DEF TypeOK
  <2> QED BY <1>2, <1>3, <2>1 DEF Tick
<1>5. clock + 1 <= process[p].next[k] + delays'
  BY <1>2, <1>3, <1>4 DEF StringKept
<1>6. process[p].pc = "sleep" /\ process[p].wake > clock + 1
         => process[p].wake <= process[p].next[k]
  BY <1>2, <1>3 DEF StringKept
<1> QED BY <1>1, <1>2, <1>5, <1>6 DEF StringKept

\* Every step keeps the times, if delays do not add up to a period.
LEMMA KeptNext ==
  ASSUME Slow = 0, \A k \in Strings : Delays < Every[k],
         TypeOK, TimesOK, KeptOK, [Next]_vars
  PROVE  KeptOK'
<1>1. ASSUME NEW p \in Processes, StartPass(p) PROVE KeptOK'
  BY <1>1, StartPassMoves, PlansStay DEF StartPass, Running
<1>2. CASE Cleanup \/ UNCHANGED vars
  BY <1>2 DEF Cleanup, vars, KeptOK, Running, StringKept
<1> QED
  BY <1>1, <1>2, GoesKeep, BirthKeeps, EnqueueJobKeeps, SleepKeeps, TickKeeps
     DEF Next, SchedulerNext, Goes

\* At the start nobody runs.
LEMMA KeptInit == Init => KeptOK
  BY DEF Init, KeptOK, Running

\* Who sleeps has missed nothing.
LEMMA MissedFollows == TypeOK /\ TimesOK /\ KeptOK => NoTimeMissed
<1> SUFFICES ASSUME TypeOK, TimesOK, KeptOK, NEW p \in Processes, NEW k \in Strings,
                    process[p].pc = "sleep", clock < process[p].wake
             PROVE  process[p].runs[k] = Due(k, process[p].born)
  BY DEF NoTimeMissed
<1> DEFINE e == Every[k]
           n == process[p].runs[k]
           b == process[p].born \div e
           q == clock \div e
<1>0. k \in CronJobs /\ process[p] \in Process /\ clock \in Nat
  BY CronAssumption, IsProcess DEF TypeOK
<1>1. /\ e \in Nat \ {0} /\ n \in Nat /\ process[p].born \in Nat /\ process[p].wake \in Nat
      /\ process[p].next[k] \in Nat
  BY <1>0, CronAssumption DEF Process
<1>2. b \in Nat /\ q \in Nat /\ q * e <= clock /\ q * e \in Nat
  BY <1>0, <1>1, DivBounds, NextMultiple
<1>3. Due(k, process[p].born) = q - b
  BY DEF Due
<1>4. n <= q - b
  BY <1>0, <1>3, OnceFollows DEF NoTimeTwice
<1>5. StringKept(process[p], k)
  BY DEF KeptOK, Running
<1>6. clock < (n + 1 + b) * e
  BY <1>0, <1>1, <1>5 DEF StringKept
<1> HIDE DEF e, n, b, q
<1>7. ~(n + 1 + b < q) /\ n + 1 + b # q
  <2>1. CASE n + 1 + b < q
    <3>1. n + 1 + b \in Nat /\ (n + 1 + b) * e \in Nat
      BY <1>1, <1>2, NextMultiple
    <3>2. (n + 1 + b) * e + e <= q * e
      BY <1>1, <1>2, <2>1, <3>1, MultMono
    <3> QED BY <1>0, <1>1, <1>2, <1>6, <3>1, <3>2
  <2>2. CASE n + 1 + b = q
    BY <1>0, <1>2, <1>6, <2>2
  <2> QED BY <2>1, <2>2
<1>8. n = q - b
  BY <1>1, <1>2, <1>4, <1>7
<1> QED BY <1>3, <1>8 DEF n

\* calculate_sleep_interval: a scheduler that sleeps has missed no time of a
\* cron string, if its delays do not add up to a period.
THEOREM TimesKept ==
  ASSUME Slow = 0, \A k \in Strings : Delays < Every[k]
  PROVE  Spec => []NoTimeMissed
<1> DEFINE Inv == TypeOK /\ TimesOK /\ KeptOK
<1>1. Init => Inv
  BY TypesInit, TimesInit, KeptInit
<1>2. Inv /\ [Next]_vars => Inv'
  BY TypesNext, TimesNext, KeptNext
<1> QED BY <1>1, <1>2, MissedFollows, PTL DEF Spec

-----------------------------------------------------------------------------
(* A scheduler that runs is listed.                                        *)

Late == delays + slow

\* The name of a scheduler comes into the registry at its birth.  Its score is
\* then as old as a minute of sleep and the delays allow; the hash of a birth
\* has less time, and a heartbeat comes before the first sleep.
NameOK(p) ==
    LET n == Name[p]
        r == process[p] IN
    /\ r.pc = "off" => n \notin registry
    /\ Running(p) =>
          /\ n \in registry /\ hash[n].whole
          /\ \/ /\ hash[n].until = score[n] + HeartbeatTTL
                /\ clock <= score[n] + Late + MaxSleep
             \/ /\ hash[n].until = score[n] + BirthTTL
                /\ clock <= score[n] + Late
                /\ r.pc \in {"loop", "jobs", "save", "beat"}
          /\ r.pc = "doze" => clock <= score[n] + Late
          /\ r.pc = "sleep" => r.wake <= score[n] + Late + MaxSleep

NamesOK == \A p \in Processes : NameOK(p)

\* Each scheduler has a name of its own, and is late for less than what its
\* heartbeats leave.
InTime ==
    /\ \A p, q \in Processes : Name[p] = Name[q] => p = q
    /\ Delays + Slow < BirthTTL
    /\ MaxSleep + Delays + Slow < HeartbeatTTL
    /\ MaxSleep + Delays + Slow < Threshold

\* The numbers of NameOK.
LEMMA NumbersOK ==
  ASSUME TypeOK, NEW p \in Processes
  PROVE  /\ Name[p] \in Names /\ process[p] \in Process /\ process[p].wake \in Nat
         /\ clock \in Nat /\ score[Name[p]] \in Nat /\ hash[Name[p]].until \in Nat
         /\ Late \in Nat /\ Late <= Delays + Slow /\ Delays + Slow \in Nat
         /\ MaxSleep \in Nat /\ BirthTTL \in Nat /\ HeartbeatTTL \in Nat /\ Threshold \in Nat
<1>1. /\ Name[p] \in Names /\ process[p] \in Process /\ clock \in Nat
      /\ MaxSleep \in Nat /\ BirthTTL \in Nat /\ HeartbeatTTL \in Nat /\ Threshold \in Nat
  BY CronAssumption, IsProcess DEF TypeOK
<1>2. score[Name[p]] \in Nat /\ hash[Name[p]].until \in Nat /\ process[p].wake \in Nat
  BY <1>1 DEF TypeOK, Process
<1>3. delays \in Nat /\ slow \in Nat /\ Delays \in Nat /\ Slow \in Nat
      /\ delays <= Delays /\ slow <= Slow
  BY CronAssumption DEF TypeOK
<1> QED BY <1>1, <1>2, <1>3 DEF Late

\* A name that is as it should be is shown.
LEMMA NameShown ==
  ASSUME TypeOK, InTime, NEW p \in Processes, NameOK(p), Running(p)
  PROVE  Name[p] \in Shown /\ Lives(Name[p]) /\ Fresh(Name[p])
<1> DEFINE n == Name[p]
<1>1. n \in registry /\ hash[n].whole
  BY DEF NameOK
<1>2. \/ hash[n].until = score[n] + HeartbeatTTL /\ clock <= score[n] + Late + MaxSleep
      \/ hash[n].until = score[n] + BirthTTL /\ clock <= score[n] + Late
  BY DEF NameOK
<1>3. hash[n].until > clock /\ score[n] + Threshold > clock
  <2>1. /\ clock \in Nat /\ score[n] \in Nat /\ Late \in Nat /\ MaxSleep \in Nat
        /\ BirthTTL \in Nat /\ HeartbeatTTL \in Nat /\ Threshold \in Nat
    BY NumbersOK
  <2>2. Late < BirthTTL /\ MaxSleep + Late < HeartbeatTTL /\ MaxSleep + Late < Threshold
    <3>1. Late <= Delays + Slow /\ Delays + Slow \in Nat
      BY NumbersOK
    <3>2. /\ Delays + Slow < BirthTTL /\ MaxSleep + (Delays + Slow) < HeartbeatTTL
          /\ MaxSleep + (Delays + Slow) < Threshold
      <4>1. Delays \in Nat /\ Slow \in Nat
        BY CronAssumption
      <4> QED BY <2>1, <4>1 DEF InTime
    <3> QED BY <2>1, <3>1, <3>2
  <2> HIDE DEF n
  <2>3. CASE hash[n].until = score[n] + HeartbeatTTL /\ clock <= score[n] + Late + MaxSleep
    BY <2>1, <2>2, <2>3
  <2>4. CASE hash[n].until = score[n] + BirthTTL /\ clock <= score[n] + Late
    BY <2>1, <2>2, <2>4
  <2> QED BY <1>2, <2>3, <2>4 DEF n
<1> QED BY <1>1, <1>3 DEF Shown, Fresh, Fetchable, Lives

\* A step of p changes what is kept under the name of p and nothing else.
LEMMA OtherNames ==
  ASSUME TypeOK, InTime, NamesOK, NEW p \in Processes, Moved(p),
         clock' = clock, delays' = delays, slow' = slow,
         \A n \in Names \ {Name[p]} : /\ n \in registry' <=> n \in registry
                                      /\ score'[n] = score[n] /\ hash'[n] = hash[n],
         NameOK(p)'
  PROVE  NamesOK'
<1> SUFFICES ASSUME NEW x \in Processes, x # p PROVE NameOK(x)'
  BY DEF NamesOK
<1> DEFINE n == Name[x]
<1>1. n \in Names \ {Name[p]}
  BY CronAssumption DEF InTime
<1>2. process'[x] = process[x] /\ NameOK(x)
  BY DEF Moved, NamesOK
<1>3. score'[n] = score[n] /\ hash'[n] = hash[n] /\ (n \in registry' <=> n \in registry)
  BY <1>1
<1>4. Late' = Late
  BY DEF Late
<1> QED BY <1>2, <1>3, <1>4 DEF NameOK, Running

\* A birth is the first time that its name is registered.
LEMMA BirthNames ==
  ASSUME TypeOK, InTime, NamesOK, NEW p \in Processes, Birth(p)
  PROVE  NamesOK'
<1> DEFINE n == Name[p]
<1>1. Moved(p) /\ process'[p].pc = "loop"
  BY BirthMoves
<1>2. /\ clock' = clock /\ delays' = delays /\ slow' = slow
      /\ process[p].pc = "off" /\ registry' = registry \cup {n}
      /\ score' = [score EXCEPT ![n] = IF n \in registry THEN @ ELSE clock]
      /\ hash' = [hash EXCEPT ![n] = [until |-> clock + BirthTTL, whole |-> TRUE]]
  BY DEF Birth, Register
<1>3. n \notin registry
  BY <1>2 DEF NamesOK, NameOK
<1>4. score \in [Names -> Nat] /\ hash \in [Names -> [until : Nat, whole : BOOLEAN]]
      /\ n \in Names
  BY NumbersOK DEF TypeOK
<1>5. /\ score'[n] = clock /\ hash'[n].until = clock + BirthTTL /\ hash'[n].whole
      /\ n \in registry'
  BY <1>2, <1>3, <1>4
<1>6. Late' = Late
  BY <1>2 DEF Late
<1>7. NameOK(p)'
  <2>1. clock <= clock + Late
    BY NumbersOK
  <2> QED BY <1>1, <1>2, <1>5, <1>6, <2>1 DEF NameOK
<1> QED BY <1>1, <1>2, <1>4, <1>7, OtherNames

\* A step within a pass, up to the heartbeat.
LEMMA PassNames ==
  ASSUME TypeOK, InTime, NamesOK, NEW p \in Processes, Moved(p), Running(p),
         UNCHANGED <<clock, registry, score, hash, delays, slow>>,
         \/ process'[p].pc \in {"stopped", "error", "killed"}
         \/ process'[p].pc \in {"loop", "jobs", "save", "beat"}
  PROVE  NamesOK'
<1>1. Late' = Late
  BY DEF Late
<1>2. NameOK(p)
  BY DEF NamesOK
<1>3. NameOK(p)'
  BY <1>1, <1>2 DEF NameOK, Running
<1> QED BY <1>3, OtherNames

\* save_jobs_data finds the hash: it has not expired.
LEMMA SaveJobsDataNames ==
  ASSUME TypeOK, InTime, NamesOK, NEW p \in Processes, SaveJobsData(p)
  PROVE  NamesOK'
<1>1. Moved(p) /\ process'[p].pc = "beat" /\ Running(p)
  <2>1. Put(p, [process[p] EXCEPT !.pc = "beat"]) /\ Running(p)
    BY DEF SaveJobsData, Running
  <2> QED BY <2>1, GotoMoves
<1>2. Lives(Name[p])
  BY <1>1, NameShown DEF NamesOK
<1>3. hash' = hash
  BY <1>2 DEF SaveJobsData, TypeOK
<1>4. UNCHANGED <<clock, registry, score, delays, slow>>
  BY DEF SaveJobsData
<1> QED BY <1>1, <1>3, <1>4, PassNames

\* A heartbeat finds the name and the hash, and renews both.
LEMMA HeartbeatNames ==
  ASSUME TypeOK, InTime, NamesOK, NEW p \in Processes, Heartbeat(p)
  PROVE  NamesOK'
<1> DEFINE n == Name[p]
<1>1. Moved(p) /\ process'[p].pc = "doze" /\ Running(p)
  <2>1. Put(p, [process[p] EXCEPT !.pc = "doze"]) /\ Running(p)
    BY DEF Heartbeat, Running
  <2> QED BY <2>1, GotoMoves
<1>2. n \in registry /\ hash[n].whole /\ Lives(n)
  BY <1>1, NameShown DEF NamesOK, NameOK
<1>3. /\ clock' = clock /\ delays' = delays /\ slow' = slow /\ registry' = registry
      /\ score' = [score EXCEPT ![n] = clock]
      /\ hash' = [hash EXCEPT ![n].until = clock + HeartbeatTTL]
  BY <1>2 DEF Heartbeat
<1>4. score \in [Names -> Nat] /\ hash \in [Names -> [until : Nat, whole : BOOLEAN]]
      /\ n \in Names
  BY NumbersOK DEF TypeOK
<1>5. /\ score'[n] = clock /\ hash'[n].until = clock + HeartbeatTTL /\ hash'[n].whole
  BY <1>2, <1>3, <1>4
<1>6. Late' = Late
  BY <1>3 DEF Late
<1>7. NameOK(p)'
  <2>1. clock <= clock + Late /\ clock <= clock + Late + MaxSleep
    BY NumbersOK
  <2> QED BY <1>1, <1>2, <1>3, <1>5, <1>6, <2>1 DEF NameOK
<1> QED BY <1>1, <1>3, <1>4, <1>7, OtherNames

\* A sleep follows a heartbeat, and lasts for a minute at most.
LEMMA SleepNames ==
  ASSUME TypeOK, InTime, NamesOK, NEW p \in Processes, Sleep(p)
  PROVE  NamesOK'
<1> DEFINE n == Name[p]
<1>1. /\ Moved(p) /\ process[p].pc = "doze" /\ process'[p].pc = "sleep"
      /\ process'[p].wake <= clock + MaxSleep
  BY SleepMoves
<1>2. UNCHANGED <<clock, registry, score, hash, delays, slow>>
  BY DEF Sleep, SleepUntil
<1>3. /\ n \in registry /\ hash[n].whole /\ hash[n].until = score[n] + HeartbeatTTL
      /\ clock <= score[n] + Late
  BY <1>1 DEF NamesOK, NameOK, Running
<1>4. Late' = Late
  BY <1>2 DEF Late
<1>5. process'[p].wake \in Nat
  BY <1>1 DEF Moved, Process
<1>6. clock <= score[n] + Late + MaxSleep /\ process'[p].wake <= score[n] + Late + MaxSleep
  BY <1>1, <1>3, <1>5, NumbersOK
<1>7. NameOK(p)'
  BY <1>1, <1>2, <1>3, <1>4, <1>6 DEF NameOK
<1> QED BY <1>1, <1>2, <1>7, OtherNames

\* register_death takes the name of the scheduler that stops.
LEMMA StopNames ==
  ASSUME TypeOK, InTime, NamesOK, NEW p \in Processes, Stop(p)
  PROVE  NamesOK'
<1>1. Moved(p) /\ process'[p].pc \in {"stopped", "error"}
  <2>1. \E l \in {"stopped", "error"} : Put(p, [process[p] EXCEPT !.pc = l])
    BY DEF Stop, Unregister
  <2> QED BY <2>1, GotoMoves
<1>2. /\ UNCHANGED <<clock, score, hash, delays, slow>>
      /\ registry' = registry \ {Name[p]}
  BY DEF Stop, Unregister
<1>3. NameOK(p)'
  BY <1>1 DEF NameOK, Running
<1> QED BY <1>1, <1>2, <1>3, OtherNames

\* cleanup() takes no scheduler that runs for stale.
LEMMA CleanupNames ==
  ASSUME TypeOK, InTime, NamesOK, Cleanup
  PROVE  NamesOK'
<1> SUFFICES ASSUME NEW p \in Processes PROVE NameOK(p)'
  BY DEF NamesOK
<1>1. /\ UNCHANGED <<clock, process, score, hash, delays, slow>>
      /\ registry' = {n \in registry : Fresh(n)}
  BY DEF Cleanup
<1>2. Late' = Late /\ NameOK(p)
  BY <1>1 DEF Late, NamesOK
<1>3. Running(p) => Fresh(Name[p])
  BY <1>2, NameShown
<1> QED BY <1>1, <1>2, <1>3 DEF NameOK, Running

\* Time passes: a scheduler sleeps, or spends a delay.
LEMMA TickNames ==
  ASSUME TypeOK, InTime, NamesOK, Tick
  PROVE  NamesOK'
<1> SUFFICES ASSUME NEW p \in Processes PROVE NameOK(p)'
  BY DEF NamesOK
<1> DEFINE n == Name[p]
<1>1. UNCHANGED <<process, registry, score, hash>> /\ clock' = clock + 1
  BY DEF Tick
<1>2. NameOK(p)
  BY DEF NamesOK
<1>3. CASE ~Running(p)
  BY <1>1, <1>2, <1>3 DEF NameOK, Running
<1>4. CASE Running(p)
  <2>0. /\ clock \in Nat /\ score[n] \in Nat /\ Late \in Nat /\ MaxSleep \in Nat
        /\ process[p].wake \in Nat
    BY NumbersOK
  <2>1. delays \in Nat /\ slow \in Nat
    BY CronAssumption DEF TypeOK
  <2>2. CASE Late' = Late + 1
    <3>1. clock <= score[n] + Late + MaxSleep
             => clock + 1 <= score[n] + (Late + 1) + MaxSleep
      BY <2>0
    <3>2. clock <= score[n] + Late => clock + 1 <= score[n] + (Late + 1)
      BY <2>0
    <3>3. process[p].wake <= score[n] + Late + MaxSleep
             => process[p].wake <= score[n] + (Late + 1) + MaxSleep
      BY <2>0
    <3> QED BY <1>1, <1>2, <1>4, <2>2, <3>1, <3>2, <3>3 DEF NameOK, Running
  <2>3. CASE Late' = Late /\ process[p].pc = "sleep" /\ process[p].wake > clock
    <3>1. /\ n \in registry /\ hash[n].whole /\ hash[n].until = score[n] + HeartbeatTTL
          /\ process[p].wake <= score[n] + Late + MaxSleep
      BY <1>2, <1>4, <2>3 DEF NameOK
    <3>2. clock + 1 <= score[n] + Late + MaxSleep
      BY <2>0, <2>3, <3>1
    <3> QED BY <1>1, <2>3, <3>1, <3>2 DEF NameOK
  <2>4. \/ Late' = Late + 1
        \/ Late' = Late /\ process[p].pc = "sleep" /\ process[p].wake > clock
    <3>1. \/ slow' = slow + 1 /\ delays' = delays
          \/ slow' = slow /\ delays' = delays + 1
          \/ slow' = slow /\ delays' = delays /\ process[p].pc = "sleep"
             /\ ~(process[p].wake <= clock)
      BY <1>4 DEF Tick
    <3> QED BY <2>0, <2>1, <3>1 DEF Late
  <2> QED BY <2>2, <2>3, <2>4
<1> QED BY <1>3, <1>4

\* Every step keeps the names as they should be.
LEMMA NamesNext ==
  ASSUME TypeOK, InTime, NamesOK, [Next]_vars
  PROVE  NamesOK'
<1>1. ASSUME NEW p \in Processes, StartPass(p) PROVE NamesOK'
  BY <1>1, StartPassMoves, PassNames DEF StartPass, Running
<1>2. ASSUME NEW p \in Processes, NEW k \in CronJobs, EnqueueJob(p, k) PROVE NamesOK'
  BY <1>2, EnqueueJobMoves, PassNames DEF EnqueueJob, Running
<1>3. ASSUME NEW p \in Processes, EndPass(p) PROVE NamesOK'
  <2>1. \E l \in {"save", "beat"} : Put(p, [process[p] EXCEPT !.pc = l])
    BY <1>3 DEF EndPass
  <2>2. Moved(p) /\ process'[p].pc \in {"save", "beat"}
    BY <2>1, GotoMoves
  <2> QED BY <1>3, <2>2, PassNames DEF EndPass, Running
<1>4. ASSUME NEW p \in Processes, Wake(p) PROVE NamesOK'
  <2>1. Moved(p) /\ process'[p].pc = "loop"
    BY <1>4, GotoMoves DEF Wake
  <2> QED BY <1>4, <2>1, PassNames DEF Wake, Running
<1>5. ASSUME NEW p \in Processes, Kill(p) PROVE NamesOK'
  <2>1. Moved(p) /\ process'[p].pc = "killed"
    BY <1>5, GotoMoves DEF Kill
  <2> QED BY <1>5, <2>1, PassNames DEF Kill
<1>6. CASE UNCHANGED vars
  BY <1>6 DEF vars, NamesOK, NameOK, Running, Late
<1> QED
  BY <1>1, <1>2, <1>3, <1>4, <1>5, <1>6, BirthNames, SaveJobsDataNames, HeartbeatNames,
     SleepNames, StopNames, CleanupNames, TickNames DEF Next, SchedulerNext

\* At the start no name is registered.
LEMMA NamesInit == Init => NamesOK
<1> SUFFICES ASSUME Init, NEW p \in Processes PROVE NameOK(p)
  BY DEF NamesOK
<1>1. process[p].pc = "off" /\ registry = {}
  BY DEF Init
<1> QED BY <1>1 DEF NameOK, Running

\* heartbeat against cleanup and the TTL: a scheduler that runs is in the list
\* that CronScheduler.all shows, if it is late for less than what its
\* heartbeats leave.
THEOREM ListedWhileRunning ==
  ASSUME InTime
  PROVE  Spec => []RunningIsListed
<1> DEFINE Inv == TypeOK /\ NamesOK
<1>1. Init => Inv
  BY TypesInit, NamesInit
<1>2. Inv /\ [Next]_vars => Inv'
  BY TypesNext, NamesNext
<1>3. Inv => RunningIsListed
  BY NameShown DEF NamesOK, RunningIsListed
<1> QED BY <1>1, <1>2, <1>3, PTL DEF Spec

=============================================================================
