----------------------------- MODULE WorkerPool -----------------------------
(***************************************************************************)
(* WorkerPool: the process that starts num_workers workers, replaces those *)
(* that die, and is stopped by a signal that it passes on to them.         *)
(*                                                                         *)
(* A signal handler runs between two steps of the process it interrupts.   *)
(***************************************************************************)
EXTENDS Naturals, FiniteSets

CONSTANTS
    Workers,        \* the processes that can be started, each once
    NumWorkers,     \* num_workers
    None,           \* not a worker
    Signals, Crashes    \* bounds: stops of the pool, deaths of workers

ASSUME PoolAssumption ==
    /\ NumWorkers \in Nat \ {0}
    /\ None \notin Workers
    /\ Signals \in Nat /\ Crashes \in Nat

VARIABLES
    pc,             \* where start() is
    burst,          \* its argument
    status,
    workerDict,     \* the names in worker_dict
    left,           \* workers still to be started by the loop it is in
    forked,         \* the process of start_worker that is not in worker_dict yet
    todo, stopping, \* workers to be reaped, and by which branch of start()
    state,          \* state[w] of the processes
    handler,        \* handler[w]: what SIGINT runs in w: that of Python, of the
                    \* pool (inherited by a fork), of the worker
    known,          \* known[w]: worker_dict as w inherited it
    pending,        \* the processes with a SIGINT that is not handled yet
    signals, crashes

pool == <<pc, workerDict, left, forked, todo, stopping>>
vars == <<pool, burst, status, state, handler, known, pending, signals, crashes>>

Init ==
    /\ pc = "start" /\ burst \in BOOLEAN /\ status = "started"
    /\ workerDict = {} /\ left = NumWorkers /\ forked = None
    /\ todo = {} /\ stopping = FALSE
    /\ state = [w \in Workers |-> "none"]
    /\ handler = [w \in Workers |-> "default"]
    /\ known = [w \in Workers |-> {}]
    /\ pending = {}
    /\ signals = 0 /\ crashes = 0

Alive(w) == state[w] \in {"boot", "idle", "busy", "finishing", "leaving"}
Living == {w \in Workers : Alive(w)}

-----------------------------------------------------------------------------
(* start(), and what it calls.                                             *)

\* Mutant of Fork: the loop counts the worker here, too.
ForkCounted(w) ==
    /\ pc \in {"start", "respawn"} /\ left > 0 /\ forked = None
    /\ state[w] = "none"
    /\ state' = [state EXCEPT ![w] = "boot"]
    /\ handler' = [handler EXCEPT ![w] = IF pc = "start" THEN "default" ELSE "pool"]
    /\ known' = [known EXCEPT ![w] = workerDict]
    /\ forked' = w /\ left' = left - 1
    /\ UNCHANGED <<pc, workerDict, todo, stopping, burst, status, pending, signals,
                   crashes>>

\* start_worker: process.start() forks.
Fork(w) ==
    /\ pc \in {"start", "respawn"} /\ left > 0 /\ forked = None
    /\ state[w] = "none"
    /\ state' = [state EXCEPT ![w] = "boot"]
    /\ handler' = [handler EXCEPT ![w] = IF pc = "start" THEN "default" ELSE "pool"]
    /\ known' = [known EXCEPT ![w] = workerDict]
    /\ forked' = w
    /\ UNCHANGED <<pc, workerDict, left, todo, stopping, burst, status, pending,
                   signals, crashes>>

\* The rest of start_worker.
Enter ==
    /\ pc \in {"start", "respawn"} /\ forked # None
    /\ workerDict' = workerDict \cup {forked}
    /\ forked' = None /\ left' = left - 1
    /\ UNCHANGED <<pc, todo, stopping, burst, status, state, handler, known, pending,
                   signals, crashes>>

\* _install_signal_handlers, after start_workers.
InstallHandlers ==
    /\ pc = "start" /\ left = 0
    /\ pc' = "loop"
    /\ UNCHANGED <<workerDict, left, forked, todo, stopping, burst, status, state,
                   handler, known, pending, signals, crashes>>

\* Mutant of Loop: the status is not looked at, burst mode is left to end.
LoopDeaf ==
    /\ pc = "loop"
    /\ pc' = "reap"
    /\ stopping' = FALSE
    /\ todo' = workerDict
    /\ UNCHANGED <<workerDict, left, forked, burst, status, state, handler, known,
                   pending, signals, crashes>>

\* The loop looks at the status and lists the workers to reap.
Loop ==
    /\ pc = "loop"
    /\ pc' = "reap"
    /\ stopping' = (status = "stopped")
    /\ todo' = workerDict
    /\ UNCHANGED <<workerDict, left, forked, burst, status, state, handler, known,
                   pending, signals, crashes>>

\* Mutant of Reap: the result of is_alive is not looked at.
ReapAll(w) ==
    /\ pc = "reap" /\ w \in todo
    /\ todo' = todo \ {w}
    /\ workerDict' = workerDict \ {w}
    /\ UNCHANGED <<pc, left, forked, stopping, burst, status, state, handler, known,
                   pending, signals, crashes>>

\* Mutant of Reap: a dead worker stays in worker_dict.
ReapNone(w) ==
    /\ pc = "reap" /\ w \in todo
    /\ todo' = todo \ {w}
    /\ UNCHANGED <<pc, workerDict, left, forked, stopping, burst, status, state,
                   handler, known, pending, signals, crashes>>

\* reap_workers and handle_dead_worker: one round.
Reap(w) ==
    /\ pc = "reap" /\ w \in todo
    /\ todo' = todo \ {w}
    /\ workerDict' = IF Alive(w) THEN workerDict ELSE workerDict \ {w}
    /\ UNCHANGED <<pc, left, forked, stopping, burst, status, state, handler, known,
                   pending, signals, crashes>>

\* check_workers starts as many workers as are missing.
Respawn ==
    /\ pc = "reap" /\ todo = {} /\ ~stopping
    /\ ~burst /\ status # "stopped"
    /\ left' = NumWorkers - Cardinality(workerDict)
    /\ pc' = "respawn"
    /\ UNCHANGED <<workerDict, forked, todo, stopping, burst, status, state, handler,
                   known, pending, signals, crashes>>

\* Mutant of EndRound: it ends when every worker has been told to stop.
EndRoundEarly ==
    /\ \/ pc = "reap" /\ todo = {} /\ (stopping \/ burst \/ status = "stopped")
       \/ pc = "respawn" /\ left = 0
    /\ pc' = IF (stopping \/ burst) /\ {w \in workerDict : state[w] # "leaving"} = {}
             THEN "exit" ELSE "sleep"
    /\ UNCHANGED <<workerDict, left, forked, todo, stopping, burst, status, state,
                   handler, known, pending, signals, crashes>>

\* all_workers_have_stopped, or the end of check_workers: start() returns if no
\* worker is left, and otherwise sleeps.
EndRound ==
    /\ \/ pc = "reap" /\ todo = {} /\ (stopping \/ burst \/ status = "stopped")
       \/ pc = "respawn" /\ left = 0
    /\ pc' = IF (stopping \/ burst) /\ workerDict = {} THEN "exit" ELSE "sleep"
    /\ UNCHANGED <<workerDict, left, forked, todo, stopping, burst, status, state,
                   handler, known, pending, signals, crashes>>

Wake ==
    /\ pc = "sleep"
    /\ pc' = "loop"
    /\ UNCHANGED <<workerDict, left, forked, todo, stopping, burst, status, state,
                   handler, known, pending, signals, crashes>>

\* SIGINT or SIGTERM: request_stop and stop_workers.  Before the handlers are
\* installed the signal ends the pool.
RequestStop ==
    /\ pc \notin {"exit", "gone"}
    /\ signals < Signals
    /\ signals' = signals + 1
    /\ IF pc = "start"
       THEN pc' = "gone" /\ UNCHANGED <<status, pending>>
       ELSE /\ status' = "stopped"
            /\ pending' = pending \cup {w \in workerDict : Alive(w)}
            /\ UNCHANGED pc
    /\ UNCHANGED <<workerDict, left, forked, todo, stopping, burst, state, handler,
                   known, crashes>>

-----------------------------------------------------------------------------
(* The workers.                                                            *)

Become(w, s) == state' = [state EXCEPT ![w] = s]

\* run_worker and work() up to _install_signal_handlers.
Boot(w) ==
    /\ state[w] = "boot"
    /\ Become(w, "idle")
    /\ handler' = [handler EXCEPT ![w] = "worker"]
    /\ UNCHANGED <<pool, burst, status, known, pending, signals, crashes>>

StartJob(w) ==
    /\ state[w] = "idle"
    /\ Become(w, "busy")
    /\ UNCHANGED <<pool, burst, status, handler, known, pending, signals, crashes>>

\* After a warm shutdown request the loop of work() ends.
EndJob(w) ==
    /\ state[w] \in {"busy", "finishing"}
    /\ Become(w, IF state[w] = "busy" THEN "idle" ELSE "leaving")
    /\ UNCHANGED <<pool, burst, status, handler, known, pending, signals, crashes>>

\* work() returns after a stop, or in burst mode when the queues are empty.
Exit(w) ==
    /\ state[w] = "leaving" \/ (burst /\ state[w] = "idle")
    /\ Become(w, "dead")
    /\ pending' = pending \ {w}
    /\ UNCHANGED <<pool, burst, status, handler, known, signals, crashes>>

Crash(w) ==
    /\ Alive(w)
    /\ crashes < Crashes
    /\ crashes' = crashes + 1
    /\ Become(w, "dead")
    /\ pending' = pending \ {w}
    /\ UNCHANGED <<pool, burst, status, handler, known, signals>>

\* Python's handler ends the process.
HandleDefault(w) ==
    /\ w \in pending /\ handler[w] = "default"
    /\ Become(w, "dead")
    /\ pending' = pending \ {w}
    /\ UNCHANGED <<pool, burst, status, handler, known, signals, crashes>>

\* The inherited request_stop passes the signal on to the workers that were in
\* worker_dict at the fork, and the new worker goes on.
HandleInherited(w) ==
    /\ w \in pending /\ handler[w] = "pool"
    /\ pending' = (pending \ {w}) \cup {x \in known[w] : Alive(x)}
    /\ UNCHANGED <<pool, burst, status, state, handler, known, signals, crashes>>

\* BaseWorker.request_stop, and at the second signal request_force_stop: within
\* a second it is ignored.
HandleStop(w) ==
    /\ w \in pending /\ handler[w] = "worker"
    /\ \/ state[w] = "idle" /\ Become(w, "leaving")
       \/ state[w] = "busy" /\ Become(w, "finishing")
       \/ state[w] \in {"finishing", "leaving"} /\ Become(w, "dead")
       \/ state[w] \in {"finishing", "leaving"} /\ UNCHANGED state
    /\ pending' = pending \ {w}
    /\ UNCHANGED <<pool, burst, status, handler, known, signals, crashes>>

PoolNext ==
    \/ Enter \/ InstallHandlers \/ Loop \/ Respawn \/ EndRound \/ Wake
    \/ \E w \in Workers : Fork(w) \/ Reap(w)

WorkerNext(w) ==
    Boot(w) \/ EndJob(w) \/ Exit(w) \/ HandleDefault(w) \/ HandleInherited(w)
    \/ HandleStop(w)

\* start() has returned, or the pool was ended while it started.
Done == /\ pc \in {"exit", "gone"} /\ Living = {}
        /\ UNCHANGED vars

Next ==
    \/ PoolNext \/ RequestStop \/ Done
    \/ \E w \in Workers : WorkerNext(w) \/ StartJob(w) \/ Crash(w)

Spec == Init /\ [][Next]_vars

\* The processes are scheduled, a job ends, and a signal is handled.
FairSpec ==
    /\ Spec
    /\ WF_vars(PoolNext)
    /\ \A w \in Workers : WF_vars(WorkerNext(w))

-----------------------------------------------------------------------------
(* Properties.                                                             *)

\* Every variable has its type.
TypeOK ==
    /\ pc \in {"start", "loop", "reap", "respawn", "sleep", "exit", "gone"}
    /\ burst \in BOOLEAN /\ status \in {"started", "stopped"}
    /\ workerDict \subseteq Workers
    /\ left \in 0..NumWorkers
    /\ forked \in Workers \cup {None}
    /\ todo \subseteq Workers /\ stopping \in BOOLEAN
    /\ state \in [Workers -> {"none", "boot", "idle", "busy", "finishing", "leaving",
                              "dead"}]
    /\ handler \in [Workers -> {"default", "pool", "worker"}]
    /\ known \in [Workers -> SUBSET Workers]
    /\ pending \subseteq Workers
    /\ signals \in 0..Signals /\ crashes \in 0..Crashes

\* check_workers against the death of workers at any moment: there are never
\* more than num_workers.
NeverTooMany == Cardinality(Living) <= NumWorkers

\* start() returns only when no worker is left, also when a signal comes while
\* it is starting one.
LastToLeave == pc = "exit" => Living = {}

\* check_workers: workers that die are replaced until the pool is stopped.
PoolRefills ==
    []<>(\/ Cardinality(Living) = NumWorkers
         \/ burst \/ status = "stopped" \/ pc = "gone")

\* A stop that finds no worker on its way into worker_dict, and no worker without
\* handlers of its own, ends the pool.
AllTold ==
    /\ status = "stopped" /\ pc # "respawn"
    /\ \A w \in Living : state[w] \in {"finishing", "leaving"}

\* request_stop: once every worker knows of the stop, the pool comes to its end,
\* whatever jobs and deaths come in between.
StopEnds == AllTold ~> pc = "exit"

=============================================================================
