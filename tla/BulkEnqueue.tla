---------------------------- MODULE BulkEnqueue ----------------------------
(***************************************************************************)
(* Queue.enqueue_many and Group.enqueue_many: batches of unique, plain and *)
(* dependent jobs, against the workers that finish the dependencies and    *)
(* the cleanup of groups.                                                  *)
(*                                                                         *)
(* A pipeline of redis-py that has called WATCH and not MULTI runs each    *)
(* command at once.  execute() runs what was buffered before, raises a     *)
(* WatchError if a watched key has changed, and forgets the buffer either  *)
(* way.  enqueue_many executes its own pipeline after each part; the       *)
(* pipeline of a caller (a group) keeps the parts.                         *)
(***************************************************************************)
EXTENDS Naturals

CONSTANTS
    Parents,        \* jobs that run when the batches come, one worker for each
    Clients, NoJob,
    Unique, Plain, Dependent,   \* of a client: the jobs of its batch, by kind
    DependsOn,      \* DependsOn[j]: the parents of a dependent job
    Grouped,        \* clients that call Group.enqueue_many, all of one group
    Touches,        \* bound: heartbeats of the parents
    Expiries        \* bound: jobs whose hash expires

Batch(c) == Unique[c] \cup Plain[c] \cup Dependent[c]
Jobs == UNION {Batch(c) : c \in Clients}

ASSUME BulkAssumption ==
    /\ NoJob \notin Jobs
    /\ Jobs \cap Parents = {}
    /\ \A c \in Clients : DependsOn \in [UNION {Dependent[d] : d \in Clients} ->
                                         (SUBSET Parents) \ {{}}]
    /\ Grouped \subseteq Clients
    /\ Touches \in Nat /\ Expiries \in Nat

VARIABLES
    status,         \* status[j]: of the hash of a job of a batch
    queue,          \* queue[j]: entries for j in the queue
    pushed,         \* pushed[j]: how often j was pushed since it was created
    deferred,       \* DeferredJobRegistry
    dependents,     \* dependents[p]: the set of p's dependents
    dependencies,   \* dependencies[j]: the set of j's dependencies, as far as they
                    \* are registered
    partial,        \* history: the jobs of which a worker has read a part of the
                    \* dependencies only, and taken them for met
    parent,         \* parent[p]: the worker of p: its step, what it is about to
                    \* enqueue, and whether a key that it watches has changed
    client,         \* client[c]: where c is in enqueue_many
    group,          \* the members of the group
    listed,         \* the group is in rq:groups
    cleaner,        \* the cleanup of groups: its step and the ids without a hash
    touches, expiries

vars == <<status, queue, pushed, deferred, dependents, dependencies, partial, parent,
          client, group, listed, cleaner, touches, expiries>>

Start == [pc |-> "unique", todo |-> {}, job |-> NoJob, left |-> {},
          met |-> [j \in Jobs |-> 0], buffer |-> {}, dirty |-> FALSE,
          conflict |-> FALSE]

Init ==
    /\ status = [j \in Jobs |-> "absent"]
    /\ queue = [j \in Jobs |-> 0] /\ pushed = [j \in Jobs |-> 0]
    /\ deferred = {}
    /\ dependents = [p \in Parents |-> {}]
    /\ dependencies = [j \in Jobs |-> {}] /\ partial = {}
    /\ parent = [p \in Parents |-> [pc |-> "running", wake |-> {}, dirty |-> FALSE]]
    /\ client = [c \in Clients |-> [Start EXCEPT !.todo = Unique[c]]]
    /\ group = {} /\ listed = FALSE
    /\ cleaner = [pc |-> "idle", gone |-> {}]
    /\ touches = 0 /\ expiries = 0

Finished(p) == parent[p].pc = "finished"

\* dependencies_are_met, without and with a parent job.
Met(j) == \A p \in dependencies[j] : Finished(p)
MetBut(j, p) == \A q \in dependencies[j] \ {p} : Finished(q)

\* Push js, js[j] times each, and set the status of those and of saved.
Push(js, saved) ==
    /\ status' = [j \in Jobs |-> IF js[j] > 0 THEN "queued"
                                 ELSE IF j \in saved THEN "deferred" ELSE status[j]]
    /\ queue' = [j \in Jobs |-> queue[j] + js[j]]
    /\ pushed' = [j \in Jobs |-> js[j] +
           IF js[j] > 0 /\ status[j] = "absent" THEN 0 ELSE pushed[j]]

Once(S) == [j \in Jobs |-> IF j \in S THEN 1 ELSE 0]

\* Mutant of DirtyClients: there is no WATCH.
DirtyClientsNever(ps) == client

\* A write to the keys of the parents ps breaks the WATCH of the clients.
DirtyClients(ps) == [c \in Clients |->
    IF client[c].pc \in {"register", "read", "execute"} /\ client[c].job # NoJob
    THEN [client[c] EXCEPT !.dirty = @ \/ DependsOn[client[c].job] \cap ps # {}]
    ELSE client[c]]

-----------------------------------------------------------------------------
(* enqueue_many.                                                           *)

\* Mutant of EnqueueUnique: the script saves without a look for the hash.
EnqueueUniqueUnchecked(c, j) ==
    /\ client[c].pc = "unique" /\ j \in client[c].todo
    /\ Push(Once({j}), {})
    /\ client' = [client EXCEPT ![c].todo = @ \ {j}]
    /\ UNCHANGED <<deferred, dependents, dependencies, partial, parent, group, listed,
                   cleaner, touches, expiries>>

\* save_unique_job: one script looks for the hash, saves it and pushes the id.
\* A duplicate raises an error out of enqueue_many.
EnqueueUnique(c, j) ==
    /\ client[c].pc = "unique" /\ j \in client[c].todo
    /\ IF status[j] = "absent"
       THEN /\ Push(Once({j}), {})
            /\ client' = [client EXCEPT ![c].todo = @ \ {j}]
       ELSE /\ client' = [client EXCEPT ![c].pc = "error"]
            /\ UNCHANGED <<status, queue, pushed>>
    /\ UNCHANGED <<deferred, dependents, dependencies, partial, parent, group, listed,
                   cleaner, touches, expiries>>

\* The jobs without dependencies are saved and pushed.
EnqueuePlain(c) ==
    /\ client[c].pc = "unique" /\ client[c].todo = {}
    /\ IF c \in Grouped
       THEN /\ client' = [client EXCEPT ![c].pc = "save", ![c].buffer = Plain[c]]
            /\ UNCHANGED <<status, queue, pushed>>
       ELSE /\ client' = [client EXCEPT ![c].pc = "save"]
            /\ Push(Once(Plain[c]), {})
    /\ UNCHANGED <<deferred, dependents, dependencies, partial, parent, group, listed,
                   cleaner, touches, expiries>>

\* The jobs with dependencies are saved, as deferred.
SaveDeferred(c) ==
    LET next == [client[c] EXCEPT !.pc = "watch", !.todo = Dependent[c]] IN
    /\ client[c].pc = "save"
    /\ IF c \in Grouped
       THEN /\ client' = [client EXCEPT ![c] = [next EXCEPT !.buffer = @ \cup Dependent[c]]]
            /\ UNCHANGED <<status, queue, pushed>>
       ELSE /\ client' = [client EXCEPT ![c] = next]
            /\ Push(Once({}), Dependent[c])
    /\ UNCHANGED <<deferred, dependents, dependencies, partial, parent, group, listed,
                   cleaner, touches, expiries>>

\* WATCH, and the DeferredJobRegistry.
WatchParents(c, j) ==
    /\ client[c].pc = "watch" /\ j \in client[c].todo
    /\ client[c].job \in {NoJob, j}
    /\ deferred' = deferred \cup {j}
    /\ client' = [client EXCEPT ![c].pc = "register", ![c].job = j,
                                ![c].left = DependsOn[j], ![c].dirty = FALSE]
    /\ UNCHANGED <<status, queue, pushed, dependents, dependencies, partial, parent,
                   group, listed, cleaner, touches, expiries>>

\* register_dependency, for one parent: the two SADD are executed at once.  The
\* worker of the parent watches the set of its dependents; nobody watches the set
\* of the job's dependencies, which grows by one parent at a time.
RegisterDependency(c, p) ==
    LET j == client[c].job
        left == client[c].left \ {p}
    IN
    /\ client[c].pc = "register" /\ p \in client[c].left
    /\ dependents' = [dependents EXCEPT ![p] = @ \cup {j}]
    /\ dependencies' = [dependencies EXCEPT ![j] = @ \cup {p}]
    /\ parent' = [parent EXCEPT ![p].dirty = @ \/ j \notin dependents[p]]
    /\ client' = [client EXCEPT ![c].left = left,
                                ![c].pc = IF left = {} THEN "read" ELSE @]
    /\ UNCHANGED <<status, queue, pushed, deferred, partial, group, listed, cleaner,
                   touches, expiries>>

\* Mutant of ReadStatuses: the parents are relied on to enqueue the job.
ReadStatusesNever(c) ==
    /\ client[c].pc = "read"
    /\ client' = [client EXCEPT ![c].pc = "execute"]
    /\ UNCHANGED <<status, queue, pushed, deferred, dependents, dependencies, partial,
                   parent, group, listed, cleaner, touches, expiries>>

\* dependencies_are_met: the job is put in one of the two lists.
ReadStatuses(c) ==
    LET j == client[c].job IN
    /\ client[c].pc = "read"
    /\ client' = [client EXCEPT ![c].pc = "execute",
                                ![c].met[j] = IF Met(j) THEN @ + 1 ELSE @]
    /\ UNCHANGED <<status, queue, pushed, deferred, dependents, dependencies, partial,
                   parent, group, listed, cleaner, touches, expiries>>

\* execute(): after a WatchError the job is looked at once more, but stays in
\* its list, and the buffer of a caller's pipeline is gone.
Execute(c) ==
    LET r == client[c] IN
    /\ r.pc = "execute"
    /\ IF r.dirty
       THEN /\ client' = [client EXCEPT ![c].pc = "watch", ![c].buffer = {},
                                        ![c].conflict = TRUE]
            /\ UNCHANGED <<status, queue, pushed>>
       ELSE /\ Push(Once(r.buffer \cap Plain[c]), r.buffer \cap Dependent[c])
            /\ client' = [client EXCEPT ![c].pc = "watch", ![c].buffer = {},
                                        ![c].todo = @ \ {r.job}, ![c].job = NoJob]
    /\ UNCHANGED <<deferred, dependents, dependencies, partial, parent, group, listed,
                   cleaner, touches, expiries>>

\* Mutant of EnqueueMet: the ids are members before their jobs are saved.
EnqueueMetAfterGroup(c) ==
    LET r == client[c] IN
    /\ r.pc = "watch" /\ r.todo = {}
    /\ IF c \in Grouped /\ ~Batch(c) \subseteq group /\ r.buffer # {}
       THEN group' = group \cup Batch(c) /\ listed' = TRUE
            /\ UNCHANGED <<client, status, queue, pushed, deferred>>
       ELSE /\ Push([j \in Jobs |-> r.met[j] + Once(r.buffer \cap Plain[c])[j]],
                    r.buffer \cap Dependent[c])
            /\ deferred' = deferred \ {j \in Jobs : r.met[j] > 0}
            /\ client' = [client EXCEPT ![c] = [Start EXCEPT !.pc = "done",
                                                             !.conflict = r.conflict]]
            /\ UNCHANGED <<group, listed>>
    /\ UNCHANGED <<dependents, dependencies, partial, parent, cleaner, touches,
                   expiries>>

\* The jobs with met dependencies are pushed, as often as they are listed, and
\* Group._add_jobs adds the batch to its group in the same transaction.
EnqueueMet(c) ==
    LET r == client[c] IN
    /\ r.pc = "watch" /\ r.todo = {}
    /\ Push([j \in Jobs |-> r.met[j] + Once(r.buffer \cap Plain[c])[j]],
            r.buffer \cap Dependent[c])
    /\ deferred' = deferred \ {j \in Jobs : r.met[j] > 0}
    /\ IF c \in Grouped
       THEN group' = group \cup Batch(c) /\ listed' = TRUE
       ELSE UNCHANGED <<group, listed>>
    /\ client' = [client EXCEPT ![c] = [Start EXCEPT !.pc = "done",
                                                     !.conflict = r.conflict]]
    /\ UNCHANGED <<dependents, dependencies, partial, parent, cleaner, touches,
                   expiries>>

-----------------------------------------------------------------------------
(* The workers.                                                            *)

\* handle_job_success of the parent p: WATCH of its dependents, of which those
\* with a hash and no other unfinished dependency are to be enqueued.  A client
\* that has registered p and not yet the others has left a part to be read.
ReadDependents(p) ==
    LET wake == {j \in dependents[p] : status[j] # "absent" /\ MetBut(j, p)} IN
    /\ parent[p].pc = "running"
    /\ parent' = [parent EXCEPT ![p] = [pc |-> "success", dirty |-> FALSE, wake |-> wake]]
    /\ partial' = partial \cup {j \in wake : dependencies[j] # DependsOn[j]}
    /\ UNCHANGED <<status, queue, pushed, deferred, dependents, dependencies, client,
                   group, listed, cleaner, touches, expiries>>

\* A write to the hash of p breaks the WATCH of the workers of the parents
\* that a dependent of theirs shares with it.
DirtyParents(p) == [q \in Parents |->
    IF q # p /\ \E j \in dependents[q] : {p, q} \subseteq DependsOn[j]
    THEN [parent[q] EXCEPT !.dirty = TRUE] ELSE parent[q]]

\* Mutant of FinishParent: execute() is not told to look at the WATCH.
FinishParentBlind(p) ==
    LET wake == parent[p].wake IN
    /\ parent[p].pc = "success"
    /\ parent' = [DirtyParents(p) EXCEPT ![p] =
                     [pc |-> "finished", wake |-> {}, dirty |-> FALSE]]
    /\ Push(Once(wake), {})
    /\ deferred' = deferred \ wake
    /\ dependents' = [dependents EXCEPT ![p] = @ \ wake]
    /\ client' = DirtyClients({p})
    /\ UNCHANGED <<dependencies, partial, group, listed, cleaner, touches, expiries>>

\* Its transaction, or the WatchError that repeats it.
FinishParent(p) ==
    LET wake == parent[p].wake IN
    /\ parent[p].pc = "success"
    /\ IF parent[p].dirty
       THEN /\ parent' = [parent EXCEPT ![p] = [pc |-> "running", wake |-> {},
                                                dirty |-> FALSE]]
            /\ UNCHANGED <<status, queue, pushed, deferred, dependents, client>>
       ELSE /\ parent' = [DirtyParents(p) EXCEPT ![p] =
                             [pc |-> "finished", wake |-> {}, dirty |-> FALSE]]
            /\ Push(Once(wake), {})
            /\ deferred' = deferred \ wake
            /\ dependents' = [dependents EXCEPT ![p] = @ \ wake]
            /\ client' = DirtyClients({p})
    /\ UNCHANGED <<dependencies, partial, group, listed, cleaner, touches, expiries>>

\* A heartbeat of the running parent writes its hash.
Touch(p) ==
    /\ ~Finished(p)
    /\ touches < Touches
    /\ touches' = touches + 1
    /\ client' = DirtyClients({p})
    /\ parent' = DirtyParents(p)
    /\ UNCHANGED <<status, queue, pushed, deferred, dependents, dependencies, partial,
                   group, listed, cleaner, expiries>>

\* Mutant of Run: an entry that another worker has taken is taken once more.
RunUnguarded(j) ==
    /\ queue[j] > 0 \/ status[j] = "finished"
    /\ queue' = [queue EXCEPT ![j] = @ - 1]
    /\ status' = [status EXCEPT ![j] = IF @ = "absent" THEN @ ELSE "finished"]
    /\ UNCHANGED <<pushed, deferred, dependents, dependencies, partial, parent, client,
                   group, listed, cleaner, touches, expiries>>

\* A worker runs a job of a batch.
Run(j) ==
    /\ queue[j] > 0
    /\ queue' = [queue EXCEPT ![j] = @ - 1]
    /\ status' = [status EXCEPT ![j] = IF @ = "absent" THEN @ ELSE "finished"]
    /\ UNCHANGED <<pushed, deferred, dependents, dependencies, partial, parent, client,
                   group, listed, cleaner, touches, expiries>>

\* The hash of a finished job expires, and the set of its dependencies with it.
Expire(j) ==
    /\ status[j] = "finished"
    /\ expiries < Expiries
    /\ expiries' = expiries + 1
    /\ status' = [status EXCEPT ![j] = "absent"]
    /\ dependencies' = [dependencies EXCEPT ![j] = {}]
    /\ UNCHANGED <<queue, pushed, deferred, dependents, partial, parent, client, group,
                   listed, cleaner, touches>>

-----------------------------------------------------------------------------
(* Group.clean_registries.                                                 *)

\* Group.cleanup: the members and the hashes that are left of them.
CheckMembers ==
    /\ cleaner.pc = "idle" /\ listed /\ group # {}
    /\ cleaner' = [pc |-> "remove", gone |-> {j \in group : status[j] = "absent"}]
    /\ UNCHANGED <<status, queue, pushed, deferred, dependents, dependencies, partial,
                   parent, client, group, listed, touches, expiries>>

RemoveMembers ==
    /\ cleaner.pc = "remove"
    /\ group' = group \ cleaner.gone
    /\ cleaner' = [pc |-> "groups", gone |-> {}]
    /\ UNCHANGED <<status, queue, pushed, deferred, dependents, dependencies, partial,
                   parent, client, listed, touches, expiries>>

\* The set of a group without members does not exist.
CheckGroup ==
    /\ cleaner.pc = "groups"
    /\ cleaner' = [cleaner EXCEPT !.pc = IF group = {} THEN "unlist" ELSE "idle"]
    /\ UNCHANGED <<status, queue, pushed, deferred, dependents, dependencies, partial,
                   parent, client, group, listed, touches, expiries>>

RemoveGroup ==
    /\ cleaner.pc = "unlist"
    /\ listed' = FALSE
    /\ cleaner' = [cleaner EXCEPT !.pc = "idle"]
    /\ UNCHANGED <<status, queue, pushed, deferred, dependents, dependencies, partial,
                   parent, client, group, touches, expiries>>

-----------------------------------------------------------------------------
ClientNext(c) ==
    \/ \E j \in Jobs : EnqueueUnique(c, j) \/ WatchParents(c, j)
    \/ \E p \in Parents : RegisterDependency(c, p)
    \/ EnqueuePlain(c) \/ SaveDeferred(c) \/ ReadStatuses(c) \/ Execute(c)
    \/ EnqueueMet(c)

WorkerNext(p) == ReadDependents(p) \/ FinishParent(p)

CleanerNext == CheckMembers \/ RemoveMembers \/ CheckGroup \/ RemoveGroup

Next ==
    \/ \E c \in Clients : ClientNext(c)
    \/ \E p \in Parents : WorkerNext(p) \/ Touch(p)
    \/ \E j \in Jobs : Run(j) \/ Expire(j)
    \/ CleanerNext

Spec == Init /\ [][Next]_vars

\* Clients and workers go on.
Fairness ==
    /\ \A c \in Clients : WF_vars(ClientNext(c))
    /\ \A p \in Parents : WF_vars(WorkerNext(p))
    /\ \A j \in Jobs : WF_vars(Run(j))

FairSpec == Spec /\ Fairness

-----------------------------------------------------------------------------
(* Properties.                                                             *)

Client == [pc : {"unique", "save", "watch", "register", "read", "execute", "done", "error"},
           todo : SUBSET Jobs, job : Jobs \cup {NoJob}, left : SUBSET Parents,
           met : [Jobs -> Nat], buffer : SUBSET Jobs, dirty : BOOLEAN,
           conflict : BOOLEAN]

DataTypeOK ==
    /\ status \in [Jobs -> {"absent", "deferred", "queued", "finished"}]
    /\ queue \in [Jobs -> Nat] /\ pushed \in [Jobs -> Nat]

WorkersTypeOK ==
    /\ dependents \in [Parents -> SUBSET Jobs]
    /\ dependencies \in [Jobs -> SUBSET Parents] /\ partial \subseteq Jobs
    /\ parent \in [Parents -> [pc : {"running", "success", "finished"},
                               wake : SUBSET Jobs, dirty : BOOLEAN]]

\* Every variable has its type.
TypeOK ==
    /\ DataTypeOK /\ WorkersTypeOK
    /\ client \in [Clients -> Client]
    /\ deferred \subseteq Jobs
    /\ group \subseteq Jobs /\ listed \in BOOLEAN
    /\ cleaner \in [pc : {"idle", "remove", "groups", "unlist"}, gone : SUBSET Jobs]
    /\ touches \in Nat /\ expiries \in Nat

\* enqueue_many against handle_job_success: when enqueue_many has returned, a
\* job that is deferred is registered with a parent that has not finished.
BatchIsReachable ==
    \A c \in Clients : client[c].pc = "done" =>
        \A j \in Dependent[c] : status[j] \in {"absent", "deferred"} /\ pushed[j] = 0 =>
            \E p \in DependsOn[j] : ~Finished(p) /\ j \in dependents[p]
                                    /\ status[j] = "deferred"

\* The WATCH of get_jobs_with_met_dependencies: a client whose pipeline never
\* failed has not enqueued a job that the worker of a parent enqueued, too, and no
\* two workers have, but for a job of which one read its dependencies while they
\* were being registered.
ConflictFreeIsOnce ==
    \A c \in Clients : client[c].pc = "done" /\ ~client[c].conflict =>
        \A j \in Dependent[c] \ partial : pushed[j] <= 1

\* save_unique_job: of two clients with a job of one id, one gets its way.
UniqueIsOnce ==
    \A c \in Clients : \A j \in Unique[c] : queue[j] <= 1 /\ pushed[j] <= 1

\* Group.enqueue_many against Group.cleanup: a job of a group that exists is a
\* member.  (The id of a unique job may come again outside of the group, and a
\* worker that read a part of the dependencies may save a job that has expired.)
GroupKnowsItsJobs ==
    \A c \in Grouped : client[c].pc = "done" =>
        \A j \in (Plain[c] \cup Dependent[c]) \ partial :
            status[j] # "absent" => j \in group

\* Every job of a batch that was saved is run.
BatchRuns ==
    \A j \in Jobs : status[j] \in {"deferred", "queued"}
                    ~> status[j] \in {"finished", "absent"}

=============================================================================
