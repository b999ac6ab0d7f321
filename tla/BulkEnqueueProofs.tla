------------------------- MODULE BulkEnqueueProofs -------------------------
(***************************************************************************)
(* For any batches, clients and parents.  Every variable has its type; a   *)
(* unique id is in the queue once, if it is never used for another kind of *)
(* job; a dependent waits for its parents and is pushed once unless a      *)
(* WATCH broke, if it is in one batch; enqueue_many leaves no dependent    *)
(* behind, if groups have no dependents in their batches; and a group      *)
(* knows its jobs, if they are in no other batch.                          *)
(***************************************************************************)
EXTENDS BulkEnqueue, TLAPS

GroupsAreFlat == \A c \in Grouped : Dependent[c] = {}
UniqueIds == \A c, d \in Clients : Unique[c] \cap (Plain[d] \cup Dependent[d]) = {}

Watching == {"register", "read", "execute"}
Linking == Watching \cup {"watch"}
DependentJobs == UNION {Dependent[c] : c \in Clients}

Pushed(j) == pushed[j] > 0
Saved(j) == status[j] = "deferred" \/ Pushed(j)

\* j is in the set of each of the parents ps that has not finished.
Registered(j, ps) == \A p \in ps : Finished(p) \/ j \in dependents[p]
Waits(j) == \E p \in DependsOn[j] : ~Finished(p)
Left(c) == IF client[c].pc = "register" THEN client[c].left ELSE {}

\* A job in the queue was pushed, and one in a set of dependents was saved.
PushedOK ==
    /\ \A j \in Jobs : status[j] \in {"queued", "finished"} \/ queue[j] > 0 => Pushed(j)
    /\ \A p \in Parents : \A j \in dependents[p] :
          /\ j \in DependentJobs /\ p \in DependsOn[j]
          /\ Saved(j)

\* Where a client is with its dependents.
Shape(c) ==
    LET r == client[c] IN
    /\ r.pc \in Linking => r.todo \subseteq Dependent[c]
    /\ r.job # NoJob => r.pc \in Linking /\ r.job \in Dependent[c]
    /\ r.pc \in Watching => r.job # NoJob
    /\ r.job # NoJob => Left(c) \subseteq DependsOn[r.job]

\* The present one is registered with the parents before Left.
Linked(c) ==
    client[c].pc \in Watching => Registered(client[c].job, DependsOn[client[c].job] \ Left(c))

\* It waits, if it was read so and no WATCH broke.
ReadOK(c) ==
    client[c].pc = "execute" /\ ~client[c].dirty =>
        client[c].met[client[c].job] > 0 \/ Waits(client[c].job)

\* All are saved, and those it is done with are listed as met or wait.
SavedOK(c) ==
    client[c].pc \in Linking \cup {"done"} => \A j \in Dependent[c] : Saved(j)

Settled(j) == Pushed(j) \/ (Registered(j, DependsOn[j]) /\ Waits(j))

SettledOK(c) ==
    /\ client[c].pc \in Linking => \A j \in Dependent[c] \ client[c].todo :
                                      client[c].met[j] > 0 \/ Settled(j)
    /\ client[c].pc = "done" => \A j \in Dependent[c] : Settled(j)

ClientOK(c) == Shape(c) /\ Linked(c) /\ ReadOK(c) /\ SavedOK(c) /\ SettledOK(c)

\* The worker of p has seen each dependent, if no WATCH broke.
ParentOK(p) ==
    /\ parent[p].wake \subseteq DependentJobs
    /\ parent[p].pc = "success" /\ ~parent[p].dirty =>
          \A j \in dependents[p] :
              \/ j \in parent[p].wake
              \/ Pushed(j)
              \/ \E q \in DependsOn[j] \ {p} : ~Finished(q)

\* Only what a job waits for is in the set of its dependencies.
KnownOK == \A j \in Jobs : \A q \in dependencies[j] : q \in DependsOn[j]

Inv ==
    /\ TypeOK /\ PushedOK
    /\ \A c \in Clients : ClientOK(c)
    /\ \A p \in Parents : ParentOK(p)

-----------------------------------------------------------------------------
\* Dependents, plain and unique jobs are jobs, and wait for parents.
LEMMA JobsFacts ==
    /\ DependentJobs \subseteq Jobs /\ NoJob \notin Jobs
    /\ \A j \in DependentJobs : DependsOn[j] \subseteq Parents
    /\ \A c \in Clients : Dependent[c] \subseteq DependentJobs /\ Plain[c] \subseteq Jobs
                          /\ Unique[c] \subseteq Jobs
<1>1. \A c \in Clients : Unique[c] \cup Plain[c] \cup Dependent[c] \subseteq Jobs
    BY DEF Jobs, Batch
<1>2. DependentJobs \subseteq Jobs
    BY <1>1 DEF DependentJobs
<1>3. \A c \in Clients : Dependent[c] \subseteq DependentJobs
    BY DEF DependentJobs
<1>4. ASSUME NEW j \in DependentJobs PROVE DependsOn[j] \subseteq Parents
  <2>1. PICK c \in Clients : j \in Dependent[c]
      BY DEF DependentJobs
  <2>2. DependsOn \in [DependentJobs -> (SUBSET Parents) \ {{}}]
      BY <2>1, BulkAssumption DEF DependentJobs
  <2> QED
      BY <2>2
<1> QED
    BY <1>1, <1>2, <1>3, <1>4, BulkAssumption

\* The invariant at the start.
LEMMA InitInv == Init => Inv
<1> SUFFICES ASSUME Init PROVE Inv
    OBVIOUS
<1>1. TypeOK
  <2>1. Start \in Client
      BY DEF Start, Client
  <2>2. \A c \in Clients : [Start EXCEPT !.todo = Unique[c]] \in Client
      BY <2>1, JobsFacts DEF Client
  <2>3. client \in [Clients -> Client]
      BY <2>2 DEF Init
  <2> QED
      BY <2>3 DEF Init, TypeOK, DataTypeOK, WorkersTypeOK
<1>2. PushedOK
    BY DEF Init, PushedOK
<1>3. ASSUME NEW c \in Clients PROVE ClientOK(c)
  <2>1. client[c].pc = "unique" /\ client[c].job = NoJob
      BY DEF Init, Start
  <2> QED
      BY <2>1 DEF ClientOK, Shape, Linked, ReadOK, SavedOK, SettledOK, Watching, Linking,
                  Left
<1>4. ASSUME NEW p \in Parents PROVE ParentOK(p)
    BY DEF Init, ParentOK
<1> QED
    BY <1>1, <1>2, <1>3, <1>4 DEF Inv

-----------------------------------------------------------------------------
\* Once and Push, seen from one job.
LEMMA OnceType == \A S : Once(S) \in [Jobs -> Nat] /\ \A j \in Jobs : Once(S)[j] > 0 <=> j \in S
BY DEF Once

\* What a push does to the jobs: they are pushed, or saved, or as they were.
LEMMA PushFacts ==
    ASSUME Inv, NEW js \in [Jobs -> Nat], NEW saved, Push(js, saved)
    PROVE  /\ status' \in [Jobs -> {"absent", "deferred", "queued", "finished"}]
           /\ queue' \in [Jobs -> Nat] /\ pushed' \in [Jobs -> Nat]
           /\ \A j \in Jobs :
                 /\ Pushed(j) => Pushed(j)'
                 /\ js[j] > 0 => Pushed(j)'
                 /\ status'[j] \in {"queued", "finished"} \/ queue'[j] > 0 => Pushed(j)'
                 /\ status'[j] \in {status[j], "deferred"} \/ Pushed(j)'
                 /\ j \in saved => status'[j] = "deferred" \/ Pushed(j)'
<1> USE DEF Inv, TypeOK, DataTypeOK, Push, PushedOK, Pushed
<1>1. status' \in [Jobs -> {"absent", "deferred", "queued", "finished"}]
    OBVIOUS
<1>2. queue' \in [Jobs -> Nat]
    OBVIOUS
<1>3. pushed' \in [Jobs -> Nat]
    OBVIOUS
<1>4. ASSUME NEW j \in Jobs
      PROVE  /\ pushed[j] > 0 => pushed'[j] > 0
             /\ js[j] > 0 => pushed'[j] > 0
             /\ status'[j] \in {"queued", "finished"} \/ queue'[j] > 0 => pushed'[j] > 0
             /\ status'[j] \in {status[j], "deferred"} \/ pushed'[j] > 0
             /\ j \in saved => status'[j] = "deferred" \/ pushed'[j] > 0
  <2>1. js[j] \in Nat /\ pushed[j] \in Nat /\ queue[j] \in Nat
      OBVIOUS
  <2>2. /\ status'[j] = IF js[j] > 0 THEN "queued"
                        ELSE IF j \in saved THEN "deferred" ELSE status[j]
        /\ queue'[j] = queue[j] + js[j]
        /\ pushed'[j] = js[j] + IF js[j] > 0 /\ status[j] = "absent" THEN 0 ELSE pushed[j]
      OBVIOUS
  <2>3. CASE js[j] > 0
      BY <2>1, <2>2, <2>3
  <2>4. CASE js[j] = 0
      BY <2>1, <2>2, <2>4
  <2> QED
      BY <2>1, <2>3, <2>4
<1> QED
    BY <1>1, <1>2, <1>3, <1>4

\* What a step may do to the jobs without harm to those who wait: a job is
\* pushed or saved, and no parent ends.
Kept ==
    /\ DataTypeOK'
    /\ \A j \in Jobs :
          /\ Pushed(j) => Pushed(j)'
          /\ Saved(j) => Saved(j)'
          /\ status'[j] \in {"queued", "finished"} \/ queue'[j] > 0 => Pushed(j)'
    /\ \A p \in Parents : Finished(p)' = Finished(p) /\ dependents[p] \subseteq dependents'[p]

\* A push harms nobody who waits.
LEMMA PushKeeps ==
    ASSUME Inv, NEW js \in [Jobs -> Nat], NEW saved, Push(js, saved),
           UNCHANGED dependents, \A p \in Parents : parent'[p].pc = parent[p].pc
    PROVE  Kept
BY PushFacts DEF Kept, DataTypeOK, Finished, Saved

\* Nor does a step without a push that ends no parent.
LEMMA FrameKeeps ==
    ASSUME Inv, UNCHANGED <<status, queue, pushed>>,
           \A p \in Parents : /\ Finished(p)' = Finished(p)
                              /\ dependents[p] \subseteq dependents'[p]
    PROVE  Kept
BY DEF Kept, Inv, TypeOK, DataTypeOK, PushedOK, Pushed, Saved

\* Those who wait stay so, or are pushed.
LEMMA WaitersStay ==
    ASSUME Inv, Kept, NEW j \in DependentJobs
    PROVE  /\ Waits(j)' = Waits(j)
           /\ \A ps \in SUBSET Parents : Registered(j, ps) => Registered(j, ps)'
           /\ Saved(j) => Saved(j)'
           /\ Pushed(j) => Pushed(j)'
           /\ Settled(j) => Settled(j)'
<1>1. j \in Jobs /\ DependsOn[j] \in SUBSET Parents
    BY JobsFacts
<1>2. Waits(j)' = Waits(j)
    BY <1>1 DEF Kept, Waits
<1>3. ASSUME NEW ps \in SUBSET Parents, Registered(j, ps) PROVE Registered(j, ps)'
    BY <1>3 DEF Kept, Registered
<1>4. Saved(j) => Saved(j)'
    BY <1>1 DEF Kept
<1>5. Pushed(j) => Pushed(j)'
    BY <1>1 DEF Kept
<1>6. Settled(j) => Settled(j)'
    BY <1>1, <1>2, <1>3, <1>5 DEF Settled
<1> QED
    BY <1>2, <1>3, <1>4, <1>5, <1>6

\* A client that does not step keeps its place, but for its WATCH.
LEMMA ClientStays ==
    ASSUME Inv, Kept, NEW c \in Clients,
           client'[c] = client[c] \/ client'[c] = [client[c] EXCEPT !.dirty = TRUE]
    PROVE  ClientOK(c)'
<1> DEFINE r == client[c]
           s == client'[c]
<1>1. /\ s.pc = r.pc /\ s.todo = r.todo /\ s.job = r.job /\ s.left = r.left
      /\ s.met = r.met /\ (~s.dirty => ~r.dirty)
    BY DEF Inv, TypeOK, Client
<1>2. Left(c)' = Left(c)
    BY <1>1 DEF Left
<1>3. \A j \in Dependent[c] : j \in DependentJobs /\ DependsOn[j] \in SUBSET Parents
    BY JobsFacts
<1>4. ClientOK(c)
    BY DEF Inv
<1>5. Shape(c)'
    BY <1>1, <1>2, <1>4 DEF ClientOK, Shape
<1>6. r.pc \in Watching => r.job \in Dependent[c]
    BY <1>4 DEF ClientOK, Shape
<1>7. Linked(c)'
    BY <1>1, <1>2, <1>3, <1>4, <1>6 DEF ClientOK, Linked, Registered, Kept
<1>8. ReadOK(c)'
    BY <1>1, <1>3, <1>4, <1>6 DEF ClientOK, ReadOK, Waits, Kept, Watching
<1>9. SavedOK(c)'
    BY <1>1, <1>3, <1>4, WaitersStay DEF ClientOK, SavedOK
<1>10. SettledOK(c)'
    BY <1>1, <1>3, <1>4, WaitersStay DEF ClientOK, SettledOK
<1> QED
    BY <1>5, <1>7, <1>8, <1>9, <1>10 DEF ClientOK

\* So does the worker of a parent.
LEMMA ParentStays ==
    ASSUME Inv, Kept, NEW p \in Parents,
           parent'[p] = parent[p] \/ parent'[p] = [parent[p] EXCEPT !.dirty = TRUE],
           dependents'[p] = dependents[p] \/ parent'[p].dirty
    PROVE  ParentOK(p)'
<1>1. /\ parent'[p].pc = parent[p].pc /\ parent'[p].wake = parent[p].wake
      /\ ~parent'[p].dirty => ~parent[p].dirty /\ dependents'[p] = dependents[p]
    BY DEF Inv, TypeOK, WorkersTypeOK
<1>2. ParentOK(p) /\ dependents[p] \subseteq DependentJobs
    BY DEF Inv, PushedOK
<1>3. \A j \in dependents[p] : j \in DependentJobs /\ DependsOn[j] \in SUBSET Parents
    BY <1>2, JobsFacts
<1> QED
    BY <1>1, <1>2, <1>3, WaitersStay DEF ParentOK, Kept

\* The sets of dependents.
LEMMA PushedStays ==
    ASSUME Inv, Kept,
           \A p \in Parents : \A j \in dependents'[p] :
              j \in dependents[p] \/ (j \in DependentJobs /\ p \in DependsOn[j] /\ Saved(j))
    PROVE  PushedOK'
<1>1. ASSUME NEW p \in Parents, NEW j \in dependents'[p]
      PROVE  j \in DependentJobs /\ p \in DependsOn[j] /\ Saved(j)'
    BY <1>1, WaitersStay DEF Inv, PushedOK
<1> QED
    BY <1>1 DEF Kept, PushedOK

-----------------------------------------------------------------------------
(* The steps of a client.                                                  *)

\* A client has stepped, and nobody else.
LEMMA ClientStep ==
    ASSUME Inv, Kept, NEW c \in Clients, NEW r \in Client, client' = [client EXCEPT ![c] = r],
           UNCHANGED <<parent, dependents, dependencies, partial, cleaner, touches, expiries>>,
           deferred' \subseteq Jobs, group' \subseteq Jobs, listed' \in BOOLEAN,
           ClientOK(c)'
    PROVE  Inv'
<1>1. PushedOK'
    BY PushedStays
<1>2. client' \in [Clients -> Client]
    BY DEF Inv, TypeOK
<1>3. TypeOK'
    BY <1>2 DEF Kept, Inv, TypeOK, WorkersTypeOK
<1>4. ASSUME NEW d \in Clients PROVE ClientOK(d)'
  <2>1. CASE d # c
    <3>1. client'[d] = client[d]
        BY <2>1 DEF Inv, TypeOK
    <3> QED
        BY <3>1, ClientStays
  <2> QED
      BY <2>1
<1>5. ASSUME NEW p \in Parents PROVE ParentOK(p)'
    BY ParentStays
<1> QED
    BY <1>1, <1>3, <1>4, <1>5 DEF Inv

\* Where a client has no dependent at hand, little is to be shown.
LEMMA ClientIdle ==
    ASSUME NEW c \in Clients, client'[c].job = NoJob,
           client'[c].pc \in {"unique", "save", "error"}
    PROVE  ClientOK(c)'
BY DEF ClientOK, Shape, Linked, ReadOK, SavedOK, SettledOK, Linking, Watching

\* The unique jobs, one after the other.
LEMMA EnqueueUniqueStep ==
    ASSUME Inv, NEW c \in Clients, NEW j \in Jobs, EnqueueUnique(c, j)
    PROVE  Inv'
<1>1. client[c] \in Client /\ client[c].pc = "unique"
    BY DEF EnqueueUnique, Inv, TypeOK
<1>2. client[c].job = NoJob
    BY <1>1 DEF Inv, ClientOK, Shape, Linking, Watching
<1>3. PICK r \in Client : /\ client' = [client EXCEPT ![c] = r]
                          /\ r.pc \in {"unique", "error"} /\ r.job = NoJob
  <2>1. CASE status[j] = "absent"
    <3> DEFINE r == [client[c] EXCEPT !.todo = @ \ {j}]
    <3>1. client' = [client EXCEPT ![c] = r]
        BY <2>1 DEF EnqueueUnique
    <3>2. r \in Client /\ r.pc = "unique" /\ r.job = NoJob
        BY <1>1, <1>2 DEF Client
    <3> QED
        BY <3>1, <3>2
  <2>2. CASE status[j] # "absent"
    <3> DEFINE r == [client[c] EXCEPT !.pc = "error"]
    <3>1. client' = [client EXCEPT ![c] = r]
        BY <2>2 DEF EnqueueUnique
    <3>2. r \in Client /\ r.pc = "error" /\ r.job = NoJob
        BY <1>1, <1>2 DEF Client
    <3> QED
        BY <3>1, <3>2
  <2> QED
      BY <2>1, <2>2
<1>4. Kept
  <2>1. CASE Push(Once({j}), {})
      BY <2>1, OnceType, PushKeeps DEF EnqueueUnique
  <2>2. CASE UNCHANGED <<status, queue, pushed>>
      BY <2>2, FrameKeeps DEF EnqueueUnique, Finished
  <2> QED
      BY <2>1, <2>2 DEF EnqueueUnique
<1>5. client'[c] = r
    BY <1>3 DEF Inv, TypeOK
<1>6. ClientOK(c)'
    BY <1>3, <1>5, ClientIdle
<1> QED
    BY <1>3, <1>4, <1>6, ClientStep DEF EnqueueUnique, Inv, TypeOK

\* The plain jobs.
LEMMA EnqueuePlainStep ==
    ASSUME Inv, NEW c \in Clients, EnqueuePlain(c)
    PROVE  Inv'
<1>1. client[c] \in Client /\ client[c].pc = "unique"
    BY DEF EnqueuePlain, Inv, TypeOK
<1>2. client[c].job = NoJob
    BY <1>1 DEF Inv, ClientOK, Shape, Linking, Watching
<1>3. PICK r \in Client : /\ client' = [client EXCEPT ![c] = r]
                          /\ r.pc = "save" /\ r.job = NoJob
  <2>1. CASE c \in Grouped
    <3> DEFINE r == [client[c] EXCEPT !.pc = "save", !.buffer = Plain[c]]
    <3>1. client' = [client EXCEPT ![c] = r]
        BY <2>1 DEF EnqueuePlain
    <3>2. r \in Client /\ r.pc = "save" /\ r.job = NoJob
        BY <1>1, <1>2, JobsFacts DEF Client
    <3> QED
        BY <3>1, <3>2
  <2>2. CASE c \notin Grouped
    <3> DEFINE r == [client[c] EXCEPT !.pc = "save"]
    <3>1. client' = [client EXCEPT ![c] = r]
        BY <2>2 DEF EnqueuePlain
    <3>2. r \in Client /\ r.pc = "save" /\ r.job = NoJob
        BY <1>1, <1>2 DEF Client
    <3> QED
        BY <3>1, <3>2
  <2> QED
      BY <2>1, <2>2
<1>4. Kept
  <2>1. CASE Push(Once(Plain[c]), {})
      BY <2>1, OnceType, PushKeeps DEF EnqueuePlain
  <2>2. CASE UNCHANGED <<status, queue, pushed>>
      BY <2>2, FrameKeeps DEF EnqueuePlain, Finished
  <2> QED
      BY <2>1, <2>2 DEF EnqueuePlain
<1>5. client'[c] = r
    BY <1>3 DEF Inv, TypeOK
<1>6. ClientOK(c)'
    BY <1>3, <1>5, ClientIdle
<1> QED
    BY <1>3, <1>4, <1>6, ClientStep DEF EnqueuePlain, Inv, TypeOK

\* The dependents are saved: without a group, in the hash at once.
LEMMA SaveDeferredStep ==
    ASSUME GroupsAreFlat, Inv, NEW c \in Clients, SaveDeferred(c)
    PROVE  Inv'
<1>1. client[c] \in Client /\ client[c].pc = "save"
    BY DEF SaveDeferred, Inv, TypeOK
<1>2. client[c].job = NoJob
    BY <1>1 DEF Inv, ClientOK, Shape, Linking, Watching
<1>3. PICK r \in Client : /\ client' = [client EXCEPT ![c] = r] /\ r.todo = Dependent[c]
                          /\ r.pc = "watch" /\ r.job = NoJob
  <2> DEFINE n == [client[c] EXCEPT !.pc = "watch", !.todo = Dependent[c]]
             b == [n EXCEPT !.buffer = @ \cup Dependent[c]]
  <2>1. /\ n \in Client /\ n.todo = Dependent[c] /\ n.pc = "watch" /\ n.job = NoJob
        /\ b \in Client /\ b.todo = Dependent[c] /\ b.pc = "watch" /\ b.job = NoJob
      BY <1>1, <1>2, JobsFacts DEF Client
  <2>2. client' = [client EXCEPT ![c] = n] \/ client' = [client EXCEPT ![c] = b]
      BY DEF SaveDeferred
  <2> QED
      BY <2>1, <2>2
<1>4. Kept
  <2>1. CASE Push(Once({}), Dependent[c])
      BY <2>1, OnceType, PushKeeps DEF SaveDeferred
  <2>2. CASE UNCHANGED <<status, queue, pushed>>
      BY <2>2, FrameKeeps DEF SaveDeferred, Finished
  <2> QED
      BY <2>1, <2>2 DEF SaveDeferred
<1>5. client'[c] = r
    BY <1>3 DEF Inv, TypeOK
<1>6. \A j \in Dependent[c] : Saved(j)'
  <2>1. CASE c \notin Grouped
    <3>1. Push(Once({}), Dependent[c])
        BY <2>1 DEF SaveDeferred
    <3>2. \A j \in Dependent[c] : j \in Jobs
        BY JobsFacts
    <3> QED
        BY <3>1, <3>2, OnceType, PushFacts DEF Saved
  <2>2. CASE c \in Grouped
      BY <2>2 DEF GroupsAreFlat
  <2> QED
      BY <2>1, <2>2
<1>7. ClientOK(c)'
    BY <1>3, <1>5, <1>6
       DEF ClientOK, Shape, Linked, ReadOK, SavedOK, SettledOK, Linking, Watching
<1> QED
    BY <1>3, <1>4, <1>7, ClientStep DEF SaveDeferred, Inv, TypeOK

\* The others of its dependents stay as they are.
LEMMA SettledStay ==
    ASSUME Inv, Kept, NEW c \in Clients,
           client[c].pc \in Linking, client'[c].pc \in Linking,
           client'[c].todo = client[c].todo,
           \A j \in Dependent[c] : client[c].met[j] > 0 => client'[c].met[j] > 0
    PROVE  SavedOK(c)' /\ SettledOK(c)'
<1>1. SavedOK(c) /\ SettledOK(c)
    BY DEF Inv, ClientOK
<1>2. \A j \in Dependent[c] : j \in DependentJobs
    BY JobsFacts
<1>3. "done" \notin Linking
    BY DEF Linking, Watching
<1> QED
    BY <1>1, <1>2, <1>3, WaitersStay DEF SavedOK, SettledOK

\* The next dependent: it is registered with no parent yet.
LEMMA WatchParentsStep ==
    ASSUME Inv, NEW c \in Clients, NEW j \in Jobs, WatchParents(c, j)
    PROVE  Inv'
<1> DEFINE r == [client[c] EXCEPT !.pc = "register", !.job = j, !.left = DependsOn[j],
                                  !.dirty = FALSE]
<1>1. client[c] \in Client /\ client[c].pc = "watch" /\ j \in client[c].todo
    BY DEF WatchParents, Inv, TypeOK
<1>2. j \in Dependent[c] /\ client[c].todo \subseteq Dependent[c] /\ j # NoJob
    BY <1>1, BulkAssumption DEF Inv, ClientOK, Shape, Linking
<1>3. DependsOn[j] \subseteq Parents
    BY <1>2, JobsFacts
<1>4. r \in Client /\ client' = [client EXCEPT ![c] = r]
    BY <1>1, <1>3 DEF Client, WatchParents
<1>5. client'[c] = r
    BY <1>4 DEF Inv, TypeOK
<1>6. /\ client'[c].pc = "register" /\ client'[c].job = j
      /\ client'[c].left = DependsOn[j] /\ client'[c].todo = client[c].todo
      /\ client'[c].met = client[c].met
    BY <1>1, <1>5 DEF Client
<1>7. Kept
    BY FrameKeeps DEF WatchParents, Finished
<1>8. Left(c)' = DependsOn[j]
    BY <1>6 DEF Left
<1>9. Shape(c)' /\ Linked(c)' /\ ReadOK(c)'
    BY <1>2, <1>6, <1>8 DEF Shape, Linked, ReadOK, Registered, Watching, Linking
<1>10. SavedOK(c)' /\ SettledOK(c)'
    BY <1>1, <1>6, <1>7, SettledStay DEF Linking, Watching
<1>11. ClientOK(c)'
    BY <1>9, <1>10 DEF ClientOK
<1>12. /\ UNCHANGED <<parent, dependents, dependencies, partial, cleaner, touches, expiries>>
       /\ deferred' = deferred \cup {j} /\ group' = group /\ listed' = listed
    BY DEF WatchParents
<1>13. deferred' \subseteq Jobs /\ group' \subseteq Jobs /\ listed' \in BOOLEAN
    BY <1>12 DEF Inv, TypeOK
<1> QED
  <2> HIDE DEF r
  <2> QED
    BY ONLY Inv, <1>4, <1>7, <1>11, <1>12, <1>13, ClientStep

\* One more parent of it, whose worker has to look again.
LEMMA RegisterDependencyStep ==
    ASSUME Inv, NEW c \in Clients, NEW p \in Parents, RegisterDependency(c, p)
    PROVE  Inv'
<1> DEFINE j == client[c].job
           left == client[c].left \ {p}
           r == [client[c] EXCEPT !.left = left, !.pc = IF left = {} THEN "read" ELSE @]
<1>1. client[c] \in Client /\ client[c].pc = "register" /\ p \in client[c].left
    BY DEF RegisterDependency, Inv, TypeOK
<1>2. /\ j \in Dependent[c] /\ client[c].todo \subseteq Dependent[c] /\ j # NoJob
      /\ client[c].left \subseteq DependsOn[j]
      /\ Registered(j, DependsOn[j] \ client[c].left)
      /\ Saved(j)
    BY <1>1 DEF Inv, ClientOK, Shape, Linked, SavedOK, Linking, Watching, Left
<1>3. j \in DependentJobs /\ j \in Jobs /\ DependsOn[j] \subseteq Parents
    BY <1>2, JobsFacts
<1>4. r \in Client /\ client' = [client EXCEPT ![c] = r]
    BY <1>1 DEF Client, RegisterDependency
<1>5. client'[c] = r /\ \A d \in Clients \ {c} : client'[d] = client[d]
    BY <1>4 DEF Inv, TypeOK
<1>6. /\ client'[c].pc = IF left = {} THEN "read" ELSE "register"
      /\ client'[c].job = j
      /\ client'[c].left = left /\ client'[c].todo = client[c].todo
      /\ client'[c].met = client[c].met
    BY <1>1, <1>5 DEF Client
<1>7. /\ dependents'[p] = dependents[p] \cup {j}
      /\ parent'[p] = [parent[p] EXCEPT !.dirty = @ \/ j \notin dependents[p]]
      /\ \A q \in Parents \ {p} : dependents'[q] = dependents[q] /\ parent'[q] = parent[q]
    BY DEF RegisterDependency, Inv, TypeOK, WorkersTypeOK
<1>8. parent[p] \in [pc : {"running", "success", "finished"}, wake : SUBSET Jobs,
                     dirty : BOOLEAN]
    BY DEF Inv, TypeOK, WorkersTypeOK
<1>9. /\ parent'[p].pc = parent[p].pc
      /\ parent'[p] = parent[p] \/ parent'[p] = [parent[p] EXCEPT !.dirty = TRUE]
      /\ dependents'[p] = dependents[p] \/ parent'[p].dirty
  <2>1. CASE j \in dependents[p]
      BY <1>7, <1>8, <2>1
  <2>2. CASE j \notin dependents[p]
      BY <1>7, <1>8, <2>2
  <2> QED
      BY <2>1, <2>2
<1>10. Kept
    BY <1>7, <1>9, FrameKeeps DEF RegisterDependency, Finished
<1>11. Left(c)' = left
    BY <1>6 DEF Left
<1>12. Shape(c)'
    BY <1>2, <1>6, <1>11 DEF Shape, Watching, Linking
<1>13. Linked(c)'
  <2>1. \A q \in DependsOn[j] \ left : Finished(q)' \/ j \in dependents'[q]
    <3> SUFFICES ASSUME NEW q \in DependsOn[j] \ left
                 PROVE  Finished(q)' \/ j \in dependents'[q]
        OBVIOUS
    <3>1. CASE q = p
      <4>1. j \in dependents'[p]
          BY ONLY <1>7
      <4> QED
          BY ONLY <3>1, <4>1
    <3>2. CASE q # p
      <4>1. q \in DependsOn[j] \ client[c].left /\ q \in Parents
          BY <1>3, <3>2
      <4> QED
          BY <1>2, <1>10, <4>1 DEF Registered, Kept
    <3> QED
        BY <3>1, <3>2
  <2> QED
      BY <1>6, <1>11, <2>1 DEF Linked, Registered
<1>14. ReadOK(c)'
    BY <1>6 DEF ReadOK
<1>15. SavedOK(c)' /\ SettledOK(c)'
    BY <1>1, <1>6, <1>10, SettledStay DEF Linking, Watching
<1>16. \A d \in Clients : ClientOK(d)'
    BY <1>5, <1>10, <1>12, <1>13, <1>14, <1>15, ClientStays DEF ClientOK
<1>17. PushedOK'
  <2>1. p \in DependsOn[j]
      BY <1>1, <1>2
  <2> QED
      BY <1>2, <1>3, <1>7, <1>10, <2>1, PushedStays
<1>18. ASSUME NEW q \in Parents PROVE ParentOK(q)'
    BY <1>7, <1>9, <1>10, ParentStays
<1>19. TypeOK'
  <2>1. client' \in [Clients -> Client]
      BY <1>4 DEF Inv, TypeOK
  <2>2. dependents' \in [Parents -> SUBSET Jobs]
    <3>1. dependents \in [Parents -> SUBSET Jobs]
        BY DEF Inv, TypeOK, WorkersTypeOK
    <3>2. dependents' = [dependents EXCEPT ![p] = dependents[p] \cup {j}]
        BY DEF RegisterDependency
    <3> HIDE DEF j
    <3> QED
        BY ONLY <1>3, <3>1, <3>2
  <2>3. parent' \in [Parents -> [pc : {"running", "success", "finished"},
                                wake : SUBSET Jobs, dirty : BOOLEAN]]
    <3>1. parent \in [Parents -> [pc : {"running", "success", "finished"},
                                  wake : SUBSET Jobs, dirty : BOOLEAN]]
        BY DEF Inv, TypeOK, WorkersTypeOK
    <3>2. PICK x : x = [parent[p] EXCEPT !.dirty = @ \/ j \notin dependents[p]]
        OBVIOUS
    <3>3. parent' = [parent EXCEPT ![p] = x]
        BY <3>2 DEF RegisterDependency
    <3>4. x \in [pc : {"running", "success", "finished"}, wake : SUBSET Jobs,
                 dirty : BOOLEAN]
        BY ONLY <1>8, <3>2
    <3> QED
        BY ONLY <3>1, <3>3, <3>4
  <2> QED
      BY <1>10, <2>1, <2>2, <2>3 DEF Kept, Inv, TypeOK, WorkersTypeOK, RegisterDependency
<1> QED
    BY <1>16, <1>17, <1>18, <1>19 DEF Inv

\* The dependent is listed as met, or one of its parents has not finished.
LEMMA ReadStatusesStep ==
    ASSUME Inv, KnownOK, NEW c \in Clients, ReadStatuses(c)
    PROVE  Inv'
<1> DEFINE j == client[c].job
           n == IF Met(j) THEN client[c].met[j] + 1 ELSE client[c].met[j]
           r == [client[c] EXCEPT !.pc = "execute", !.met[j] = n]
<1>1. client[c] \in Client /\ client[c].pc = "read"
    BY DEF ReadStatuses, Inv, TypeOK
<1>2. /\ j \in Dependent[c] /\ client[c].todo \subseteq Dependent[c] /\ j # NoJob
      /\ Registered(j, DependsOn[j])
    BY <1>1 DEF Inv, ClientOK, Shape, Linked, Linking, Watching, Left
<1>3. j \in DependentJobs /\ j \in Jobs /\ \A k \in Dependent[c] : k \in Jobs
    BY <1>2, JobsFacts
<1>4. n \in Nat /\ client[c].met \in [Jobs -> Nat]
    BY <1>1, <1>3 DEF Client
<1>5. r \in Client
    BY <1>1, <1>3, <1>4 DEF Client
<1>6. client' = [client EXCEPT ![c] = r]
    BY DEF ReadStatuses
<1>7. client'[c] = r
    BY <1>6 DEF Inv, TypeOK
<1>8. /\ client'[c].pc = "execute" /\ client'[c].job = j
      /\ client'[c].todo = client[c].todo
      /\ client'[c].met = [client[c].met EXCEPT ![j] = n]
    BY <1>1, <1>7 DEF Client
<1>9. Kept
    BY FrameKeeps DEF ReadStatuses, Finished
<1>10. Left(c)' = {}
    BY <1>8 DEF Left
<1>11. Shape(c)'
    BY <1>2, <1>8, <1>10 DEF Shape, Watching, Linking
<1>12. Linked(c)'
    BY <1>2, <1>8, <1>10 DEF Linked, Registered, Finished, ReadStatuses
<1>13. ReadOK(c)'
  <2>1. CASE Met(j)
    <3>1. client'[c].met[j] = client[c].met[j] + 1 /\ client[c].met[j] \in Nat
        BY <1>3, <1>4, <1>8, <2>1
    <3> QED
        BY <1>8, <3>1 DEF ReadOK
  <2>2. CASE ~Met(j)
    <3>1. PICK q \in dependencies[j] : ~Finished(q)
        BY <2>2 DEF Met
    <3>2. q \in DependsOn[j] /\ ~Finished(q)'
        BY <1>3, <3>1 DEF KnownOK, Finished, ReadStatuses
    <3> QED
        BY <1>8, <3>2 DEF ReadOK, Waits
  <2> QED
      BY <2>1, <2>2
<1>14. \A k \in Dependent[c] : client[c].met[k] > 0 => client'[c].met[k] > 0
    BY <1>3, <1>4, <1>8
<1>15. SavedOK(c)' /\ SettledOK(c)'
    BY <1>1, <1>8, <1>9, <1>14, SettledStay DEF Linking, Watching
<1>16. ClientOK(c)'
    BY <1>11, <1>12, <1>13, <1>15 DEF ClientOK
<1> QED
    BY <1>5, <1>6, <1>9, <1>16, ClientStep DEF ReadStatuses, Inv, TypeOK

\* What was read still holds, or the dependent is looked at again.
LEMMA ExecuteStep ==
    ASSUME Inv, NEW c \in Clients, Execute(c)
    PROVE  Inv'
<1> DEFINE j == client[c].job
<1>1. client[c] \in Client /\ client[c].pc = "execute"
    BY DEF Execute, Inv, TypeOK
<1>2. /\ j \in Dependent[c] /\ client[c].todo \subseteq Dependent[c] /\ j # NoJob
      /\ Registered(j, DependsOn[j])
      /\ ~client[c].dirty => client[c].met[j] > 0 \/ Waits(j)
    BY <1>1 DEF Inv, ClientOK, Shape, Linked, ReadOK, Linking, Watching, Left
<1>3. \A k \in Dependent[c] : k \in DependentJobs
    BY JobsFacts
<1>4. CASE client[c].dirty
  <2> DEFINE r == [client[c] EXCEPT !.pc = "watch", !.buffer = {}, !.conflict = TRUE]
  <2>1. r \in Client /\ client' = [client EXCEPT ![c] = r]
      BY <1>1, <1>4 DEF Client, Execute
  <2>2. client'[c] = r
      BY <2>1 DEF Inv, TypeOK
  <2>3. /\ client'[c].pc = "watch" /\ client'[c].job = j
        /\ client'[c].todo = client[c].todo /\ client'[c].met = client[c].met
      BY <1>1, <2>2 DEF Client
  <2>4. Kept
      BY <1>4, FrameKeeps DEF Execute, Finished
  <2>5. Shape(c)' /\ Linked(c)' /\ ReadOK(c)'
      BY <1>2, <2>3 DEF Shape, Linked, ReadOK, Linking, Watching, Left
  <2>6. SavedOK(c)' /\ SettledOK(c)'
      BY <1>1, <2>3, <2>4, SettledStay DEF Linking, Watching
  <2>7. ClientOK(c)'
      BY <2>5, <2>6 DEF ClientOK
  <2> QED
      BY <1>4, <2>1, <2>4, <2>7, ClientStep DEF Execute, Inv, TypeOK
<1>5. CASE ~client[c].dirty
  <2> DEFINE r == [client[c] EXCEPT !.pc = "watch", !.buffer = {}, !.todo = @ \ {j},
                                    !.job = NoJob]
  <2>1. r \in Client /\ client' = [client EXCEPT ![c] = r]
      BY <1>1, <1>5 DEF Client, Execute
  <2>2. client'[c] = r
      BY <2>1 DEF Inv, TypeOK
  <2>3. /\ client'[c].pc = "watch" /\ client'[c].job = NoJob
        /\ client'[c].todo = client[c].todo \ {j} /\ client'[c].met = client[c].met
      BY <1>1, <2>2 DEF Client
  <2>4. Kept
    <3>1. Push(Once(client[c].buffer \cap Plain[c]), client[c].buffer \cap Dependent[c])
        BY <1>5 DEF Execute
    <3> QED
        BY <3>1, OnceType, PushKeeps DEF Execute
  <2>5. Shape(c)' /\ Linked(c)' /\ ReadOK(c)'
      BY <1>2, <2>3 DEF Shape, Linked, ReadOK, Linking, Watching
  <2>6. SavedOK(c) /\ SettledOK(c)
      BY DEF Inv, ClientOK
  <2>7. SavedOK(c)'
      BY <1>1, <1>3, <2>3, <2>4, <2>6, WaitersStay DEF SavedOK, Linking, Watching
  <2>8. client[c].met[j] > 0 \/ Settled(j)
      BY <1>2, <1>5 DEF Settled
  <2>9. \A k \in Dependent[c] \ client'[c].todo : client[c].met[k] > 0 \/ Settled(k)
      BY <1>1, <2>3, <2>6, <2>8 DEF SettledOK, Linking, Watching
  <2>10. SettledOK(c)'
      BY <1>3, <2>3, <2>4, <2>9, WaitersStay DEF SettledOK, Linking, Watching
  <2>11. ClientOK(c)'
      BY <2>5, <2>7, <2>10 DEF ClientOK
  <2> QED
      BY <2>1, <2>4, <2>11, ClientStep DEF Execute, Inv, TypeOK
<1> QED
    BY <1>4, <1>5

\* What was listed as met is pushed, and the others wait.
LEMMA EnqueueMetStep ==
    ASSUME Inv, NEW c \in Clients, EnqueueMet(c)
    PROVE  Inv'
<1> DEFINE r == [Start EXCEPT !.pc = "done", !.conflict = client[c].conflict]
           js == [j \in Jobs |-> client[c].met[j] + Once(client[c].buffer \cap Plain[c])[j]]
<1>1. client[c] \in Client /\ client[c].pc = "watch" /\ client[c].todo = {}
    BY DEF EnqueueMet, Inv, TypeOK
<1>2. client[c].met \in [Jobs -> Nat]
    BY <1>1 DEF Client
<1>3. js \in [Jobs -> Nat] /\ \A j \in Jobs : client[c].met[j] > 0 => js[j] > 0
  <2>1. ASSUME NEW j \in Jobs PROVE js[j] \in Nat /\ (client[c].met[j] > 0 => js[j] > 0)
    <3>1. client[c].met[j] \in Nat /\ Once(client[c].buffer \cap Plain[c])[j] \in Nat
        BY <1>2, OnceType
    <3>2. js[j] = client[c].met[j] + Once(client[c].buffer \cap Plain[c])[j]
        OBVIOUS
    <3> HIDE DEF js
    <3> QED
        BY <3>1, <3>2
  <2>2. js = [j \in Jobs |-> js[j]]
      OBVIOUS
  <2> HIDE DEF js
  <2> QED
      BY <2>1, <2>2
<1>4. Push(js, client[c].buffer \cap Dependent[c])
    BY DEF EnqueueMet
<1>5. Kept
    BY <1>3, <1>4, PushKeeps DEF EnqueueMet
<1>6. r \in Client
    BY <1>1 DEF Client, Start
<1>7. client' = [client EXCEPT ![c] = r]
    BY DEF EnqueueMet
<1>8. client'[c].pc = "done" /\ client'[c].job = NoJob
    BY <1>7 DEF Inv, TypeOK, Start
<1>9. SavedOK(c) /\ SettledOK(c)
    BY DEF Inv, ClientOK
<1>10. ASSUME NEW j \in Dependent[c] PROVE Saved(j)' /\ Settled(j)'
  <2>1. j \in Jobs /\ j \in DependentJobs
      BY JobsFacts
  <2>2. Saved(j) /\ (client[c].met[j] > 0 \/ Settled(j))
      BY <1>1, <1>9 DEF SavedOK, SettledOK, Linking
  <2>3. CASE client[c].met[j] > 0
    <3>1. Pushed(j)'
        BY <1>3, <1>4, <2>1, <2>3, PushFacts
    <3> QED
        BY <3>1 DEF Saved, Settled
  <2> QED
      BY <1>5, <2>1, <2>2, <2>3, WaitersStay
<1>11. ClientOK(c)'
    BY <1>8, <1>10 DEF ClientOK, Shape, Linked, ReadOK, SavedOK, SettledOK, Linking, Watching
<1>12. deferred' \subseteq Jobs /\ group' \subseteq Jobs /\ listed' \in BOOLEAN
  <2>1. Batch(c) \subseteq Jobs
      BY DEF Jobs
  <2> QED
      BY <2>1 DEF EnqueueMet, Inv, TypeOK
<1> QED
    BY <1>5, <1>6, <1>7, <1>11, <1>12, ClientStep DEF EnqueueMet

-----------------------------------------------------------------------------
(* The steps of the workers and of the cleanup.                            *)

Parent == [pc : {"running", "success", "finished"}, wake : SUBSET Jobs, dirty : BOOLEAN]

\* A write to ps breaks the WATCH of the clients whose job waits for one of ps.
LEMMA DirtyClientsFacts ==
    ASSUME TypeOK, NEW ps
    PROVE  /\ DirtyClients(ps) \in [Clients -> Client]
           /\ \A c \in Clients :
                 /\ DirtyClients(ps)[c] = client[c]
                       \/ DirtyClients(ps)[c] = [client[c] EXCEPT !.dirty = TRUE]
                 /\ client[c].pc \in Watching /\ client[c].job # NoJob
                       /\ ~DirtyClients(ps)[c].dirty
                    => DependsOn[client[c].job] \cap ps = {}
<1>1. ASSUME NEW c \in Clients
      PROVE  /\ DirtyClients(ps)[c] \in Client
             /\ DirtyClients(ps)[c] = client[c]
                   \/ DirtyClients(ps)[c] = [client[c] EXCEPT !.dirty = TRUE]
             /\ client[c].pc \in Watching /\ client[c].job # NoJob
                   /\ ~DirtyClients(ps)[c].dirty
                => DependsOn[client[c].job] \cap ps = {}
  <2> DEFINE hit == DependsOn[client[c].job] \cap ps # {}
  <2>1. client[c] \in Client
      BY DEF TypeOK
  <2>2. CASE client[c].pc \in Watching /\ client[c].job # NoJob /\ hit
    <3>1. DirtyClients(ps)[c] = [client[c] EXCEPT !.dirty = TRUE]
        BY <2>1, <2>2 DEF DirtyClients, Watching, Client
    <3> QED
        BY <2>1, <3>1 DEF Client
  <2>3. CASE client[c].pc \in Watching /\ client[c].job # NoJob /\ ~hit
    <3>1. DirtyClients(ps)[c] = client[c]
        BY <2>1, <2>3 DEF DirtyClients, Watching, Client
    <3> QED
        BY <2>1, <2>3, <3>1
  <2>4. CASE ~(client[c].pc \in Watching /\ client[c].job # NoJob)
    <3>1. DirtyClients(ps)[c] = client[c]
        BY <2>4 DEF DirtyClients, Watching
    <3> QED
        BY <2>1, <2>4, <3>1
  <2> QED
      BY <2>2, <2>3, <2>4
<1>2. DirtyClients(ps) = [c \in Clients |-> DirtyClients(ps)[c]]
    BY DEF DirtyClients
<1> QED
    BY <1>1, <1>2

\* A write to p breaks the WATCH of the workers that share a dependent with p.
LEMMA DirtyParentsFacts ==
    ASSUME TypeOK, NEW p \in Parents
    PROVE  /\ DirtyParents(p) \in [Parents -> Parent]
           /\ \A q \in Parents :
                 /\ DirtyParents(p)[q] = parent[q]
                       \/ DirtyParents(p)[q] = [parent[q] EXCEPT !.dirty = TRUE]
                 /\ q # p /\ ~DirtyParents(p)[q].dirty =>
                       \A j \in dependents[q] : ~({p, q} \subseteq DependsOn[j])
<1>1. ASSUME NEW q \in Parents
      PROVE  /\ DirtyParents(p)[q] \in Parent
             /\ DirtyParents(p)[q] = parent[q]
                   \/ DirtyParents(p)[q] = [parent[q] EXCEPT !.dirty = TRUE]
             /\ q # p /\ ~DirtyParents(p)[q].dirty =>
                   \A j \in dependents[q] : ~({p, q} \subseteq DependsOn[j])
  <2> DEFINE hit == q # p /\ \E j \in dependents[q] : {p, q} \subseteq DependsOn[j]
  <2>1. parent[q] \in Parent
      BY DEF TypeOK, WorkersTypeOK, Parent
  <2>2. DirtyParents(p)[q] = IF hit THEN [parent[q] EXCEPT !.dirty = TRUE] ELSE parent[q]
      BY DEF DirtyParents
  <2> QED
      BY <2>1, <2>2 DEF Parent
<1>2. DirtyParents(p) = [q \in Parents |-> DirtyParents(p)[q]]
    BY DEF DirtyParents
<1> QED
    BY <1>1, <1>2

\* Nobody steps; a WATCH may break.
LEMMA QuietStep ==
    ASSUME Inv, Kept, TypeOK', UNCHANGED dependents,
           \A c \in Clients : client'[c] = client[c]
                              \/ client'[c] = [client[c] EXCEPT !.dirty = TRUE],
           \A p \in Parents : parent'[p] = parent[p]
                              \/ parent'[p] = [parent[p] EXCEPT !.dirty = TRUE]
    PROVE  Inv'
<1>1. PushedOK'
    BY PushedStays
<1> QED
    BY <1>1, ClientStays, ParentStays DEF Inv

\* A heartbeat of p.
LEMMA TouchStep ==
    ASSUME Inv, NEW p \in Parents, Touch(p)
    PROVE  Inv'
<1>1. TypeOK
    BY DEF Inv
<1>2. client' = DirtyClients({p}) /\ parent' = DirtyParents(p)
    BY DEF Touch
<1>3. ASSUME NEW q \in Parents PROVE parent'[q].pc = parent[q].pc
  <2>1. parent[q] \in Parent
      BY <1>1 DEF TypeOK, WorkersTypeOK, Parent
  <2>2. parent'[q] = parent[q] \/ parent'[q] = [parent[q] EXCEPT !.dirty = TRUE]
      BY <1>1, <1>2, DirtyParentsFacts
  <2> QED
      BY <2>1, <2>2 DEF Parent
<1>4. Kept
    BY <1>3, FrameKeeps DEF Touch, Finished
<1>5. TypeOK'
    BY <1>1, <1>2, DirtyClientsFacts, DirtyParentsFacts
       DEF Touch, TypeOK, DataTypeOK, WorkersTypeOK, Parent
<1> QED
    BY <1>1, <1>2, <1>4, <1>5, DirtyClientsFacts, DirtyParentsFacts, QuietStep DEF Touch

\* A job of a batch is run, or its hash expires.
LEMMA RunStep ==
    ASSUME Inv, NEW j \in Jobs, Run(j) \/ Expire(j)
    PROVE  Inv'
<1>1. TypeOK /\ PushedOK
    BY DEF Inv
<1>2. UNCHANGED <<pushed, deferred, dependents, parent, client, group, listed, cleaner>>
    BY DEF Run, Expire
<1>3. DataTypeOK' /\ touches' \in Nat /\ expiries' \in Nat
  <2>1. CASE Run(j)
      BY <1>1, <2>1 DEF Run, TypeOK, DataTypeOK
  <2>2. CASE Expire(j)
      BY <1>1, <2>2 DEF Expire, TypeOK, DataTypeOK
  <2> QED
      BY <2>1, <2>2
<1>4. ASSUME NEW k \in Jobs
      PROVE  /\ Pushed(k) => Pushed(k)'
             /\ Saved(k) => Saved(k)'
             /\ status'[k] \in {"queued", "finished"} \/ queue'[k] > 0 => Pushed(k)'
  <2>1. /\ Pushed(k)' = Pushed(k)
        /\ status[k] \in {"queued", "finished"} \/ queue[k] > 0 => Pushed(k)
      BY <1>1, <1>2 DEF Pushed, PushedOK
  <2> QED
      BY <1>1, <1>2, <2>1 DEF Run, Expire, Saved, TypeOK, DataTypeOK
<1>5. Kept
    BY <1>2, <1>3, <1>4 DEF Kept, Finished
<1>6. TypeOK'
  <2>1. dependencies' \in [Jobs -> SUBSET Parents] /\ partial' \subseteq Jobs
      BY <1>1 DEF Run, Expire, TypeOK, WorkersTypeOK
  <2> QED
      BY <1>1, <1>2, <1>3, <2>1 DEF TypeOK, WorkersTypeOK
<1> QED
    BY <1>2, <1>5, <1>6, QuietStep

\* The cleanup of groups, or nothing.
LEMMA CleanerStep ==
    ASSUME Inv, CleanerNext \/ UNCHANGED vars
    PROVE  Inv'
<1>1. UNCHANGED <<status, queue, pushed, deferred, dependents, dependencies, partial,
                  parent, client, touches, expiries>>
    BY DEF CleanerNext, CheckMembers, RemoveMembers, CheckGroup, RemoveGroup, vars
<1>2. Kept
    BY <1>1, FrameKeeps DEF Finished
<1>3. TypeOK'
  <2>1. TypeOK
      BY DEF Inv
  <2>2. DataTypeOK' /\ WorkersTypeOK'
      BY <1>1, <2>1 DEF TypeOK, DataTypeOK, WorkersTypeOK
  <2>3. /\ group' \subseteq Jobs /\ listed' \in BOOLEAN
        /\ cleaner' \in [pc : {"idle", "remove", "groups", "unlist"}, gone : SUBSET Jobs]
    <3>1. CASE CheckMembers
        BY <2>1, <3>1 DEF TypeOK, CheckMembers
    <3>2. CASE RemoveMembers
        BY <2>1, <3>2 DEF TypeOK, RemoveMembers
    <3>3. CASE CheckGroup
        BY <2>1, <3>3 DEF TypeOK, CheckGroup
    <3>4. CASE RemoveGroup
        BY <2>1, <3>4 DEF TypeOK, RemoveGroup
    <3>5. CASE UNCHANGED vars
        BY <2>1, <3>5 DEF TypeOK, vars
    <3> QED
        BY <3>1, <3>2, <3>3, <3>4, <3>5 DEF CleanerNext
  <2> QED
      BY <1>1, <2>1, <2>2, <2>3 DEF TypeOK
<1> QED
    BY <1>1, <1>2, <1>3, QuietStep

\* The worker of p takes those in hand that wait for p alone.
LEMMA ReadDependentsStep ==
    ASSUME Inv, KnownOK, NEW p \in Parents, ReadDependents(p)
    PROVE  Inv'
<1> DEFINE wake == {j \in dependents[p] : status[j] # "absent" /\ MetBut(j, p)}
<1>1. TypeOK /\ PushedOK
    BY DEF Inv
<1>2. /\ parent'[p] = [pc |-> "success", dirty |-> FALSE, wake |-> wake]
      /\ \A q \in Parents \ {p} : parent'[q] = parent[q]
      /\ parent[p].pc = "running"
    BY <1>1 DEF ReadDependents, TypeOK, WorkersTypeOK
<1>3. Kept
    BY <1>2, FrameKeeps DEF ReadDependents, Finished
<1>4. wake \subseteq Jobs /\ wake \subseteq DependentJobs
    BY <1>1 DEF PushedOK, TypeOK, WorkersTypeOK
<1>5. TypeOK'
  <2>1. partial' \subseteq Jobs
      BY <1>1, <1>4 DEF ReadDependents, TypeOK, WorkersTypeOK
  <2>2. parent' \in [Parents -> [pc : {"running", "success", "finished"},
                                wake : SUBSET Jobs, dirty : BOOLEAN]]
      BY <1>1, <1>4 DEF ReadDependents, TypeOK, WorkersTypeOK
  <2> QED
      BY <1>1, <2>1, <2>2 DEF ReadDependents, TypeOK, DataTypeOK, WorkersTypeOK
<1>6. ParentOK(p)'
  <2> SUFFICES ASSUME NEW j \in dependents[p], j \notin wake, ~Pushed(j)
               PROVE  \E q \in DependsOn[j] \ {p} : ~Finished(q)
      BY <1>2, <1>4 DEF ParentOK, ReadDependents, Pushed, Finished
  <2>1. j \in Jobs /\ Saved(j)
      BY <1>1 DEF PushedOK, TypeOK, WorkersTypeOK
  <2>2. ~MetBut(j, p)
      BY <2>1 DEF Saved
  <2> QED
      BY <2>1, <2>2 DEF MetBut, KnownOK
<1>7. \A q \in Parents \ {p} : ParentOK(q)'
    BY <1>2, <1>3, ParentStays DEF ReadDependents
<1>8. \A c \in Clients : ClientOK(c)'
    BY <1>3, ClientStays DEF ReadDependents
<1>9. PushedOK'
    BY <1>3, PushedStays DEF ReadDependents
<1> QED
    BY <1>5, <1>6, <1>7, <1>8, <1>9 DEF Inv

\* A WatchError: the worker of p looks once more.
LEMMA RepeatParentStep ==
    ASSUME Inv, NEW p \in Parents, FinishParent(p), parent[p].dirty
    PROVE  Inv'
<1>1. /\ parent' = [parent EXCEPT ![p] = [pc |-> "running", wake |-> {}, dirty |-> FALSE]]
      /\ parent[p].pc = "success"
      /\ UNCHANGED <<status, queue, pushed, deferred, dependents, dependencies, partial,
                     client, group, listed, cleaner, touches, expiries>>
    BY DEF FinishParent
<1>2. TypeOK
    BY DEF Inv
<1>3. /\ parent'[p] = [pc |-> "running", wake |-> {}, dirty |-> FALSE]
      /\ \A q \in Parents \ {p} : parent'[q] = parent[q]
    BY <1>1, <1>2 DEF TypeOK, WorkersTypeOK
<1>4. Kept
    BY <1>1, <1>3, FrameKeeps DEF Finished
<1>5. TypeOK'
    BY <1>1, <1>2 DEF TypeOK, DataTypeOK, WorkersTypeOK
<1>6. ParentOK(p)'
    BY <1>3 DEF ParentOK
<1>7. \A q \in Parents \ {p} : ParentOK(q)'
    BY <1>1, <1>3, <1>4, ParentStays
<1>8. \A c \in Clients : ClientOK(c)'
    BY <1>1, <1>4, ClientStays
<1>9. PushedOK'
    BY <1>1, <1>4, PushedStays
<1> QED
    BY <1>5, <1>6, <1>7, <1>8, <1>9 DEF Inv

\* The transaction: the dependents of p that only waited for p are pushed.
LEMMA EndParentStep ==
    ASSUME Inv, NEW p \in Parents, FinishParent(p), ~parent[p].dirty
    PROVE  Inv'
<1> DEFINE wake == parent[p].wake
<1>1. /\ parent[p].pc = "success"
      /\ parent' = [DirtyParents(p) EXCEPT ![p] =
                       [pc |-> "finished", wake |-> {}, dirty |-> FALSE]]
      /\ Push(Once(wake), {})
      /\ deferred' = deferred \ wake
      /\ dependents' = [dependents EXCEPT ![p] = @ \ wake]
      /\ client' = DirtyClients({p})
      /\ UNCHANGED <<dependencies, partial, group, listed, cleaner, touches, expiries>>
    BY DEF FinishParent
<1>2. TypeOK /\ PushedOK /\ ParentOK(p)
    BY DEF Inv
<1>3. /\ parent'[p] = [pc |-> "finished", wake |-> {}, dirty |-> FALSE]
      /\ \A q \in Parents \ {p} : parent'[q] = DirtyParents(p)[q]
      /\ parent' \in [Parents -> Parent]
    BY <1>1, <1>2, DirtyParentsFacts DEF Parent
<1>4. ASSUME NEW q \in Parents \ {p}
      PROVE  /\ parent'[q].pc = parent[q].pc /\ parent'[q].wake = parent[q].wake
             /\ ~parent'[q].dirty =>
                   /\ ~parent[q].dirty
                   /\ \A j \in dependents[q] : ~({p, q} \subseteq DependsOn[j])
  <2>1. parent[q] \in Parent
      BY <1>2 DEF TypeOK, WorkersTypeOK, Parent
  <2>2. parent'[q] = parent[q] \/ parent'[q] = [parent[q] EXCEPT !.dirty = TRUE]
      BY <1>2, <1>3, DirtyParentsFacts
  <2>3. ~parent'[q].dirty => \A j \in dependents[q] : ~({p, q} \subseteq DependsOn[j])
      BY <1>2, <1>3, DirtyParentsFacts
  <2>4. /\ parent'[q].pc = parent[q].pc /\ parent'[q].wake = parent[q].wake
        /\ ~parent'[q].dirty => ~parent[q].dirty
      BY <2>1, <2>2 DEF Parent
  <2> QED
      BY <2>3, <2>4
<1>5. /\ dependents'[p] = dependents[p] \ wake
      /\ \A q \in Parents \ {p} : dependents'[q] = dependents[q]
    BY <1>1, <1>2 DEF TypeOK, WorkersTypeOK
<1>6. Finished(p)' /\ \A q \in Parents \ {p} : Finished(q)' = Finished(q)
    BY <1>3, <1>4 DEF Finished
<1>7. \A j \in Jobs : /\ Pushed(j) => Pushed(j)'
                      /\ Saved(j) => Saved(j)'
                      /\ status'[j] \in {"queued", "finished"} \/ queue'[j] > 0 => Pushed(j)'
                      /\ j \in wake => Pushed(j)'
    BY <1>1, OnceType, PushFacts DEF Saved
<1>8. wake \subseteq DependentJobs /\ DependentJobs \subseteq Jobs
      /\ \A j \in DependentJobs : DependsOn[j] \subseteq Parents
    BY <1>2, JobsFacts DEF ParentOK
<1>9. TypeOK'
  <2>1. DataTypeOK'
      BY <1>1, OnceType, PushFacts DEF DataTypeOK
  <2>2. WorkersTypeOK'
      BY <1>1, <1>2, <1>3 DEF TypeOK, WorkersTypeOK, Parent
  <2>3. client' \in [Clients -> Client]
      BY <1>1, <1>2, DirtyClientsFacts
  <2> QED
      BY <1>1, <1>2, <2>1, <2>2, <2>3 DEF TypeOK
<1>10. PushedOK'
  <2>1. ASSUME NEW q \in Parents, NEW j \in dependents'[q]
        PROVE  j \in DependentJobs /\ q \in DependsOn[j] /\ Saved(j)'
      BY <1>2, <1>5, <1>7, <1>8, <2>1 DEF PushedOK
  <2> QED
      BY <1>7, <2>1 DEF PushedOK
<1>11. ParentOK(p)'
    BY <1>3 DEF ParentOK
<1>12. ASSUME NEW q \in Parents \ {p} PROVE ParentOK(q)'
  <2>1. ParentOK(q) /\ parent'[q].wake \subseteq DependentJobs
      BY <1>4 DEF Inv, ParentOK
  <2>2. ASSUME parent'[q].pc = "success", ~parent'[q].dirty, NEW j \in dependents'[q]
        PROVE  j \in parent'[q].wake \/ Pushed(j)' \/ \E s \in DependsOn[j] \ {q} : ~Finished(s)'
    <3>1. j \in dependents[q] /\ j \in Jobs /\ q \in DependsOn[j]
          /\ DependsOn[j] \subseteq Parents
        BY <1>2, <1>5, <1>8, <2>2 DEF PushedOK
    <3>2. p \notin DependsOn[j]
        BY <1>4, <2>2, <3>1
    <3>3. j \in parent[q].wake \/ Pushed(j) \/ \E s \in DependsOn[j] \ {q} : ~Finished(s)
        BY <1>4, <2>1, <2>2, <3>1 DEF ParentOK
    <3> QED
        BY <1>4, <1>6, <1>7, <3>1, <3>2, <3>3
  <2> QED
      BY <2>1, <2>2 DEF ParentOK
<1>13. ASSUME NEW j \in DependentJobs, Settled(j) PROVE Settled(j)'
  <2>1. j \in Jobs /\ DependsOn[j] \subseteq Parents
      BY <1>8
  <2>2. CASE Pushed(j)
      BY <1>7, <2>1, <2>2 DEF Settled
  <2>3. CASE Registered(j, DependsOn[j]) /\ Waits(j)
    <3>1. CASE j \in wake
        BY <1>7, <2>1, <3>1 DEF Settled
    <3>2. CASE \E q \in DependsOn[j] \ {p} : ~Finished(q)
        BY <1>5, <1>6, <2>1, <2>3, <3>2 DEF Settled, Registered, Waits
    <3>3. CASE \A q \in DependsOn[j] \ {p} : Finished(q)
      <4>1. j \in dependents[p]
          BY <2>3, <3>3 DEF Registered, Waits
      <4>2. j \in wake \/ Pushed(j)
          BY <1>1, <1>2, <3>3, <4>1 DEF ParentOK
      <4> QED
          BY <2>2, <3>1, <4>2
    <3> QED
        BY <3>1, <3>2, <3>3
  <2> QED
      BY <1>13, <2>2, <2>3 DEF Settled
<1>14. ASSUME NEW c \in Clients PROVE ClientOK(c)'
  <2> DEFINE r == client[c]
             s == client'[c]
  <2>1. ClientOK(c) /\ r \in Client
      BY DEF Inv, TypeOK
  <2>2. s = r \/ s = [r EXCEPT !.dirty = TRUE]
      BY <1>1, <1>2, DirtyClientsFacts
  <2>3. /\ s.pc = r.pc /\ s.todo = r.todo /\ s.job = r.job /\ s.left = r.left
        /\ s.met = r.met /\ (~s.dirty => ~r.dirty)
      BY <2>1, <2>2 DEF Client
  <2>4. Left(c)' = Left(c)
      BY <2>3 DEF Left
  <2>5. \A j \in Dependent[c] : j \in DependentJobs /\ j \in Jobs /\ DependsOn[j] \subseteq Parents
      BY <1>8, JobsFacts
  <2>6. r.pc \in Watching => r.job \in Dependent[c] /\ r.job # NoJob
      BY <2>1 DEF ClientOK, Shape
  <2>7. Shape(c)'
      BY <2>1, <2>3, <2>4 DEF ClientOK, Shape
  <2>8. Linked(c)'
      BY <1>5, <1>6, <2>1, <2>3, <2>4, <2>5, <2>6 DEF ClientOK, Linked, Registered
  <2>9. ReadOK(c)'
    <3> SUFFICES ASSUME r.pc = "execute", ~s.dirty
                 PROVE  r.met[r.job] > 0 \/ \E q \in DependsOn[r.job] : ~Finished(q)'
        BY <2>3 DEF ReadOK, Waits
    <3>1. p \notin DependsOn[r.job]
        BY <1>1, <1>2, <2>6, DirtyClientsFacts DEF Watching
    <3>2. r.met[r.job] > 0 \/ \E q \in DependsOn[r.job] : ~Finished(q)
        BY <2>1, <2>3 DEF ClientOK, ReadOK, Waits
    <3> QED
        BY <1>6, <2>5, <2>6, <3>1, <3>2 DEF Watching
  <2>10. SavedOK(c)'
      BY <1>7, <2>1, <2>3, <2>5 DEF ClientOK, SavedOK
  <2>11. SettledOK(c)'
      BY <1>13, <2>1, <2>3, <2>5 DEF ClientOK, SettledOK
  <2> QED
      BY <2>7, <2>8, <2>9, <2>10, <2>11 DEF ClientOK
<1> QED
    BY <1>9, <1>10, <1>11, <1>12, <1>14 DEF Inv

-----------------------------------------------------------------------------
\* register_dependency adds a dependency of the job at hand; nobody else adds one.
LEMMA KnownNext ==
    ASSUME Inv, KnownOK, [Next]_vars
    PROVE  KnownOK'
<1>0. dependencies \in [Jobs -> SUBSET Parents]
    BY DEF Inv, TypeOK, WorkersTypeOK
<1>1. ASSUME NEW c \in Clients, NEW p \in Parents, RegisterDependency(c, p) PROVE KnownOK'
  <2>1. /\ client[c].pc = "register" /\ p \in client[c].left
        /\ dependencies' = [dependencies EXCEPT ![client[c].job] = @ \cup {p}]
      BY <1>1 DEF RegisterDependency
  <2>2. p \in DependsOn[client[c].job]
      BY <2>1 DEF Inv, ClientOK, Shape, Left, Watching
  <2> QED
      BY <1>0, <2>1, <2>2 DEF KnownOK
<1>2. ASSUME NEW c \in Clients, ClientNext(c), ~\E p \in Parents : RegisterDependency(c, p)
      PROVE  dependencies' = dependencies
    BY <1>2 DEF ClientNext, EnqueueUnique, EnqueuePlain, SaveDeferred, WatchParents,
                ReadStatuses, Execute, EnqueueMet
<1>3. ASSUME NEW p \in Parents, WorkerNext(p) \/ Touch(p) PROVE dependencies' = dependencies
    BY <1>3 DEF WorkerNext, ReadDependents, FinishParent, Touch
<1>4. ASSUME NEW j \in Jobs, Run(j) PROVE dependencies' = dependencies
    BY <1>4 DEF Run
<1>5. ASSUME NEW j \in Jobs, Expire(j) PROVE KnownOK'
    BY <1>0, <1>5 DEF Expire, KnownOK
<1>6. CASE CleanerNext \/ UNCHANGED vars
    BY <1>6 DEF CleanerNext, CheckMembers, RemoveMembers, CheckGroup, RemoveGroup, vars,
                KnownOK
<1>7. dependencies' = dependencies => KnownOK'
    BY DEF KnownOK
<1> QED
    BY <1>1, <1>2, <1>3, <1>4, <1>5, <1>6, <1>7 DEF Next

\* Every step keeps the invariant.
LEMMA NextInv ==
    ASSUME GroupsAreFlat, Inv, KnownOK, [Next]_vars
    PROVE  Inv'
<1>1. ASSUME NEW c \in Clients, ClientNext(c) PROVE Inv'
    BY <1>1, EnqueueUniqueStep, WatchParentsStep, RegisterDependencyStep, EnqueuePlainStep,
       SaveDeferredStep, ReadStatusesStep, ExecuteStep, EnqueueMetStep DEF ClientNext
<1>2. ASSUME NEW p \in Parents, WorkerNext(p) \/ Touch(p) PROVE Inv'
    BY <1>2, ReadDependentsStep, RepeatParentStep, EndParentStep, TouchStep DEF WorkerNext
<1>3. ASSUME NEW j \in Jobs, Run(j) \/ Expire(j) PROVE Inv'
    BY <1>3, RunStep
<1>4. CASE CleanerNext \/ UNCHANGED vars
    BY <1>4, CleanerStep
<1> QED
    BY <1>1, <1>2, <1>3, <1>4 DEF Next

\* Who is settled and not pushed is registered with a parent that goes on.
LEMMA InvIsReachable == Inv => BatchIsReachable
<1> SUFFICES ASSUME Inv, NEW c \in Clients, client[c].pc = "done", NEW j \in Dependent[c],
                    status[j] \in {"absent", "deferred"}, pushed[j] = 0
             PROVE  \E p \in DependsOn[j] : /\ ~Finished(p) /\ j \in dependents[p]
                                            /\ status[j] = "deferred"
    BY DEF BatchIsReachable
<1>1. Saved(j) /\ Settled(j)
    BY DEF Inv, ClientOK, SavedOK, SettledOK
<1> QED
    BY <1>1 DEF Saved, Settled, Registered, Waits, Pushed

\* enqueue_many against handle_job_success, for any batches and parents: a job
\* that enqueue_many has left deferred is registered with a parent that has
\* not finished, whatever the WATCH errors, heartbeats and shared parents.
THEOREM BatchStaysReachable ==
    ASSUME GroupsAreFlat
    PROVE  Spec => []BatchIsReachable
<1>1. Init => Inv /\ KnownOK
    BY InitInv DEF Init, KnownOK
<1>2. Inv /\ KnownOK /\ [Next]_vars => (Inv /\ KnownOK)'
    BY NextInv, KnownNext
<1>3. Inv /\ KnownOK => BatchIsReachable
    BY InvIsReachable
<1> QED
    BY <1>1, <1>2, <1>3, PTL DEF Spec

-----------------------------------------------------------------------------
(* For any batches and groups: the records of the clients and the workers. *)

\* What is about to be enqueued waits for p alone, if p's worker has seen all
\* that it waits for.
WakeOK(p) ==
    \A j \in parent[p].wake : /\ j \in DependentJobs /\ p \in DependsOn[j]
                              /\ parent[p].pc = "success"
                              /\ j \in partial \/ \A q \in DependsOn[j] \ {p} : Finished(q)

\* The unique jobs come first, and only dependents are ever listed as met.
BatchOK(c) ==
    /\ client[c].pc = "unique" => client[c].todo \subseteq Unique[c]
    /\ \A j \in Jobs \ Dependent[c] : client[c].met[j] = 0

LinksOK == \A p \in Parents : \A j \in dependents[p] : j \in DependentJobs /\ p \in DependsOn[j]

Base ==
    /\ TypeOK /\ LinksOK
    /\ \A p \in Parents : WakeOK(p)
    /\ \A c \in Clients : Shape(c) /\ BatchOK(c)

\* Only c has stepped.
Steps(c) ==
    /\ client' \in [Clients -> Client]
    /\ \A d \in Clients \ {c} : client'[d] = client[d]

Data == <<status, queue, pushed>>

\* What c becomes, and that no other client moves.
LEMMA StepsTo ==
    ASSUME TypeOK, NEW c \in Clients, NEW r \in Client, client' = [client EXCEPT ![c] = r]
    PROVE  Steps(c) /\ client'[c] = r
<1>1. client \in [Clients -> Client]
    BY DEF TypeOK
<1> QED
    BY <1>1 DEF Steps

\* Push keeps the types.
LEMMA PushTypes ==
    ASSUME TypeOK, NEW js \in [Jobs -> Nat], NEW saved, Push(js, saved)
    PROVE  DataTypeOK'
<1> USE DEF TypeOK, DataTypeOK, Push
<1>1. status' \in [Jobs -> {"absent", "deferred", "queued", "finished"}]
    OBVIOUS
<1>2. queue' \in [Jobs -> Nat] /\ pushed' \in [Jobs -> Nat]
    OBVIOUS
<1> QED
    BY <1>1, <1>2

\* What a push does to one job.
LEMMA PushOne ==
    ASSUME TypeOK, NEW js \in [Jobs -> Nat], NEW saved, Push(js, saved), NEW j \in Jobs
    PROVE  /\ js[j] \in Nat /\ pushed[j] \in Nat /\ queue[j] \in Nat
           /\ status'[j] = IF js[j] > 0 THEN "queued"
                           ELSE IF j \in saved THEN "deferred" ELSE status[j]
           /\ queue'[j] = queue[j] + js[j]
           /\ js[j] = 0 => pushed'[j] = pushed[j] /\ queue'[j] = queue[j]
           /\ js[j] > 0 => pushed'[j] > 0 /\ pushed'[j] <= pushed[j] + js[j]
<1>1. js[j] \in Nat /\ pushed[j] \in Nat /\ queue[j] \in Nat
    BY DEF TypeOK, DataTypeOK
<1>2. /\ status'[j] = IF js[j] > 0 THEN "queued"
                      ELSE IF j \in saved THEN "deferred" ELSE status[j]
      /\ queue'[j] = queue[j] + js[j]
      /\ pushed'[j] = js[j] + IF js[j] > 0 /\ status[j] = "absent" THEN 0 ELSE pushed[j]
    BY DEF Push
<1>3. CASE js[j] > 0
    BY <1>1, <1>2, <1>3
<1>4. CASE js[j] = 0
    BY <1>1, <1>2, <1>4
<1> QED
    BY <1>1, <1>3, <1>4

\* enqueue_many comes to its unique jobs.
LEMMA EnqueueUniqueMoves ==
    ASSUME Base, NEW c \in Clients, NEW j \in Jobs, EnqueueUnique(c, j)
    PROVE  /\ Steps(c) /\ client[c].pc = "unique" /\ j \in Unique[c]
           /\ client'[c].pc \in {"unique", "error"} /\ client'[c].todo \subseteq client[c].todo
           /\ client'[c].job = NoJob /\ client'[c].met = client[c].met
           /\ client'[c].conflict = client[c].conflict
           /\ (status[j] = "absent" /\ Push(Once({j}), {})) \/ UNCHANGED Data
<1>1. /\ client[c] \in Client /\ client[c].pc = "unique" /\ j \in Unique[c]
      /\ client[c].job = NoJob /\ TypeOK
    BY DEF EnqueueUnique, Base, TypeOK, Shape, BatchOK, Linking, Watching
<1> DEFINE a == [client[c] EXCEPT !.todo = @ \ {j}]
           b == [client[c] EXCEPT !.pc = "error"]
<1>2. /\ a \in Client /\ a.pc = "unique" /\ a.todo \subseteq client[c].todo
      /\ a.job = NoJob /\ a.met = client[c].met /\ a.conflict = client[c].conflict
      /\ b \in Client /\ b.pc = "error" /\ b.todo = client[c].todo
      /\ b.job = NoJob /\ b.met = client[c].met /\ b.conflict = client[c].conflict
    BY <1>1 DEF Client
<1>3. \/ client' = [client EXCEPT ![c] = a] /\ status[j] = "absent" /\ Push(Once({j}), {})
      \/ client' = [client EXCEPT ![c] = b] /\ UNCHANGED Data
    BY DEF EnqueueUnique, Data
<1> HIDE DEF a, b
<1> QED
    BY <1>1, <1>2, <1>3, StepsTo

\* To its plain jobs.
LEMMA EnqueuePlainMoves ==
    ASSUME Base, NEW c \in Clients, EnqueuePlain(c)
    PROVE  /\ Steps(c) /\ client[c].pc = "unique" /\ client'[c].pc = "save"
           /\ client'[c].job = NoJob /\ client'[c].met = client[c].met
           /\ client'[c].conflict = client[c].conflict
           /\ Push(Once(Plain[c]), {}) \/ UNCHANGED Data
<1>1. /\ client[c] \in Client /\ client[c].pc = "unique" /\ client[c].job = NoJob /\ TypeOK
    BY DEF EnqueuePlain, Base, TypeOK, Shape, Linking, Watching
<1> DEFINE a == [client[c] EXCEPT !.pc = "save", !.buffer = Plain[c]]
           b == [client[c] EXCEPT !.pc = "save"]
<1>2. /\ a \in Client /\ a.pc = "save" /\ a.job = NoJob /\ a.met = client[c].met
      /\ a.conflict = client[c].conflict
      /\ b \in Client /\ b.pc = "save" /\ b.job = NoJob /\ b.met = client[c].met
      /\ b.conflict = client[c].conflict
    BY <1>1, JobsFacts DEF Client
<1>3. \/ client' = [client EXCEPT ![c] = a] /\ UNCHANGED Data
      \/ client' = [client EXCEPT ![c] = b] /\ Push(Once(Plain[c]), {})
    BY DEF EnqueuePlain, Data
<1> HIDE DEF a, b
<1> QED
    BY <1>1, <1>2, <1>3, StepsTo

\* To the dependent ones, which it saves.
LEMMA SaveDeferredMoves ==
    ASSUME Base, NEW c \in Clients, SaveDeferred(c)
    PROVE  /\ Steps(c) /\ client[c].pc = "save" /\ client'[c].pc = "watch"
           /\ client'[c].todo = Dependent[c]
           /\ client'[c].job = NoJob /\ client'[c].met = client[c].met
           /\ client'[c].conflict = client[c].conflict
           /\ Push(Once({}), Dependent[c]) \/ UNCHANGED Data
<1>1. /\ client[c] \in Client /\ client[c].pc = "save" /\ client[c].job = NoJob /\ TypeOK
    BY DEF SaveDeferred, Base, TypeOK, Shape, Linking, Watching
<1> DEFINE b == [client[c] EXCEPT !.pc = "watch", !.todo = Dependent[c]]
           a == [b EXCEPT !.buffer = @ \cup Dependent[c]]
<1>2. /\ b \in Client /\ b.pc = "watch" /\ b.todo = Dependent[c] /\ b.job = NoJob
      /\ b.met = client[c].met /\ b.conflict = client[c].conflict
      /\ a \in Client /\ a.pc = "watch" /\ a.todo = Dependent[c] /\ a.job = NoJob
      /\ a.met = client[c].met /\ a.conflict = client[c].conflict
    BY <1>1, JobsFacts DEF Client
<1>3. \/ client' = [client EXCEPT ![c] = a] /\ UNCHANGED Data
      \/ client' = [client EXCEPT ![c] = b] /\ Push(Once({}), Dependent[c])
    BY DEF SaveDeferred, Data
<1> HIDE DEF a, b
<1> QED
    BY <1>1, <1>2, <1>3, StepsTo

\* To the next dependent.
LEMMA WatchParentsMoves ==
    ASSUME Base, NEW c \in Clients, NEW j \in Jobs, WatchParents(c, j)
    PROVE  /\ Steps(c) /\ client[c].pc = "watch" /\ j \in client[c].todo /\ j \in Dependent[c]
           /\ client'[c].pc = "register" /\ client'[c].job = j
           /\ client'[c].left = DependsOn[j] /\ ~client'[c].dirty
           /\ client'[c].todo = client[c].todo /\ client'[c].met = client[c].met
           /\ client'[c].conflict = client[c].conflict
           /\ client[c].job \in {NoJob, j}
<1>1. /\ client[c] \in Client /\ client[c].pc = "watch" /\ j \in client[c].todo /\ TypeOK
      /\ j \in Dependent[c] /\ client[c].job \in {NoJob, j}
    BY DEF WatchParents, Base, TypeOK, Shape, Linking
<1>2. DependsOn[j] \subseteq Parents
    BY <1>1, JobsFacts
<1> DEFINE r == [client[c] EXCEPT !.pc = "register", !.job = j, !.left = DependsOn[j],
                                  !.dirty = FALSE]
<1>3. /\ r \in Client /\ r.pc = "register" /\ r.job = j /\ r.left = DependsOn[j]
      /\ ~r.dirty /\ r.todo = client[c].todo /\ r.met = client[c].met
      /\ r.conflict = client[c].conflict
    BY <1>1, <1>2 DEF Client
<1>4. client' = [client EXCEPT ![c] = r]
    BY DEF WatchParents
<1> HIDE DEF r
<1> QED
    BY <1>1, <1>3, <1>4, StepsTo

\* To the next parent of it.
LEMMA RegisterDependencyMoves ==
    ASSUME Base, NEW c \in Clients, NEW p \in Parents, RegisterDependency(c, p)
    PROVE  /\ Steps(c) /\ client[c].pc = "register" /\ client'[c].pc \in {"register", "read"}
           /\ client[c].job \in Dependent[c] /\ p \in DependsOn[client[c].job]
           /\ client'[c].job = client[c].job /\ client'[c].left \subseteq client[c].left
           /\ client'[c].todo = client[c].todo /\ client'[c].met = client[c].met
           /\ client'[c].dirty = client[c].dirty /\ client'[c].conflict = client[c].conflict
           /\ dependents' \in [Parents -> SUBSET Jobs]
           /\ dependents'[p] = dependents[p] \cup {client[c].job}
           /\ \A q \in Parents \ {p} : dependents'[q] = dependents[q]
           /\ parent' \in [Parents -> Parent]
           /\ \A q \in Parents : parent'[q].pc = parent[q].pc /\ parent'[q].wake = parent[q].wake
<1>1. /\ client[c] \in Client /\ client[c].pc = "register" /\ p \in client[c].left /\ TypeOK
      /\ client[c].job \in Dependent[c] /\ client[c].left \subseteq DependsOn[client[c].job]
    BY DEF RegisterDependency, Base, TypeOK, Shape, Linking, Watching, Left
<1> DEFINE left == client[c].left \ {p}
           r == [client[c] EXCEPT !.left = left, !.pc = IF left = {} THEN "read" ELSE @]
           j == client[c].job
<1>2. /\ r \in Client /\ r.pc \in {"register", "read"} /\ r.job = j
      /\ r.left \subseteq client[c].left /\ r.todo = client[c].todo /\ r.met = client[c].met
      /\ r.dirty = client[c].dirty /\ r.conflict = client[c].conflict
    BY <1>1 DEF Client
<1>3. client' = [client EXCEPT ![c] = r]
    BY DEF RegisterDependency
<1>4. j \in Jobs
    BY <1>1, JobsFacts
<1>5. dependents \in [Parents -> SUBSET Jobs] /\ parent \in [Parents -> Parent]
    BY <1>1 DEF TypeOK, WorkersTypeOK, Parent
<1>6. /\ dependents' = [dependents EXCEPT ![p] = dependents[p] \cup {j}]
      /\ parent' = [parent EXCEPT ![p] =
                       [parent[p] EXCEPT !.dirty = @ \/ j \notin dependents[p]]]
    BY DEF RegisterDependency
<1> HIDE DEF r, j, left
<1>7. /\ dependents' \in [Parents -> SUBSET Jobs]
      /\ dependents'[p] = dependents[p] \cup {j}
      /\ \A q \in Parents \ {p} : dependents'[q] = dependents[q]
    BY <1>4, <1>5, <1>6
<1>8. PICK b \in BOOLEAN : parent' = [parent EXCEPT ![p] = [parent[p] EXCEPT !.dirty = b]]
  <2>1. parent[p] \in Parent /\ parent[p].dirty \in BOOLEAN
      BY <1>5 DEF Parent
  <2>2. (parent[p].dirty \/ j \notin dependents[p]) \in BOOLEAN
      OBVIOUS
  <2> QED
      BY <1>6, <2>2
<1>9. /\ parent' \in [Parents -> Parent]
      /\ \A q \in Parents : parent'[q].pc = parent[q].pc /\ parent'[q].wake = parent[q].wake
    BY <1>5, <1>8 DEF Parent
<1> QED
    BY <1>1, <1>2, <1>3, <1>7, <1>9, StepsTo DEF j

\* To the statuses of the parents.
LEMMA ReadStatusesMoves ==
    ASSUME Base, NEW c \in Clients, ReadStatuses(c)
    PROVE  /\ Steps(c) /\ client[c].pc = "read" /\ client'[c].pc = "execute"
           /\ client[c].job \in Dependent[c] /\ client[c].job \in Jobs
           /\ client'[c].job = client[c].job /\ client'[c].todo = client[c].todo
           /\ client'[c].left = client[c].left
           /\ client'[c].dirty = client[c].dirty /\ client'[c].conflict = client[c].conflict
           /\ client[c].met \in [Jobs -> Nat]
           /\ client'[c].met = [client[c].met EXCEPT
                  ![client[c].job] = IF Met(client[c].job) THEN @ + 1 ELSE @]
<1> DEFINE j == client[c].job
           n == IF Met(j) THEN client[c].met[j] + 1 ELSE client[c].met[j]
           r == [client[c] EXCEPT !.pc = "execute", !.met[j] = n]
<1>1. client[c] \in Client /\ client[c].pc = "read" /\ j \in Dependent[c] /\ TypeOK
    BY DEF ReadStatuses, Base, TypeOK, Shape, Watching
<1>2. j \in Jobs /\ client[c].met \in [Jobs -> Nat]
    BY <1>1, JobsFacts DEF Client
<1>3. n \in Nat
    BY <1>2
<1>4. client' = [client EXCEPT ![c] = r]
    BY DEF ReadStatuses
<1> DEFINE m == [client[c].met EXCEPT ![j] = n]
<1>5. m \in [Jobs -> Nat] /\ r = [client[c] EXCEPT !.pc = "execute", !.met = m]
    BY <1>2, <1>3
<1>6. m = [client[c].met EXCEPT ![j] = IF Met(j) THEN @ + 1 ELSE @]
    BY <1>2
<1> HIDE DEF n, r, m, j
<1>7. /\ r \in Client /\ r.pc = "execute" /\ r.job = client[c].job
      /\ r.todo = client[c].todo /\ r.left = client[c].left
      /\ r.dirty = client[c].dirty /\ r.conflict = client[c].conflict /\ r.met = m
    BY <1>1, <1>5 DEF Client
<1> QED
    BY <1>1, <1>2, <1>4, <1>6, <1>7, StepsTo DEF j

\* To execute(), which may fail.
LEMMA ExecuteMoves ==
    ASSUME Base, NEW c \in Clients, Execute(c)
    PROVE  /\ Steps(c) /\ client[c].pc = "execute" /\ client'[c].pc = "watch"
           /\ client[c].job \in Dependent[c] /\ client'[c].met = client[c].met
           /\ client'[c].left = client[c].left
           /\ IF client[c].dirty
              THEN /\ client'[c].conflict /\ client'[c].job = client[c].job
                   /\ client'[c].todo = client[c].todo /\ UNCHANGED Data
              ELSE /\ client'[c].conflict = client[c].conflict /\ client'[c].job = NoJob
                   /\ client'[c].todo = client[c].todo \ {client[c].job}
                   /\ Push(Once(client[c].buffer \cap Plain[c]),
                           client[c].buffer \cap Dependent[c])
<1> DEFINE a == [client[c] EXCEPT !.pc = "watch", !.buffer = {}, !.conflict = TRUE]
           b == [client[c] EXCEPT !.pc = "watch", !.buffer = {},
                                  !.todo = @ \ {client[c].job}, !.job = NoJob]
<1>1. client[c] \in Client /\ client[c].pc = "execute" /\ client[c].job \in Dependent[c] /\ TypeOK
    BY DEF Execute, Base, TypeOK, Shape, Watching
<1>2. /\ a \in Client /\ a.pc = "watch" /\ a.met = client[c].met /\ a.left = client[c].left
      /\ a.conflict /\ a.job = client[c].job /\ a.todo = client[c].todo
      /\ b \in Client /\ b.pc = "watch" /\ b.met = client[c].met /\ b.left = client[c].left
      /\ b.conflict = client[c].conflict /\ b.job = NoJob
      /\ b.todo = client[c].todo \ {client[c].job}
    BY <1>1 DEF Client
<1>3. IF client[c].dirty
      THEN client' = [client EXCEPT ![c] = a] /\ UNCHANGED Data
      ELSE /\ client' = [client EXCEPT ![c] = b]
           /\ Push(Once(client[c].buffer \cap Plain[c]), client[c].buffer \cap Dependent[c])
    BY DEF Execute, Data
<1> HIDE DEF a, b
<1> QED
    BY <1>1, <1>2, <1>3, StepsTo

\* How often EnqueueMet pushes each job.
MetPushes(c) == [j \in Jobs |-> client[c].met[j] + Once(client[c].buffer \cap Plain[c])[j]]

\* A job that is not plain is pushed as often as it is listed as met.
LEMMA MetPushesType ==
    ASSUME Base, NEW c \in Clients
    PROVE  /\ MetPushes(c) \in [Jobs -> Nat]
           /\ \A j \in Jobs : /\ client[c].met[j] \in Nat
                              /\ j \notin Plain[c] => MetPushes(c)[j] = client[c].met[j]
<1>1. client[c].met \in [Jobs -> Nat]
    BY DEF Base, TypeOK, Client
<1>2. ASSUME NEW j \in Jobs
      PROVE  /\ MetPushes(c)[j] \in Nat /\ client[c].met[j] \in Nat
             /\ j \notin Plain[c] => MetPushes(c)[j] = client[c].met[j]
  <2>1. MetPushes(c)[j] = client[c].met[j] + Once(client[c].buffer \cap Plain[c])[j]
      BY DEF MetPushes
  <2>2. Once(client[c].buffer \cap Plain[c])[j] \in {0, 1}
        /\ (j \notin Plain[c] => Once(client[c].buffer \cap Plain[c])[j] = 0)
      BY DEF Once
  <2>3. client[c].met[j] \in Nat
      BY <1>1
  <2> QED
      BY <2>1, <2>2, <2>3
<1>3. MetPushes(c) = [j \in Jobs |-> MetPushes(c)[j]]
    BY DEF MetPushes
<1> QED
    BY <1>2, <1>3

\* To the end.
LEMMA EnqueueMetMoves ==
    ASSUME Base, NEW c \in Clients, EnqueueMet(c)
    PROVE  /\ Steps(c) /\ client[c].pc = "watch" /\ client[c].todo = {}
           /\ client'[c].pc = "done" /\ client'[c].job = NoJob
           /\ client'[c].met = [j \in Jobs |-> 0]
           /\ client'[c].conflict = client[c].conflict
           /\ Push(MetPushes(c), client[c].buffer \cap Dependent[c])
<1> DEFINE r == [Start EXCEPT !.pc = "done", !.conflict = client[c].conflict]
<1>1. client[c] \in Client /\ client[c].pc = "watch" /\ client[c].todo = {} /\ TypeOK
    BY DEF EnqueueMet, Base, TypeOK
<1>2. /\ r \in Client /\ r.pc = "done" /\ r.job = NoJob /\ r.met = [j \in Jobs |-> 0]
      /\ r.conflict = client[c].conflict
    BY <1>1 DEF Client, Start
<1>3. client' = [client EXCEPT ![c] = r]
    BY DEF EnqueueMet
<1>4. Push(MetPushes(c), client[c].buffer \cap Dependent[c])
    BY DEF EnqueueMet, MetPushes
<1> HIDE DEF r
<1> QED
    BY <1>1, <1>2, <1>3, <1>4, StepsTo

-----------------------------------------------------------------------------
\* Whatever a client does, its record stays in order.
LEMMA ClientRecord ==
    ASSUME Base, NEW c \in Clients, ClientNext(c)
    PROVE  Steps(c) /\ Shape(c)' /\ BatchOK(c)'
<1>1. Shape(c) /\ BatchOK(c) /\ TypeOK /\ client[c] \in Client
    BY DEF Base, TypeOK
<1>2. ASSUME NEW j \in Jobs, EnqueueUnique(c, j) PROVE Steps(c) /\ Shape(c)' /\ BatchOK(c)'
    BY <1>1, <1>2, EnqueueUniqueMoves DEF Shape, BatchOK, Linking, Watching
<1>3. CASE EnqueuePlain(c)
    BY <1>1, <1>3, EnqueuePlainMoves DEF Shape, BatchOK, Linking, Watching
<1>4. CASE SaveDeferred(c)
    BY <1>1, <1>4, SaveDeferredMoves DEF Shape, BatchOK, Linking, Watching
<1>5. ASSUME NEW j \in Jobs, WatchParents(c, j) PROVE Steps(c) /\ Shape(c)' /\ BatchOK(c)'
    BY <1>1, <1>5, WatchParentsMoves, JobsFacts DEF Shape, BatchOK, Linking, Watching, Left
<1>6. ASSUME NEW p \in Parents, RegisterDependency(c, p)
      PROVE  Steps(c) /\ Shape(c)' /\ BatchOK(c)'
    BY <1>1, <1>6, RegisterDependencyMoves DEF Shape, BatchOK, Linking, Watching, Left
<1>7. CASE ReadStatuses(c)
  <2>1. \A j \in Jobs \ Dependent[c] : client'[c].met[j] = client[c].met[j]
      BY <1>7, ReadStatusesMoves
  <2>2. /\ client[c].pc = "read" /\ client'[c].pc = "execute"
        /\ client'[c].job = client[c].job /\ client'[c].todo = client[c].todo
      BY <1>7, ReadStatusesMoves
  <2>3. Steps(c)
      BY <1>7, ReadStatusesMoves
  <2>4. Shape(c)'
      BY <1>1, <2>2 DEF Shape, Linking, Watching, Left
  <2>5. BatchOK(c)'
      BY <1>1, <2>1, <2>2 DEF BatchOK
  <2> QED
      BY <2>3, <2>4, <2>5
<1>8. CASE Execute(c)
    BY <1>1, <1>8, ExecuteMoves DEF Shape, BatchOK, Linking, Watching, Left
<1>9. CASE EnqueueMet(c)
    BY <1>1, <1>9, EnqueueMetMoves DEF Shape, BatchOK, Linking, Watching
<1> QED
    BY <1>2, <1>3, <1>4, <1>5, <1>6, <1>7, <1>8, <1>9 DEF ClientNext

\* What a client does to the parents and to the sets of their dependents.
LEMMA ClientLinks ==
    ASSUME Base, NEW c \in Clients, ClientNext(c)
    PROVE  /\ parent' \in [Parents -> Parent] /\ dependents' \in [Parents -> SUBSET Jobs]
           /\ \A q \in Parents :
                 /\ parent'[q].pc = parent[q].pc /\ parent'[q].wake = parent[q].wake
                 /\ \A j \in dependents'[q] :
                       \/ j \in dependents[q]
                       \/ /\ client[c].pc = "register" /\ j = client[c].job
                          /\ j \in Dependent[c] /\ q \in DependsOn[j]
<1>1. CASE \E p \in Parents : RegisterDependency(c, p)
  <2>1. PICK p \in Parents : RegisterDependency(c, p)
      BY <1>1
  <2> QED
      BY <2>1, RegisterDependencyMoves
<1>2. CASE ~\E p \in Parents : RegisterDependency(c, p)
  <2>1. UNCHANGED <<parent, dependents>>
      BY <1>2 DEF ClientNext, EnqueueUnique, EnqueuePlain, SaveDeferred, WatchParents,
                  ReadStatuses, Execute, EnqueueMet
  <2> QED
      BY <2>1 DEF Base, TypeOK, WorkersTypeOK, Parent
<1> QED
    BY <1>1, <1>2

\* A push of none, and what a push that leaves j out does to it.
LEMMA PushNone ==
    ASSUME Base, NEW S, NEW saved, Push(Once(S), saved), NEW j \in Jobs, j \notin S
    PROVE  /\ queue'[j] = queue[j] /\ pushed'[j] = pushed[j]
           /\ status'[j] = IF j \in saved THEN "deferred" ELSE status[j]
<1>1. Once(S) \in [Jobs -> Nat] /\ Once(S)[j] = 0
    BY DEF Once
<1> QED
    BY <1>1, PushOne DEF Base

\* The three ways in which a client touches a job that is no plain one of its.
LEMMA ClientPushes ==
    ASSUME Base, NEW c \in Clients, ClientNext(c), NEW j \in Jobs, j \notin Plain[c]
    PROVE  \/ /\ queue'[j] = queue[j] /\ pushed'[j] = pushed[j]
              /\ status'[j] = status[j] \/ (j \in Dependent[c] /\ status'[j] = "deferred")
           \/ /\ j \in Unique[c] /\ status[j] = "absent" /\ status'[j] = "queued"
              /\ client[c].pc = "unique"
              /\ queue'[j] = queue[j] + 1 /\ pushed'[j] = 1
           \/ /\ j \in Dependent[c] /\ EnqueueMet(c) /\ client[c].met[j] > 0
              /\ status'[j] = "queued" /\ queue'[j] = queue[j] + client[c].met[j]
              /\ pushed'[j] > 0 /\ pushed'[j] <= pushed[j] + client[c].met[j]
<1> DEFINE Same == /\ queue'[j] = queue[j] /\ pushed'[j] = pushed[j]
                   /\ status'[j] = status[j] \/ (j \in Dependent[c] /\ status'[j] = "deferred")
           New == /\ j \in Unique[c] /\ status[j] = "absent" /\ status'[j] = "queued"
                  /\ client[c].pc = "unique"
                  /\ queue'[j] = queue[j] + 1 /\ pushed'[j] = 1
           Met1 == /\ j \in Dependent[c] /\ EnqueueMet(c) /\ client[c].met[j] > 0
                   /\ status'[j] = "queued" /\ queue'[j] = queue[j] + client[c].met[j]
                   /\ pushed'[j] > 0 /\ pushed'[j] <= pushed[j] + client[c].met[j]
<1>1. UNCHANGED Data => Same
    BY DEF Data
<1>2. ASSUME NEW k \in Jobs, EnqueueUnique(c, k) PROVE Same \/ New
  <2>1. k \in Unique[c] /\ client[c].pc = "unique"
        /\ ((status[k] = "absent" /\ Push(Once({k}), {})) \/ UNCHANGED Data)
      BY <1>2, EnqueueUniqueMoves
  <2>2. CASE UNCHANGED Data
      BY <1>1, <2>2
  <2>3. CASE status[k] = "absent" /\ Push(Once({k}), {}) /\ k = j
    <3>1. Once({j})[j] = 1 /\ pushed[j] \in Nat
        BY DEF Once, Base, TypeOK, DataTypeOK
    <3> QED
        BY <2>1, <2>3, <3>1 DEF Push
  <2>4. CASE Push(Once({k}), {}) /\ k # j
    <3>1. j \notin {k}
        BY <2>4
    <3> QED
        BY <2>4, <3>1, PushNone
  <2> QED
      BY <2>1, <2>2, <2>3, <2>4
<1>3. ASSUME EnqueuePlain(c) PROVE Same \/ New \/ Met1
    BY <1>1, <1>3, EnqueuePlainMoves, PushNone
<1>4. ASSUME SaveDeferred(c) PROVE Same \/ New \/ Met1
  <2>1. CASE Push(Once({}), Dependent[c])
      BY <2>1, PushNone
  <2> QED
      BY <1>1, <1>4, <2>1, SaveDeferredMoves
<1>5. ASSUME \/ \E k \in Jobs : WatchParents(c, k)
             \/ \E p \in Parents : RegisterDependency(c, p)
             \/ ReadStatuses(c)
      PROVE  Same
    BY <1>1, <1>5 DEF WatchParents, RegisterDependency, ReadStatuses, Data
<1>6. ASSUME Execute(c) PROVE Same \/ New \/ Met1
  <2>1. CASE Push(Once(client[c].buffer \cap Plain[c]), client[c].buffer \cap Dependent[c])
      BY <2>1, PushNone
  <2> QED
      BY <1>1, <1>6, <2>1, ExecuteMoves
<1>7. ASSUME EnqueueMet(c) PROVE Same \/ New \/ Met1
  <2> DEFINE js == MetPushes(c)
             saved == client[c].buffer \cap Dependent[c]
  <2>1. js \in [Jobs -> Nat] /\ js[j] = client[c].met[j] /\ client[c].met[j] \in Nat
      BY MetPushesType
  <2>2. Push(js, saved)
      BY <1>7, EnqueueMetMoves
  <2>3. j \notin Dependent[c] => client[c].met[j] = 0
      BY DEF Base, BatchOK
  <2>4. j \in saved => j \in Dependent[c]
      OBVIOUS
  <2> HIDE DEF js, saved
  <2>5. CASE js[j] = 0
    <3>1. Same
        BY <2>1, <2>2, <2>4, <2>5, PushOne DEF Base
    <3> QED
        BY <3>1
  <2>6. CASE js[j] > 0
    <3>1. Met1
        BY <1>7, <2>1, <2>2, <2>3, <2>6, PushOne DEF Base
    <3> QED
        BY <3>1
  <2> QED
      BY <2>1, <2>5, <2>6
<1> HIDE DEF Same, New, Met1
<1>8. Same \/ New \/ Met1
    BY <1>2, <1>3, <1>4, <1>5, <1>6, <1>7 DEF ClientNext
<1> QED
    BY <1>8 DEF Same, New, Met1

\* A client keeps the types of the data.
LEMMA ClientTypes ==
    ASSUME Base, NEW c \in Clients, ClientNext(c)
    PROVE  DataTypeOK'
<1>1. TypeOK /\ DataTypeOK
    BY DEF Base, TypeOK
<1>2. ASSUME NEW S, NEW saved, Push(Once(S), saved) PROVE DataTypeOK'
    BY <1>1, <1>2, OnceType, PushTypes
<1>3. UNCHANGED Data => DataTypeOK'
    BY <1>1 DEF Data, DataTypeOK
<1>4. ASSUME EnqueueMet(c) PROVE DataTypeOK'
    BY <1>1, <1>4, EnqueueMetMoves, MetPushesType, PushTypes
<1>5. CASE (\E k \in Jobs : WatchParents(c, k)) \/ (\E p \in Parents : RegisterDependency(c, p))
           \/ ReadStatuses(c)
    BY <1>3, <1>5 DEF WatchParents, RegisterDependency, ReadStatuses, Data
<1>6. CASE \E k \in Jobs : EnqueueUnique(c, k)
    BY <1>2, <1>3, <1>6, EnqueueUniqueMoves
<1>7. CASE EnqueuePlain(c)
    BY <1>2, <1>3, <1>7, EnqueuePlainMoves
<1>8. CASE SaveDeferred(c)
    BY <1>2, <1>3, <1>8, SaveDeferredMoves
<1>9. CASE Execute(c)
    BY <1>2, <1>3, <1>9, ExecuteMoves
<1> QED
    BY <1>4, <1>5, <1>6, <1>7, <1>8, <1>9 DEF ClientNext

\* The client does not step, but its WATCH may break.
Nudged(c) == client'[c] = client[c] \/ client'[c] = [client[c] EXCEPT !.dirty = TRUE]

\* The record of such a client is what it was.
LEMMA NudgedRecord ==
    ASSUME Base, NEW c \in Clients, Nudged(c)
    PROVE  /\ client'[c].pc = client[c].pc /\ client'[c].todo = client[c].todo
           /\ client'[c].job = client[c].job /\ client'[c].left = client[c].left
           /\ client'[c].met = client[c].met /\ client'[c].conflict = client[c].conflict
           /\ client[c].dirty => client'[c].dirty
           /\ Shape(c)' /\ BatchOK(c)'
<1>1. client[c] \in Client /\ Shape(c) /\ BatchOK(c)
    BY DEF Base, TypeOK
<1>2. /\ client'[c].pc = client[c].pc /\ client'[c].todo = client[c].todo
      /\ client'[c].job = client[c].job /\ client'[c].left = client[c].left
      /\ client'[c].met = client[c].met /\ client'[c].conflict = client[c].conflict
      /\ client[c].dirty => client'[c].dirty
    BY <1>1 DEF Nudged, Client
<1> QED
    BY <1>1, <1>2 DEF Shape, BatchOK, Left

\* The worker of p looks at its dependents.
LEMMA ReadDependentsMoves ==
    ASSUME Base, NEW p \in Parents, ReadDependents(p)
    PROVE  /\ UNCHANGED <<status, queue, pushed, dependents, client>>
           /\ parent' \in [Parents -> Parent]
           /\ parent[p].pc = "running" /\ parent'[p].pc = "success"
           /\ \A j \in parent'[p].wake :
                 /\ j \in dependents[p] /\ status[j] # "absent"
                 /\ j \in partial' \/ \A q \in DependsOn[j] \ {p} : Finished(q)
           /\ \A q \in Parents \ {p} : parent'[q] = parent[q]
           /\ partial \subseteq partial' /\ partial' \subseteq Jobs
<1> DEFINE wake == {j \in dependents[p] : status[j] # "absent" /\ MetBut(j, p)}
           r == [pc |-> "success", dirty |-> FALSE, wake |-> wake]
<1>1. parent \in [Parents -> Parent] /\ dependents[p] \subseteq Jobs
    BY DEF Base, TypeOK, WorkersTypeOK, Parent
<1>2. wake \in SUBSET Jobs
    BY <1>1
<1>3. r \in Parent /\ r.pc = "success" /\ r.wake = wake
  <2> HIDE DEF wake
  <2> QED
      BY <1>2 DEF Parent
<1>4. parent' = [parent EXCEPT ![p] = r]
    BY DEF ReadDependents
<1>5. \A j \in wake : /\ j \in dependents[p] /\ status[j] # "absent"
                      /\ j \in partial' \/ \A q \in DependsOn[j] \ {p} : Finished(q)
    BY DEF ReadDependents, MetBut
<1>a. partial \subseteq partial' /\ partial' \subseteq Jobs
    BY <1>2 DEF ReadDependents, Base, TypeOK, WorkersTypeOK
<1> HIDE DEF r, wake
<1>6. parent'[p] = r /\ parent' \in [Parents -> Parent]
      /\ \A q \in Parents \ {p} : parent'[q] = parent[q]
    BY <1>1, <1>3, <1>4
<1> QED
    BY <1>3, <1>5, <1>6, <1>a DEF ReadDependents

\* It has to look once more.
LEMMA RepeatParentMoves ==
    ASSUME Base, NEW p \in Parents, FinishParent(p), parent[p].dirty
    PROVE  /\ UNCHANGED <<status, queue, pushed, dependents, client>>
           /\ parent' \in [Parents -> Parent]
           /\ parent[p].pc = "success" /\ parent'[p].pc = "running" /\ parent'[p].wake = {}
           /\ \A q \in Parents \ {p} : parent'[q] = parent[q]
<1> DEFINE r == [pc |-> "running", wake |-> {}, dirty |-> FALSE]
<1>1. parent \in [Parents -> Parent]
    BY DEF Base, TypeOK, WorkersTypeOK, Parent
<1>2. r \in Parent /\ r.pc = "running" /\ r.wake = {}
    BY DEF Parent
<1>3. parent' = [parent EXCEPT ![p] = r]
    BY DEF FinishParent
<1> HIDE DEF r
<1> QED
    BY <1>1, <1>2, <1>3 DEF FinishParent

\* It ends, and enqueues those that only waited for p.
LEMMA EndParentMoves ==
    ASSUME Base, NEW p \in Parents, FinishParent(p), ~parent[p].dirty
    PROVE  /\ Push(Once(parent[p].wake), {})
           /\ parent' \in [Parents -> Parent]
           /\ parent[p].pc = "success" /\ parent'[p].pc = "finished" /\ parent'[p].wake = {}
           /\ \A q \in Parents \ {p} : /\ parent'[q].pc = parent[q].pc
                                       /\ parent'[q].wake = parent[q].wake
           /\ dependents' \in [Parents -> SUBSET Jobs]
           /\ \A q \in Parents : dependents'[q] \subseteq dependents[q]
           /\ client' \in [Clients -> Client]
           /\ \A c \in Clients :
                 /\ Nudged(c)
                 /\ client[c].pc \in Watching /\ client[c].job # NoJob
                       /\ p \in DependsOn[client[c].job] => client'[c].dirty
<1> DEFINE r == [pc |-> "finished", wake |-> {}, dirty |-> FALSE]
<1>1. TypeOK /\ parent \in [Parents -> Parent] /\ dependents \in [Parents -> SUBSET Jobs]
    BY DEF Base, TypeOK, WorkersTypeOK, Parent
<1>2. r \in Parent /\ r.pc = "finished" /\ r.wake = {}
    BY DEF Parent
<1>3. /\ Push(Once(parent[p].wake), {}) /\ parent[p].pc = "success"
      /\ parent' = [DirtyParents(p) EXCEPT ![p] = r]
      /\ dependents' = [dependents EXCEPT ![p] = @ \ parent[p].wake]
      /\ client' = DirtyClients({p})
    BY DEF FinishParent
<1> HIDE DEF r
<1>4. /\ parent' \in [Parents -> Parent] /\ parent'[p] = r
      /\ \A q \in Parents \ {p} : parent'[q] = parent[q]
                                  \/ parent'[q] = [parent[q] EXCEPT !.dirty = TRUE]
    BY <1>1, <1>2, <1>3, DirtyParentsFacts
<1>5. \A q \in Parents \ {p} : /\ parent'[q].pc = parent[q].pc
                               /\ parent'[q].wake = parent[q].wake
    BY <1>1, <1>4 DEF Parent
<1>6. /\ dependents' \in [Parents -> SUBSET Jobs]
      /\ \A q \in Parents : dependents'[q] \subseteq dependents[q]
    BY <1>1, <1>3
<1>7. client' \in [Clients -> Client] /\ \A c \in Clients : Nudged(c)
    BY <1>1, <1>3, DirtyClientsFacts DEF Nudged
<1>8. ASSUME NEW c \in Clients, client[c].pc \in Watching, client[c].job # NoJob,
             p \in DependsOn[client[c].job]
      PROVE  client'[c].dirty
    BY <1>1, <1>3, <1>8, DirtyClientsFacts
<1> QED
    BY <1>2, <1>3, <1>4, <1>5, <1>6, <1>7, <1>8

\* It writes the hash of p.
LEMMA TouchMoves ==
    ASSUME Base, NEW p \in Parents, Touch(p)
    PROVE  /\ UNCHANGED <<status, queue, pushed, dependents>>
           /\ parent' \in [Parents -> Parent]
           /\ \A q \in Parents : parent'[q].pc = parent[q].pc /\ parent'[q].wake = parent[q].wake
           /\ client' \in [Clients -> Client]
           /\ \A c \in Clients : Nudged(c)
<1>1. TypeOK /\ parent \in [Parents -> Parent]
    BY DEF Base, TypeOK, WorkersTypeOK, Parent
<1>2. client' = DirtyClients({p}) /\ parent' = DirtyParents(p)
    BY DEF Touch
<1>3. /\ parent' \in [Parents -> Parent]
      /\ \A q \in Parents : parent'[q] = parent[q]
                            \/ parent'[q] = [parent[q] EXCEPT !.dirty = TRUE]
    BY <1>1, <1>2, DirtyParentsFacts
<1>4. \A q \in Parents : parent'[q].pc = parent[q].pc /\ parent'[q].wake = parent[q].wake
    BY <1>1, <1>3 DEF Parent
<1>5. client' \in [Clients -> Client] /\ \A c \in Clients : Nudged(c)
    BY <1>1, <1>2, DirtyClientsFacts DEF Nudged
<1> QED
    BY <1>3, <1>4, <1>5 DEF Touch

\* A job of a batch is run, or its hash expires.
LEMMA RunMoves ==
    ASSUME Base, NEW k \in Jobs, Run(k) \/ Expire(k)
    PROVE  /\ UNCHANGED <<pushed, dependents, parent, client, group, cleaner>>
           /\ DataTypeOK'
           /\ \A j \in Jobs :
                 \/ status'[j] = status[j] /\ queue'[j] = queue[j]
                 \/ /\ queue[j] > 0 /\ queue'[j] = queue[j] - 1
                    /\ status'[j] = IF status[j] = "absent" THEN "absent" ELSE "finished"
                 \/ /\ status[j] = "finished" /\ status'[j] = "absent"
                    /\ queue'[j] = queue[j]
<1>1. DataTypeOK
    BY DEF Base, TypeOK
<1>2. CASE Run(k)
  <2>1. /\ queue' = [queue EXCEPT ![k] = queue[k] - 1] /\ queue[k] > 0
        /\ status' = [status EXCEPT ![k] = IF @ = "absent" THEN @ ELSE "finished"]
        /\ UNCHANGED <<pushed, dependents, parent, client, group, cleaner>>
      BY <1>2 DEF Run
  <2>2. queue[k] - 1 \in Nat
      BY <1>1, <2>1 DEF DataTypeOK
  <2>3. DataTypeOK'
      BY <1>1, <2>1, <2>2 DEF DataTypeOK
  <2>4. ASSUME NEW j \in Jobs
        PROVE  \/ status'[j] = status[j] /\ queue'[j] = queue[j]
               \/ /\ queue[j] > 0 /\ queue'[j] = queue[j] - 1
                  /\ status'[j] = IF status[j] = "absent" THEN "absent" ELSE "finished"
    <3>1. CASE j = k
        BY <1>1, <2>1, <3>1 DEF DataTypeOK
    <3>2. CASE j # k
        BY <1>1, <2>1, <3>2 DEF DataTypeOK
    <3> QED
        BY <3>1, <3>2
  <2> QED
      BY <2>1, <2>3, <2>4
<1>3. CASE Expire(k)
    BY <1>1, <1>3 DEF Expire, DataTypeOK
<1> QED
    BY <1>2, <1>3

\* The cleanup leaves all but the groups alone.
LEMMA CleanerMoves ==
    ASSUME CleanerNext \/ UNCHANGED vars
    PROVE  UNCHANGED <<status, queue, pushed, deferred, dependents, parent, client, touches,
                       expiries>>
BY DEF CleanerNext, CheckMembers, RemoveMembers, CheckGroup, RemoveGroup, vars

\* The records at the start.
LEMMA BaseInit == Init => Base
<1> SUFFICES ASSUME Init PROVE Base
    OBVIOUS
<1>1. TypeOK
    BY InitInv DEF Inv
<1>2. LinksOK /\ \A p \in Parents : WakeOK(p)
    BY DEF Init, LinksOK, WakeOK
<1>3. ASSUME NEW c \in Clients PROVE Shape(c) /\ BatchOK(c)
  <2>1. /\ client[c].pc = "unique" /\ client[c].job = NoJob /\ client[c].todo = Unique[c]
        /\ \A j \in Jobs : client[c].met[j] = 0
      BY DEF Init, Start
  <2> QED
      BY <2>1 DEF Shape, BatchOK, Watching, Linking
<1> QED
    BY <1>1, <1>2, <1>3 DEF Base

\* A job that a worker has read in part stays so marked, and the sets of
\* dependencies are sets of parents.
LEMMA PartialGrows ==
    ASSUME Base, [Next]_vars
    PROVE  /\ partial \subseteq partial' /\ partial' \subseteq Jobs
           /\ dependencies' \in [Jobs -> SUBSET Parents]
           /\ \A j \in Jobs : dependencies[j] \subseteq dependencies'[j] \/ status[j] = "finished"
<1> DEFINE Grows == \A j \in Jobs : \/ dependencies[j] \subseteq dependencies'[j]
                                    \/ status[j] = "finished"
<1>1. partial \subseteq Jobs /\ dependencies \in [Jobs -> SUBSET Parents]
    BY DEF Base, TypeOK, WorkersTypeOK
<1>2. ASSUME NEW c \in Clients, NEW p \in Parents, RegisterDependency(c, p)
      PROVE  partial' = partial /\ dependencies' \in [Jobs -> SUBSET Parents] /\ Grows
    BY <1>1, <1>2 DEF RegisterDependency
<1>3. ASSUME NEW c \in Clients, ClientNext(c), ~\E p \in Parents : RegisterDependency(c, p)
      PROVE  UNCHANGED <<partial, dependencies>>
    BY <1>3 DEF ClientNext, EnqueueUnique, EnqueuePlain, SaveDeferred, WatchParents,
                ReadStatuses, Execute, EnqueueMet
<1>4. ASSUME NEW p \in Parents, ReadDependents(p)
      PROVE  partial \subseteq partial' /\ partial' \subseteq Jobs /\ dependencies' = dependencies
    BY <1>4, ReadDependentsMoves DEF ReadDependents
<1>5. ASSUME NEW p \in Parents, FinishParent(p) \/ Touch(p)
      PROVE  UNCHANGED <<partial, dependencies>>
    BY <1>5 DEF FinishParent, Touch
<1>6. ASSUME NEW j \in Jobs, Run(j) \/ Expire(j)
      PROVE  partial' = partial /\ dependencies' \in [Jobs -> SUBSET Parents] /\ Grows
    BY <1>1, <1>6 DEF Run, Expire
<1>7. CASE CleanerNext \/ UNCHANGED vars
    BY <1>1, <1>7 DEF CleanerNext, CheckMembers, RemoveMembers, CheckGroup, RemoveGroup, vars
<1> QED
    BY <1>1, <1>2, <1>3, <1>4, <1>5, <1>6, <1>7 DEF Next, WorkerNext

\* Types that the steps of clients, workers and of the cleanup share.
LEMMA RestTypes ==
    ASSUME Base, [Next]_vars, DataTypeOK', client' \in [Clients -> Client],
           parent' \in [Parents -> Parent], dependents' \in [Parents -> SUBSET Jobs]
    PROVE  TypeOK'
<1> DEFINE Rest == /\ deferred' \subseteq Jobs /\ group' \subseteq Jobs /\ listed' \in BOOLEAN
                   /\ cleaner' \in [pc : {"idle", "remove", "groups", "unlist"},
                                    gone : SUBSET Jobs]
                   /\ touches' \in Nat /\ expiries' \in Nat
<1>1. /\ deferred \subseteq Jobs /\ group \subseteq Jobs /\ listed \in BOOLEAN
      /\ cleaner \in [pc : {"idle", "remove", "groups", "unlist"}, gone : SUBSET Jobs]
      /\ touches \in Nat /\ expiries \in Nat
    BY DEF Base, TypeOK
<1>2. ASSUME NEW c \in Clients, ClientNext(c) PROVE Rest
  <2>1. UNCHANGED <<cleaner, touches, expiries>>
      BY <1>2 DEF ClientNext, EnqueueUnique, EnqueuePlain, SaveDeferred, WatchParents,
                  RegisterDependency, ReadStatuses, Execute, EnqueueMet
  <2>2. CASE EnqueueMet(c)
    <3>1. Batch(c) \subseteq Jobs
        BY DEF Jobs
    <3> QED
        BY <1>1, <2>1, <2>2, <3>1 DEF EnqueueMet
  <2>3. CASE ~EnqueueMet(c)
    <3>1. UNCHANGED <<group, listed>>
        BY <1>2, <2>3 DEF ClientNext, EnqueueUnique, EnqueuePlain, SaveDeferred, WatchParents,
                          RegisterDependency, ReadStatuses, Execute
    <3>2. deferred' = deferred \/ \E j \in Jobs : deferred' = deferred \cup {j}
        BY <1>2, <2>3 DEF ClientNext, EnqueueUnique, EnqueuePlain, SaveDeferred, WatchParents,
                          RegisterDependency, ReadStatuses, Execute
    <3> QED
        BY <1>1, <2>1, <3>1, <3>2
  <2> QED
      BY <2>2, <2>3
<1>3. ASSUME NEW p \in Parents, WorkerNext(p) \/ Touch(p) PROVE Rest
  <2>1. /\ UNCHANGED <<group, listed, cleaner, expiries>>
        /\ touches' = touches \/ touches' = touches + 1
        /\ deferred' = deferred \/ deferred' = deferred \ parent[p].wake
      BY <1>3 DEF WorkerNext, ReadDependents, FinishParent, Touch
  <2> QED
      BY <1>1, <2>1
<1>4. ASSUME NEW j \in Jobs, Run(j) \/ Expire(j) PROVE Rest
    BY <1>1, <1>4 DEF Run, Expire
<1>5. ASSUME CheckMembers PROVE Rest
    BY <1>1, <1>5 DEF CheckMembers
<1>6. ASSUME RemoveMembers PROVE Rest
    BY <1>1, <1>6 DEF RemoveMembers
<1>7. ASSUME CheckGroup PROVE Rest
    BY <1>1, <1>7 DEF CheckGroup
<1>8. ASSUME RemoveGroup PROVE Rest
    BY <1>1, <1>8 DEF RemoveGroup
<1>9. ASSUME UNCHANGED vars PROVE Rest
    BY <1>1, <1>9 DEF vars
<1> HIDE DEF Rest
<1>10. Rest
    BY <1>2, <1>3, <1>4, <1>5, <1>6, <1>7, <1>8, <1>9 DEF Next, CleanerNext
<1> QED
    BY <1>10, PartialGrows DEF Rest, TypeOK, WorkersTypeOK, Parent

\* No client steps: what the workers have in hand stays in order.
LEMMA BaseQuiet ==
    ASSUME Base, [Next]_vars, DataTypeOK',
           client' \in [Clients -> Client], \A c \in Clients : Nudged(c),
           parent' \in [Parents -> Parent], dependents' \in [Parents -> SUBSET Jobs],
           \A p \in Parents : dependents'[p] \subseteq dependents[p],
           \A p \in Parents : Finished(p) => Finished(p)',
           \A p \in Parents :
              \/ parent'[p].wake = {}
              \/ parent'[p].pc = parent[p].pc /\ parent'[p].wake = parent[p].wake
              \/ /\ parent'[p].pc = "success"
                 /\ \A j \in parent'[p].wake :
                       /\ j \in dependents[p]
                       /\ j \in partial' \/ \A q \in DependsOn[j] \ {p} : Finished(q)
    PROVE  Base'
<1>1. TypeOK'
    BY RestTypes
<1>2. LinksOK'
    BY DEF Base, LinksOK
<1>3. ASSUME NEW p \in Parents PROVE WakeOK(p)'
  <2>1. ASSUME NEW j \in parent'[p].wake
        PROVE  /\ j \in DependentJobs /\ p \in DependsOn[j] /\ parent'[p].pc = "success"
               /\ j \in partial' \/ \A q \in DependsOn[j] \ {p} : Finished(q)
      BY <2>1, PartialGrows DEF Base, LinksOK, WakeOK
  <2>2. \A j \in DependentJobs : DependsOn[j] \subseteq Parents
      BY JobsFacts
  <2> QED
      BY <2>1, <2>2 DEF WakeOK
<1>4. \A c \in Clients : Shape(c)' /\ BatchOK(c)'
    BY NudgedRecord
<1> QED
    BY <1>1, <1>2, <1>3, <1>4 DEF Base

\* Every step keeps them.
LEMMA BaseNext ==
    ASSUME Base, [Next]_vars
    PROVE  Base'
<1>1. /\ client \in [Clients -> Client] /\ parent \in [Parents -> Parent]
      /\ dependents \in [Parents -> SUBSET Jobs] /\ DataTypeOK
    BY DEF Base, TypeOK, WorkersTypeOK, Parent
<1>2. ASSUME NEW c \in Clients, ClientNext(c) PROVE Base'
  <2>1. Steps(c) /\ Shape(c)' /\ BatchOK(c)'
      BY <1>2, ClientRecord
  <2>2. ASSUME NEW d \in Clients PROVE Shape(d)' /\ BatchOK(d)'
    <3>1. CASE d # c
        BY <2>1, <3>1, NudgedRecord DEF Steps, Nudged
    <3> QED
        BY <2>1, <3>1
  <2>3. /\ parent' \in [Parents -> Parent] /\ dependents' \in [Parents -> SUBSET Jobs]
        /\ \A q \in Parents :
              /\ parent'[q].pc = parent[q].pc /\ parent'[q].wake = parent[q].wake
              /\ \A j \in dependents'[q] :
                    j \in dependents[q] \/ (j \in Dependent[c] /\ q \in DependsOn[j])
      BY <1>2, ClientLinks
  <2>4. TypeOK'
      BY <1>2, <2>1, <2>3, ClientTypes, RestTypes DEF Steps
  <2>5. LinksOK'
      BY <2>3, JobsFacts DEF Base, LinksOK
  <2>6. \A p \in Parents : WakeOK(p)'
      BY <2>3, JobsFacts, PartialGrows DEF Base, WakeOK, Finished
  <2> QED
      BY <2>2, <2>4, <2>5, <2>6 DEF Base
<1>3. ASSUME NEW p \in Parents, ReadDependents(p) PROVE Base'
    BY <1>1, <1>3, ReadDependentsMoves, BaseQuiet DEF DataTypeOK, Nudged, Finished
<1>4. ASSUME NEW p \in Parents, FinishParent(p), parent[p].dirty PROVE Base'
    BY <1>1, <1>4, RepeatParentMoves, BaseQuiet DEF DataTypeOK, Nudged, Finished
<1>5. ASSUME NEW p \in Parents, FinishParent(p), ~parent[p].dirty PROVE Base'
  <2>1. DataTypeOK'
      BY <1>5, EndParentMoves, OnceType, PushTypes DEF Base
  <2> QED
      BY <1>1, <1>5, <2>1, EndParentMoves, BaseQuiet DEF Finished
<1>6. ASSUME NEW p \in Parents, Touch(p) PROVE Base'
    BY <1>1, <1>6, TouchMoves, BaseQuiet DEF DataTypeOK, Finished
<1>7. ASSUME NEW j \in Jobs, Run(j) \/ Expire(j) PROVE Base'
    BY <1>1, <1>7, RunMoves, BaseQuiet DEF Nudged, Finished
<1>8. ASSUME CleanerNext \/ UNCHANGED vars PROVE Base'
    BY <1>1, <1>8, CleanerMoves, BaseQuiet DEF DataTypeOK, Nudged, Finished
<1> QED
    BY <1>2, <1>3, <1>4, <1>5, <1>6, <1>7, <1>8 DEF Next, WorkerNext

\* Every variable of enqueue_many, of the workers and of the cleanup has its
\* type, however the batches meet.
THEOREM BulkTypeCorrect == Spec => []TypeOK
<1>1. Base => TypeOK
    BY DEF Base
<1> QED
    BY <1>1, BaseInit, BaseNext, PTL DEF Spec

-----------------------------------------------------------------------------
(* Unique jobs.                                                            *)

UniqueJobs == UNION {Unique[c] : c \in Clients}

\* An entry of the queue belongs to the hash.
UniqueOK ==
    \A j \in UniqueJobs : /\ queue[j] <= 1 /\ pushed[j] <= 1
                          /\ queue[j] > 0 => status[j] = "queued"

\* A unique job is of no other kind.
LEMMA UniqueJobsFacts ==
    ASSUME UniqueIds
    PROVE  /\ UniqueJobs \subseteq Jobs
           /\ UniqueJobs \cap DependentJobs = {}
           /\ \A c \in Clients : UniqueJobs \cap (Plain[c] \cup Dependent[c]) = {}
<1>1. UniqueJobs \subseteq Jobs
    BY JobsFacts DEF UniqueJobs
<1>2. \A c \in Clients : UniqueJobs \cap (Plain[c] \cup Dependent[c]) = {}
    BY DEF UniqueJobs, UniqueIds
<1> QED
    BY <1>1, <1>2 DEF DependentJobs

\* Only a client that finds no hash pushes it.
LEMMA UniqueNext ==
    ASSUME UniqueIds, Base, UniqueOK, [Next]_vars
    PROVE  UniqueOK'
<1> SUFFICES ASSUME NEW j \in UniqueJobs
             PROVE  /\ queue'[j] <= 1 /\ pushed'[j] <= 1
                    /\ queue'[j] > 0 => status'[j] = "queued"
    BY DEF UniqueOK
<1> DEFINE Same == /\ status'[j] = status[j] /\ queue'[j] = queue[j]
                   /\ pushed'[j] = pushed[j]
           Fine == /\ queue'[j] <= 1 /\ pushed'[j] <= 1
                   /\ queue'[j] > 0 => status'[j] = "queued"
<1>1. /\ j \in Jobs /\ j \notin DependentJobs
      /\ \A c \in Clients : j \notin Plain[c] /\ j \notin Dependent[c]
    BY UniqueJobsFacts
<1>2. /\ queue[j] \in Nat /\ pushed[j] \in Nat
      /\ queue[j] <= 1 /\ pushed[j] <= 1 /\ (queue[j] > 0 => status[j] = "queued")
    BY <1>1 DEF Base, TypeOK, DataTypeOK, UniqueOK
<1>3. Same => Fine
    BY <1>2
<1>4. ASSUME NEW c \in Clients, ClientNext(c) PROVE Fine
  <2>1. \/ /\ queue'[j] = queue[j] /\ pushed'[j] = pushed[j] /\ status'[j] = status[j]
        \/ /\ status[j] = "absent" /\ status'[j] = "queued"
           /\ queue'[j] = queue[j] + 1 /\ pushed'[j] = 1
      BY <1>1, <1>4, ClientPushes
  <2> QED
      BY <1>2, <2>1
<1>5. ASSUME NEW p \in Parents, FinishParent(p), ~parent[p].dirty PROVE Fine
  <2>1. j \notin parent[p].wake
      BY <1>1 DEF Base, WakeOK
  <2>2. Same
      BY <1>1, <1>5, <2>1, EndParentMoves, PushNone
  <2> QED
      BY <1>3, <2>2
<1>6. ASSUME NEW p \in Parents,
             ReadDependents(p) \/ Touch(p) \/ (FinishParent(p) /\ parent[p].dirty)
      PROVE  Fine
    BY <1>3, <1>6 DEF ReadDependents, Touch, FinishParent
<1>7. ASSUME NEW k \in Jobs, Run(k) \/ Expire(k) PROVE Fine
    BY <1>1, <1>2, <1>7, RunMoves
<1>8. ASSUME CleanerNext \/ UNCHANGED vars PROVE Fine
    BY <1>3, <1>8, CleanerMoves
<1> HIDE DEF Fine
<1>9. Fine
    BY <1>4, <1>5, <1>6, <1>7, <1>8 DEF Next, WorkerNext
<1> QED
    BY <1>9 DEF Fine

\* save_unique_job, for any clients and batches: however often an id is
\* enqueued as unique, the queue holds it once and it was pushed once since
\* its hash was made.
THEOREM UniqueStaysOnce ==
    ASSUME UniqueIds
    PROVE  Spec => []UniqueIsOnce
<1>1. Init => UniqueOK
    BY UniqueJobsFacts DEF Init, UniqueOK
<1>2. Base /\ UniqueOK /\ [Next]_vars => UniqueOK'
    BY UniqueNext
<1>3. UniqueOK => UniqueIsOnce
    BY DEF UniqueOK, UniqueIsOnce, UniqueJobs
<1> QED
    BY <1>1, <1>2, <1>3, BaseInit, BaseNext, PTL DEF Spec

-----------------------------------------------------------------------------
(* Dependents: a client, and the batches that leave its dependents alone.  *)

\* No dependent of c is in another batch, or of another kind in this one.
Apart(c) ==
    /\ Dependent[c] \cap (Unique[c] \cup Plain[c]) = {}
    /\ \A d \in Clients \ {c} : Dependent[c] \cap Batch(d) = {}

Ready(j) == \A p \in DependsOn[j] : Finished(p)

\* A job that no worker has read in part is pushed, or listed as met, when all
\* its parents have finished, and until then its hash does not expire, nor what is
\* registered of its dependencies.
MetOK(c, j) == j \notin partial =>
    /\ pushed[j] > 0 \/ client[c].met[j] > 0 => Ready(j)
    /\ status[j] \in {"queued", "finished"} \/ queue[j] > 0 => pushed[j] > 0
    /\ \A p \in Parents : j \in parent[p].wake => status[j] # "absent"
    /\ client[c].pc \in {"register", "read"} /\ client[c].job = j =>
          pushed[j] > 0 \/ DependsOn[j] \ Left(c) \subseteq dependencies[j]

\* c has not come to its dependent j.
Fresh(c, j) ==
    \/ client[c].pc \in {"unique", "save", "error"}
    \/ client[c].pc \in Linking /\ j \in client[c].todo /\ client[c].job # j

\* A worker can have heard of j.
Known(j) == \E p \in Parents : j \in dependents[p] \cup parent[p].wake

At(c, j) == client[c].pc \in Watching /\ client[c].job = j

\* While no WATCH of c has broken, j was pushed at most once, and not at all
\* if c is about to push it.
OnceOK(c, j) ==
    LET r == client[c] IN
    j \notin partial /\ ~r.conflict =>
        /\ pushed[j] <= 1 /\ r.met[j] <= 1
        /\ r.met[j] > 0 => pushed[j] = 0 \/ (At(c, j) /\ r.dirty)
        /\ r.pc = "watch" => r.job = NoJob
        /\ At(c, j) => /\ r.pc # "execute" => r.met[j] = 0
                       /\ pushed[j] = 0 \/ r.dirty
        /\ Fresh(c, j) => r.met[j] = 0 /\ pushed[j] = 0 /\ ~Known(j)

\* A dependent of such a client is a job of no other.
LEMMA ApartFacts ==
    ASSUME NEW c \in Clients, Apart(c), NEW j \in Dependent[c]
    PROVE  /\ j \in Jobs /\ j \in DependentJobs /\ DependsOn[j] \subseteq Parents
           /\ j \notin Plain[c] /\ j \notin Unique[c] /\ j # NoJob
           /\ \A d \in Clients \ {c} : j \notin Batch(d)
BY JobsFacts DEF Apart

\* A parent that has finished stays so.
LEMMA FinishedStays ==
    ASSUME Base, [Next]_vars
    PROVE  \A p \in Parents : Finished(p) => Finished(p)'
<1>1. ASSUME NEW c \in Clients, ClientNext(c) PROVE \A p \in Parents : Finished(p) => Finished(p)'
    BY <1>1, ClientLinks DEF Finished
<1>2. ASSUME NEW p \in Parents, WorkerNext(p) \/ Touch(p)
      PROVE  \A q \in Parents : Finished(q) => Finished(q)'
    BY <1>2, ReadDependentsMoves, RepeatParentMoves, EndParentMoves, TouchMoves
       DEF WorkerNext, Finished
<1>3. ASSUME (\E k \in Jobs : Run(k) \/ Expire(k)) \/ CleanerNext \/ UNCHANGED vars
      PROVE  UNCHANGED parent
    BY <1>3, RunMoves, CleanerMoves
<1> QED
    BY <1>1, <1>2, <1>3 DEF Next, Finished

\* The steps of the other clients do not reach j.
LEMMA OtherClient ==
    ASSUME Base, NEW c \in Clients, Apart(c), NEW j \in Dependent[c],
           NEW d \in Clients \ {c}, ClientNext(d)
    PROVE  /\ status'[j] = status[j] /\ queue'[j] = queue[j] /\ pushed'[j] = pushed[j]
           /\ client'[c] = client[c]
           /\ \A p \in Parents : parent'[p].wake = parent[p].wake
           /\ Known(j)' => Known(j)
<1>1. j \in Jobs /\ j \notin Unique[d] /\ j \notin Plain[d] /\ j \notin Dependent[d]
    BY ApartFacts DEF Batch
<1>2. status'[j] = status[j] /\ queue'[j] = queue[j] /\ pushed'[j] = pushed[j]
    BY <1>1, ClientPushes
<1>3. client'[c] = client[c]
    BY ClientRecord DEF Steps
<1>4. /\ \A p \in Parents : parent'[p].wake = parent[p].wake
      /\ \A p \in Parents : j \in dependents'[p] => j \in dependents[p]
    BY <1>1, ClientLinks
<1> QED
    BY <1>2, <1>3, <1>4 DEF Known

\* Nor do those of the workers, but for the end of a parent with j in hand.
LEMMA NoClient ==
    ASSUME Base, [Next]_vars, NEW c \in Clients, NEW j \in Jobs,
           ~\E d \in Clients : ClientNext(d),
           ~\E p \in Parents : /\ FinishParent(p) /\ ~parent[p].dirty
                               /\ j \in parent[p].wake
    PROVE  /\ pushed'[j] = pushed[j] /\ Nudged(c)
           /\ Known(j)' => Known(j)
           /\ \A p \in Parents : j \in parent'[p].wake => j \in parent[p].wake
                                                          \/ status'[j] # "absent"
           /\ \/ status'[j] = status[j] /\ queue'[j] = queue[j]
              \/ /\ queue[j] > 0 /\ queue'[j] = queue[j] - 1
                 /\ status'[j] = IF status[j] = "absent" THEN "absent" ELSE "finished"
              \/ status[j] = "finished" /\ status'[j] = "absent" /\ queue'[j] = queue[j]
<1> DEFINE Goal == /\ pushed'[j] = pushed[j] /\ Nudged(c)
                   /\ Known(j)' => Known(j)
                   /\ \A p \in Parents : j \in parent'[p].wake => j \in parent[p].wake
                                                                  \/ status'[j] # "absent"
                   /\ \/ status'[j] = status[j] /\ queue'[j] = queue[j]
                      \/ /\ queue[j] > 0 /\ queue'[j] = queue[j] - 1
                         /\ status'[j] = IF status[j] = "absent" THEN "absent" ELSE "finished"
                      \/ /\ status[j] = "finished" /\ status'[j] = "absent"
                         /\ queue'[j] = queue[j]
<1>1. ASSUME NEW p \in Parents, ReadDependents(p) PROVE Goal
    BY <1>1, ReadDependentsMoves DEF Nudged, Known
<1>2. ASSUME NEW p \in Parents, FinishParent(p), parent[p].dirty PROVE Goal
    BY <1>2, RepeatParentMoves DEF Nudged, Known
<1>3. ASSUME NEW p \in Parents, FinishParent(p), ~parent[p].dirty PROVE Goal
  <2>1. j \notin parent[p].wake
      BY <1>3
  <2>2. status'[j] = status[j] /\ queue'[j] = queue[j] /\ pushed'[j] = pushed[j]
      BY <1>3, <2>1, EndParentMoves, PushNone
  <2>3. \A q \in Parents : /\ parent'[q].wake \subseteq parent[q].wake
                           /\ dependents'[q] \subseteq dependents[q]
      BY <1>3, EndParentMoves
  <2> QED
      BY <1>3, <2>2, <2>3, EndParentMoves DEF Known
<1>4. ASSUME NEW p \in Parents, Touch(p) PROVE Goal
    BY <1>4, TouchMoves DEF Known
<1>5. ASSUME NEW k \in Jobs, Run(k) \/ Expire(k) PROVE Goal
    BY <1>5, RunMoves DEF Nudged, Known
<1>6. ASSUME CleanerNext \/ UNCHANGED vars PROVE Goal
    BY <1>6, CleanerMoves DEF Nudged, Known
<1> HIDE DEF Goal
<1>7. Goal
    BY <1>1, <1>2, <1>3, <1>4, <1>5, <1>6 DEF Next, WorkerNext
<1> QED
    BY <1>7 DEF Goal

\* The end of p with j in hand, which was not read in part: j was not pushed
\* before, and its parents have all finished now.
LEMMA PushedByParent ==
    ASSUME Base, NEW j \in Jobs, NEW p \in Parents,
           FinishParent(p), ~parent[p].dirty, j \in parent[p].wake, j \notin partial
    PROVE  /\ p \in DependsOn[j] /\ ~Ready(j) /\ Ready(j)'
           /\ status'[j] = "queued" /\ queue'[j] = queue[j] + 1 /\ queue[j] \in Nat
           /\ pushed'[j] > 0 /\ pushed'[j] <= pushed[j] + 1 /\ pushed[j] \in Nat
<1>1. /\ p \in DependsOn[j] /\ j \in DependentJobs /\ parent[p].pc = "success"
      /\ \A q \in DependsOn[j] \ {p} : Finished(q)
    BY DEF Base, WakeOK
<1>2. DependsOn[j] \subseteq Parents
    BY <1>1, JobsFacts
<1>3. ~Ready(j)
    BY <1>1 DEF Ready, Finished
<1>4. Ready(j)'
    BY <1>1, <1>2, EndParentMoves DEF Ready, Finished
<1>5. Once(parent[p].wake) \in [Jobs -> Nat] /\ Once(parent[p].wake)[j] = 1
    BY DEF Once
<1>6. Push(Once(parent[p].wake), {})
    BY EndParentMoves
<1>7. TypeOK
    BY DEF Base
<1> HIDE DEF Ready
<1> QED
    BY <1>1, <1>3, <1>4, <1>5, <1>6, <1>7, PushOne

\* What c lists as met was met.
LEMMA MetCount ==
    ASSUME Base, NEW c \in Clients, NEW j \in Jobs, ClientNext(c)
    PROVE  client'[c].met[j] > 0 =>
              client[c].met[j] > 0 \/ (client[c].pc = "read" /\ client[c].job = j /\ Met(j))
<1>1. CASE ReadStatuses(c)
  <2>1. CASE client[c].job = j
      BY <1>1, <2>1, ReadStatusesMoves
  <2>2. CASE client[c].job # j
      BY <1>1, <2>2, ReadStatusesMoves
  <2> QED
      BY <2>1, <2>2
<1>2. CASE EnqueueMet(c)
  <2>1. client'[c].met = [k \in Jobs |-> 0]
      BY <1>2, EnqueueMetMoves
  <2>2. client'[c].met[j] = 0
      BY <2>1
  <2> QED
      BY <2>2
<1>3. CASE ~ReadStatuses(c) /\ ~EnqueueMet(c)
  <2>1. client'[c].met = client[c].met
      BY <1>3, EnqueueUniqueMoves, EnqueuePlainMoves, SaveDeferredMoves, WatchParentsMoves,
         RegisterDependencyMoves, ExecuteMoves DEF ClientNext
  <2> QED
      BY <2>1
<1> QED
    BY <1>1, <1>2, <1>3

\* register_dependency: what c has registered of j is in the set of j's
\* dependencies, until j was pushed, run and expired.
LEMMA LinkedNext ==
    ASSUME Base, [Next]_vars, NEW c \in Clients, Apart(c), NEW j \in Dependent[c], MetOK(c, j),
           j \notin partial, client'[c].pc \in {"register", "read"}, client'[c].job = j
    PROVE  pushed'[j] > 0 \/ DependsOn[j] \ Left(c)' \subseteq dependencies'[j]
<1>1. /\ j \in Jobs /\ j \notin Plain[c] /\ j \notin Unique[c]
      /\ pushed[j] \in Nat /\ dependencies \in [Jobs -> SUBSET Parents]
    BY ApartFacts DEF Base, TypeOK, DataTypeOK, WorkersTypeOK
<1>2. /\ status[j] = "finished" => pushed[j] > 0
      /\ client[c].pc \in {"register", "read"} /\ client[c].job = j =>
            pushed[j] > 0 \/ DependsOn[j] \ Left(c) \subseteq dependencies[j]
    BY DEF MetOK
<1>3. pushed[j] > 0 => pushed'[j] > 0
  <2>1. CASE \E d \in Clients : ClientNext(d)
      BY <1>1, <2>1, ClientPushes, OtherClient
  <2>2. CASE \E p \in Parents : FinishParent(p) /\ ~parent[p].dirty /\ j \in parent[p].wake
      BY <1>1, <2>2, PushedByParent
  <2>3. CASE /\ ~\E d \in Clients : ClientNext(d)
             /\ ~\E p \in Parents : /\ FinishParent(p) /\ ~parent[p].dirty
                                    /\ j \in parent[p].wake
      BY <1>1, <2>3, NoClient
  <2> QED
      BY <2>1, <2>2, <2>3
<1>4. CASE ClientNext(c)
  <2>1. CASE \E k \in Jobs : WatchParents(c, k)
    <3>1. client'[c].left = DependsOn[j] /\ client'[c].pc = "register"
        BY <2>1, WatchParentsMoves
    <3> QED
        BY <3>1 DEF Left
  <2>2. ASSUME NEW p \in Parents, RegisterDependency(c, p)
        PROVE  pushed'[j] > 0 \/ DependsOn[j] \ Left(c)' \subseteq dependencies'[j]
    <3>1. /\ client[c].pc = "register" /\ client[c].job = j
          /\ dependencies'[j] = dependencies[j] \cup {p}
          /\ Left(c) \ {p} \subseteq Left(c)'
      <4>1. client'[c].pc \in {"register", "read"} /\ client'[c].job = client[c].job
          BY <2>2, RegisterDependencyMoves
      <4>2. /\ client[c].pc = "register" /\ client[c].job = j
            /\ dependencies' = [dependencies EXCEPT ![j] = @ \cup {p}]
            /\ client' = [client EXCEPT ![c].left = client[c].left \ {p},
                                        ![c].pc = IF client[c].left \ {p} = {}
                                                  THEN "read" ELSE @]
          BY <2>2, <4>1 DEF RegisterDependency
      <4>3. client[c] \in Client /\ client \in [Clients -> Client]
          BY DEF Base, TypeOK
      <4>4. /\ client'[c].left = client[c].left \ {p}
            /\ client'[c].pc = IF client[c].left \ {p} = {} THEN "read" ELSE "register"
          BY <4>2, <4>3 DEF Client
      <4> QED
          BY <1>1, <4>2, <4>4 DEF Left
    <3> QED
        BY <1>2, <1>3, <3>1
  <2>3. CASE ~(\E k \in Jobs : WatchParents(c, k)) /\ ~\E p \in Parents : RegisterDependency(c, p)
    <3>1. client'[c].pc \notin {"register", "read"}
        BY <1>4, <2>3, EnqueueUniqueMoves, EnqueuePlainMoves, SaveDeferredMoves,
           ReadStatusesMoves, ExecuteMoves, EnqueueMetMoves DEF ClientNext
    <3> QED
        BY <3>1
  <2> QED
      BY <2>1, <2>2, <2>3
<1>5. CASE ~ClientNext(c)
  <2>1. Nudged(c)
    <3>1. CASE \E d \in Clients \ {c} : ClientNext(d)
        BY <3>1, OtherClient DEF Nudged
    <3>2. CASE \E p \in Parents : FinishParent(p) /\ ~parent[p].dirty
        BY <3>2, EndParentMoves
    <3> QED
        BY <1>1, <1>5, <3>1, <3>2, NoClient
  <2>2. client[c].pc \in {"register", "read"} /\ client[c].job = j /\ Left(c)' = Left(c)
      BY <2>1, NudgedRecord DEF Left
  <2>3. dependencies[j] \subseteq dependencies'[j] \/ status[j] = "finished"
      BY <1>1, PartialGrows
  <2> QED
      BY <1>2, <1>3, <2>2, <2>3
<1> QED
    BY <1>4, <1>5

\* Every step keeps that a job is pushed when it is met.
LEMMA MetNext ==
    ASSUME Base, [Next]_vars, NEW c \in Clients, Apart(c), NEW j \in Dependent[c], MetOK(c, j)
    PROVE  MetOK(c, j)'
<1> SUFFICES ASSUME j \notin partial'
             PROVE  MetOK(c, j)'
    BY DEF MetOK
<1>0. j \notin partial
    BY PartialGrows
<1>1. /\ j \in Jobs /\ j \in DependentJobs /\ DependsOn[j] \subseteq Parents
      /\ j \notin Plain[c] /\ j \notin Unique[c]
    BY ApartFacts
<1>2. Ready(j) => Ready(j)'
    BY <1>1, FinishedStays DEF Ready
<1>3. queue[j] \in Nat /\ pushed[j] \in Nat /\ client[c].met[j] \in Nat
    BY <1>1 DEF Base, TypeOK, DataTypeOK, Client
<1>4. \A p \in Parents : j \in parent[p].wake => ~Ready(j)
    BY DEF Base, WakeOK, Ready, Finished
<1>5. /\ pushed[j] > 0 \/ client[c].met[j] > 0 => Ready(j)
      /\ status[j] \in {"queued", "finished"} \/ queue[j] > 0 => pushed[j] > 0
      /\ \A p \in Parents : j \in parent[p].wake => status[j] # "absent"
      /\ client[c].pc \in {"register", "read"} /\ client[c].job = j =>
            pushed[j] > 0 \/ DependsOn[j] \ Left(c) \subseteq dependencies[j]
    BY <1>0 DEF MetOK
<1>a. /\ client'[c].pc \in {"register", "read"} /\ client'[c].job = j =>
            pushed'[j] > 0 \/ DependsOn[j] \ Left(c)' \subseteq dependencies'[j]
    BY <1>0, LinkedNext
<1> HIDE DEF Ready
<1>6. CASE ClientNext(c)
  <2>a. client[c].pc = "read" /\ client[c].job = j /\ Met(j) => Ready(j)
      BY <1>5 DEF Left, Met, Ready
  <2>1. client'[c].met[j] > 0 => Ready(j)
      BY <1>1, <1>5, <1>6, <2>a, MetCount
  <2>2. \A p \in Parents : parent'[p].wake = parent[p].wake
      BY <1>6, ClientLinks
  <2>3. CASE /\ queue'[j] = queue[j] /\ pushed'[j] = pushed[j]
             /\ status'[j] \in {status[j], "deferred"}
      BY <1>2, <1>5, <2>1, <2>2, <2>3, <1>a DEF MetOK
  <2>4. CASE client[c].met[j] > 0 /\ status'[j] = "queued" /\ pushed'[j] > 0
      BY <1>2, <1>5, <2>1, <2>2, <2>4, <1>a DEF MetOK
  <2> QED
      BY <1>1, <1>6, <2>3, <2>4, ClientPushes
<1>7. ASSUME NEW d \in Clients \ {c}, ClientNext(d) PROVE MetOK(c, j)'
  <2>1. /\ status'[j] = status[j] /\ queue'[j] = queue[j] /\ pushed'[j] = pushed[j]
        /\ client'[c] = client[c]
        /\ \A p \in Parents : parent'[p].wake = parent[p].wake
      BY <1>7, OtherClient
  <2> QED
      BY <1>2, <1>5, <2>1, <1>a DEF MetOK
<1>8. ASSUME NEW p \in Parents, FinishParent(p), ~parent[p].dirty, j \in parent[p].wake
      PROVE  MetOK(c, j)'
    BY <1>0, <1>1, <1>8, <1>a, PushedByParent DEF MetOK
<1>9. CASE /\ ~\E d \in Clients : ClientNext(d)
           /\ ~\E p \in Parents : /\ FinishParent(p) /\ ~parent[p].dirty
                                  /\ j \in parent[p].wake
  <2>1. /\ pushed'[j] = pushed[j] /\ Nudged(c)
        /\ \A p \in Parents : j \in parent'[p].wake => j \in parent[p].wake
                                                       \/ status'[j] # "absent"
        /\ \/ status'[j] = status[j] /\ queue'[j] = queue[j]
           \/ /\ queue[j] > 0 /\ queue'[j] = queue[j] - 1
              /\ status'[j] = IF status[j] = "absent" THEN "absent" ELSE "finished"
           \/ status[j] = "finished" /\ status'[j] = "absent" /\ queue'[j] = queue[j]
      BY <1>1, <1>9, NoClient
  <2>2. client'[c].met = client[c].met
      BY <2>1, NudgedRecord
  <2>3. pushed'[j] > 0 \/ client'[c].met[j] > 0 => Ready(j)'
      BY <1>2, <1>5, <2>1, <2>2
  <2>4. status'[j] \in {"queued", "finished"} \/ queue'[j] > 0 => pushed'[j] > 0
      BY <1>3, <1>5, <2>1
  <2>5. ASSUME NEW p \in Parents, j \in parent'[p].wake PROVE status'[j] # "absent"
    <3>1. CASE j \in parent[p].wake
      <4>1. ~Ready(j) /\ status[j] # "absent"
          BY <1>4, <1>5, <3>1
      <4> QED
          BY <1>5, <2>1, <4>1
    <3> QED
        BY <2>1, <2>5, <3>1
  <2> QED
      BY <2>3, <2>4, <2>5, <1>a DEF MetOK
<1> QED
    BY <1>6, <1>7, <1>8, <1>9

\* A step that leaves c and j alone, but for a WATCH that breaks.
LEMMA OnceStays ==
    ASSUME Base, NEW c \in Clients, NEW j \in Dependent[c], OnceOK(c, j),
           pushed'[j] = pushed[j], Nudged(c), Known(j)' => Known(j), partial \subseteq partial'
    PROVE  OnceOK(c, j)'
<1>1. /\ client'[c].pc = client[c].pc /\ client'[c].todo = client[c].todo
      /\ client'[c].job = client[c].job /\ client'[c].met = client[c].met
      /\ client'[c].conflict = client[c].conflict
      /\ client[c].dirty => client'[c].dirty
    BY NudgedRecord
<1>2. At(c, j)' = At(c, j) /\ Fresh(c, j)' = Fresh(c, j)
    BY <1>1 DEF At, Fresh
<1> QED
    BY <1>1, <1>2 DEF OnceOK

\* The steps of c itself.
LEMMA OnceOwn ==
    ASSUME Base, NEW c \in Clients, Apart(c), NEW j \in Dependent[c], MetOK(c, j), OnceOK(c, j),
           ClientNext(c)
    PROVE  OnceOK(c, j)'
<1> SUFFICES ASSUME ~client'[c].conflict, j \notin partial'
             PROVE  OnceOK(c, j)'
    BY DEF OnceOK
<1>0. j \notin partial
    BY PartialGrows DEF Next
<1>1. /\ j \in Jobs /\ j \notin Plain[c] /\ j \notin Unique[c] /\ j # NoJob
    BY ApartFacts
<1>2. /\ pushed[j] \in Nat /\ client[c].met[j] \in Nat
    BY <1>1 DEF Base, TypeOK, DataTypeOK, Client
<1>3. \/ pushed'[j] = pushed[j]
      \/ EnqueueMet(c) /\ client[c].met[j] > 0 /\ pushed'[j] <= pushed[j] + client[c].met[j]
    BY <1>1, ClientPushes
<1>4. Known(j)' => Known(j) \/ (client[c].pc = "register" /\ client[c].job = j)
    BY ClientLinks DEF Known
<1>5. ~client[c].conflict =>
        /\ pushed[j] <= 1 /\ client[c].met[j] <= 1
        /\ client[c].met[j] > 0 => pushed[j] = 0 \/ (At(c, j) /\ client[c].dirty)
        /\ client[c].pc = "watch" => client[c].job = NoJob
        /\ At(c, j) => /\ client[c].pc # "execute" => client[c].met[j] = 0
                       /\ pushed[j] = 0 \/ client[c].dirty
        /\ Fresh(c, j) => client[c].met[j] = 0 /\ pushed[j] = 0 /\ ~Known(j)
    BY <1>0 DEF OnceOK
<1>6. ASSUME NEW k \in Jobs, EnqueueUnique(c, k) PROVE OnceOK(c, j)'
  <2>1. ~EnqueueMet(c)
      BY <1>6 DEF EnqueueUnique, EnqueueMet
  <2> QED
      BY <1>3, <1>4, <1>5, <1>6, <2>1, EnqueueUniqueMoves
         DEF OnceOK, At, Fresh, Watching, Linking
<1>7. CASE EnqueuePlain(c)
  <2>1. ~EnqueueMet(c)
      BY <1>7 DEF EnqueuePlain, EnqueueMet
  <2> QED
      BY <1>3, <1>4, <1>5, <1>7, <2>1, EnqueuePlainMoves
         DEF OnceOK, At, Fresh, Watching, Linking
<1>8. CASE SaveDeferred(c)
  <2>1. ~EnqueueMet(c)
      BY <1>8 DEF SaveDeferred, EnqueueMet
  <2> QED
      BY <1>3, <1>4, <1>5, <1>8, <2>1, SaveDeferredMoves
         DEF OnceOK, At, Fresh, Watching, Linking
<1>9. ASSUME NEW k \in Jobs, WatchParents(c, k) PROVE OnceOK(c, j)'
  <2>1. /\ client[c].pc = "watch" /\ k \in client[c].todo /\ client[c].job = NoJob
        /\ client'[c].pc = "register" /\ client'[c].job = k
        /\ client'[c].todo = client[c].todo /\ client'[c].met = client[c].met
        /\ client'[c].conflict = client[c].conflict
      BY <1>5, <1>9, WatchParentsMoves
  <2>2. UNCHANGED <<pushed, parent, dependents>>
      BY <1>9 DEF WatchParents
  <2>3. Known(j)' = Known(j)
      BY <2>2 DEF Known
  <2>4. CASE k = j
    <3>1. Fresh(c, j)
        BY <1>1, <2>1, <2>4 DEF Fresh, Linking
    <3> QED
        BY <1>5, <2>1, <2>2, <2>4, <3>1 DEF OnceOK, At, Fresh, Watching, Linking
  <2>5. CASE k # j
    <3>1. Fresh(c, j)' => Fresh(c, j)
        BY <1>1, <2>1 DEF Fresh, Linking
    <3>2. ~At(c, j) /\ ~At(c, j)'
        BY <1>1, <2>1, <2>5 DEF At
    <3> QED
        BY <1>5, <2>1, <2>2, <2>3, <3>1, <3>2 DEF OnceOK
  <2> QED
      BY <2>4, <2>5
<1>10. ASSUME NEW p \in Parents, RegisterDependency(c, p) PROVE OnceOK(c, j)'
  <2>1. /\ client[c].pc = "register" /\ client'[c].pc \in {"register", "read"}
        /\ client'[c].job = client[c].job
        /\ client'[c].todo = client[c].todo /\ client'[c].met = client[c].met
        /\ client'[c].dirty = client[c].dirty /\ client'[c].conflict = client[c].conflict
      BY <1>10, RegisterDependencyMoves
  <2>2. pushed' = pushed
      BY <1>10 DEF RegisterDependency
  <2>3. At(c, j)' = At(c, j) /\ Fresh(c, j)' = Fresh(c, j)
      BY <2>1 DEF At, Fresh, Watching, Linking
  <2>4. Fresh(c, j) /\ Known(j)' => Known(j)
      BY <1>4, <2>1 DEF Fresh
  <2> QED
      BY <1>5, <2>1, <2>2, <2>3, <2>4 DEF OnceOK
<1>11. CASE ReadStatuses(c)
  <2> DEFINE k == client[c].job
  <2>1. /\ client[c].pc = "read" /\ client'[c].pc = "execute"
        /\ client'[c].job = k /\ client'[c].todo = client[c].todo
        /\ client'[c].dirty = client[c].dirty /\ client'[c].conflict = client[c].conflict
        /\ client[c].met \in [Jobs -> Nat] /\ k \in Jobs
        /\ client'[c].met = [client[c].met EXCEPT ![k] = IF Met(k) THEN @ + 1 ELSE @]
      BY <1>11, ReadStatusesMoves
  <2>2. UNCHANGED <<pushed, parent, dependents>>
      BY <1>11 DEF ReadStatuses
  <2>3. Known(j)' = Known(j)
      BY <2>2 DEF Known
  <2>4. At(c, j)' = At(c, j) /\ Fresh(c, j)' = Fresh(c, j) /\ (At(c, j) <=> k = j)
      BY <2>1 DEF At, Fresh, Watching, Linking
  <2>5. CASE k = j
    <3>1. client'[c].met[j] \in {client[c].met[j], client[c].met[j] + 1}
        BY <2>1, <2>5
    <3>2. ~Fresh(c, j) /\ At(c, j)
        BY <2>1, <2>4, <2>5 DEF Fresh
    <3> QED
        BY <1>2, <1>5, <2>1, <2>2, <2>4, <3>1, <3>2 DEF OnceOK
  <2>6. CASE k # j
    <3>1. client'[c].met[j] = client[c].met[j]
        BY <1>1, <2>1, <2>6
    <3> QED
        BY <1>5, <2>1, <2>2, <2>3, <2>4, <2>6, <3>1 DEF OnceOK
  <2> QED
      BY <2>5, <2>6
<1>12. CASE Execute(c)
  <2>1. /\ client[c].pc = "execute" /\ client'[c].pc = "watch"
        /\ client'[c].met = client[c].met /\ ~client[c].dirty
        /\ client'[c].conflict = client[c].conflict /\ client'[c].job = NoJob
        /\ client'[c].todo = client[c].todo \ {client[c].job}
      BY <1>12, ExecuteMoves
  <2>2. pushed'[j] = pushed[j]
      BY <1>3, <2>1 DEF EnqueueMet
  <2>3. Known(j)' => Known(j)
      BY <1>4, <2>1
  <2>4. Fresh(c, j)' => Fresh(c, j)
      BY <2>1 DEF Fresh, Linking, Watching
  <2>5. ~At(c, j)'
      BY <2>1 DEF At, Watching
  <2> QED
      BY <1>5, <2>1, <2>2, <2>3, <2>4, <2>5 DEF OnceOK
<1>13. CASE EnqueueMet(c)
  <2>1. /\ client[c].pc = "watch" /\ client'[c].pc = "done"
        /\ client'[c].met = [k \in Jobs |-> 0] /\ client'[c].conflict = client[c].conflict
      BY <1>13, EnqueueMetMoves
  <2>2. client'[c].met[j] = 0
      BY <1>1, <2>1
  <2>3. ~At(c, j) /\ ~At(c, j)' /\ ~Fresh(c, j)'
      BY <2>1 DEF At, Fresh, Linking, Watching
  <2>4. pushed[j] <= 1 /\ client[c].met[j] <= 1 /\ (client[c].met[j] > 0 => pushed[j] = 0)
      BY <1>5, <2>1, <2>3
  <2>5. pushed'[j] <= 1
      BY <1>2, <1>3, <2>4
  <2> QED
      BY <2>1, <2>2, <2>3, <2>5 DEF OnceOK
<1> QED
    BY <1>6, <1>7, <1>8, <1>9, <1>10, <1>11, <1>12, <1>13 DEF ClientNext

\* Every step keeps that a dependent is pushed once.
LEMMA OnceNext ==
    ASSUME Base, [Next]_vars, NEW c \in Clients, Apart(c), NEW j \in Dependent[c],
           MetOK(c, j), OnceOK(c, j)
    PROVE  OnceOK(c, j)'
<1>1. j \in Jobs /\ j \in DependentJobs /\ j # NoJob
    BY ApartFacts
<1>2. CASE ClientNext(c)
    BY <1>2, OnceOwn
<1>3. ASSUME NEW d \in Clients \ {c}, ClientNext(d) PROVE OnceOK(c, j)'
    BY <1>3, OtherClient, OnceStays, PartialGrows DEF Nudged
<1>4. ASSUME NEW p \in Parents, FinishParent(p), ~parent[p].dirty, j \in parent[p].wake
      PROVE  OnceOK(c, j)'
  <2> SUFFICES ASSUME j \notin partial'
               PROVE  OnceOK(c, j)'
      BY DEF OnceOK
  <2>0. j \notin partial
      BY PartialGrows
  <2>1. /\ p \in DependsOn[j] /\ ~Ready(j) /\ pushed'[j] <= pushed[j] + 1 /\ pushed[j] \in Nat
      BY <1>1, <1>4, <2>0, PushedByParent
  <2>2. client[c].met[j] \in Nat
      BY <1>1 DEF Base, TypeOK, Client
  <2>3. pushed[j] = 0 /\ client[c].met[j] = 0
      BY <2>0, <2>1, <2>2 DEF MetOK
  <2>4. pushed'[j] <= 1
      BY <2>1, <2>3
  <2>5. /\ Nudged(c)
        /\ client[c].pc \in Watching /\ client[c].job # NoJob
              /\ p \in DependsOn[client[c].job] => client'[c].dirty
      BY <1>4, EndParentMoves
  <2>6. /\ client'[c].pc = client[c].pc /\ client'[c].todo = client[c].todo
        /\ client'[c].job = client[c].job /\ client'[c].met = client[c].met
        /\ client'[c].conflict = client[c].conflict
      BY <2>5, NudgedRecord
  <2>7. Known(j)
      BY <1>4 DEF Known
  <2>8. At(c, j)' => client'[c].dirty
      BY <1>1, <2>1, <2>5, <2>6 DEF At
  <2>9. Fresh(c, j)' = Fresh(c, j) /\ At(c, j)' = At(c, j)
      BY <2>6 DEF Fresh, At
  <2> QED
      BY <2>0, <2>3, <2>4, <2>6, <2>7, <2>8, <2>9 DEF OnceOK
<1>5. CASE /\ ~\E d \in Clients : ClientNext(d)
           /\ ~\E p \in Parents : /\ FinishParent(p) /\ ~parent[p].dirty
                                  /\ j \in parent[p].wake
    BY <1>1, <1>5, NoClient, OnceStays, PartialGrows
<1> QED
    BY <1>2, <1>3, <1>4, <1>5

\* At the start no dependent is known to anybody.
LEMMA OnceInit ==
    ASSUME Init, NEW c \in Clients, NEW j \in Dependent[c]
    PROVE  MetOK(c, j) /\ OnceOK(c, j)
<1>1. j \in Jobs
    BY JobsFacts
<1>2. /\ client[c].pc = "unique" /\ client[c].job = NoJob /\ client[c].met[j] = 0
      /\ pushed[j] = 0 /\ queue[j] = 0 /\ status[j] = "absent"
      /\ \A p \in Parents : parent[p].wake = {} /\ dependents[p] = {}
    BY <1>1 DEF Init, Start
<1> QED
    BY <1>2 DEF MetOK, OnceOK, At, Known, Watching

\* The WATCH of get_jobs_with_met_dependencies, for any batches whose
\* dependents are their own: a client that no WatchError has met shares no
\* push of a dependent with the worker of a parent.
THEOREM ConflictFreeStaysOnce ==
    ASSUME \A c \in Clients : Apart(c)
    PROVE  Spec => []ConflictFreeIsOnce
<1> DEFINE OnceInv == \A c \in Clients : \A j \in Dependent[c] : MetOK(c, j) /\ OnceOK(c, j)
<1>1. Init => OnceInv
    BY OnceInit
<1>2. Base /\ OnceInv /\ [Next]_vars => OnceInv'
    BY MetNext, OnceNext
<1>3. OnceInv => ConflictFreeIsOnce
    BY DEF OnceOK, ConflictFreeIsOnce
<1> QED
    BY <1>1, <1>2, <1>3, BaseInit, BaseNext, PTL DEF Spec

\* dependencies_are_met and handle_job_success, WatchErrors or not: no dependent
\* is pushed, queued or run before each of its parents has finished, but for one
\* of which a worker read the dependencies while they were being registered.
DependentsWait ==
    \A c \in Clients : \A j \in Dependent[c] \ partial :
        status[j] \in {"queued", "finished"} \/ queue[j] > 0 \/ pushed[j] > 0 => Ready(j)

\* A dependent is enqueued by nobody before its parents have finished, if no
\* worker has read a part of its dependencies for the whole.
THEOREM DependentsAlwaysWait ==
    ASSUME \A c \in Clients : Apart(c)
    PROVE  Spec => []DependentsWait
<1> DEFINE MetInv == \A c \in Clients : \A j \in Dependent[c] : MetOK(c, j)
<1>1. Init => MetInv
    BY OnceInit
<1>2. Base /\ MetInv /\ [Next]_vars => MetInv'
    BY MetNext
<1>3. MetInv => DependentsWait
    BY DEF MetOK, DependentsWait
<1> QED
    BY <1>1, <1>2, <1>3, BaseInit, BaseNext, PTL DEF Spec

-----------------------------------------------------------------------------
(* The group.                                                              *)

\* A grouped client shares none of its jobs but the unique ones.
GroupApart(c) ==
    /\ Apart(c)
    /\ \A d \in Clients \ {c} : Plain[c] \cap Batch(d) = {}

\* The transaction that adds j to the group saves it, and the cleanup has no
\* id of a job with a hash in hand.
GroupOK(c, j) ==
    IF j \in partial THEN TRUE
    ELSE IF client[c].pc # "done" THEN j \notin group \cup cleaner.gone
    ELSE status[j] # "absent" => j \in group \ cleaner.gone

\* Until c has ended its batch only a step of c makes it a member.
LEMMA GroupOwn ==
    ASSUME Base, NEW c \in Grouped, NEW j \in Plain[c] \cup Dependent[c], GroupOK(c, j),
           ClientNext(c)
    PROVE  GroupOK(c, j)'
<1>1. c \in Clients
    BY BulkAssumption
<1>2. client[c].pc # "done" /\ UNCHANGED cleaner
    BY DEF ClientNext, EnqueueUnique, EnqueuePlain, SaveDeferred, WatchParents,
           RegisterDependency, ReadStatuses, Execute, EnqueueMet
<1>3. j \in partial' \/ j \notin group \cup cleaner.gone
  <2>1. partial \subseteq partial'
      BY <1>1, PartialGrows DEF Next
  <2> QED
      BY <1>2, <2>1 DEF GroupOK
<1>4. CASE EnqueueMet(c)
  <2>1. client'[c].pc = "done"
      BY <1>1, <1>4, EnqueueMetMoves
  <2>2. group' = group \cup Batch(c) /\ j \in Batch(c)
      BY <1>4 DEF EnqueueMet, Batch
  <2> QED
      BY <1>2, <1>3, <2>1, <2>2 DEF GroupOK
<1>5. CASE ~EnqueueMet(c)
  <2>1. client'[c].pc # "done"
      BY <1>1, <1>5, EnqueueUniqueMoves, EnqueuePlainMoves, SaveDeferredMoves,
         WatchParentsMoves, RegisterDependencyMoves, ReadStatusesMoves, ExecuteMoves
         DEF ClientNext
  <2>2. group' = group
      BY <1>5 DEF ClientNext, EnqueueUnique, EnqueuePlain, SaveDeferred, WatchParents,
                  RegisterDependency, ReadStatuses, Execute
  <2> QED
      BY <1>2, <1>3, <2>1, <2>2 DEF GroupOK
<1> QED
    BY <1>4, <1>5

\* What the other clients, the workers and the cleanup do.
LEMMA GroupNext ==
    ASSUME Base, [Next]_vars, NEW c \in Grouped, GroupApart(c),
           NEW j \in Plain[c] \cup Dependent[c], j \in Dependent[c] => MetOK(c, j),
           GroupOK(c, j)
    PROVE  GroupOK(c, j)'
<1>1. /\ c \in Clients /\ j \in Jobs
      /\ \A d \in Clients \ {c} : j \notin Batch(d)
      /\ j \in DependentJobs => j \in Dependent[c]
  <2>1. c \in Clients /\ j \in Jobs
      BY BulkAssumption, JobsFacts
  <2>2. \A d \in Clients \ {c} : j \notin Batch(d)
      BY DEF GroupApart, Apart
  <2>3. j \in DependentJobs => j \in Dependent[c]
      BY <2>2 DEF DependentJobs, Batch
  <2> QED
      BY <2>1, <2>2, <2>3
<1> SUFFICES ASSUME j \notin partial'
             PROVE  GroupOK(c, j)'
    BY DEF GroupOK
<1> j \notin partial
    BY PartialGrows
<1>2. CASE ClientNext(c)
    BY <1>2, GroupOwn
<1>3. ASSUME NEW d \in Clients \ {c}, ClientNext(d) PROVE GroupOK(c, j)'
  <2>1. j \notin Unique[d] /\ j \notin Plain[d] /\ j \notin Dependent[d]
      BY <1>1 DEF Batch
  <2>2. status'[j] = status[j] /\ client'[c] = client[c]
      BY <1>1, <1>3, <2>1, ClientPushes, ClientRecord DEF Steps
  <2>3. UNCHANGED cleaner /\ (group' = group \/ group' = group \cup Batch(d))
      BY <1>3 DEF ClientNext, EnqueueUnique, EnqueuePlain, SaveDeferred, WatchParents,
                  RegisterDependency, ReadStatuses, Execute, EnqueueMet
  <2> QED
      BY <1>1, <1>3, <2>2, <2>3 DEF GroupOK
<1>4. ASSUME NEW p \in Parents, FinishParent(p), ~parent[p].dirty, j \in parent[p].wake
      PROVE  GroupOK(c, j)'
  <2>1. status[j] # "absent"
      BY <1>1, <1>4 DEF MetOK, Base, WakeOK
  <2>2. client'[c].pc = client[c].pc
      BY <1>1, <1>4, EndParentMoves, NudgedRecord
  <2>3. UNCHANGED <<group, cleaner>>
      BY <1>4 DEF FinishParent
  <2> QED
      BY <2>1, <2>2, <2>3 DEF GroupOK
<1>5. CASE /\ ~\E d \in Clients : ClientNext(d)
           /\ ~\E p \in Parents : /\ FinishParent(p) /\ ~parent[p].dirty
                                  /\ j \in parent[p].wake
  <2>1. client'[c].pc = client[c].pc /\ (status'[j] # "absent" => status[j] # "absent")
    <3>1. Nudged(c) /\ (status'[j] # "absent" => status[j] # "absent")
        BY <1>1, <1>5, NoClient
    <3> QED
        BY <1>1, <3>1, NudgedRecord
  <2>2. CASE CheckMembers
    <3>1. group' = group /\ cleaner'.gone = {k \in group : status[k] = "absent"}
          /\ status' = status
        BY <2>2 DEF CheckMembers
    <3> QED
        BY <2>1, <3>1 DEF GroupOK
  <2>3. CASE RemoveMembers
    <3>1. group' = group \ cleaner.gone /\ cleaner'.gone = {}
        BY <2>3 DEF RemoveMembers
    <3> QED
        BY <2>1, <3>1 DEF GroupOK
  <2>4. CASE CheckGroup \/ RemoveGroup
    <3>1. group' = group /\ cleaner'.gone = cleaner.gone
        BY <2>4 DEF CheckGroup, RemoveGroup, Base, TypeOK
    <3> QED
        BY <2>1, <3>1 DEF GroupOK
  <2>5. CASE ~CleanerNext
    <3>1. UNCHANGED <<group, cleaner>>
        BY <1>5, <2>5 DEF Next, vars, WorkerNext, ReadDependents, FinishParent, Touch, Run,
                          Expire
    <3> QED
        BY <2>1, <3>1 DEF GroupOK
  <2> QED
      BY <2>2, <2>3, <2>4, <2>5 DEF CleanerNext
<1> QED
    BY <1>2, <1>3, <1>4, <1>5

\* Group.enqueue_many against Group.cleanup and the end of the parents, for any
\* batches: a group whose members are enqueued in no other batch knows each job
\* of them that has a hash, but for one of which a worker read the dependencies
\* while they were being registered.
THEOREM GroupAlwaysKnows ==
    ASSUME \A c \in Grouped : GroupApart(c)
    PROVE  Spec => []GroupKnowsItsJobs
<1> DEFINE GroupInv ==
        \A c \in Grouped :
           /\ \A j \in Dependent[c] : MetOK(c, j)
           /\ \A j \in Plain[c] \cup Dependent[c] : GroupOK(c, j)
<1>1. Grouped \subseteq Clients
    BY BulkAssumption
<1>2. Init => GroupInv
  <2>1. ASSUME Init, NEW c \in Clients PROVE client[c].pc = "unique"
      BY <2>1 DEF Init, Start
  <2>2. Init => group = {} /\ cleaner.gone = {}
      BY DEF Init
  <2> QED
      BY <1>1, <2>1, <2>2, OnceInit DEF GroupOK
<1>3. Base /\ GroupInv /\ [Next]_vars => GroupInv'
  <2> SUFFICES ASSUME Base, GroupInv, [Next]_vars, NEW c \in Grouped
               PROVE  /\ \A j \in Dependent[c] : MetOK(c, j)'
                      /\ \A j \in Plain[c] \cup Dependent[c] : GroupOK(c, j)'
      OBVIOUS
  <2>1. GroupApart(c) /\ Apart(c) /\ c \in Clients
      BY <1>1 DEF GroupApart
  <2>2. \A j \in Dependent[c] : MetOK(c, j)'
      BY <2>1, MetNext
  <2>3. \A j \in Plain[c] \cup Dependent[c] : GroupOK(c, j)'
      BY <2>1, GroupNext
  <2> QED
      BY <2>2, <2>3
<1>4. GroupInv => GroupKnowsItsJobs
  <2> SUFFICES ASSUME GroupInv, NEW c \in Grouped, client[c].pc = "done",
                      NEW j \in (Plain[c] \cup Dependent[c]) \ partial, status[j] # "absent"
               PROVE  j \in group
      BY DEF GroupKnowsItsJobs
  <2>1. GroupOK(c, j)
      OBVIOUS
  <2> QED
      BY <2>1 DEF GroupOK
<1> QED
    BY <1>2, <1>3, <1>4, BaseInit, BaseNext, PTL DEF Spec

=============================================================================
