-------------------------- MODULE WorkerPoolProofs --------------------------
(***************************************************************************)
(* For any number of workers, signals and deaths: the pool has at most     *)
(* num_workers, and start() returns only when none is left.                *)
(***************************************************************************)
EXTENDS WorkerPool, FiniteSetTheorems, TLAPS

\* A loop of start_workers starts at most as many as there is room for.
CountOK ==
    /\ IsFiniteSet(workerDict)
    /\ Cardinality(workerDict) <= NumWorkers
    /\ pc \in {"start", "respawn", "gone"} => Cardinality(workerDict) + left <= NumWorkers
    /\ forked # None => left > 0 /\ pc \in {"start", "respawn", "gone"}

\* worker_dict has every worker that lives, but for the one that is on its way.
BookOK ==
    /\ Living \subseteq workerDict \cup {forked}
    /\ pc = "exit" => workerDict = {}

Inv == TypeOK /\ CountOK /\ BookOK

-----------------------------------------------------------------------------
\* The invariant at the start.
LEMMA InitInv == Init => Inv
<1> SUFFICES ASSUME Init PROVE Inv
    OBVIOUS
<1>1. TypeOK
  <2>1. left \in 0..NumWorkers /\ signals \in 0..Signals /\ crashes \in 0..Crashes
      BY PoolAssumption DEF Init
  <2>2. known \in [Workers -> SUBSET Workers]
      BY DEF Init
  <2> QED
      BY <2>1, <2>2 DEF Init, TypeOK
<1>2. CountOK
    BY FS_EmptySet, PoolAssumption DEF Init, CountOK
<1>3. BookOK
    BY DEF Init, BookOK, Living, Alive
<1> QED
    BY <1>1, <1>2, <1>3 DEF Inv

\* The workers, and what happens to them.
LEMMA WorkersInv ==
    ASSUME Inv, NEW w \in Workers, WorkerNext(w) \/ StartJob(w) \/ Crash(w)
    PROVE  Inv'
<1>1. Alive(w) \/ w \in pending
    BY DEF WorkerNext, Boot, EndJob, Exit, HandleDefault, HandleInherited, HandleStop,
           StartJob, Crash, Alive
<1>2. /\ UNCHANGED <<pool, burst, status, known, signals>>
      /\ crashes' \in 0..Crashes
      /\ handler' \in [Workers -> {"default", "pool", "worker"}]
      /\ pending' \subseteq Workers
    BY PoolAssumption
    DEF Inv, TypeOK, WorkerNext, Boot, EndJob, Exit, HandleDefault, HandleInherited,
        HandleStop, StartJob, Crash
<1>3. \E s \in {"boot", "idle", "busy", "finishing", "leaving", "dead"} :
         /\ state' = [state EXCEPT ![w] = s] \/ UNCHANGED state
         /\ s # "dead" => Alive(w)
    BY DEF WorkerNext, Boot, EndJob, Exit, HandleDefault, HandleInherited, HandleStop,
           StartJob, Crash, Become, Alive
<1>4. TypeOK'
    BY <1>2, <1>3 DEF Inv, TypeOK, pool
<1>5. Living' \subseteq Living
    BY <1>3 DEF Inv, TypeOK, Living, Alive
<1>6. CountOK' /\ BookOK'
    BY <1>2, <1>5 DEF Inv, CountOK, BookOK, pool
<1> QED
    BY <1>4, <1>6 DEF Inv

\* start_workers and check_workers.
LEMMA StartInv ==
    ASSUME Inv, Enter \/ InstallHandlers \/ Respawn \/ \E w \in Workers : Fork(w)
    PROVE  Inv'
<1> DEFINE n == Cardinality(workerDict)
<1>0. TypeOK /\ CountOK /\ BookOK /\ n \in Nat /\ NumWorkers \in Nat
    BY FS_CardinalityType, PoolAssumption DEF Inv, CountOK
<1>1. CASE Enter
  <2>1. /\ IsFiniteSet(workerDict \cup {forked})
        /\ Cardinality(workerDict \cup {forked}) \in {n, n + 1}
      BY <1>0, FS_AddElement DEF CountOK
  <2>2. /\ left > 0 /\ left \in Nat /\ n + left <= NumWorkers
        /\ workerDict' = workerDict \cup {forked} /\ left' = left - 1 /\ forked' = None
        /\ pc \in {"start", "respawn"} /\ forked \in Workers
      BY <1>0, <1>1 DEF Enter, CountOK, TypeOK
  <2>3. Cardinality(workerDict') + left' <= NumWorkers /\ Cardinality(workerDict') <= NumWorkers
      BY <1>0, <2>1, <2>2
  <2>4. TypeOK'
      BY <1>0, <1>1, <2>2 DEF Enter, TypeOK
  <2>5. CountOK'
      BY <2>1, <2>2, <2>3 DEF CountOK
  <2>6. BookOK'
      BY <1>0, <1>1, <2>2 DEF Enter, BookOK, Living, Alive
  <2> QED
      BY <2>4, <2>5, <2>6 DEF Inv
<1>2. CASE InstallHandlers
  <2>1. TypeOK'
      BY <1>0, <1>2 DEF InstallHandlers, TypeOK
  <2>2. CountOK' /\ BookOK'
      BY <1>0, <1>2 DEF InstallHandlers, TypeOK, CountOK, BookOK, Living, Alive
  <2> QED
      BY <2>1, <2>2 DEF Inv
<1>3. CASE Respawn
  <2>1. left' = NumWorkers - n /\ left' \in 0..NumWorkers /\ forked = None
      BY <1>0, <1>3 DEF Respawn, CountOK
  <2>2. TypeOK'
      BY <1>0, <1>3, <2>1 DEF Respawn, TypeOK
  <2>3. CountOK' /\ BookOK'
      BY <1>0, <1>3, <2>1 DEF Respawn, CountOK, BookOK, Living, Alive
  <2> QED
      BY <2>2, <2>3 DEF Inv
<1>4. ASSUME NEW w \in Workers, Fork(w)
      PROVE  Inv'
  <2>1. TypeOK'
      BY <1>0, <1>4 DEF Fork, TypeOK
  <2>2. CountOK'
      BY <1>0, <1>4 DEF Fork, CountOK
  <2>3. Living' \subseteq Living \cup {w}
      BY <1>0, <1>4 DEF Fork, TypeOK, Living, Alive
  <2>4. BookOK'
      BY <1>0, <1>4, <2>3, PoolAssumption DEF Fork, BookOK, Living
  <2> QED
      BY <2>1, <2>2, <2>4 DEF Inv
<1> QED
    BY <1>1, <1>2, <1>3, <1>4

\* The loop of start(), and the signal.
LEMMA LoopInv ==
    ASSUME Inv, Loop \/ EndRound \/ Wake \/ RequestStop \/ \E w \in Workers : Reap(w)
    PROVE  Inv'
<1> DEFINE n == Cardinality(workerDict)
<1>0. TypeOK /\ CountOK /\ BookOK /\ n \in Nat /\ NumWorkers \in Nat
    BY FS_CardinalityType, PoolAssumption DEF Inv, CountOK
<1>1. CASE Loop
  <2>1. TypeOK'
      BY <1>0, <1>1 DEF Loop, TypeOK
  <2>2. CountOK' /\ BookOK'
      BY <1>0, <1>1 DEF Loop, CountOK, BookOK, Living, Alive
  <2> QED
      BY <2>1, <2>2 DEF Inv
<1>2. CASE EndRound
  <2>1. TypeOK'
      BY <1>0, <1>2 DEF EndRound, TypeOK
  <2>2. forked = None
      BY <1>0, <1>2 DEF EndRound, CountOK
  <2>3. CountOK' /\ BookOK'
      BY <1>0, <1>2, <2>2 DEF EndRound, CountOK, BookOK, Living, Alive
  <2> QED
      BY <2>1, <2>3 DEF Inv
<1>3. CASE Wake
  <2>1. TypeOK'
      BY <1>0, <1>3 DEF Wake, TypeOK
  <2>2. CountOK' /\ BookOK'
      BY <1>0, <1>3 DEF Wake, CountOK, BookOK, Living, Alive
  <2> QED
      BY <2>1, <2>2 DEF Inv
<1>4. CASE RequestStop
  <2>1. signals' \in 0..Signals
      BY <1>0, <1>4, PoolAssumption DEF RequestStop, TypeOK
  <2>2. TypeOK'
      BY <1>0, <1>4, <2>1 DEF RequestStop, TypeOK
  <2>3. CountOK' /\ BookOK'
      BY <1>0, <1>4 DEF RequestStop, CountOK, BookOK, Living, Alive
  <2> QED
      BY <2>2, <2>3 DEF Inv
<1>5. ASSUME NEW w \in Workers, Reap(w)
      PROVE  Inv'
  <2>1. TypeOK'
      BY <1>0, <1>5 DEF Reap, TypeOK
  <2>2. /\ IsFiniteSet(workerDict \ {w})
        /\ Cardinality(workerDict \ {w}) \in Nat
        /\ Cardinality(workerDict \ {w}) <= n
    <3>1. IsFiniteSet(workerDict \ {w})
        BY <1>0, FS_RemoveElement DEF CountOK
    <3> QED
        BY <1>0, <3>1, FS_CardinalityType, FS_Subset DEF CountOK
  <2>3. CountOK'
      BY <1>0, <1>5, <2>2 DEF Reap, CountOK
  <2>4. BookOK'
      BY <1>0, <1>5 DEF Reap, BookOK, Living, Alive
  <2> QED
      BY <2>1, <2>3, <2>4 DEF Inv
<1> QED
    BY <1>1, <1>2, <1>3, <1>4, <1>5

\* Every step keeps the invariant.
LEMMA NextInv ==
    ASSUME Inv, [Next]_vars
    PROVE  Inv'
<1>1. CASE UNCHANGED vars
    BY <1>1 DEF vars, pool, Inv, TypeOK, CountOK, BookOK, Living, Alive
<1>2. CASE Next
    BY <1>1, <1>2, WorkersInv, StartInv, LoopInv DEF Next, PoolNext, Done
<1> QED
    BY <1>1, <1>2

\* The invariant, always.
LEMMA Invariance == Spec => []Inv
BY InitInv, NextInv, PTL DEF Spec

-----------------------------------------------------------------------------
\* WorkerPool and its workers keep the types of their variables.
THEOREM PoolTypeCorrect == Spec => []TypeOK
<1>1. Inv => TypeOK
    BY DEF Inv
<1> QED
    BY <1>1, Invariance, PTL

\* check_workers: workers that die while it counts are only missed, and those
\* that it starts were missing: there are never more than num_workers.
THEOREM PoolIsBounded == Spec => []NeverTooMany
<1>1. ASSUME Inv PROVE NeverTooMany
  <2> DEFINE n == Cardinality(workerDict)
  <2>0. /\ TypeOK /\ CountOK /\ BookOK /\ n \in Nat /\ NumWorkers \in Nat
        /\ IsFiniteSet(workerDict)
      BY <1>1, FS_CardinalityType, PoolAssumption DEF Inv, CountOK
  <2>1. CASE forked = None
    <3>1. Living \subseteq workerDict
        BY <2>0, <2>1, PoolAssumption DEF BookOK, Living
    <3>2. IsFiniteSet(Living) /\ Cardinality(Living) <= n
        BY <2>0, <3>1, FS_Subset
    <3> QED
        BY <2>0, <3>2, FS_CardinalityType DEF CountOK, NeverTooMany
  <2>2. CASE forked # None
    <3>1. n + 1 <= NumWorkers
        BY <2>0, <2>2 DEF CountOK, TypeOK
    <3>2. /\ IsFiniteSet(workerDict \cup {forked})
          /\ Cardinality(workerDict \cup {forked}) <= n + 1
          /\ Cardinality(workerDict \cup {forked}) \in Nat
        BY <2>0, FS_AddElement
    <3>3. IsFiniteSet(Living) /\ Cardinality(Living) <= Cardinality(workerDict \cup {forked})
        BY <2>0, <3>2, FS_Subset DEF BookOK
    <3> QED
        BY <2>0, <3>1, <3>2, <3>3, FS_CardinalityType DEF NeverTooMany
  <2> QED
      BY <2>1, <2>2
<1> QED
    BY <1>1, Invariance, PTL

\* start() returns, and with it the pool, only after its last worker.
THEOREM PoolLeavesLast == Spec => []LastToLeave
<1>1. ASSUME Inv PROVE LastToLeave
  <2>1. CASE pc = "exit"
    <3>1. forked = None /\ workerDict = {}
        BY <1>1, <2>1 DEF Inv, CountOK, BookOK
    <3> QED
        BY <1>1, <3>1, PoolAssumption DEF Inv, BookOK, Living, LastToLeave
  <2> QED
      BY <2>1 DEF LastToLeave
<1> QED
    BY <1>1, Invariance, PTL
=============================================================================
