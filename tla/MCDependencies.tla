--------------------------- MODULE MCDependencies ---------------------------
(***************************************************************************)
(* Instances of Dependencies for TLC.                                      *)
(***************************************************************************)
EXTENDS Dependencies, TLC

CONSTANTS
    a, b, x,        \* jobs: x depends on a and b
    c1, w1, w2, m   \* actors

CONSTANTS Fails, Stops, Cancels, Requeues, Crashes, RepeatA, RetryB, TTLA, TTLB, TTLX

MCDependsOn == [j \in {a, b, x} |-> IF j = x THEN {a, b} ELSE {}]
MCResultTTL == [j \in {a, b, x} |-> CASE j = a -> TTLA [] j = b -> TTLB
                                     [] j = x -> TTLX]
MCRetry == [j \in {a, b, x} |-> IF j = b THEN RetryB ELSE 0]
MCRepeat == [j \in {a, b, x} |-> IF j = a THEN RepeatA ELSE 0]
MCBudget == [fail |-> Fails, stop |-> Stops, cancel |-> Cancels,
             requeue |-> Requeues, crash |-> Crashes]
\* The workers are alike.
WorkerSymmetry == Permutations({w1, w2})

=============================================================================
