----------------------------- MODULE Intervals -----------------------------
(***************************************************************************)
(* How long a job waits before it runs again: Retry given to enqueue(),    *)
(* Retry returned by the job, and Repeat.  One job is followed through all *)
(* its runs; a list of the code is indexed from 0, one of TLA+ from 1.     *)
(***************************************************************************)
EXTENDS Integers, Sequences

CONSTANT Plans      \* what the job may have been enqueued with

Plan == [retries : Nat, retryIntervals : Seq(Nat),      \* enqueue(retry=...)
         times : Nat, repeatIntervals : Seq(Nat),       \* enqueue(repeat=...)
         max : Nat \ {0}, returnedIntervals : Seq(Nat)] \* return Retry(...)

VARIABLES
    plan,
    state,          \* "running", or how the job ended
    retriesLeft, repeatsLeft,
    retried, repeated, returned     \* the intervals waited so far

vars == <<plan, state, retriesLeft, repeatsLeft, retried, repeated, returned>>

\* Job.get_retry_interval: max(number_of_intervals - retries_left, 0), and the
\* interval at that index.
RetryIndex(intervals, left) ==
    LET index == Len(intervals) - left IN IF index > 0 THEN index ELSE 0

RetryInterval(intervals, left) == intervals[RetryIndex(intervals, left) + 1]

\* Repeat.get_interval.
RepeatInterval(count, intervals) ==
    IF count >= Len(intervals) THEN intervals[Len(intervals)] ELSE intervals[count + 1]

\* Retry.get_interval.
ReturnedInterval(count, intervals) ==
    IF intervals = <<>> THEN 0
    ELSE intervals[(IF count < Len(intervals) - 1 THEN count ELSE Len(intervals) - 1) + 1]

Init ==
    /\ plan \in Plans
    /\ state = "running"
    /\ retriesLeft = plan.retries /\ repeatsLeft = plan.times
    /\ retried = <<>> /\ repeated = <<>> /\ returned = <<>>

\* The job raises and is retried.  An index that is not one of the list (any,
\* if the list is empty, which is not None) ends handle_job_failure with an
\* IndexError.
Retry ==
    /\ state = "running" /\ retriesLeft > 0
    /\ IF RetryIndex(plan.retryIntervals, retriesLeft) < Len(plan.retryIntervals)
       THEN /\ retried' = Append(retried, RetryInterval(plan.retryIntervals, retriesLeft))
            /\ retriesLeft' = retriesLeft - 1
            /\ UNCHANGED state
       ELSE state' = "error" /\ UNCHANGED <<retriesLeft, retried>>
    /\ UNCHANGED <<plan, repeatsLeft, repeated, returned>>

\* The job raises and has no retries left.
Fail ==
    /\ state = "running" /\ retriesLeft = 0
    /\ state' = "failed"
    /\ UNCHANGED <<plan, retriesLeft, repeatsLeft, retried, repeated, returned>>

\* Repeat.schedule after a success: the count is of the repeats that are left.
Repeat ==
    /\ state = "running" /\ repeatsLeft > 0
    /\ repeated' = Append(repeated, IF plan.repeatIntervals = <<>> THEN 0
                          ELSE RepeatInterval(repeatsLeft - 1, plan.repeatIntervals))
    /\ repeatsLeft' = repeatsLeft - 1
    /\ UNCHANGED <<plan, state, retriesLeft, retried, returned>>

Finish ==
    /\ state = "running" /\ repeatsLeft = 0
    /\ state' = "finished"
    /\ UNCHANGED <<plan, retriesLeft, repeatsLeft, retried, repeated, returned>>

\* handle_job_retry: number_of_retries is the length of returned.
ReturnRetry ==
    /\ state = "running"
    /\ IF returned # <<>> /\ Len(returned) >= plan.max
       THEN state' = "failed" /\ UNCHANGED returned
       ELSE /\ returned' = Append(returned,
                   ReturnedInterval(Len(returned), plan.returnedIntervals))
            /\ UNCHANGED state
    /\ UNCHANGED <<plan, retriesLeft, repeatsLeft, retried, repeated>>

Next == Retry \/ Fail \/ Repeat \/ Finish \/ ReturnRetry

Spec == Init /\ [][Next]_vars

-----------------------------------------------------------------------------
(* Properties.                                                             *)

\* Every variable has its type: every interval waited for is one of a list.
TypeOK ==
    /\ plan \in Plan
    /\ state \in {"running", "failed", "finished", "error"}
    /\ retriesLeft \in 0..plan.retries /\ repeatsLeft \in 0..plan.times
    /\ retried \in Seq(Nat) /\ repeated \in Seq(Nat) /\ returned \in Seq(Nat)

\* should_retry, repeats_left and the check of handle_job_retry: whatever order
\* the job raises, returns Retry and succeeds in, it runs for each retry, each
\* repetition and each Retry it may return at most once more.
RunsAreBounded ==
    /\ Len(retried) <= plan.retries
    /\ Len(repeated) <= plan.times
    /\ Len(returned) <= plan.max

\* get_retry_interval: a job that has used up its retries, of which there are
\* at least as many as intervals, has waited for the whole list, in order, at
\* the end (and for the first interval before).
RetriesEndWithTheList ==
    LET n == Len(plan.retryIntervals) IN
    retriesLeft = 0 /\ plan.retries >= n =>
        \A k \in 1..n : retried[plan.retries - n + k] = plan.retryIntervals[k]

\* get_retry_interval: whatever counters and list the job has and however often
\* it was retried, the index is one of the list.
NoIndexError == state # "error"

\* Repeat: the k-th repetition waits for the k-th interval, or for the last one
\* if the list is shorter.
RepeatsFollowTheList ==
    LET n == Len(plan.repeatIntervals) IN
    \A k \in DOMAIN repeated : n > 0 =>
        repeated[k] = plan.repeatIntervals[IF k < n THEN k ELSE n]

=============================================================================
