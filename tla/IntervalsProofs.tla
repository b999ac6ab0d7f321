-------------------------- MODULE IntervalsProofs --------------------------
(***************************************************************************)
(* Proofs about Intervals, for any plans.                                  *)
(***************************************************************************)
EXTENDS Intervals, SequenceTheorems, TLAPS

\* The counters count what has been waited for, and the k-th retry took the
\* interval that was due with retries - k + 1 retries left.
Inv ==
    /\ TypeOK
    /\ Len(retried) = plan.retries - retriesLeft
    /\ Len(repeated) = plan.times - repeatsLeft
    /\ Len(returned) <= plan.max
    /\ \A k \in 1..Len(retried) :
          retried[k] = RetryInterval(plan.retryIntervals, plan.retries - k + 1)

\* get_retry_interval: with a retry left, the index is one of a list that is not
\* empty (with none left it would be its length).
LEMMA RetryIndexInList ==
    ASSUME NEW s \in Seq(Nat), s # <<>>, NEW left \in Nat \ {0}
    PROVE  RetryIndex(s, left) \in 0..(Len(s) - 1)
<1>1. Len(s) \in Nat \ {0}
    OBVIOUS
<1> QED
    BY <1>1 DEF RetryIndex

\* get_retry_interval returns an interval of the list, if its index is in it.
LEMMA RetryIntervalInList ==
    ASSUME NEW s \in Seq(Nat), NEW left \in Nat, RetryIndex(s, left) < Len(s)
    PROVE  RetryInterval(s, left) \in Nat
<1>1. Len(s) \in Nat
    OBVIOUS
<1>2. RetryIndex(s, left) \in Nat
    BY <1>1 DEF RetryIndex
<1>3. RetryIndex(s, left) + 1 \in 1..Len(s)
    BY <1>1, <1>2
<1>4. s[RetryIndex(s, left) + 1] \in Nat
    BY <1>3
<1> QED
    BY <1>4 DEF RetryInterval

\* Repeat.get_interval returns an interval of the list, if it is not empty.
LEMMA RepeatIntervalInList ==
    ASSUME NEW s \in Seq(Nat), s # <<>>, NEW count \in Nat
    PROVE  RepeatInterval(count, s) \in Nat
<1>1. Len(s) \in Nat \ {0}
    OBVIOUS
<1>2. CASE count >= Len(s)
    BY <1>1, <1>2 DEF RepeatInterval
<1>3. CASE ~(count >= Len(s))
  <2>1. count + 1 \in 1..Len(s)
    BY <1>1, <1>3
  <2> QED
    BY <1>3, <2>1 DEF RepeatInterval
<1> QED
    BY <1>2, <1>3

\* Retry.get_interval returns 0 or an interval of the list.
LEMMA ReturnedIntervalInList ==
    ASSUME NEW s \in Seq(Nat), NEW count \in Nat
    PROVE  ReturnedInterval(count, s) \in Nat
<1>1. CASE s = <<>>
    BY <1>1 DEF ReturnedInterval
<1>2. CASE s # <<>>
  <2>1. Len(s) \in Nat \ {0}
    BY <1>2
  <2> DEFINE i == (IF count < Len(s) - 1 THEN count ELSE Len(s) - 1) + 1
  <2>2. i \in 1..Len(s)
    BY <2>1
  <2>3. s[i] \in Nat
    BY <2>2
  <2> QED
    BY <1>2, <2>3 DEF ReturnedInterval
<1> QED
    BY <1>1, <1>2

\* Inv holds at first: nothing has been waited for.
LEMMA InitInv ==
    ASSUME Plans \subseteq Plan, Init
    PROVE  Inv
<1>1. plan \in Plan /\ plan.retries \in Nat /\ plan.times \in Nat /\ plan.max \in Nat
    BY DEF Init, Plan
<1>2. TypeOK
    BY <1>1 DEF Init, TypeOK
<1> QED
    BY <1>1, <1>2 DEF Init, Inv

\* Every step keeps Inv.
LEMMA NextInv ==
    ASSUME Inv, [Next]_vars
    PROVE  Inv'
<1>0. /\ plan \in Plan /\ plan.retries \in Nat /\ plan.retryIntervals \in Seq(Nat)
      /\ plan.times \in Nat /\ plan.repeatIntervals \in Seq(Nat)
      /\ plan.max \in Nat \ {0} /\ plan.returnedIntervals \in Seq(Nat)
      /\ retriesLeft \in 0..plan.retries /\ repeatsLeft \in 0..plan.times
      /\ retried \in Seq(Nat) /\ repeated \in Seq(Nat) /\ returned \in Seq(Nat)
      /\ state \in {"running", "failed", "finished", "error"}
      /\ Len(retried) = plan.retries - retriesLeft
      /\ Len(repeated) = plan.times - repeatsLeft
      /\ Len(returned) <= plan.max
    BY DEF Inv, TypeOK, Plan
<1>1. CASE Retry
  <2> DEFINE inList == RetryIndex(plan.retryIntervals, retriesLeft) < Len(plan.retryIntervals)
  <2>1. CASE ~inList
    BY <1>1, <2>1 DEF Retry, Inv, TypeOK
  <2>2. CASE inList
    <3> DEFINE w == RetryInterval(plan.retryIntervals, retriesLeft)
    <3>1. w \in Nat /\ retriesLeft \in Nat \ {0}
      <4>1. retriesLeft \in Nat \ {0}
        <5>1. plan.retries \in Nat /\ retriesLeft \in 0..plan.retries
          BY ONLY <1>0
        <5>2. retriesLeft > 0
          BY ONLY <1>1 DEF Retry
        <5> QED
          BY ONLY <5>1, <5>2
      <4> QED
          BY ONLY <1>0, <4>1, <2>2, RetryIntervalInList
    <3>2. /\ retried' = Append(retried, w) /\ retriesLeft' = retriesLeft - 1
          /\ plan' = plan /\ state' = state /\ repeatsLeft' = repeatsLeft
          /\ repeated' = repeated /\ returned' = returned
        BY <1>1, <2>2 DEF Retry
    <3>a. /\ retried' \in Seq(Nat) /\ Len(retried') = Len(retried) + 1
          /\ \A k \in 1..Len(retried) : retried'[k] = retried[k]
          /\ retried'[Len(retried) + 1] = w
      <4> HIDE DEF w
      <4> QED
          BY ONLY <1>0, <3>1, <3>2, AppendProperties
    <3>3. \A k \in 1..Len(retried') :
             retried'[k] = RetryInterval(plan.retryIntervals, plan.retries - k + 1)
      <4> SUFFICES ASSUME NEW k \in 1..Len(retried')
                   PROVE  retried'[k] = RetryInterval(plan.retryIntervals, plan.retries - k + 1)
          OBVIOUS
      <4>1. CASE k \in 1..Len(retried)
        <5>1. retried'[k] = retried[k]
            BY ONLY <3>a, <4>1
        <5> QED
            BY ONLY <4>1, <5>1, Inv DEF Inv
      <4>2. CASE k = Len(retried) + 1
        <5>1. retried'[k] = w
          <6> HIDE DEF w
          <6> QED
            BY ONLY <3>a, <4>2
        <5>2. plan.retries - k + 1 = retriesLeft
          <6>1. /\ Len(retried) \in Nat /\ retriesLeft \in Nat /\ plan.retries \in Nat
                /\ Len(retried) = plan.retries - retriesLeft
              BY ONLY <1>0
          <6> QED
              BY ONLY <4>2, <6>1
        <5> QED
            BY ONLY <5>1, <5>2 DEF w
      <4>3. k \in 1..Len(retried) \/ k = Len(retried) + 1
        <5>1. Len(retried) \in Nat /\ k \in 1..(Len(retried) + 1)
          <6> HIDE DEF w
          <6> QED
            BY ONLY <1>0, <3>a, k \in 1..Len(retried')
        <5> QED
            BY ONLY <5>1
      <4> QED
          BY ONLY <4>1, <4>2, <4>3
    <3> HIDE DEF w
    <3>4. TypeOK'
      <4>1. retriesLeft' \in 0..plan'.retries
          BY ONLY <1>0, <3>1, <3>2
      <4> QED
          BY ONLY <1>0, <3>2, <3>a, <4>1 DEF TypeOK
    <3>5. Len(retried') = plan'.retries - retriesLeft'
      <4>1. Len(retried) \in Nat
          BY ONLY <1>0
      <4> QED
          BY ONLY <1>0, <3>1, <3>2, <3>a, <4>1
    <3>6. /\ Len(repeated') = plan'.times - repeatsLeft'
          /\ Len(returned') <= plan'.max
        BY ONLY <1>0, <3>2
    <3>7. \A k \in 1..Len(retried') :
             retried'[k] = RetryInterval(plan'.retryIntervals, plan'.retries - k + 1)
        BY ONLY <3>2, <3>3
    <3> QED
        BY ONLY <3>4, <3>5, <3>6, <3>7 DEF Inv
  <2> QED
    BY <2>1, <2>2
<1>2. CASE Fail
    BY <1>2 DEF Fail, Inv, TypeOK
<1>3. CASE Repeat
  <2> DEFINE w == IF plan.repeatIntervals = <<>> THEN 0
                  ELSE RepeatInterval(repeatsLeft - 1, plan.repeatIntervals)
  <2>1. repeatsLeft - 1 \in Nat
    BY <1>0, <1>3 DEF Repeat
  <2>2. w \in Nat
    BY ONLY <1>0, <2>1, RepeatIntervalInList
  <2>3. /\ repeated' = Append(repeated, w) /\ repeatsLeft' = repeatsLeft - 1
        /\ plan' = plan /\ state' = state /\ retriesLeft' = retriesLeft
        /\ retried' = retried /\ returned' = returned
    BY <1>3 DEF Repeat
  <2> HIDE DEF w
  <2>a. repeated' \in Seq(Nat) /\ Len(repeated') = Len(repeated) + 1
    BY ONLY <1>0, <2>2, <2>3, AppendProperties
  <2>4. TypeOK'
    <3>1. repeatsLeft' \in 0..plan'.times
      BY ONLY <1>0, <2>1, <2>3
    <3> QED
      BY ONLY <1>0, <2>3, <2>a, <3>1 DEF TypeOK
  <2>5. Len(repeated') = plan'.times - repeatsLeft'
    <3>1. Len(repeated) \in Nat
      BY ONLY <1>0
    <3> QED
      BY ONLY <1>0, <2>1, <2>3, <2>a, <3>1
  <2>6. /\ Len(retried') = plan'.retries - retriesLeft'
        /\ Len(returned') <= plan'.max
    BY ONLY <1>0, <2>3
  <2>7. \A k \in 1..Len(retried') :
           retried'[k] = RetryInterval(plan'.retryIntervals, plan'.retries - k + 1)
    BY ONLY <2>3, Inv DEF Inv
  <2> QED
    BY ONLY <2>4, <2>5, <2>6, <2>7 DEF Inv
<1>4. CASE Finish
    BY <1>4 DEF Finish, Inv, TypeOK
<1>5. CASE ReturnRetry
  <2>1. CASE returned # <<>> /\ Len(returned) >= plan.max
    BY <1>5, <2>1 DEF ReturnRetry, Inv, TypeOK
  <2>2. CASE ~(returned # <<>> /\ Len(returned) >= plan.max)
    <3> DEFINE w == ReturnedInterval(Len(returned), plan.returnedIntervals)
    <3>1. w \in Nat
      <4>1. Len(returned) \in Nat
          BY <1>0
      <4> QED
          BY ONLY <1>0, <4>1, ReturnedIntervalInList
    <3>2. /\ returned' = Append(returned, w)
          /\ plan' = plan /\ state' = state /\ retriesLeft' = retriesLeft
          /\ repeatsLeft' = repeatsLeft /\ retried' = retried /\ repeated' = repeated
        BY <1>5, <2>2 DEF ReturnRetry
    <3> HIDE DEF w
    <3>3. Len(returned) + 1 <= plan.max
        BY <1>0, <2>2
    <3>4. TypeOK'
        BY <1>0, <3>1, <3>2 DEF TypeOK
    <3>5. Len(returned') <= plan.max
        BY <1>0, <3>1, <3>2, <3>3
    <3> QED
        BY <3>2, <3>4, <3>5 DEF Inv
  <2> QED
    BY <2>1, <2>2
<1>6. CASE UNCHANGED vars
    BY <1>6 DEF vars, Inv, TypeOK
<1> QED
    BY <1>1, <1>2, <1>3, <1>4, <1>5, <1>6 DEF Next

\* Inv is an invariant.
LEMMA Invariant ==
    ASSUME Plans \subseteq Plan
    PROVE  Spec => []Inv
<1>1. Init => Inv
    BY InitInv
<1>2. Inv /\ [Next]_vars => Inv'
    BY NextInv
<1> QED
    BY <1>1, <1>2, PTL DEF Spec

\* Every interval that is waited for is an interval of a list.
THEOREM IntervalsTypeCorrect ==
    ASSUME Plans \subseteq Plan
    PROVE  Spec => []TypeOK
<1>1. Inv => TypeOK
    BY DEF Inv
<1> QED
    BY <1>1, Invariant, PTL

\* The job is run again at most once for each retry, repetition and Retry.
THEOREM Bounded ==
    ASSUME Plans \subseteq Plan
    PROVE  Spec => []RunsAreBounded
<1>1. Inv => RunsAreBounded
    BY DEF Inv, TypeOK, Plan, RunsAreBounded
<1> QED
    BY <1>1, Invariant, PTL

\* get_retry_interval: the last retries wait for the list, in order.
THEOREM RetriesTakeTheList ==
    ASSUME Plans \subseteq Plan
    PROVE  Spec => []RetriesEndWithTheList
<1>1. ASSUME Inv PROVE RetriesEndWithTheList
  <2> DEFINE s == plan.retryIntervals
             n == Len(s)
  <2>0. s \in Seq(Nat) /\ n \in Nat /\ plan.retries \in Nat
    BY <1>1 DEF Inv, TypeOK, Plan
  <2>1. SUFFICES ASSUME retriesLeft = 0, plan.retries >= n, NEW k \in 1..n
                 PROVE  retried[plan.retries - n + k] = s[k]
    BY DEF RetriesEndWithTheList
  <2> DEFINE i == plan.retries - n + k
  <2>a. Len(retried) = plan.retries
    <3>1. Len(retried) = plan.retries - retriesLeft
      BY <1>1 DEF Inv
    <3> QED
      BY ONLY <2>0, <2>1, <3>1
  <2>b. i >= 1 /\ i <= plan.retries /\ i \in Nat
    BY ONLY <2>0, <2>1
  <2>2. i \in 1..Len(retried)
    BY ONLY <2>0, <2>a, <2>b
  <2>3. retried[i] = RetryInterval(s, plan.retries - i + 1)
    BY <1>1, <2>2 DEF Inv
  <2>4. plan.retries - i + 1 = n - k + 1
    BY <2>0
  <2>5. RetryInterval(s, n - k + 1) = s[k]
    BY <2>0 DEF RetryInterval, RetryIndex
  <2> QED
    BY <2>3, <2>4, <2>5
<1> QED
    BY <1>1, Invariant, PTL

\* get_retry_interval: if no list is empty, no index is out of range, since a
\* job is retried only while it has retries left.
THEOREM IndexInRange ==
    ASSUME Plans \subseteq Plan, \A p \in Plans : p.retryIntervals # <<>>
    PROVE  Spec => []NoIndexError
<1> DEFINE I == Inv /\ plan \in Plans /\ NoIndexError
<1>1. Init => I
    BY InitInv DEF Init, NoIndexError
<1>2. ASSUME I, [Next]_vars PROVE I'
  <2>1. Inv'
    BY <1>2, NextInv
  <2>2. plan' \in Plans
    BY <1>2 DEF Next, Retry, Fail, Repeat, Finish, ReturnRetry, vars
  <2>3. CASE Retry
    <3>1. /\ plan.retryIntervals \in Seq(Nat) /\ plan.retryIntervals # <<>>
          /\ retriesLeft \in Nat \ {0}
      BY <1>2, <2>3 DEF Inv, TypeOK, Plan, Retry
    <3>2. RetryIndex(plan.retryIntervals, retriesLeft) \in 0..(Len(plan.retryIntervals) - 1)
      BY <3>1, RetryIndexInList
    <3>3. Len(plan.retryIntervals) \in Nat
      BY <3>1
    <3>4. RetryIndex(plan.retryIntervals, retriesLeft) < Len(plan.retryIntervals)
      BY <3>2, <3>3
    <3> QED
      BY <1>2, <2>1, <2>2, <2>3, <3>4 DEF Retry, NoIndexError
  <2>4. CASE Fail \/ Repeat \/ Finish \/ ReturnRetry \/ UNCHANGED vars
    BY <1>2, <2>1, <2>2, <2>4 DEF Fail, Repeat, Finish, ReturnRetry, vars, NoIndexError
  <2> QED
    BY <1>2, <2>3, <2>4 DEF Next
<1>3. I => NoIndexError
    OBVIOUS
<1> QED
    BY <1>1, <1>2, <1>3, PTL DEF Spec

=============================================================================
