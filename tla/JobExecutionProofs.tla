------------------------- MODULE JobExecutionProofs -------------------------
(***************************************************************************)
(* Theorems about JobExecution, for every set of workers and every number  *)
(* of failures, kills and signals.                                         *)
(***************************************************************************)
EXTENDS JobExecution, TLAPS

\* What TimeoutsStayInside rests on: no timer thread ever raises in a horse, an
\* alarm is on only between signal.alarm and alarm(0), and there the handler is
\* that of the death penalty.
TimerInv ==
    /\ timer.fired => kind = "thread"
    /\ kind = "fork" =>
          /\ ~stray
          /\ timer.armed => horse.pc \in {"body", "exit", "cancel"} \cup Ends
          /\ timer.armed \/ horse.pc \in {"arm", "body", "exit", "cancel"} =>
                timer.handler = "timeout"

Inv == TypeOK /\ TimerInv

Blocks == {"none", "job", "onSuccess", "onFailure"}
Results == {"none", "value", "retry", "error"}

\* The type of horse, a part of TypeOK.
HorseOK(h) ==
    /\ h \in [pc : HorsePCs, block : Blocks, exc : BOOLEAN, result : Results]
    /\ h.pc \in Within <=> h.block # "none"

-----------------------------------------------------------------------------
\* Outside of the with statements there is no block.
LEMMA ToOK ==
    ASSUME HorseOK(horse), NEW l \in HorsePCs \ Within
    PROVE  HorseOK(To(l)) /\ To(l).pc = l
BY DEF HorseOK, To, Blocks

\* A with statement is entered with its block.
LEMMA EnterOK ==
    ASSUME HorseOK(horse), NEW b \in Blocks \ {"none"}
    PROVE  HorseOK(Enter(b)) /\ Enter(b).pc = "install"
BY DEF HorseOK, Enter, HorsePCs, Within

\* A with statement is left for a place outside of all.
LEMMA LeaveOK ==
    ASSUME HorseOK(horse), horse.pc \in Within
    PROVE  /\ HorseOK(Leave) /\ Leave.pc \notin Within
           /\ \A b \in {horse.block} : /\ HorseOK(To(Escape(b)))
                                       /\ To(Escape(b)).pc \notin Within
<1>1. horse.block \in Blocks \ {"none"}
    BY DEF HorseOK
<1>2. /\ After(horse.block) \in HorsePCs \ Within
      /\ Escape(horse.block) \in HorsePCs \ Within
    BY <1>1 DEF After, Escape, HorsePCs, Within, Ends, Blocks
<1> QED
    BY <1>2, ToOK DEF Leave

\* An exception leads to a place in the type of horse, and from the body of a
\* with statement to that body or to __exit__.
LEMMA RaisedOK ==
    ASSUME HorseOK(horse), NEW t \in BOOLEAN, NEW h \in Raised(t)
    PROVE  /\ HorseOK(h)
           /\ h.pc \in Within => horse.pc = "body" /\ h.pc \in {"body", "exit"}
<1>1. CASE horse.pc = "body"
  <2>1. h = [horse EXCEPT !.pc = "exit", !.exc = TRUE] \/ h = horse
      BY <1>1 DEF Raised, At
  <2>2. HorseOK([horse EXCEPT !.pc = "exit", !.exc = TRUE])
      BY <1>1 DEF HorseOK, HorsePCs, Within, Blocks, Results
  <2>3. [horse EXCEPT !.pc = "exit", !.exc = TRUE].pc = "exit"
      BY DEF HorseOK
  <2> QED
      BY <1>1, <2>1, <2>2, <2>3
<1>2. CASE horse.pc \in Within \ {"body"}
  <2>1. h \in {Leave, To(Escape(horse.block))}
      BY <1>2 DEF Raised, At, Within
  <2> QED
      BY <1>2, <2>1, LeaveOK
<1>3. CASE horse.pc \notin Within
  <2>1. \E l \in {"except", "committed", "returned", "exit1"} : h = To(l)
      BY <1>3 DEF Raised, At, Within
  <2> QED
      BY <2>1, ToOK DEF HorsePCs, Within, Ends
<1> QED
    BY <1>1, <1>2, <1>3

-----------------------------------------------------------------------------
\* Nothing has happened.
LEMMA InitInv == Init => Inv
<1> SUFFICES ASSUME Init PROVE Inv
    OBVIOUS
<1>1. horse.pc = "start" /\ ~timer.armed /\ ~timer.fired /\ ~stray
    BY DEF Init
<1>2. HorseOK(horse)
    BY DEF Init, HorseOK, HorsePCs, Within, Blocks, Results
<1>3. monitor \in [pc : {"wait", "done"}, status : {"none"}, reaped : {FALSE}]
    BY DEF Init
<1>4. verdicts \in Seq({"success", "repeat", "failure", "retry"})
    BY DEF Init
<1>5. budget \in [Ops -> Nat] /\ kind \in Kinds
    BY ExecutionAssumption DEF Init
<1>6. TypeOK
    BY <1>2, <1>3, <1>4, <1>5 DEF Init, TypeOK, HorseOK, Blocks, Results
<1> QED
    BY <1>1, <1>6 DEF Inv, TimerInv

\* A budget stays a budget.
LEMMA SpendOK ==
    ASSUME TypeOK, NEW op \in Ops, Spend(op)
    PROVE  budget' \in [Ops -> Nat]
BY DEF TypeOK, Spend

\* What the variables but the horse and the timer have to be.
OthersOK ==
    /\ kind \in Kinds
    /\ verdicts \in Seq({"success", "repeat", "failure", "retry"})
    /\ monitor \in [pc : {"wait", "got", "judge", "stopped", "handle", "done", "quit"},
                    status : {"none", "ok", "bad"}, reaped : BOOLEAN]
    /\ stopped \in BOOLEAN
    /\ budget \in [Ops -> Nat]

TimerOK ==
    /\ timer \in [armed : BOOLEAN, handler : {"default", "timeout", "shutdown"},
                  fired : BOOLEAN, warned : BOOLEAN]
    /\ stray \in BOOLEAN

\* The parts of the invariant, by what they speak of.
LEMMA Parts == Inv <=> HorseOK(horse) /\ TimerOK /\ OthersOK /\ TimerInv
BY DEF Inv, TypeOK, HorseOK, TimerOK, OthersOK, Blocks, Results

\* The same after a step.
LEMMA NextParts == Inv' <=> HorseOK(horse') /\ TimerOK' /\ OthersOK' /\ TimerInv'
BY DEF Inv, TypeOK, HorseOK, TimerOK, OthersOK, Blocks, Results

\* Drops leads to its place and spends.
LEMMA DropsOK ==
    ASSUME Inv, NEW l \in HorsePCs \ Within, Drops(l)
    PROVE  /\ HorseOK(horse') /\ horse'.pc = l
           /\ budget' \in [Ops -> Nat] /\ UNCHANGED verdicts
BY Parts, ToOK, SpendOK DEF Drops, Ops, Inv

\* A step of perform_job outside of the with statements leads to a place
\* outside of them or to the beginning of one.
LEMMA PerformOK ==
    ASSUME Inv,
           Prepare \/ HandleExecutionEnded \/ Commit \/ Committed \/ HandleFailed
           \/ HandleException \/ HandleJobFailure \/ Return
    PROVE  Inv'
<1> DEFINE Outside == HorsePCs \ Within
           V == {"success", "repeat", "failure", "retry"}
<1>0. /\ HorseOK(horse) /\ TimerOK /\ OthersOK /\ TimerInv
      /\ budget \in [Ops -> Nat] /\ verdicts \in Seq(V)
    BY Parts DEF OthersOK
<1>1. Outside = Ends \cup {"start", "ended", "commit", "committed", "except",
                           "handlers", "fail", "returned"}
    BY DEF HorsePCs, Within, Ends
<1>2. \A v \in V : Append(verdicts, v) \in Seq(V)
    BY <1>0
<1>3. /\ HorseOK(horse') /\ horse'.pc \in Outside \cup {"install"}
      /\ verdicts' \in Seq(V) /\ budget' \in [Ops -> Nat]
      /\ horse.pc \in Outside \ Ends
      /\ UNCHANGED <<kind, timer, monitor, stopped, stray>>
  <2>1. CASE Prepare
      BY <2>1, <1>0, <1>1, EnterOK, DropsOK DEF Prepare, At, Blocks, Ends
  <2>2. CASE HandleExecutionEnded
      BY <2>2, <1>0, <1>1, EnterOK, ToOK, DropsOK DEF HandleExecutionEnded, At, Blocks, Ends
  <2>3. CASE Commit
    <3>1. PICK v \in V :
             \/ verdicts' = Append(verdicts, v) /\ horse' = To("committed") /\ UNCHANGED budget
             \/ /\ verdicts' = Append(verdicts, v)
                /\ horse' \in {To("except"), To("committed"), To("commit")}
                /\ Spend("lost")
             \/ Drops("except")
             \/ Drops("committed")
        BY <2>3 DEF Commit
    <3>2. Spend("lost") => budget' \in [Ops -> Nat]
        BY SpendOK DEF Ops, Inv
    <3>3. At("commit") /\ UNCHANGED <<kind, timer, monitor, stopped, stray>>
        BY <2>3 DEF Commit
    <3> QED
        BY <3>1, <3>2, <3>3, <1>0, <1>1, <1>2, ToOK, DropsOK DEF At, Ends
  <2>4. CASE Committed
      BY <2>4, <1>0, <1>1, ToOK DEF Committed, At, Ends
  <2>5. CASE HandleFailed
      BY <2>5, <1>0, <1>1, EnterOK, ToOK, DropsOK DEF HandleFailed, At, Blocks, Ends
  <2>6. CASE HandleException
      BY <2>6, <1>0, <1>1, ToOK DEF HandleException, At, Ends
  <2>7. CASE HandleJobFailure
      BY <2>7, <1>0, <1>1, <1>2, ToOK, DropsOK DEF HandleJobFailure, At, Ends
  <2>8. CASE Return
      BY <2>8, <1>0, <1>1, ToOK DEF Return, At, Ends
  <2> QED
      BY <2>1, <2>2, <2>3, <2>4, <2>5, <2>6, <2>7, <2>8
<1>4. TimerOK' /\ OthersOK'
    BY <1>0, <1>3 DEF TimerOK, OthersOK
<1>5. TimerInv'
    BY <1>0, <1>1, <1>3 DEF TimerInv, Within, Ends
<1> QED
    BY <1>3, <1>4, <1>5, NextParts

-----------------------------------------------------------------------------
\* The steps of a with statement.
LEMMA WithOK ==
    ASSUME Inv, WithNext
    PROVE  Inv'
<1>0. HorseOK(horse) /\ TimerOK /\ OthersOK /\ TimerInv
    BY Parts
<1>1. CASE Install
  <2>1. HorseOK(horse') /\ horse.pc = "install" /\ horse'.pc = "arm"
      BY <1>0, <1>1 DEF Install, At, HorseOK, HorsePCs, Within, Blocks, Results
  <2>2. TimerOK' /\ OthersOK'
      BY <1>0, <1>1 DEF Install, TimerOK, OthersOK
  <2>3. TimerInv'
      BY <1>0, <1>1, <2>1 DEF Install, TimerInv, TimerOK, Ends
  <2> QED
      BY <2>1, <2>2, <2>3, NextParts
<1>2. CASE Arm
  <2>1. HorseOK(horse') /\ horse.pc = "arm" /\ horse'.pc = "body"
      BY <1>0, <1>2 DEF Arm, At, HorseOK, HorsePCs, Within, Blocks, Results
  <2>2. TimerOK' /\ OthersOK'
      BY <1>0, <1>2 DEF Arm, TimerOK, OthersOK
  <2>3. TimerInv'
      BY <1>0, <1>2, <2>1 DEF Arm, TimerInv, TimerOK, Ends
  <2> QED
      BY <2>1, <2>2, <2>3, NextParts
<1>3. CASE Exit
  <2>1. HorseOK(horse') /\ horse.pc = "exit" /\ horse'.pc = "cancel"
      BY <1>0, <1>3 DEF Exit, At, HorseOK, HorsePCs, Within, Blocks, Results
  <2>2. TimerOK' /\ OthersOK'
      BY <1>0, <1>3 DEF Exit, TimerOK, OthersOK
  <2>3. TimerInv'
      BY <1>0, <1>3, <2>1 DEF Exit, TimerInv, Ends
  <2> QED
      BY <2>1, <2>2, <2>3, NextParts
<1>4. CASE Cancel
  <2>1. HorseOK(horse') /\ horse.pc = "cancel" /\ horse'.pc = "restore"
      BY <1>0, <1>4 DEF Cancel, At, HorseOK, HorsePCs, Within, Blocks, Results
  <2>2. TimerOK' /\ OthersOK' /\ ~timer'.armed /\ timer'.fired = timer.fired
      BY <1>0, <1>4 DEF Cancel, TimerOK, OthersOK
  <2>3. TimerInv'
      BY <1>0, <1>4, <2>1, <2>2 DEF Cancel, TimerInv, Ends
  <2> QED
      BY <2>1, <2>2, <2>3, NextParts
<1>5. CASE Restore
  <2>1. horse.pc = "restore" /\ HorseOK(horse') /\ horse'.pc \notin Within
      BY <1>0, <1>5, LeaveOK DEF Restore, At, Within
  <2>2. TimerOK' /\ OthersOK' /\ timer'.armed = timer.armed /\ timer'.fired = timer.fired
      BY <1>0, <1>5 DEF Restore, TimerOK, OthersOK
  <2>3. TimerInv'
      BY <1>0, <1>5, <2>1, <2>2 DEF Restore, TimerInv, Ends, Within
  <2> QED
      BY <2>1, <2>2, <2>3, NextParts
<1> QED
    BY <1>1, <1>2, <1>3, <1>4, <1>5 DEF WithNext

\* The body of a with statement, and what comes into it from outside.
LEMMA SignalsOK ==
    ASSUME Inv, BodyEnds \/ AlarmFires \/ TimerFires \/ AsyncException \/ Sigrtmin
    PROVE  Inv'
<1>0. HorseOK(horse) /\ TimerOK /\ OthersOK /\ TimerInv
    BY Parts
<1>1. CASE BodyEnds
  <2>1. HorseOK(horse') /\ horse.pc = "body" /\ horse'.pc = "exit"
      BY <1>0, <1>1 DEF BodyEnds, At, HorseOK, HorsePCs, Within, Blocks, Results
  <2>2. TimerOK' /\ OthersOK'
      BY <1>0, <1>1 DEF BodyEnds, TimerOK, OthersOK
  <2>3. TimerInv'
      BY <1>0, <1>1, <2>1 DEF BodyEnds, TimerInv, Ends
  <2> QED
      BY <2>1, <2>2, <2>3, NextParts
<1>2. CASE AlarmFires
  <2>1. /\ HorseOK(horse')
        /\ kind # "thread"
        /\ horse'.pc \in Within => horse.pc = "body" /\ horse'.pc \in {"body", "exit"}
    <3>1. (timer.handler = "timeout") \in BOOLEAN
        OBVIOUS
    <3>2. CASE timer.handler = "default"
        BY <1>0, <1>2, <3>2, ToOK DEF AlarmFires, HorsePCs, Within, Ends
    <3>3. CASE timer.handler # "default"
        BY <1>0, <1>2, <3>1, <3>3, RaisedOK DEF AlarmFires, Raise
    <3> QED
        BY <1>2, <3>2, <3>3 DEF AlarmFires
  <2>2. /\ TimerOK' /\ OthersOK'
        /\ ~timer'.armed /\ timer'.fired = timer.fired /\ timer'.handler = timer.handler
        /\ UNCHANGED kind
      BY <1>0, <1>2 DEF AlarmFires, Raise, TimerOK, OthersOK
  <2>3. kind = "fork" => ~stray'
      BY <1>0, <1>2 DEF AlarmFires, Raise, TimerInv, Alive, Ends
  <2>4. TimerInv'
      BY <1>0, <1>2, <2>1, <2>2, <2>3 DEF AlarmFires, TimerInv, Within
  <2> QED
      BY <2>1, <2>2, <2>4, NextParts
<1>3. CASE TimerFires
    BY <1>0, <1>3, NextParts DEF TimerFires, HorseOK, TimerOK, OthersOK, TimerInv
<1>4. CASE AsyncException
  <2>1. kind = "thread"
      BY <1>0, <1>4 DEF AsyncException, TimerInv
  <2>2. HorseOK(horse')
      BY <1>0, <1>4, RaisedOK DEF AsyncException, Raise
  <2>3. TimerOK' /\ OthersOK' /\ UNCHANGED kind
      BY <1>0, <1>4 DEF AsyncException, Raise, TimerOK, OthersOK
  <2> QED
      BY <2>1, <2>2, <2>3, NextParts DEF TimerInv
<1>5. CASE Sigrtmin
  <2>1. kind \in {"heroku", "imminent"} /\ UNCHANGED kind
      BY <1>5 DEF Sigrtmin
  <2>2. HorseOK(horse')
      BY <1>0, <1>5, RaisedOK DEF Sigrtmin, Raise
  <2>3. TimerOK' /\ timer'.fired = timer.fired
      BY <1>0, <1>5 DEF Sigrtmin, Raise, TimerOK
  <2>4. OthersOK'
      BY <1>0, <1>5, SpendOK DEF Sigrtmin, OthersOK, Ops, Inv
  <2> QED
      BY <1>0, <2>1, <2>2, <2>3, <2>4, NextParts DEF TimerInv
<1> QED
    BY <1>1, <1>2, <1>3, <1>4, <1>5

\* The monitor and the commands only look at the horse, or kill it.
LEMMA MonitorOK ==
    ASSUME Inv, MonitorNext \/ Interrupted \/ StopCommand \/ KillStopped \/ Kill
    PROVE  Inv'
<1> DEFINE V == {"success", "repeat", "failure", "retry"}
           M == [pc : {"wait", "got", "judge", "stopped", "handle", "done", "quit"},
                 status : {"none", "ok", "bad"}, reaped : BOOLEAN]
<1>0. HorseOK(horse) /\ TimerOK /\ OthersOK /\ TimerInv /\ monitor \in M
    BY Parts DEF OthersOK
<1>1. UNCHANGED <<kind, timer, stray>>
    BY DEF MonitorNext, WaitForHorse, Interrupted, Break, KillOverdue, Judge,
           ExecuteStoppedCallback, HandleFailure, StopCommand, KillStopped, Kill
<1>2. horse' \in {horse, To("killed")}
    BY DEF MonitorNext, WaitForHorse, Interrupted, Break, KillOverdue, Judge,
           ExecuteStoppedCallback, HandleFailure, StopCommand, KillStopped, Kill
<1>3. HorseOK(horse') /\ (horse' = horse \/ horse'.pc = "killed")
    BY <1>0, <1>2, ToOK DEF HorsePCs, Within, Ends
<1>4. TimerOK' /\ TimerInv'
    BY <1>0, <1>1, <1>3 DEF TimerOK, TimerInv, Ends
<1>5. OthersOK'
  <2>1. \A l \in {"wait", "got", "judge", "stopped", "handle", "done", "quit"} : Watch(l) \in M
      BY <1>0 DEF Watch
  <2>2. monitor' \in M
    <3>1. CASE WaitForHorse
        BY <3>1, <1>0 DEF WaitForHorse
    <3>2. CASE KillOverdue
        BY <3>2, <1>0 DEF KillOverdue
    <3>3. CASE ~WaitForHorse /\ ~KillOverdue
        BY <3>3, <1>0, <2>1
        DEF MonitorNext, Interrupted, Break, Judge, ExecuteStoppedCallback,
            HandleFailure, StopCommand, KillStopped, Kill
    <3> QED
        BY <3>1, <3>2, <3>3
  <2>3. budget' \in [Ops -> Nat]
    <3>1. UNCHANGED budget \/ \E op \in Ops : Spend(op)
        BY DEF MonitorNext, WaitForHorse, Interrupted, Break, KillOverdue, Judge,
               ExecuteStoppedCallback, HandleFailure, StopCommand, KillStopped, Kill, Ops
    <3> QED
        BY <1>0, <3>1, SpendOK DEF OthersOK, Inv
  <2>4. \A v \in V : Append(verdicts, v) \in Seq(V)
      BY <1>0 DEF OthersOK
  <2>5. verdicts' \in Seq(V) /\ stopped' \in BOOLEAN
      BY <1>0, <2>4
      DEF MonitorNext, WaitForHorse, Interrupted, Break, KillOverdue, Judge,
          ExecuteStoppedCallback, HandleFailure, StopCommand, KillStopped, Kill, OthersOK
  <2> QED
      BY <1>0, <1>1, <2>2, <2>3, <2>5 DEF OthersOK
<1> QED
    BY <1>3, <1>4, <1>5, NextParts

\* Every step keeps the types and the timers.
LEMMA NextInv ==
    ASSUME Inv, [Next]_vars
    PROVE  Inv'
<1>1. CASE UNCHANGED vars
    BY <1>1, Parts, NextParts DEF vars, HorseOK, TimerOK, OthersOK, TimerInv
<1>2. CASE Next
    BY <1>2, PerformOK, WithOK, SignalsOK, MonitorOK DEF Next, HorseNext
<1> QED
    BY <1>1, <1>2

\* The types and the timers, always.
LEMMA Invariance == Spec => []Inv
BY InitInv, NextInv, PTL DEF Spec

-----------------------------------------------------------------------------
\* The horse is within a with statement exactly as long as its block says so,
\* whatever is raised in it, and whatever kills it.
THEOREM ExecutionTypeCorrect == Spec => []TypeOK
<1>1. Inv => TypeOK
    BY DEF Inv
<1> QED
    BY <1>1, Invariance, PTL

\* UnixSignalDeathPenalty in the horse of a Worker: __exit__ turns the alarm off
\* before it gives the handler back, so that a timeout comes inside of the with
\* statement or not at all.
THEOREM TimeoutsInside == Spec => []TimeoutsStayInside
<1>1. Inv => TimeoutsStayInside
    BY DEF Inv, TimerInv, TimeoutsStayInside
<1> QED
    BY <1>1, Invariance, PTL

-----------------------------------------------------------------------------
(* The verdicts.  Inv, with its parts, is known from here on.              *)

\* The places where the horse has committed its verdict, or is gone.
Over == {"committed", "returned"} \cup Ends

\* Nothing gives back what the environment has spent.
WithinBudget == \A op \in Ops : budget[op] <= Budget[op]

\* The monitor goes on when the horse is gone, and what it has seen is true.
MonitorInv ==
    /\ kind = "thread" => monitor.pc = "done"
    /\ kind # "thread" /\ monitor.pc # "wait" => ~Alive
    /\ monitor.pc = "got" /\ monitor.status = "ok" => At("exit0")
    /\ monitor.pc = "stopped" => stopped

\* The horse judges once, and its monitor only what is still open.
VerdictInv ==
    ~stray /\ ~Lost =>
        /\ horse.pc \notin Over => verdicts = <<>>
        /\ kind = "thread" \/ monitor.pc # "done" => Len(verdicts) <= 1
        /\ ~stopped /\ monitor.pc = "handle" => ~Final

\* Who has got to the end has judged.
JudgedInv ==
    ~stray /\ ~Dropped =>
        /\ horse.pc \in {"committed", "returned", "exit0"} => verdicts # <<>>
        /\ kind # "thread" /\ monitor.pc = "done" => verdicts # <<>>

FullInv ==
    Inv /\ WithinBudget /\ MonitorInv /\ VerdictInv /\ JudgedInv /\ OneVerdict

\* The places that FullInv speaks of.
LEMMA Places ==
    ASSUME Inv
    PROVE  /\ verdicts \in Seq({"success", "repeat", "failure", "retry"}) /\ Len(verdicts) \in Nat
           /\ stray \in BOOLEAN /\ stopped \in BOOLEAN
           /\ budget \in [Ops -> Nat] /\ Budget \in [Ops -> Nat]
           /\ "lost" \in Ops /\ "drop" \in Ops
<1>1. verdicts \in Seq({"success", "repeat", "failure", "retry"})
    BY DEF Inv, TypeOK
<1>2. Len(verdicts) \in Nat
    BY <1>1
<1> QED
    BY <1>1, <1>2, ExecutionAssumption DEF Inv, TypeOK, Ops

\* A budget that is spent stays spent.
LEMMA SpendLess ==
    ASSUME Inv, WithinBudget, UNCHANGED budget \/ \E op \in Ops : Spend(op)
    PROVE  /\ WithinBudget' /\ (Lost => Lost') /\ (Dropped => Dropped')
           /\ Spend("lost") => Lost'
           /\ Spend("drop") => Dropped'
<1>1. budget \in [Ops -> Nat] /\ Budget \in [Ops -> Nat] /\ "lost" \in Ops /\ "drop" \in Ops
    BY Places
<1>2. CASE UNCHANGED budget
  <2>1. ~Spend("lost") /\ ~Spend("drop")
      BY <1>1, <1>2 DEF Spend
  <2> QED
      BY <1>2, <2>1 DEF WithinBudget, Lost, Dropped
<1>3. ASSUME NEW op \in Ops, Spend(op)
      PROVE  /\ WithinBudget' /\ (Lost => Lost') /\ (Dropped => Dropped')
             /\ op = "lost" => Lost'
             /\ op = "drop" => Dropped'
  <2>1. /\ budget'[op] = budget[op] - 1 /\ budget[op] > 0
        /\ \A o \in Ops \ {op} : budget'[o] = budget[o]
      BY <1>1, <1>3 DEF Spend
  <2>2. \A o \in Ops : /\ budget'[o] <= budget[o] /\ budget'[o] \in Nat
                       /\ budget[o] <= Budget[o] /\ budget[o] \in Nat /\ Budget[o] \in Nat
      BY <1>1, <2>1 DEF WithinBudget
  <2>3. \A o \in Ops : budget'[o] <= Budget[o]
      BY <2>2
  <2>4. Lost => Lost'
      BY <1>1, <2>2 DEF Lost
  <2>5. Dropped => Dropped'
      BY <1>1, <2>2 DEF Dropped
  <2>6. budget'[op] < Budget[op]
      BY <2>1, <2>2
  <2> QED
      BY <2>3, <2>4, <2>5, <2>6 DEF WithinBudget, Lost, Dropped
<1> QED
    BY <1>1, <1>2, <1>3

\* What a step of the horse, or of what comes into it, may do to the verdicts:
\* it goes on, it loses its transaction, or it commits one verdict.
HorseStep ==
    /\ Alive /\ UNCHANGED <<kind, monitor, stopped>> /\ (stray => stray')
    /\ \/ stray'
       \/ UNCHANGED verdicts /\ horse.pc \notin Over /\ horse'.pc \notin Over \ {"exit1", "killed"}
       \/ /\ UNCHANGED verdicts /\ horse.pc \in {"committed", "returned"}
          /\ horse'.pc \in {"committed", "returned", "exit0", "killed"}
       \/ UNCHANGED verdicts /\ horse.pc \notin Over /\ Dropped'
       \/ /\ \E v \in {"success", "repeat", "failure", "retry"} : verdicts' = Append(verdicts, v)
          /\ horse.pc \notin Over
          /\ horse'.pc \in {"committed", "returned"} \/ Lost'

\* The label of a place.
LEMMA ToAt ==
    ASSUME Inv
    PROVE  /\ \A l \in HorsePCs : To(l).pc = l
           /\ \A b \in Blocks : Enter(b).pc = "install"
BY Parts DEF To, Enter, HorseOK

\* What is behind a with statement.
LEMMA LeaveAt ==
    ASSUME Inv, horse.pc \in Within
    PROVE  /\ Leave.pc \in {"ended", "commit", "handlers", "except"}
           /\ To(Escape(horse.block)).pc \in {"handlers", "except"}
<1>1. horse.block \in Blocks \ {"none"}
    BY Parts DEF HorseOK
<1>2. /\ After(horse.block) \in {"ended", "commit", "handlers"}
      /\ Escape(horse.block) \in {"handlers", "except"}
    BY <1>1 DEF After, Escape, Blocks
<1>3. {"ended", "commit", "handlers", "except"} \subseteq HorsePCs
    BY DEF HorsePCs
<1> QED
    BY <1>2, <1>3, ToAt DEF Leave

\* An exception that is raised inside of a with statement does not end the horse.
LEMMA RaiseSteps ==
    ASSUME Inv, Alive, NEW t \in BOOLEAN, Raise(t), UNCHANGED <<kind, monitor, stopped, verdicts>>
    PROVE  HorseStep
<1>1. stray \in BOOLEAN /\ stray' = (stray \/ horse.pc \notin {"body", "exit", "cancel", "restore"})
    BY Places DEF Raise
<1>2. CASE horse.pc \notin {"body", "exit", "cancel", "restore"}
    BY <1>1, <1>2 DEF HorseStep
<1>3. CASE horse.pc = "body"
  <2>1. horse' \in {[horse EXCEPT !.pc = "exit", !.exc = TRUE], horse}
      BY <1>3 DEF Raise, Raised, At
  <2>2. horse'.pc \in {"exit", "body"}
      BY <1>3, <2>1, Parts DEF HorseOK
  <2> QED
      BY <1>1, <1>3, <2>2 DEF HorseStep, Over, Ends
<1>4. CASE horse.pc \in {"exit", "cancel", "restore"}
  <2>1. horse' \in {Leave, To(Escape(horse.block))}
      BY <1>4 DEF Raise, Raised, At
  <2>2. horse'.pc \in {"ended", "commit", "handlers", "except"}
      BY <1>4, <2>1, LeaveAt DEF Within
  <2> QED
      BY <1>1, <1>4, <2>2 DEF HorseStep, Over, Ends
<1> QED
    BY <1>2, <1>3, <1>4

\* The steps of the with statements and of perform_job.
LEMMA PerformSteps ==
    ASSUME Inv, WithinBudget, HorseNext \/ BodyEnds
    PROVE  HorseStep /\ (UNCHANGED budget \/ \E op \in Ops : Spend(op))
<1> DEFINE Goal == HorseStep /\ (UNCHANGED budget \/ \E op \in Ops : Spend(op))
<1>0. HorseOK(horse) /\ "drop" \in Ops /\ "lost" \in Ops
    BY Parts, Places
<1>1. CASE Install \/ Arm \/ Exit \/ Cancel \/ BodyEnds
  <2>1. /\ horse.pc \in {"install", "arm", "exit", "cancel", "body"}
        /\ horse'.pc \in {"arm", "body", "cancel", "restore", "exit"}
        /\ UNCHANGED <<kind, verdicts, monitor, stopped, stray, budget>>
      BY <1>0, <1>1 DEF Install, Arm, Exit, Cancel, BodyEnds, At, HorseOK
  <2> QED
      BY <2>1 DEF HorseStep, Over, Ends, Alive
<1>2. CASE Restore
  <2>1. /\ horse.pc = "restore" /\ horse'.pc \in {"ended", "commit", "handlers", "except"}
        /\ UNCHANGED <<kind, verdicts, monitor, stopped, stray, budget>>
      BY <1>2, LeaveAt DEF Restore, At, Within
  <2> QED
      BY <2>1 DEF HorseStep, Over, Ends, Alive
<1>3. ASSUME NEW l \in HorsePCs, Drops(l), horse.pc \notin Over,
             UNCHANGED <<kind, monitor, stopped, stray>>
      PROVE  Goal
  <2>1. Spend("drop") /\ UNCHANGED verdicts
      BY <1>3 DEF Drops
  <2>2. Dropped' /\ \E op \in Ops : Spend(op)
      BY <1>0, <2>1, SpendLess
  <2> QED
      BY <1>3, <2>1, <2>2 DEF HorseStep, Over, Ends, Alive
<1>4. CASE Prepare
  <2>1. At("start") /\ UNCHANGED <<kind, monitor, stopped, stray>>
      BY <1>4 DEF Prepare
  <2>2. CASE horse' = Enter("job") /\ UNCHANGED <<verdicts, budget>>
    <3>1. horse'.pc = "install"
        BY <2>2, ToAt DEF Blocks
    <3> QED
        BY <2>1, <2>2, <3>1 DEF HorseStep, Over, Ends, Alive, At
  <2>3. CASE Drops("except")
      BY <1>3, <2>1, <2>3 DEF HorsePCs, At, Over, Ends
  <2> QED
      BY <1>4, <2>2, <2>3 DEF Prepare
<1>5. CASE HandleExecutionEnded
  <2>1. At("ended") /\ UNCHANGED <<kind, monitor, stopped, stray>>
      BY <1>5 DEF HandleExecutionEnded
  <2>2. CASE horse' \in {To("commit"), Enter("onSuccess")} /\ UNCHANGED <<verdicts, budget>>
    <3>1. horse'.pc \in {"install", "commit"}
        BY <2>2, ToAt DEF Blocks, HorsePCs
    <3> QED
        BY <2>1, <2>2, <3>1 DEF HorseStep, Over, Ends, Alive, At
  <2>3. CASE Drops("except")
      BY <1>3, <2>1, <2>3 DEF HorsePCs, At, Over, Ends
  <2> QED
      BY <1>5, <2>2, <2>3 DEF HandleExecutionEnded
<1>6. CASE Commit
  <2>1. At("commit") /\ UNCHANGED <<kind, monitor, stopped, stray>>
      BY <1>6 DEF Commit
  <2>2. PICK v \in {"success", "repeat", "failure", "retry"} :
             \/ verdicts' = Append(verdicts, v) /\ horse' = To("committed") /\ UNCHANGED budget
             \/ verdicts' = Append(verdicts, v) /\ Spend("lost")
             \/ Drops("except") \/ Drops("committed")
      BY <1>6 DEF Commit
  <2>3. CASE verdicts' = Append(verdicts, v) /\ horse' = To("committed") /\ UNCHANGED budget
    <3>1. horse'.pc = "committed"
        BY <2>3, ToAt DEF HorsePCs
    <3> QED
        BY <2>1, <2>3, <3>1 DEF HorseStep, Over, Ends, Alive, At
  <2>4. CASE verdicts' = Append(verdicts, v) /\ Spend("lost")
    <3>1. Lost' /\ \E op \in Ops : Spend(op)
        BY <1>0, <2>4, SpendLess
    <3> QED
        BY <2>1, <2>4, <3>1 DEF HorseStep, Over, Ends, Alive, At
  <2>5. CASE Drops("except") \/ Drops("committed")
      BY <1>3, <2>1, <2>5 DEF HorsePCs, At, Over, Ends
  <2> QED
      BY <2>2, <2>3, <2>4, <2>5
<1>7. CASE Committed
  <2>1. /\ At("committed") /\ horse'.pc = "returned"
        /\ UNCHANGED <<kind, verdicts, monitor, stopped, stray, budget>>
      BY <1>7, ToAt DEF Committed, HorsePCs
  <2> QED
      BY <2>1 DEF HorseStep, Over, Ends, Alive, At
<1>8. CASE HandleFailed
  <2>1. At("except") /\ UNCHANGED <<kind, monitor, stopped, stray>>
      BY <1>8 DEF HandleFailed
  <2>2. CASE horse' \in {Enter("onFailure"), To("handlers")} /\ UNCHANGED <<verdicts, budget>>
    <3>1. horse'.pc \in {"install", "handlers"}
        BY <2>2, ToAt DEF Blocks, HorsePCs
    <3> QED
        BY <2>1, <2>2, <3>1 DEF HorseStep, Over, Ends, Alive, At
  <2>3. CASE Drops("exit1")
      BY <1>3, <2>1, <2>3 DEF HorsePCs, At, Over, Ends
  <2> QED
      BY <1>8, <2>2, <2>3 DEF HandleFailed
<1>9. CASE HandleException
  <2>1. /\ At("handlers") /\ horse'.pc \in {"fail", "exit1"}
        /\ UNCHANGED <<kind, verdicts, monitor, stopped, stray, budget>>
      BY <1>9, ToAt DEF HandleException, HorsePCs, Ends
  <2> QED
      BY <2>1 DEF HorseStep, Over, Ends, Alive, At
<1>10. CASE HandleJobFailure
  <2>1. At("fail") /\ UNCHANGED <<kind, monitor, stopped, stray>>
      BY <1>10 DEF HandleJobFailure
  <2>2. CASE /\ \E v \in {"retry", "failure"} : verdicts' = Append(verdicts, v)
             /\ horse' = To("returned") /\ UNCHANGED budget
    <3>1. horse'.pc = "returned"
        BY <2>2, ToAt DEF HorsePCs
    <3> QED
        BY <2>1, <2>2, <3>1 DEF HorseStep, Over, Ends, Alive, At
  <2>3. CASE Drops("returned") \/ Drops("exit1")
      BY <1>3, <2>1, <2>3 DEF HorsePCs, At, Over, Ends
  <2> QED
      BY <1>10, <2>2, <2>3 DEF HandleJobFailure
<1>11. CASE Return
  <2>1. /\ At("returned") /\ horse'.pc = "exit0"
        /\ UNCHANGED <<kind, verdicts, monitor, stopped, stray, budget>>
      BY <1>11, ToAt DEF Return, HorsePCs, Ends
  <2> QED
      BY <2>1 DEF HorseStep, Over, Ends, Alive, At
<1> QED
    BY <1>1, <1>2, <1>4, <1>5, <1>6, <1>7, <1>8, <1>9, <1>10, <1>11 DEF HorseNext, WithNext

\* What comes from outside.
LEMMA SignalSteps ==
    ASSUME Inv, AlarmFires \/ TimerFires \/ AsyncException \/ Sigrtmin
    PROVE  HorseStep /\ (UNCHANGED budget \/ \E op \in Ops : Spend(op))
<1>0. /\ Alive /\ UNCHANGED <<kind, monitor, stopped, verdicts>> /\ HorseOK(horse)
      /\ UNCHANGED budget \/ Spend("sigrtmin")
    BY Parts DEF AlarmFires, TimerFires, AsyncException, Sigrtmin
<1>1. "sigrtmin" \in Ops
    BY DEF Ops
<1>2. ASSUME NEW t \in BOOLEAN, Raise(t) PROVE HorseStep
    BY <1>0, <1>2, RaiseSteps
<1>3. (timer.handler = "timeout") \in BOOLEAN
    OBVIOUS
<1>4. CASE ~(\E t \in BOOLEAN : Raise(t))
  <2>1. UNCHANGED stray /\ horse' \in {horse, To("killed")}
      BY <1>3, <1>4 DEF AlarmFires, TimerFires, AsyncException, Sigrtmin
  <2>2. horse' = horse \/ horse'.pc = "killed"
      BY <2>1, ToAt DEF HorsePCs, Ends
  <2>3. horse.pc \notin Ends
      BY <1>0 DEF Alive
  <2> QED
      BY <1>0, <1>1, <2>1, <2>2, <2>3 DEF HorseStep, Over, Ends
<1> QED
    BY <1>0, <1>1, <1>2, <1>4

\* One verdict more.
LEMMA AppendOne ==
    ASSUME Inv, NEW v, v \in {"success", "repeat", "failure", "retry"},
           verdicts' = Append(verdicts, v)
    PROVE  /\ Len(verdicts') = Len(verdicts) + 1 /\ verdicts' # <<>>
           /\ verdicts = <<>> => Len(verdicts') = 1
           /\ \A n \in 1..(Len(verdicts') - 1) :
                 n \in 1..Len(verdicts) /\ verdicts'[n] = verdicts[n]
<1>1. verdicts \in Seq({"success", "repeat", "failure", "retry"})
    BY Places
<1> QED
    BY <1>1

\* Nothing but the last of at most one verdict.
LEMMA OneIsEnough ==
    ASSUME Inv, Len(verdicts) <= 1
    PROVE  OneVerdict
BY Places DEF OneVerdict

\* The step of the horse keeps what is said about the verdicts.
LEMMA HorseKeeps ==
    ASSUME FullInv, Inv', HorseStep, UNCHANGED budget \/ \E op \in Ops : Spend(op)
    PROVE  FullInv'
<1>0. /\ Inv /\ MonitorInv /\ VerdictInv /\ JudgedInv /\ OneVerdict /\ WithinBudget
      /\ WithinBudget' /\ (Lost => Lost') /\ (Dropped => Dropped')
    BY SpendLess DEF FullInv
<1>1. Alive /\ UNCHANGED <<kind, monitor, stopped>> /\ (stray => stray')
    BY DEF HorseStep
<1>2. \/ kind = "thread" /\ monitor.pc = "done"
      \/ kind # "thread" /\ monitor.pc = "wait"
    BY <1>0, <1>1 DEF MonitorInv
<1>3. MonitorInv'
    BY <1>1, <1>2 DEF MonitorInv
<1>4. ASSUME ~stray', ~Lost'
      PROVE  (horse'.pc \notin Over => verdicts' = <<>>) /\ Len(verdicts') <= 1
  <2>1. (horse.pc \notin Over => verdicts = <<>>) /\ Len(verdicts) <= 1
      BY <1>0, <1>1, <1>2, <1>4 DEF VerdictInv
  <2>2. CASE /\ UNCHANGED verdicts
             /\ ~\E v \in {"success", "repeat", "failure", "retry"} :
                    verdicts' = Append(verdicts, v)
      BY <1>4, <2>1, <2>2 DEF HorseStep, Over, Ends
  <2>3. ASSUME NEW v \in {"success", "repeat", "failure", "retry"}, verdicts' = Append(verdicts, v),
               horse.pc \notin Over, horse'.pc \in {"committed", "returned"} \/ Lost'
        PROVE  (horse'.pc \notin Over => verdicts' = <<>>) /\ Len(verdicts') <= 1
      BY <1>0, <1>4, <2>1, <2>3, AppendOne DEF Over
  <2> QED
      BY <1>4, <2>2, <2>3 DEF HorseStep
<1>5. VerdictInv'
    BY <1>1, <1>2, <1>4 DEF VerdictInv
<1>6. OneVerdict'
  <2>1. CASE ~stray' /\ ~Lost'
    <3>1. Len(verdicts') <= 1 /\ Len(verdicts') \in Nat
        BY <1>4, <2>1 DEF Inv, TypeOK
    <3> QED
        BY <3>1 DEF OneVerdict
  <2> QED
      BY <2>1 DEF OneVerdict
<1>7. ASSUME ~stray', ~Dropped', horse'.pc \in {"committed", "returned", "exit0"}
      PROVE  verdicts' # <<>>
  <2>1. CASE UNCHANGED verdicts
      BY <1>0, <1>1, <1>7, <2>1 DEF HorseStep, JudgedInv, Over, Ends
  <2>2. ASSUME NEW v \in {"success", "repeat", "failure", "retry"}, verdicts' = Append(verdicts, v)
        PROVE  verdicts' # <<>>
      BY <1>0, <2>2, AppendOne
  <2> QED
      BY <1>7, <2>1, <2>2 DEF HorseStep
<1>8. JudgedInv'
    BY <1>1, <1>2, <1>7 DEF JudgedInv
<1> QED
    BY <1>0, <1>3, <1>5, <1>6, <1>8 DEF FullInv

\* The steps of the monitor, and of the commands that kill the horse.
MonitorStep == MonitorNext \/ Interrupted \/ StopCommand \/ KillStopped \/ Kill

\* They kill the horse or leave it, and judge last.
LEMMA MonitorSteps ==
    ASSUME FullInv, MonitorStep
    PROVE  /\ UNCHANGED <<kind, stray>> /\ (stopped => stopped')
           /\ horse' = horse \/ (horse'.pc = "killed" /\ Alive)
           /\ UNCHANGED verdicts \/ HandleFailure
           /\ UNCHANGED budget \/ \E op \in Ops : Spend(op)
<1>1. To("killed").pc = "killed"
    BY ToAt DEF FullInv, HorsePCs, Ends
<1> QED
    BY <1>1
    DEF MonitorStep, MonitorNext, WaitForHorse, Interrupted, Break, KillOverdue, Judge,
        ExecuteStoppedCallback, HandleFailure, StopCommand, KillStopped, Kill, MayBeOverdue, Ops

\* The monitor waits for the end of the horse.
LEMMA MonitorWaits ==
    ASSUME FullInv, MonitorStep
    PROVE  MonitorInv'
<1>0. MonitorInv /\ Inv
    BY DEF FullInv
<1>a. \A l \in {"wait", "got", "judge", "stopped", "handle", "done", "quit"} :
         Watch(l).pc = l /\ Watch(l).status = monitor.status
    BY <1>0 DEF Watch, Inv, TypeOK
<1>b. /\ UNCHANGED kind /\ (stopped => stopped')
      /\ ~Alive => horse' = horse
      /\ ~Alive => ~Alive'
    BY MonitorSteps DEF Alive
<1>1. CASE WaitForHorse
    BY <1>0, <1>1, <1>b DEF WaitForHorse, MonitorInv, At
<1>2. CASE Interrupted
    BY <1>0, <1>2, <1>a, <1>b DEF Interrupted, MonitorInv
<1>3. CASE Break
    BY <1>0, <1>3, <1>a, <1>b DEF Break, MonitorInv
<1>4. CASE KillOverdue
  <2>1. horse'.pc = "killed" /\ monitor'.pc = "judge"
      BY <1>4, <1>0, ToAt DEF KillOverdue, HorsePCs, Ends
  <2>2. kind # "thread"
      BY <1>0, <1>4 DEF KillOverdue, MonitorInv
  <2> QED
      BY <1>b, <2>1, <2>2 DEF MonitorInv, Alive, Ends
<1>5. CASE Judge
    BY <1>0, <1>5, <1>a, <1>b DEF Judge, MonitorInv
<1>6. CASE ExecuteStoppedCallback
    BY <1>0, <1>6, <1>a, <1>b DEF ExecuteStoppedCallback, MonitorInv
<1>7. CASE HandleFailure
    BY <1>0, <1>7, <1>a, <1>b DEF HandleFailure, MonitorInv
<1>8. CASE StopCommand \/ KillStopped \/ Kill
  <2>1. UNCHANGED monitor /\ Alive
      BY <1>8 DEF StopCommand, KillStopped, Kill
  <2>2. \/ kind = "thread" /\ monitor.pc = "done"
        \/ kind # "thread" /\ monitor.pc = "wait"
      BY <1>0, <2>1 DEF MonitorInv
  <2> QED
      BY <1>b, <2>1, <2>2 DEF MonitorInv
<1> QED
    BY <1>1, <1>2, <1>3, <1>4, <1>5, <1>6, <1>7, <1>8 DEF MonitorStep, MonitorNext

\* The verdict of the monitor.
LEMMA HandleFailureKeeps ==
    ASSUME FullInv, HandleFailure
    PROVE  VerdictInv' /\ JudgedInv' /\ OneVerdict'
<1>0. /\ Inv /\ WithinBudget /\ MonitorInv /\ VerdictInv /\ JudgedInv /\ OneVerdict
      /\ UNCHANGED <<horse, kind, stray, stopped>> /\ monitor.pc = "handle"
    BY DEF FullInv, HandleFailure
<1>1. monitor'.pc = "done"
    BY <1>0 DEF HandleFailure, Watch, Inv, TypeOK
<1>2. kind # "thread" /\ ~Alive
    BY <1>0 DEF MonitorInv
<1>3. (Lost => Lost') /\ (Dropped => Dropped') /\ (Spend("drop") => Dropped')
  <2>1. UNCHANGED budget \/ \E op \in Ops : Spend(op)
      BY DEF HandleFailure, Ops
  <2> QED
      BY <1>0, <2>1, SpendLess
<1>4. VerdictInv'
    BY <1>0, <1>1, <1>2, <1>3 DEF VerdictInv, Alive, Over
<1>5. CASE Spend("drop") /\ UNCHANGED verdicts
  <2>1. Dropped'
      BY <1>3, <1>5
  <2>2. OneVerdict'
      BY <1>0, <1>3, <1>5 DEF OneVerdict
  <2>3. JudgedInv'
      BY <2>1 DEF JudgedInv
  <2> QED
      BY <1>4, <2>2, <2>3
<1>6. ASSUME NEW v \in {"retry", "failure"}, verdicts' = Append(verdicts, v)
      PROVE  JudgedInv' /\ OneVerdict'
  <2>1. verdicts' # <<>> /\ \A n \in 1..(Len(verdicts') - 1) :
            n \in 1..Len(verdicts) /\ verdicts'[n] = verdicts[n]
      BY <1>0, <1>6, AppendOne
  <2>2. ASSUME ~stray, ~Lost, ~stopped, NEW n \in 1..Len(verdicts)
        PROVE  verdicts[n] \in PutBack
    <3>1. Len(verdicts) \in Nat /\ Len(verdicts) <= 1 /\ ~Final
        BY <1>0, <2>2, Places DEF VerdictInv
    <3>2. n = Len(verdicts)
        BY <2>2, <3>1
    <3>3. verdicts # <<>>
        BY <2>2, <3>1, <3>2
    <3> QED
        BY <3>1, <3>2, <3>3 DEF Final
  <2>3. OneVerdict'
      BY <1>0, <1>3, <2>1, <2>2 DEF OneVerdict
  <2>4. JudgedInv'
      BY <2>1 DEF JudgedInv
  <2> QED
      BY <2>3, <2>4
<1> QED
    BY <1>4, <1>5, <1>6 DEF HandleFailure

\* What the others of these steps leave as it is.
LEMMA VerdictsStay ==
    ASSUME FullInv, MonitorStep, UNCHANGED verdicts, MonitorInv'
    PROVE  VerdictInv' /\ JudgedInv' /\ OneVerdict'
<1>0. /\ Inv /\ WithinBudget /\ MonitorInv /\ VerdictInv /\ JudgedInv /\ OneVerdict
      /\ UNCHANGED <<kind, stray>> /\ (stopped => stopped')
      /\ horse' = horse \/ (horse'.pc = "killed" /\ Alive)
    BY MonitorSteps DEF FullInv
<1>1. (Lost => Lost') /\ (Dropped => Dropped')
  <2>1. UNCHANGED budget \/ \E op \in Ops : Spend(op)
      BY MonitorSteps
  <2> QED
      BY <1>0, <2>1, SpendLess
<1>2. OneVerdict'
    BY <1>0, <1>1 DEF OneVerdict
<1>a. \A l \in {"wait", "got", "judge", "stopped", "handle", "done", "quit"} : Watch(l).pc = l
    BY <1>0 DEF Watch, Inv, TypeOK
<1>3. \/ UNCHANGED monitor
      \/ monitor'.pc \in {"wait", "got", "judge", "stopped"} /\ monitor.pc # "done"
      \/ /\ monitor.pc = "got" /\ monitor.status = "ok" /\ monitor'.pc = "done"
         /\ UNCHANGED <<horse, stopped>>
      \/ /\ monitor.pc = "judge" /\ ~stopped /\ ~Final /\ monitor'.pc = "handle"
         /\ UNCHANGED <<horse, stopped>>
      \/ /\ monitor.pc = "judge" /\ verdicts # <<>> /\ monitor'.pc = "done"
         /\ UNCHANGED <<horse, stopped>>
      \/ monitor.pc = "stopped" /\ monitor'.pc \in {"handle", "quit"}
      \/ monitor.pc = "handle" /\ monitor'.pc = "done" /\ Spend("drop")
  <2>1. CASE WaitForHorse \/ KillOverdue
      BY <2>1 DEF WaitForHorse, KillOverdue
  <2>2. CASE Interrupted \/ Break \/ Judge \/ ExecuteStoppedCallback
      BY <1>a, <2>2 DEF Interrupted, Break, Judge, ExecuteStoppedCallback
  <2>3. CASE HandleFailure
    <3>1. \A v \in {"retry", "failure"} : verdicts' # Append(verdicts, v)
        BY <1>0, AppendOne, Places
    <3> QED
        BY <1>a, <2>3, <3>1 DEF HandleFailure
  <2>4. CASE StopCommand \/ KillStopped \/ Kill
      BY <2>4 DEF StopCommand, KillStopped, Kill
  <2> QED
      BY <2>1, <2>2, <2>3, <2>4 DEF MonitorStep, MonitorNext
<1>4. horse'.pc \notin Over => horse.pc \notin Over
    BY <1>0 DEF Over, Ends
<1>5. monitor.pc = "stopped" => stopped
    BY <1>0 DEF MonitorInv
<1>6. VerdictInv'
  <2> SUFFICES ASSUME ~stray', ~Lost'
               PROVE  /\ horse'.pc \notin Over => verdicts' = <<>>
                      /\ kind' = "thread" \/ monitor'.pc # "done" => Len(verdicts') <= 1
                      /\ ~stopped' /\ monitor'.pc = "handle" => ~Final'
      BY DEF VerdictInv
  <2>1. /\ horse.pc \notin Over => verdicts = <<>>
        /\ kind = "thread" \/ monitor.pc # "done" => Len(verdicts) <= 1
        /\ ~stopped /\ monitor.pc = "handle" => ~Final
      BY <1>0, <1>1 DEF VerdictInv
  <2>2. Final' <=> Final
      BY DEF Final
  <2> QED
      BY <1>0, <1>3, <1>4, <1>5, <2>1, <2>2
<1>7. JudgedInv'
  <2> SUFFICES ASSUME ~stray', ~Dropped'
               PROVE  /\ horse'.pc \in {"committed", "returned", "exit0"} => verdicts' # <<>>
                      /\ kind' # "thread" /\ monitor'.pc = "done" => verdicts' # <<>>
      BY DEF JudgedInv
  <2>1. /\ horse.pc \in {"committed", "returned", "exit0"} => verdicts # <<>>
        /\ kind # "thread" /\ monitor.pc = "done" => verdicts # <<>>
      BY <1>0, <1>1 DEF JudgedInv
  <2>2. monitor.pc = "got" /\ monitor.status = "ok" => horse.pc = "exit0"
      BY <1>0 DEF MonitorInv, At
  <2>3. ~Spend("drop")
      BY <1>0, MonitorSteps, SpendLess
  <2> QED
      BY <1>0, <1>3, <2>1, <2>2, <2>3 DEF Final
<1> QED
    BY <1>2, <1>6, <1>7

\* Every step keeps the verdicts.
LEMMA FullNext ==
    ASSUME FullInv, [Next]_vars
    PROVE  FullInv'
<1>0. Inv' /\ Inv /\ WithinBudget
    BY NextInv DEF FullInv
<1>1. CASE UNCHANGED vars
    BY <1>0, <1>1 DEF vars, FullInv, WithinBudget, MonitorInv, VerdictInv, JudgedInv, OneVerdict,
                      Lost, Dropped, Final, At, Alive
<1>2. CASE HorseNext \/ BodyEnds
    BY <1>0, <1>2, PerformSteps, HorseKeeps
<1>3. CASE AlarmFires \/ TimerFires \/ AsyncException \/ Sigrtmin
    BY <1>0, <1>3, SignalSteps, HorseKeeps
<1>4. CASE MonitorStep
  <2>1. MonitorInv' /\ WithinBudget'
      BY <1>0, <1>4, MonitorWaits, MonitorSteps, SpendLess
  <2>2. VerdictInv' /\ JudgedInv' /\ OneVerdict'
      BY <1>4, <2>1, VerdictsStay, MonitorSteps, HandleFailureKeeps
  <2> QED
      BY <1>0, <2>1, <2>2 DEF FullInv
<1> QED
    BY <1>1, <1>2, <1>3, <1>4 DEF Next, MonitorStep

\* No verdict at the start.
LEMMA FullInit == Init => FullInv
<1> SUFFICES ASSUME Init PROVE FullInv
    OBVIOUS
<1>1. Inv /\ WithinBudget
    BY InitInv, ExecutionAssumption DEF Init, WithinBudget
<1>2. horse.pc = "start" /\ verdicts = <<>> /\ Len(verdicts) = 0
      /\ monitor.pc = (IF kind = "thread" THEN "done" ELSE "wait")
    BY DEF Init
<1> QED
    BY <1>1, <1>2 DEF FullInv, MonitorInv, VerdictInv, JudgedInv, OneVerdict, At, Over, Ends, Alive

\* The verdicts, always.
LEMMA FullInvariance == Spec => []FullInv
BY FullInit, FullNext, PTL DEF Spec

\* perform_job and monitor_work_horse: a job that was marked finished or failed
\* is not judged once more.
THEOREM NotJudgedTwice == Spec => []OneVerdict
<1>1. FullInv => OneVerdict
    BY DEF FullInv
<1> QED
    BY <1>1, FullInvariance, PTL

\* main_work_horse and monitor_work_horse: an execution that is over has been
\* judged, by the horse or by its monitor.
THEOREM ExecutionsAreJudged == Spec => []Judged
<1>1. FullInv => Judged
    BY DEF FullInv, JudgedInv, Judged, At
<1> QED
    BY <1>1, FullInvariance, PTL

=============================================================================
