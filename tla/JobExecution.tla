---------------------------- MODULE JobExecution ----------------------------
(***************************************************************************)
(* One execution of a job: perform_job between the exceptions that come    *)
(* from outside (the timeout of a death penalty, an imminent shutdown) and *)
(* a Redis that fails, and the monitor that judges what is left of it.     *)
(*                                                                         *)
(* Python runs signal handlers, and raises what they raise, between any    *)
(* two steps.  A death penalty is a with statement around the job or a     *)
(* callback; its steps are those of __enter__, the body and __exit__.      *)
(***************************************************************************)
EXTENDS Naturals, Sequences

CONSTANTS
    Kinds,      \* of worker, a subset of AllKinds
    Budget      \* bounds on what the environment does: see Ops

AllKinds == {"fork",        \* Worker: a horse with UnixSignalDeathPenalty
             "heroku",      \* HerokuWorker: SIGRTMIN starts an alarm of six seconds
             "imminent",    \* HerokuWorker with imminent_shutdown_delay = 0
             "thread"}      \* SimpleWorker with TimerDeathPenalty: there is no horse

Ops == {"drop",         \* a transaction fails and is not executed
        "lost",         \* it is executed, and its reply is lost
        "kill",         \* the horse is killed
        "stop",         \* the command stop-job
        "sigrtmin",
        "race"}         \* the monitor's alarm between wait4 and __exit__

ASSUME ExecutionAssumption ==
    /\ Kinds \subseteq AllKinds
    /\ Budget \in [Ops -> Nat]

VARIABLES
    kind,
    horse,      \* the process that performs the job: its place, the with
                \* statement it is in, whether an exception leaves the body of
                \* that, and what the job has returned
    timer,      \* SIGALRM: armed, the handler, and whether SIGRTMIN has come;
                \* or a timer thread that is armed, or past cancel()
    verdicts,   \* what was committed to Redis as the end of this execution
    monitor,    \* monitor_work_horse: its place, the exit status, reaped or not
    stopped,    \* _stopped_job_id of the parent is the job
    stray,      \* an exception was raised outside of the with statements
    budget

vars == <<kind, horse, timer, verdicts, monitor, stopped, stray, budget>>

Within == {"install", "arm", "body", "exit", "cancel", "restore"}
Ends == {"exit0", "exit1", "killed"}
HorsePCs == Within \cup Ends \cup
    {"start", "ended", "commit", "committed", "except", "handlers", "fail", "returned"}

Init ==
    /\ kind \in Kinds
    /\ horse = [pc |-> "start", block |-> "none", exc |-> FALSE, result |-> "none"]
    /\ timer = [armed |-> FALSE, handler |-> "default", fired |-> FALSE, warned |-> FALSE]
    /\ verdicts = <<>>
    /\ monitor = [pc |-> IF kind = "thread" THEN "done" ELSE "wait",
                  status |-> "none", reaped |-> FALSE]
    /\ stopped = FALSE /\ stray = FALSE
    /\ budget = Budget

Alive == horse.pc \notin Ends

Spend(op) ==
    /\ budget[op] > 0
    /\ budget' = [budget EXCEPT ![op] = @ - 1]

At(l) == horse.pc = l
To(l) == [horse EXCEPT !.pc = l, !.block = "none", !.exc = FALSE]
Enter(b) == [horse EXCEPT !.pc = "install", !.block = b, !.exc = FALSE]

\* Behind the with statement b, without and with an exception.
After(b) == CASE b = "job" -> "ended" [] b = "onSuccess" -> "commit"
              [] b = "onFailure" -> "handlers"
Escape(b) == IF b = "onFailure" THEN "handlers" ELSE "except"
Leave == To(IF horse.exc THEN Escape(horse.block) ELSE After(horse.block))

\* Where an exception that is raised now leads to: the job's code may catch it,
\* __exit__ drops a timeout once it is at cancel_death_penalty, the failure
\* callback and the first half of perform_job have a bare except, the other
\* handlers are for an Exception, which an imminent shutdown is not, and the
\* process ends if nobody catches it.
Raised(isTimeout) ==
    CASE At("body") -> {[horse EXCEPT !.pc = "exit", !.exc = TRUE], horse}
      [] horse.pc \in {"cancel", "restore"} /\ isTimeout -> {Leave}
      [] horse.pc \in {"install", "arm", "exit"} -> {To(Escape(horse.block))}
      [] horse.pc \in {"cancel", "restore"} /\ ~isTimeout -> {To(Escape(horse.block))}
      [] horse.pc \in {"start", "ended", "committed"} -> {To("except")}
      [] At("commit") -> {To("except")} \cup
             (IF isTimeout /\ horse.result = "retry" THEN {To("committed")} ELSE {})
      [] At("fail") -> {To("exit1")} \cup (IF isTimeout THEN {To("returned")} ELSE {})
      [] OTHER -> {To("exit1")}

Raise(isTimeout) ==
    /\ horse' \in Raised(isTimeout)
    /\ stray' = (stray \/ horse.pc \notin {"body", "exit", "cancel", "restore"})

-----------------------------------------------------------------------------
(* The death penalty.                                                      *)

\* setup_death_penalty: signal.signal, or a new Timer.
Install ==
    /\ At("install")
    /\ horse' = [horse EXCEPT !.pc = "arm"]
    /\ timer' = IF kind = "thread" THEN timer ELSE [timer EXCEPT !.handler = "timeout"]
    /\ UNCHANGED <<kind, verdicts, monitor, stopped, stray, budget>>

\* signal.alarm, or start().
Arm ==
    /\ At("arm")
    /\ horse' = [horse EXCEPT !.pc = "body"]
    /\ timer' = [timer EXCEPT !.armed = TRUE]
    /\ UNCHANGED <<kind, verdicts, monitor, stopped, stray, budget>>

\* The code of the user returns or raises.
BodyEnds ==
    /\ At("body")
    /\ \E r \in {"value", "retry", "error"} :
          horse' = [horse EXCEPT !.pc = "exit", !.exc = r = "error",
                        !.result = IF horse.block = "job" THEN r ELSE @]
    /\ UNCHANGED <<kind, timer, verdicts, monitor, stopped, stray, budget>>

\* __exit__ gets to its try statement.
Exit ==
    /\ At("exit")
    /\ horse' = [horse EXCEPT !.pc = "cancel"]
    /\ UNCHANGED <<kind, timer, verdicts, monitor, stopped, stray, budget>>

\* Mutant of Cancel: the alarm is left on.
CancelNothing ==
    /\ At("cancel")
    /\ horse' = [horse EXCEPT !.pc = "restore"]
    /\ UNCHANGED <<kind, timer, verdicts, monitor, stopped, stray, budget>>

\* cancel_death_penalty: alarm(0), or cancel() of a timer.
Cancel ==
    /\ At("cancel")
    /\ horse' = [horse EXCEPT !.pc = "restore"]
    /\ timer' = [timer EXCEPT !.armed = FALSE]
    /\ UNCHANGED <<kind, verdicts, monitor, stopped, stray, budget>>

\* Mutant of Restore: the with statement is not left.
RestoreOpen ==
    /\ At("restore")
    /\ horse' = [horse EXCEPT !.pc = After(horse.block)]
    /\ UNCHANGED <<kind, timer, verdicts, monitor, stopped, stray, budget>>

\* SIG_DFL, and the end of the with statement.
Restore ==
    /\ At("restore")
    /\ horse' = Leave
    /\ timer' = IF kind = "thread" THEN timer ELSE [timer EXCEPT !.handler = "default"]
    /\ UNCHANGED <<kind, verdicts, monitor, stopped, stray, budget>>

\* SIGALRM is handled.  Its default action ends the process.
AlarmFires ==
    /\ kind # "thread" /\ Alive
    /\ timer.armed
    /\ timer' = [timer EXCEPT !.armed = FALSE]
    /\ IF timer.handler = "default"
       THEN horse' = To("killed") /\ UNCHANGED stray
       ELSE Raise(timer.handler = "timeout")
    /\ UNCHANGED <<kind, verdicts, monitor, stopped, budget>>

\* The timer thread finds that it was not cancelled.
TimerFires ==
    /\ kind = "thread" /\ Alive
    /\ timer.armed
    /\ timer' = [timer EXCEPT !.armed = FALSE, !.fired = TRUE]
    /\ UNCHANGED <<kind, horse, verdicts, monitor, stopped, stray, budget>>

\* PyThreadState_SetAsyncExc: the exception comes in the thread of the worker.
AsyncException ==
    /\ timer.fired /\ Alive
    /\ timer' = [timer EXCEPT !.fired = FALSE]
    /\ Raise(TRUE)
    /\ UNCHANGED <<kind, verdicts, monitor, stopped, budget>>

\* request_stop_sigrtmin takes SIGALRM over from a death penalty; the second
\* time, or without a delay, it is request_force_stop_sigrtmin.
Sigrtmin ==
    /\ kind \in {"heroku", "imminent"} /\ Alive
    /\ Spend("sigrtmin")
    /\ IF timer.warned \/ kind = "imminent"
       THEN Raise(FALSE) /\ UNCHANGED timer
       ELSE /\ timer' = [timer EXCEPT !.armed = TRUE, !.handler = "shutdown",
                                      !.warned = TRUE]
            /\ UNCHANGED <<horse, stray>>
    /\ UNCHANGED <<kind, verdicts, monitor, stopped>>

-----------------------------------------------------------------------------
(* perform_job.                                                            *)

\* A call of Redis that raises an exception here: it is not executed.
Drops(l) == Spend("drop") /\ horse' = To(l) /\ UNCHANGED verdicts

\* prepare_job_execution, and the with statement of the job.
Prepare ==
    /\ At("start")
    /\ \/ horse' = Enter("job") /\ UNCHANGED <<verdicts, budget>>
       \/ Drops("except")
    /\ UNCHANGED <<kind, timer, monitor, stopped, stray>>

\* handle_execution_ended, and the success callback if there is one.
HandleExecutionEnded ==
    /\ At("ended")
    /\ \/ /\ horse' \in {To("commit")} \cup
                        (IF horse.result = "retry" THEN {} ELSE {Enter("onSuccess")})
          /\ UNCHANGED <<verdicts, budget>>
       \/ Drops("except")
    /\ UNCHANGED <<kind, timer, monitor, stopped, stray>>

\* The transaction of handle_job_success, which schedules the next repetition if
\* there is one left, or of handle_job_retry, which gives up after too many and
\* then drops what Redis raises.  With a lost reply redis-py raises a WatchError
\* in the first, which begins again; the others have no WATCH.
Commit ==
    LET ends == IF horse.result = "retry" THEN {"retry", "failure"} ELSE {"success", "repeat"}
        onError == [v \in ends |-> IF v = "failure" THEN "committed" ELSE "except"]
        onLost == [v \in ends |-> IF v \in {"success", "repeat"} THEN "commit" ELSE onError[v]]
    IN
    /\ At("commit")
    /\ \E v \in ends :
          \/ verdicts' = Append(verdicts, v) /\ horse' = To("committed") /\ UNCHANGED budget
          \/ verdicts' = Append(verdicts, v) /\ horse' = To(onLost[v]) /\ Spend("lost")
          \/ Drops(onError[v])
    /\ UNCHANGED <<kind, timer, monitor, stopped, stray>>

\* The end of the try statement.
Committed ==
    /\ At("committed")
    /\ horse' = To("returned")
    /\ UNCHANGED <<kind, timer, verdicts, monitor, stopped, stray, budget>>

\* The except clause: handle_execution_ended, and the failure callback if there
\* is one.
HandleFailed ==
    /\ At("except")
    /\ \/ horse' \in {Enter("onFailure"), To("handlers")} /\ UNCHANGED <<verdicts, budget>>
       \/ Drops("exit1")
    /\ UNCHANGED <<kind, timer, monitor, stopped, stray>>

\* handle_exception: a handler may raise an exception itself.
HandleException ==
    /\ At("handlers")
    /\ horse' \in {To("fail"), To("exit1")}
    /\ UNCHANGED <<kind, timer, verdicts, monitor, stopped, stray, budget>>

\* handle_job_failure.  It catches what Redis raises in the second of its two
\* transactions, and a ConnectionError in the first.
HandleJobFailure ==
    /\ At("fail")
    /\ \/ /\ \E v \in {"retry", "failure"} : verdicts' = Append(verdicts, v)
          /\ horse' = To("returned")
          /\ UNCHANGED budget
       \/ Drops("returned")
       \/ Drops("exit1")
    /\ UNCHANGED <<kind, timer, monitor, stopped, stray>>

\* Mutant of Return: perform_job hides its exceptions.
ReturnLate ==
    /\ horse.pc \in {"returned", "handlers"}
    /\ horse' = To("exit0")
    /\ UNCHANGED <<kind, timer, verdicts, monitor, stopped, stray, budget>>

\* main_work_horse: os._exit(0).  It is os._exit(1) after an exception.
Return ==
    /\ At("returned")
    /\ horse' = To("exit0")
    /\ UNCHANGED <<kind, timer, verdicts, monitor, stopped, stray, budget>>

-----------------------------------------------------------------------------
(* The monitor, and the commands that kill the horse.                      *)

Watch(l) == [monitor EXCEPT !.pc = l]

\* wait4 returns: a second time there is no child any more.
WaitForHorse ==
    /\ monitor.pc = "wait" /\ ~Alive
    /\ monitor' = [pc |-> "got", reaped |-> TRUE,
                   status |-> IF monitor.reaped THEN "none"
                              ELSE IF At("exit0") THEN "ok" ELSE "bad"]
    /\ UNCHANGED <<kind, horse, timer, verdicts, stopped, stray, budget>>

\* HorseMonitorTimeoutException comes after wait4, and the loop waits again.
Interrupted ==
    /\ monitor.pc = "got"
    /\ Spend("race")
    /\ monitor' = Watch("wait")
    /\ UNCHANGED <<kind, horse, timer, verdicts, stopped, stray>>

\* The loop ends.  If the process exited normally, there is nothing to do.
Break ==
    /\ monitor.pc = "got"
    /\ monitor' = Watch(IF monitor.status = "ok" THEN "done" ELSE "judge")
    /\ UNCHANGED <<kind, horse, timer, verdicts, stopped, stray, budget>>

\* Mutant of KillOverdue: the timeout of the job is trusted.
KillNever == FALSE /\ UNCHANGED vars

\* The horse is not in the job's code with a timeout that is still to come.
\* Callbacks take their time from the same minute.
MayBeOverdue ==
    /\ Alive /\ ~At("start")
    /\ horse.block = "job" => ~timer.armed /\ horse.pc \notin {"install", "arm"}

\* A minute after the timeout of the job the horse is killed, and the loop ends.
KillOverdue ==
    /\ monitor.pc = "wait" /\ MayBeOverdue
    /\ horse' = To("killed")
    /\ monitor' = [pc |-> "judge", reaped |-> TRUE, status |-> "none"]
    /\ UNCHANGED <<kind, timer, verdicts, stopped, stray, budget>>

\* A retry and a repetition put the job back: its status is queued or scheduled,
\* and then whatever its next execution makes of it.
PutBack == {"retry", "repeat"}
Final == verdicts # <<>> /\ verdicts[Len(verdicts)] \notin PutBack

\* Mutant of Judge: the status is not looked at.
JudgeAll ==
    /\ monitor.pc = "judge"
    /\ monitor' = Watch("handle")
    /\ UNCHANGED <<kind, horse, timer, verdicts, stopped, stray, budget>>

\* The status of the job after an abnormal exit.  Nothing is done if it is final,
\* be it of the next execution of a job that was put back, or if a job that has
\* ended is gone with its ttl, which a stop does not prevent.
Judge ==
    /\ monitor.pc = "judge"
    /\ \/ stopped /\ monitor' = Watch("stopped")
       \/ ~stopped /\ ~Final /\ monitor' = Watch("handle")
       \/ verdicts # <<>> /\ (stopped => Final) /\ monitor' = Watch("done")
    /\ UNCHANGED <<kind, horse, timer, verdicts, stopped, stray, budget>>

\* The stopped callback, if there is one: its exception, or its timeout, leaves
\* execute_job, and the worker quits.
ExecuteStoppedCallback ==
    /\ monitor.pc = "stopped"
    /\ \E l \in {"handle", "quit"} : monitor' = Watch(l)
    /\ UNCHANGED <<kind, horse, timer, verdicts, stopped, stray, budget>>

\* handle_job_failure of the parent.
HandleFailure ==
    /\ monitor.pc = "handle"
    /\ monitor' = Watch("done")
    /\ \/ /\ \E v \in {"retry", "failure"} :
                (v = "retry" => ~stopped) /\ verdicts' = Append(verdicts, v)
          /\ UNCHANGED budget
       \/ Spend("drop") /\ UNCHANGED verdicts
    /\ UNCHANGED <<kind, horse, timer, stopped, stray>>

\* handle_stop_job_command, in a thread of the parent.
StopCommand ==
    /\ kind # "thread" /\ Alive /\ ~At("start")
    /\ Spend("stop")
    /\ stopped' = TRUE
    /\ UNCHANGED <<kind, horse, timer, verdicts, monitor, stray>>

KillStopped ==
    /\ stopped /\ Alive
    /\ horse' = To("killed")
    /\ UNCHANGED <<kind, timer, verdicts, monitor, stopped, stray, budget>>

Kill ==
    /\ kind # "thread" /\ Alive
    /\ Spend("kill")
    /\ horse' = To("killed")
    /\ UNCHANGED <<kind, timer, verdicts, monitor, stopped, stray>>

-----------------------------------------------------------------------------
WithNext == Install \/ Arm \/ Exit \/ Cancel \/ Restore
HorseNext ==
    \/ WithNext \/ Prepare \/ HandleExecutionEnded \/ Commit \/ Committed
    \/ HandleFailed \/ HandleException \/ HandleJobFailure \/ Return
MonitorNext ==
    \/ WaitForHorse \/ Break \/ KillOverdue \/ Judge \/ ExecuteStoppedCallback
    \/ HandleFailure

Next ==
    \/ HorseNext \/ BodyEnds
    \/ AlarmFires \/ TimerFires \/ AsyncException \/ Sigrtmin
    \/ MonitorNext \/ Interrupted
    \/ StopCommand \/ KillStopped \/ Kill

Spec == Init /\ [][Next]_vars

\* The user's code may run for ever; everything else goes on, and alarms fire.
Fairness ==
    /\ WF_vars(HorseNext) /\ WF_vars(AlarmFires) /\ WF_vars(MonitorNext)

FairSpec == Spec /\ Fairness

-----------------------------------------------------------------------------
(* Properties.                                                             *)

\* Every variable has its type, and a handler is in place when an alarm is armed.
TypeOK ==
    /\ kind \in Kinds
    /\ horse \in [pc : HorsePCs, block : {"none", "job", "onSuccess", "onFailure"},
                  exc : BOOLEAN, result : {"none", "value", "retry", "error"}]
    /\ horse.pc \in Within <=> horse.block # "none"
    /\ timer \in [armed : BOOLEAN, handler : {"default", "timeout", "shutdown"},
                  fired : BOOLEAN, warned : BOOLEAN]
    /\ verdicts \in Seq({"success", "repeat", "failure", "retry"})
    /\ monitor \in [pc : {"wait", "got", "judge", "stopped", "handle", "done", "quit"},
                    status : {"none", "ok", "bad"}, reaped : BOOLEAN]
    /\ stopped \in BOOLEAN /\ stray \in BOOLEAN
    /\ budget \in [Ops -> Nat]

\* UnixSignalDeathPenalty: in the horse of a Worker, a timeout is raised in its
\* with statement or not at all, and SIGALRM never kills the horse.
TimeoutsStayInside ==
    kind = "fork" => /\ ~stray
                     /\ timer.armed => /\ horse.pc \in {"body", "exit", "cancel"} \cup Ends
                                       /\ timer.handler = "timeout"

Lost == budget["lost"] < Budget["lost"]
Dropped == budget["drop"] < Budget["drop"]

\* perform_job and monitor_work_horse: a job that was marked finished or failed
\* for good is not judged once more, unless an exception comes outside of the
\* with statements, a reply of Redis is lost or the job is stopped by a command.
\* A job that was put back, by a retry or for its next repetition, may be: if the
\* horse dies behind the commit, the monitor fails what has succeeded.
OneVerdict ==
    ~stray /\ ~Lost /\ ~stopped =>
        \A n \in 1..(Len(verdicts) - 1) : verdicts[n] \in PutBack

\* main_work_horse and monitor_work_horse: an execution that is over has been
\* judged, by the horse or by its monitor, if Redis works.
Judged ==
    /\ ~stray /\ ~Dropped
    /\ IF kind = "thread" THEN At("exit0") ELSE monitor.pc = "done"
    => verdicts # <<>>

\* The monitor is done with every execution in the end, even if the user's code
\* runs for ever or catches its timeout.
ExecutionEnds == <>(kind # "thread" => monitor.pc \in {"done", "quit"})

=============================================================================
