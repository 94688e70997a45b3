---- MODULE ExecutionLog ----
(* What the table scheduler_executions promises to whoever reads it           *)
(* (print_status, run_manual's exit code, MoodleSyncJob's incremental sync): *)
(* a list of runs, one after the other. A run is one job under one trigger,  *)
(* with consecutive attempts 1, 2, ...; an attempt follows only a failed     *)
(* attempt of the same run, there are at most MaxAttempts of them, and at    *)
(* most one attempt of the whole system is open at any time.                 *)
EXTENDS Integers, Sequences

CONSTANTS Jobs, Triggers, MaxAttempts

VARIABLE log   \* sequence of [job, trigger, attempt, status]

Statuses == {"running", "done", "failed"}

LogRows == [job: Jobs, trigger: Triggers, attempt: 1..MaxAttempts, status: Statuses]

Open == log # <<>> /\ log[Len(log)].status = "running"

Init == log = <<>>

\* The first attempt of a new run.
Begin(j, t) ==
  /\ ~Open
  /\ log' = Append(log, [job |-> j, trigger |-> t, attempt |-> 1, status |-> "running"])

\* One more attempt of the run that failed last.
Retry ==
  /\ log # <<>>
  /\ LET last == log[Len(log)] IN
       /\ last.status = "failed"
       /\ last.attempt < MaxAttempts
       /\ log' = Append(log, [job |-> last.job, trigger |-> last.trigger,
                              attempt |-> last.attempt + 1, status |-> "running"])

Close(status) ==
  /\ Open
  /\ log' = [log EXCEPT ![Len(log)].status = status]

Next ==
  \/ \E j \in Jobs, t \in Triggers : Begin(j, t)
  \/ Retry
  \/ \E s \in {"done", "failed"} : Close(s)

Spec == Init /\ [][Next]_log
====
