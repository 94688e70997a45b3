---- MODULE Scheduler ----
(* The scheduler process of src/scheduler: one thread that owns an in-memory *)
(* queue, a clock grid and a stop flag, and two database tables that outlive *)
(* it (scheduler_executions, scheduler_requests). The process is started as  *)
(* a daemon or for one job (--job), may be stopped by a signal, and may die  *)
(* between any two database commits. Terminals that find the lock taken hand *)
(* their request over through the database, concurrently with the process.   *)
(* A process holds the single-instance lock from its start until it is down; *)
(* the lock itself is the subject of module SingleInstance.                  *)
EXTENDS Integers, Sequences, FiniteSets, SequencesExt

CONSTANTS
  Enabled,              \* jobs enabled in scheduler.toml
  AllowManualDisabled,  \* allow_manual_disabled_jobs
  SyncPeriod,           \* moodle_sync.interval_hours, in clock ticks
  NotifyPeriod,         \* notifications.interval_hours, in clock ticks
  MaxAttempts,          \* attempts per run
  Clients,              \* terminals running --job while the lock is taken
  AskedJobs,            \* jobs that terminals ask for
  MaxTime, MaxStarts    \* bounds: the clock, and process starts

Pipeline == <<"moodle_sync", "ingestion", "extraction">>
Jobs == {"moodle_sync", "ingestion", "extraction", "notifications"}
Triggers == {"startup", "interval", "dependency", "manual"}
Automatic == {"dependency", "interval"}   \* triggers that ask has_work() first
AlwaysHasWork == {"moodle_sync"}          \* jobs that keep the default has_work()
Null == -1

ASSUME ConfigAssumption ==
  /\ Enabled \subseteq Jobs
  /\ AskedJobs \subseteq Jobs
  /\ AllowManualDisabled \in BOOLEAN
  /\ SyncPeriod \in Nat \ {0}
  /\ NotifyPeriod \in Nat \ {0}
  /\ MaxAttempts \in Nat \ {0}

ASSUME BoundAssumption == MaxTime \in Nat /\ MaxStarts \in Nat

VARIABLES
  pc,        \* where the process is; "down" when there is none
  oneShot,   \* the --job of a one-shot process, "none" for the daemon
  queue,     \* _queue
  item,      \* the queue item being executed
  attempt,   \* its attempt number; 0 when nothing is executed (_running is None)
  nextRun,   \* _next_run
  stop,      \* _stop
  batch,     \* rows of the requests snapshot not yet handled
  log,       \* scheduler_executions, in id order
  requests,  \* scheduler_requests, in id order
  now,       \* the clock both processes and terminals read
  starts,    \* processes started so far
  client     \* the terminals

volatile == <<oneShot, queue, item, attempt, nextRun, stop, batch>>
vars == <<pc, volatile, log, requests, now, starts, client>>

-----------------------------------------------------------------------------
(* Values *)

Periods == [moodle_sync |-> SyncPeriod, notifications |-> NotifyPeriod]
Scheduled == DOMAIN Periods

\* "mark" is auxiliary: the length of the log when the item was queued.
Items == [job: Jobs, trigger: Triggers, mark: Nat]
NoItem == [job |-> "none", trigger |-> "none", mark |-> 0]

LogRows == [job: Jobs, trigger: Triggers, attempt: 1..MaxAttempts,
            status: {"running", "done", "failed"},
            started: Nat, finished: Nat \cup {Null}]

\* "by" is auxiliary: the latest process when the row was inserted.
RequestRows == [job: Jobs, stamp: Nat, by: Nat]

ClientStates == [at: {"idle", "refused", "stamped", "done"},
                 job: Jobs \cup {"none"}, stamp: Nat]

Locations == {"down", "recover", "purge", "purging", "arm", "loop", "requests",
              "pick", "attempt", "begin", "undetermined", "running", "final", "exit"}

\* Faulty variants, one per property, are named *_...: a run must notice each.
NextAligned_FromNow(t, period) == t + period
NextAligned_NotStrict(t, period) == ((t + period - 1) \div period) * period

\* The first instant of the grid of this period strictly after t. The grid is
\* anchored at midnight and the period divides the day, so it is its multiples.
NextAligned(t, period) == ((t \div period) + 1) * period

-----------------------------------------------------------------------------
(* The queue *)

QueuedJobs(q) == {q[i].job : i \in DOMAIN q}

Accepts_Duplicates(q, job, trigger) ==
  job \in Enabled \/ (trigger = "manual" /\ AllowManualDisabled)

\* request(): disabled and duplicate requests are refused. A duplicate is the
\* job of the item being executed (_running) or one in the queue.
Accepts(q, job, trigger) ==
  /\ job \in Enabled \/ (trigger = "manual" /\ AllowManualDisabled)
  /\ job # item.job /\ job \notin QueuedJobs(q)

Requested(q, job, trigger) ==
  IF Accepts(q, job, trigger)
  THEN Append(q, [job |-> job, trigger |-> trigger, mark |-> Len(log)])
  ELSE q

\* The jobs that follow this one in the chain.
Downstream(job) ==
  {Pipeline[k] : k \in {k \in DOMAIN Pipeline : \E i \in 1..(k - 1) : Pipeline[i] = job}}

Child(job) ==
  CASE job = "moodle_sync" -> "ingestion"
    [] job = "ingestion" -> "extraction"
    [] OTHER -> "none"

\* _continue_chain(): the child is asked for, under the trigger "dependency".
Continued(q, job) ==
  IF Child(job) = "none" THEN q ELSE Requested(q, Child(job), "dependency")

\* The queue without the automatic run of this job (a job is queued once).
WithoutDependent(q, job) ==
  LET hits == {i \in DOMAIN q : q[i].job = job /\ q[i].trigger = "dependency"}
  IN  IF hits = {} THEN q ELSE RemoveAt(q, CHOOSE i \in hits : TRUE)

ChainStopped_ChildOnly(q, job) ==
  IF Child(job) = "none" THEN q ELSE WithoutDependent(q, Child(job))

\* _stop_chain(): only the last two jobs of the chain are downstream of any.
ChainStopped(q, job) ==
  LET q1 == IF "ingestion" \in Downstream(job) THEN WithoutDependent(q, "ingestion") ELSE q
  IN  IF "extraction" \in Downstream(job) THEN WithoutDependent(q1, "extraction") ELSE q1

Due_Strict(job, t) == nextRun[job] # Null /\ nextRun[job] < t

Due(job, t) == nextRun[job] # Null /\ nextRun[job] <= t

\* _check_schedules() for one job: what is due is asked for once.
WithDue(q, job) == IF Due(job, now) THEN Requested(q, job, "interval") ELSE q

\* ran_at_or_after(): some attempt was open at this instant or ended later.
RanAtOrAfter(job, stamp) ==
  \E i \in DOMAIN log : log[i].job = job /\ (log[i].finished = Null \/ log[i].finished >= stamp)

-----------------------------------------------------------------------------
(* The process is gone: what it held in memory is lost. *)
Gone ==
  /\ pc' = "down"
  /\ oneShot' = "none"
  /\ queue' = <<>>
  /\ item' = NoItem
  /\ attempt' = 0
  /\ nextRun' = [j \in Scheduled |-> Null]
  /\ stop' = FALSE
  /\ batch' = 0

\* The current item is over.
Idle == item' = NoItem /\ attempt' = 0 /\ pc' = "loop"

Init ==
  /\ pc = "down"
  /\ oneShot = "none"
  /\ queue = <<>>
  /\ item = NoItem
  /\ attempt = 0
  /\ nextRun = [j \in Scheduled |-> Null]
  /\ stop = FALSE
  /\ batch = 0
  /\ log = <<>>
  /\ requests = <<>>
  /\ now = 0
  /\ starts = 0
  /\ client = [c \in Clients |-> [at |-> "idle", job |-> "none", stamp |-> 0]]

-----------------------------------------------------------------------------
(* Starting: lock, recovery, purge, first queue *)

\* run_daemon() or run_manual() takes the lock; only one process is up.
Start(job) ==
  /\ pc = "down" /\ starts < MaxStarts
  /\ pc' = "recover"
  /\ oneShot' = job
  /\ starts' = starts + 1
  /\ UNCHANGED <<queue, item, attempt, nextRun, stop, batch, log, requests, now, client>>

StartDaemon == Start("none")
StartOneShot == \E j \in AskedJobs : Start(j)

Recover_DaemonOnly ==
  /\ pc = "recover"
  /\ log' = [i \in DOMAIN log |->
               IF oneShot = "none" /\ log[i].status = "running"
               THEN [log[i] EXCEPT !.status = "failed", !.finished = now]
               ELSE log[i]]
  /\ pc' = "purge"
  /\ UNCHANGED <<volatile, requests, now, starts, client>>

\* fail_stale_running(): every open row is failed, now.
Recover ==
  /\ pc = "recover"
  /\ log' = [i \in DOMAIN log |->
               IF log[i].status = "running"
               THEN [log[i] EXCEPT !.status = "failed", !.finished = now]
               ELSE log[i]]
  /\ pc' = "purge"
  /\ UNCHANGED <<volatile, requests, now, starts, client>>

\* purge_requests() reads the leftover rows, to report them ...
ReadLeftovers ==
  /\ pc = "purge"
  /\ batch' = Len(requests)
  /\ pc' = "purging"
  /\ UNCHANGED <<oneShot, queue, item, attempt, nextRun, stop, log, requests, now, starts, client>>

DeleteLeftovers_DaemonOnly ==
  /\ pc = "purging"
  /\ requests' = IF oneShot = "none" THEN <<>> ELSE requests
  /\ batch' = 0
  /\ pc' = "arm"
  /\ UNCHANGED <<oneShot, queue, item, attempt, nextRun, stop, log, now, starts, client>>

\* ... and then deletes whatever the table holds.
DeleteLeftovers ==
  /\ pc = "purging"
  /\ requests' = <<>>
  /\ batch' = 0
  /\ pc' = "arm"
  /\ UNCHANGED <<oneShot, queue, item, attempt, nextRun, stop, log, now, starts, client>>

\* The rest of startup(one_shot=False).
ArmDaemon ==
  /\ pc = "arm" /\ oneShot = "none"
  /\ queue' = Requested(queue, "moodle_sync", "startup")
  /\ nextRun' = [j \in Scheduled |->
                   IF j \in Enabled THEN NextAligned(now, Periods[j]) ELSE Null]
  /\ pc' = "loop"
  /\ UNCHANGED <<oneShot, item, attempt, stop, batch, log, requests, now, starts, client>>

\* run_manual() after startup(one_shot=True): a disabled job ends it at once.
ArmOneShot ==
  /\ pc = "arm" /\ oneShot # "none"
  /\ queue' = Requested(queue, oneShot, "manual")
  /\ pc' = IF Accepts(queue, oneShot, "manual") THEN "loop" ELSE "exit"
  /\ UNCHANGED <<oneShot, item, attempt, nextRun, stop, batch, log, requests, now, starts, client>>

-----------------------------------------------------------------------------
(* The loop: manual requests, schedules, next job *)

ReadRequests_Never ==
  /\ pc = "loop" /\ ~stop
  /\ batch' = 0
  /\ pc' = "requests"
  /\ UNCHANGED <<oneShot, queue, item, attempt, nextRun, stop, log, requests, now, starts, client>>

\* A new iteration of the loop: the waiting requests are read.
ReadRequests ==
  /\ pc = "loop" /\ ~stop
  /\ batch' = Len(requests)
  /\ pc' = "requests"
  /\ UNCHANGED <<oneShot, queue, item, attempt, nextRun, stop, log, requests, now, starts, client>>

LeaveLoop_WhenEmpty ==
  /\ pc = "loop" /\ stop /\ queue = <<>>
  /\ pc' = "exit"
  /\ UNCHANGED <<volatile, log, requests, now, starts, client>>

LeaveLoop ==
  /\ pc = "loop" /\ stop
  /\ pc' = "exit"
  /\ UNCHANGED <<volatile, log, requests, now, starts, client>>

\* One row of the snapshot: served already, queued, or refused; then deleted.
\* Rows inserted meanwhile are behind it in the table.
HandleRequest ==
  /\ pc = "requests" /\ batch > 0
  /\ LET job == Head(requests).job
         served == RanAtOrAfter(job, Head(requests).stamp) IN
       queue' = IF served THEN queue ELSE Requested(queue, job, "manual")
  /\ requests' = Tail(requests)
  /\ batch' = batch - 1
  /\ UNCHANGED <<pc, oneShot, item, attempt, nextRun, stop, log, now, starts, client>>

\* The due jobs in the order of ALL_JOBS; each moves to its next future slot.
CheckSchedules ==
  /\ pc = "requests" /\ batch = 0
  /\ queue' = WithDue(WithDue(queue, "moodle_sync"), "notifications")
  /\ nextRun' = [j \in Scheduled |-> IF Due(j, now) THEN NextAligned(now, Periods[j]) ELSE nextRun[j]]
  /\ pc' = "pick"
  /\ UNCHANGED <<oneShot, item, attempt, stop, batch, log, requests, now, starts, client>>

\* Nothing to run: the daemon waits and loops, the one-shot process is done.
PickNone ==
  /\ pc = "pick" /\ (queue = <<>> \/ stop)
  /\ pc' = IF oneShot = "none" THEN "loop" ELSE "exit"
  /\ UNCHANGED <<volatile, log, requests, now, starts, client>>

PickNext ==
  /\ pc = "pick" /\ queue # <<>> /\ ~stop
  /\ item' = Head(queue)
  /\ queue' = Tail(queue)
  /\ attempt' = 1
  /\ pc' = "attempt"
  /\ UNCHANGED <<oneShot, nextRun, stop, batch, log, requests, now, starts, client>>

-----------------------------------------------------------------------------
(* One run: _execute() and _attempt() *)

StopRun_KeepsRunning ==
  /\ pc = "attempt" /\ stop
  /\ item' = NoItem /\ pc' = "loop"
  /\ UNCHANGED <<oneShot, queue, attempt, nextRun, stop, batch, log, requests, now, starts, client>>

\* A stop found before an attempt, or while waiting for a retry.
StopRun ==
  /\ pc = "attempt" /\ stop
  /\ Idle
  /\ UNCHANGED <<oneShot, queue, nextRun, stop, batch, log, requests, now, starts, client>>

PassStopCheck ==
  /\ pc = "attempt" /\ ~stop
  /\ pc' = "begin"
  /\ UNCHANGED <<volatile, log, requests, now, starts, client>>

\* Whether has_work() is asked, and its answer is not a constant yes.
AsksForWork == item.trigger \in Automatic /\ item.job \notin AlwaysHasWork

\* has_work() says no: no row, and the chain goes on.
Skip ==
  /\ pc = "begin" /\ AsksForWork
  /\ queue' = Continued(queue, item.job)
  /\ Idle
  /\ UNCHANGED <<oneShot, nextRun, stop, batch, log, requests, now, starts, client>>

\* start_execution(). If has_work() raised, the attempt fails without running.
OpenRow(next) ==
  /\ log' = Append(log, [job |-> item.job, trigger |-> item.trigger, attempt |-> attempt,
                         status |-> "running", started |-> now, finished |-> Null])
  /\ pc' = next
  /\ UNCHANGED <<oneShot, queue, item, attempt, nextRun, stop, batch, requests, now, starts, client>>

StartAttempt == pc = "begin" /\ OpenRow("running")

HasWorkRaises == pc = "begin" /\ AsksForWork /\ OpenRow("undetermined")

\* finish_execution(): the row of the current attempt is the last one.
CloseRow(status, t) ==
  log' = [log EXCEPT ![Len(log)] = [@ EXCEPT !.status = status, !.finished = t]]

AttemptDone ==
  /\ pc = "running"
  /\ CloseRow("done", now)
  /\ queue' = Continued(queue, item.job)
  /\ Idle
  /\ UNCHANGED <<oneShot, nextRun, stop, batch, requests, now, starts, client>>

Failed_OneMore ==
  /\ IF attempt <= MaxAttempts
     THEN attempt' = attempt + 1 /\ pc' = "attempt"
     ELSE attempt' = attempt /\ pc' = "final"
  /\ UNCHANGED <<oneShot, queue, item, nextRun, stop, batch, requests, now, starts, client>>

\* After a failed attempt: the next one, or the end of the run.
Failed ==
  /\ IF attempt < MaxAttempts
     THEN attempt' = attempt + 1 /\ pc' = "attempt"
     ELSE attempt' = attempt /\ pc' = "final"
  /\ UNCHANGED <<oneShot, queue, item, nextRun, stop, batch, requests, now, starts, client>>

AttemptFails ==
  \/ pc = "running" /\ CloseRow("failed", now) /\ Failed
  \/ pc = "undetermined" /\ CloseRow("failed", log[Len(log)].started) /\ Failed

\* The failure alert (best effort) and the end of the cycle.
ReportFinalFailure ==
  /\ pc = "final"
  /\ queue' = ChainStopped(queue, item.job)
  /\ Idle
  /\ UNCHANGED <<oneShot, nextRun, stop, batch, log, requests, now, starts, client>>

-----------------------------------------------------------------------------
(* Signals, exits and crashes *)

\* The first signal only sets the flag.
RequestStop ==
  /\ pc \notin {"down", "exit"} /\ ~stop
  /\ stop' = TRUE
  /\ UNCHANGED <<pc, oneShot, queue, item, attempt, nextRun, batch, log, requests, now, starts, client>>

\* A second Ctrl+C during a job: its row is closed, and the process ends.
Abort ==
  /\ pc = "running" /\ stop
  /\ CloseRow("failed", now)
  /\ Gone
  /\ UNCHANGED <<requests, now, starts, client>>

Exit ==
  /\ pc = "exit"
  /\ Gone
  /\ UNCHANGED <<log, requests, now, starts, client>>

\* Killed, or ended by a database error: an open row stays open.
Crash ==
  /\ pc # "down"
  /\ Gone
  /\ UNCHANGED <<log, requests, now, starts, client>>

-----------------------------------------------------------------------------
(* Terminals, and the clock *)

\* try_acquire() fails: the request will be handed over.
Knock(c) ==
  /\ client[c].at = "idle" /\ pc # "down"
  /\ \E j \in AskedJobs : client' = [client EXCEPT ![c].at = "refused", ![c].job = j]
  /\ UNCHANGED <<pc, volatile, log, requests, now, starts>>

\* requested_at is read before the row is inserted ...
Stamp(c) ==
  /\ client[c].at = "refused"
  /\ client' = [client EXCEPT ![c].at = "stamped", ![c].stamp = now]
  /\ UNCHANGED <<pc, volatile, log, requests, now, starts>>

\* ... by add_request(), whoever holds the lock by then ...
AddRequest(c) ==
  /\ client[c].at = "stamped"
  /\ requests' = Append(requests, [job |-> client[c].job, stamp |-> client[c].stamp, by |-> starts])
  /\ client' = [client EXCEPT ![c].at = "done"]
  /\ UNCHANGED <<pc, volatile, log, now, starts>>

\* ... unless the database is busy for too long.
DatabaseBusy(c) ==
  /\ client[c].at = "stamped"
  /\ client' = [client EXCEPT ![c].at = "done"]
  /\ UNCHANGED <<pc, volatile, log, requests, now, starts>>

Tick ==
  /\ now < MaxTime
  /\ now' = now + 1
  /\ UNCHANGED <<pc, volatile, log, requests, starts, client>>

-----------------------------------------------------------------------------

\* The process's own steps: they only wait for sleeps and for jobs, which end.
Process ==
  \/ Recover \/ ReadLeftovers \/ DeleteLeftovers \/ ArmDaemon \/ ArmOneShot
  \/ ReadRequests \/ LeaveLoop \/ HandleRequest \/ CheckSchedules \/ PickNone \/ PickNext
  \/ StopRun \/ PassStopCheck \/ Skip \/ StartAttempt \/ HasWorkRaises
  \/ AttemptDone \/ AttemptFails \/ ReportFinalFailure \/ Exit

Terminal(c) == Knock(c) \/ Stamp(c) \/ AddRequest(c) \/ DatabaseBusy(c)

Next ==
  \/ StartDaemon \/ StartOneShot
  \/ Process
  \/ RequestStop \/ Abort \/ Crash
  \/ \E c \in Clients : Terminal(c)
  \/ Tick

Spec == Init /\ [][Next]_vars

FairSpec == Spec /\ WF_vars(Process)
-----------------------------------------------------------------------------
(* Properties *)

\* Every variable stays in its set; in particular an attempt number never
\* exceeds MAX_ATTEMPTS, whatever the order of failures, skips and stops.
TypeOK ==
  /\ pc \in Locations
  /\ oneShot \in Jobs \cup {"none"}
  /\ queue \in Seq(Items)
  /\ item \in Items \cup {NoItem}
  /\ attempt \in 0..MaxAttempts
  /\ nextRun \in [Scheduled -> Nat \cup {Null}]
  /\ stop \in BOOLEAN
  /\ batch \in Nat
  /\ log \in Seq(LogRows)
  /\ requests \in Seq(RequestRows)
  /\ now \in Nat
  /\ starts \in Nat
  /\ client \in [Clients -> ClientStates]

\* The row of this attempt of the run in progress.
RowOf(row, n) == row.job = item.job /\ row.trigger = item.trigger /\ row.attempt = n

\* max_concurrent_jobs = 1 as the database shows it: an open row is the last
\* one, and it is the attempt in progress, or it was left by a dead process
\* and the next one has not recovered yet. No exit path leaves one behind.
RunningRowIsLive ==
  \A i \in DOMAIN log : log[i].status = "running" =>
    /\ i = Len(log)
    /\ \/ pc \in {"down", "recover"}
       \/ pc \in {"running", "undetermined"} /\ RowOf(log[i], attempt)

\* What the process remembers of its run agrees with the database: outside a
\* run there is no item; inside, the open row is the attempt in progress, and
\* an attempt after the first follows the failed row of the one before.
RunMatchesLog ==
  /\ IF pc \in {"attempt", "begin", "undetermined", "running", "final"}
     THEN item \in Items /\ attempt > 0
     ELSE item = NoItem /\ attempt = 0
  /\ pc \in {"undetermined", "running"} =>
       log # <<>> /\ log[Len(log)].status = "running" /\ RowOf(log[Len(log)], attempt)
  /\ pc \in {"attempt", "begin"} /\ attempt > 1 =>
       log # <<>> /\ log[Len(log)].status = "failed" /\ RowOf(log[Len(log)], attempt - 1)

\* The rows the process has read are still at the head of the table, and what
\* a terminal hands over is a job.
RequestsMatch ==
  /\ pc = "requests" => batch <= Len(requests)
  /\ \A c \in Clients : client[c].at \in {"refused", "stamped"} => client[c].job \in Jobs

JobsDistinct(q) == \A i, k \in DOMAIN q : q[i].job = q[k].job => i = k

\* The duplicate rule of request() over all its callers (startup, chain, clock,
\* terminals): a job waits once at most, and never while it is being executed.
QueuedOnce ==
  /\ JobsDistinct(queue)
  /\ attempt > 0 => item.job \notin QueuedJobs(queue)

Upstream(job) == {u \in Jobs : job \in Downstream(u)}

FinalFailure(row) == row.status = "failed" /\ row.attempt = MaxAttempts

\* What still has to run: the queue, and an item before its next attempt.
Waiting == {queue[i] : i \in DOMAIN queue} \cup (IF pc \in {"attempt", "begin"} THEN {item} ELSE {})

\* Nothing downstream runs as if the upstream state were current (_stop_chain):
\* since a dependent was queued, no job upstream of it has exhausted its
\* attempts, whatever ran or was asked for in between; and ingestion waits as
\* a dependent only behind a sync that succeeded.
NoStaleDependents ==
  pc # "final" =>
    \A it \in Waiting : it.trigger = "dependency" =>
      /\ \A n \in (it.mark + 1)..Len(log) :
           log[n].job \in Upstream(it.job) => ~FinalFailure(log[n])
      /\ it.job = "ingestion" =>
           it.mark > 0 /\ log[it.mark].job = "moodle_sync" /\ log[it.mark].status = "done"

\* The clock grid: a scheduled job is due at a multiple of its period, at the
\* next slot at the latest, however long the process was busy.
OnGrid ==
  \A j \in Scheduled : nextRun[j] # Null =>
    /\ j \in Enabled
    /\ nextRun[j] % Periods[j] = 0
    /\ nextRun[j] <= NextAligned(now, Periods[j])

\* A slot is never replayed: whenever a job gets a new slot, it is in the
\* future, and the earlier one had arrived (or the process has just started).
NoReplay ==
  [][\A j \in Scheduled : nextRun'[j] \notin {Null, nextRun[j]} =>
        /\ nextRun'[j] > now
        /\ nextRun[j] # Null => nextRun[j] <= now]_vars

\* A request left for an earlier process is never replayed (purge_requests):
\* once a process is past its startup, daemon or one-shot, every waiting row
\* was inserted while that very process held the lock.
NoReplayedRequest ==
  pc \notin {"down", "recover", "purge", "purging"} =>
    \A i \in DOMAIN requests : requests[i].by = starts

\* The history reads as a list of runs with consecutive attempts, one open
\* attempt at most, through crashes, aborts, skips and recoveries.
Log == INSTANCE ExecutionLog WITH
  log <- [i \in DOMAIN log |-> [job |-> log[i].job, trigger |-> log[i].trigger,
                                attempt |-> log[i].attempt, status |-> log[i].status]]

ImplementsLog == Log!Spec

\* A stop request ends the process, whatever is queued, failing or waiting.
StopEnds == (pc # "down" /\ stop) ~> pc = "down"

\* A request handed to a running daemon is taken off the table, unless the
\* daemon stops or dies first.
RequestsTaken ==
  (requests # <<>> /\ oneShot = "none" /\ pc # "down") ~> (requests = <<>> \/ stop \/ pc = "down")

\* A slot that arrives is taken, unless the process stops or dies first.
SlotTaken ==
  \A j \in Scheduled :
    LET waiting == nextRun[j] # Null /\ nextRun[j] <= now IN waiting ~> (~waiting \/ stop)
====
