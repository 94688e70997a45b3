---- MODULE SchedulerProofs ----
(* Proofs about Scheduler, for any configuration and any number of terminals. *)
EXTENDS Scheduler, SequenceTheorems, TLAPS

(* Lemmas about the queue and the history *)

\* A queue without one of its entries is a queue.
LEMMA RemoveAtType ==
  ASSUME NEW S, NEW q \in Seq(S), NEW i \in DOMAIN q
  PROVE  RemoveAt(q, i) \in Seq(S)
<1>1. SubSeq(q, 1, i - 1) \in Seq(S)
  OBVIOUS
<1>2. SubSeq(q, i + 1, Len(q)) \in Seq(S)
  OBVIOUS
<1>3. QED
  BY <1>1, <1>2, ConcatProperties DEF RemoveAt

\* request() returns a queue.
LEMMA RequestedType ==
  ASSUME log \in Seq(LogRows), NEW q \in Seq(Items), NEW j \in Jobs, NEW t \in Triggers
  PROVE  Requested(q, j, t) \in Seq(Items)
<1>1. [job |-> j, trigger |-> t, mark |-> Len(log)] \in Items
  BY DEF Items
<1>2. QED
  BY <1>1 DEF Requested

\* So do the two ways a run ends, and the clock.
LEMMA ContinuedType ==
  ASSUME log \in Seq(LogRows), NEW q \in Seq(Items), NEW j \in Jobs
  PROVE  Continued(q, j) \in Seq(Items)
<1>1. Child(j) \in {"ingestion", "extraction", "none"}
  BY DEF Child
<1>2. QED
  BY <1>1, RequestedType DEF Continued, Jobs, Triggers

LEMMA WithoutDependentType ==
  ASSUME NEW q \in Seq(Items), NEW j \in Jobs
  PROVE  WithoutDependent(q, j) \in Seq(Items)
<1> DEFINE hits == {i \in DOMAIN q : q[i].job = j /\ q[i].trigger = "dependency"}
<1>1. CASE hits = {}
  BY <1>1 DEF WithoutDependent
<1>2. CASE hits # {}
  <2>1. (CHOOSE i \in hits : TRUE) \in DOMAIN q
    BY <1>2
  <2>2. WithoutDependent(q, j) = RemoveAt(q, CHOOSE i \in hits : TRUE)
    BY <1>2 DEF WithoutDependent
  <2>3. QED
    BY <2>1, <2>2, RemoveAtType
<1>3. QED
  BY <1>1, <1>2

LEMMA ChainStoppedType ==
  ASSUME NEW q \in Seq(Items), NEW j \in Jobs
  PROVE  ChainStopped(q, j) \in Seq(Items)
<1>1. "ingestion" \in Jobs /\ "extraction" \in Jobs
  BY DEF Jobs
<1>2. QED
  BY <1>1, WithoutDependentType DEF ChainStopped

LEMMA WithDueType ==
  ASSUME log \in Seq(LogRows), NEW q \in Seq(Items), NEW j \in Jobs
  PROVE  WithDue(q, j) \in Seq(Items)
<1>1. "interval" \in Triggers
  BY DEF Triggers
<1>2. QED
  BY <1>1, RequestedType DEF WithDue

\* A slot after a natural instant is a natural number.
LEMMA NextAlignedType ==
  ASSUME NEW t \in Nat, NEW p \in Nat \ {0}
  PROVE  NextAligned(t, p) \in Nat
BY DEF NextAligned

LEMMA PeriodsType ==
  /\ Scheduled = {"moodle_sync", "notifications"}
  /\ \A j \in Scheduled : Periods[j] \in Nat \ {0}
BY ConfigAssumption DEF Scheduled, Periods

\* Closing the last row changes that row only.
LEMMA CloseRowType ==
  ASSUME log \in Seq(LogRows), log # <<>>, now \in Nat,
         NEW s \in {"running", "done", "failed"}, NEW t \in Nat, CloseRow(s, t)
  PROVE  /\ log' \in Seq(LogRows)
         /\ Len(log') = Len(log)
         /\ \A i \in 1..(Len(log) - 1) : log'[i] = log[i]
         /\ log'[Len(log)] = [log[Len(log)] EXCEPT !.status = s, !.finished = t]
<1> DEFINE n == Len(log)
           row == [log[n] EXCEPT !.status = s, !.finished = t]
<1>1. n \in DOMAIN log /\ log[n] \in LogRows
  OBVIOUS
<1>2. row \in LogRows
  BY <1>1 DEF LogRows
<1>3. log' = [log EXCEPT ![n] = row]
  BY DEF CloseRow
<1> HIDE DEF row
<1>4. /\ log' \in Seq(LogRows)
      /\ Len(log') = n
      /\ \A i \in 1..(n - 1) : log'[i] = log[i]
      /\ log'[n] = row
  BY <1>1, <1>2, <1>3
<1>5. QED
  BY <1>4 DEF row
-----------------------------------------------------------------------------
(* Types *)

\* The inductive invariant: types, agreement of the process with its history
\* and with the requests table, and the only open row.
IInv == TypeOK /\ RunMatchesLog /\ RequestsMatch /\ RunningRowIsLive

USE ConfigAssumption, BoundAssumption DEF Null

LEMMA InitIInv == Init => IInv
<1> SUFFICES ASSUME Init PROVE IInv
  OBVIOUS
<1>1. TypeOK
  <2>1. client \in [Clients -> ClientStates]
    BY DEF Init, ClientStates
  <2>2. queue \in Seq(Items) /\ log \in Seq(LogRows) /\ requests \in Seq(RequestRows)
    BY DEF Init
  <2>3. nextRun \in [Scheduled -> Nat \cup {Null}] /\ pc \in Locations
    BY DEF Init, Locations
  <2>4. oneShot \in Jobs \cup {"none"} /\ item \in Items \cup {NoItem}
    BY DEF Init
  <2>5. attempt = 0 /\ batch = 0 /\ now = 0 /\ starts = 0 /\ stop \in BOOLEAN
    BY Zenon DEF Init
  <2>6. QED
    BY <2>1, <2>2, <2>3, <2>4, <2>5 DEF TypeOK
<1>2. RunMatchesLog
  BY DEF Init, RunMatchesLog
<1>3. RequestsMatch /\ RunningRowIsLive
  BY DEF Init, RequestsMatch, RunningRowIsLive
<1>4. QED
  BY <1>1, <1>2, <1>3 DEF IInv

\* What dies with the process is reset to values of the right type.
LEMMA GoneType ==
  ASSUME Gone
  PROVE  /\ pc' \in Locations /\ oneShot' \in Jobs \cup {"none"} /\ queue' \in Seq(Items)
         /\ item' \in Items \cup {NoItem} /\ attempt' \in 0..MaxAttempts
         /\ nextRun' \in [Scheduled -> Nat \cup {Null}] /\ stop' \in BOOLEAN
         /\ batch' \in Nat
<1>1. 0 \in 0..MaxAttempts
  OBVIOUS
<1>2. queue' \in Seq(Items)
  BY DEF Gone
<1>3. nextRun' \in [Scheduled -> Nat \cup {Null}]
  BY DEF Gone
<1>4. pc' \in Locations
  BY DEF Gone, Locations
<1>5. QED
  BY <1>1, <1>2, <1>3, <1>4 DEF Gone

LEMMA StartupType ==
  ASSUME TypeOK, StartDaemon \/ StartOneShot \/ Recover \/ ReadLeftovers \/ DeleteLeftovers
                 \/ ArmDaemon \/ ArmOneShot
  PROVE  TypeOK'
<1>1. CASE StartDaemon \/ StartOneShot
  BY <1>1 DEF TypeOK, StartDaemon, StartOneShot, Start, Locations
<1>2. CASE Recover
  <2>1. log' \in Seq(LogRows)
    <3> DEFINE closed(i) == [log[i] EXCEPT !.status = "failed", !.finished = now]
    <3>1. ASSUME NEW i \in DOMAIN log PROVE closed(i) \in LogRows /\ log[i] \in LogRows
      <4>1. log[i] \in LogRows /\ now \in Nat
        BY DEF TypeOK
      <4>2. QED
        BY <4>1 DEF LogRows
    <3>2. log' = [i \in DOMAIN log |-> IF log[i].status = "running" THEN closed(i) ELSE log[i]]
      BY <1>2, Zenon DEF Recover
    <3> HIDE DEF closed
    <3>3. DOMAIN log = 1..Len(log) /\ Len(log) \in Nat
      BY DEF TypeOK
    <3>4. \A i \in 1..Len(log) : log'[i] \in LogRows
      BY <3>1, <3>2, <3>3
    <3>5. QED
      BY <3>2, <3>3, <3>4
  <2>2. QED
    BY <1>2, <2>1 DEF TypeOK, Recover, volatile, Locations
<1>3. CASE ReadLeftovers
  BY <1>3 DEF TypeOK, ReadLeftovers, Locations
<1>4. CASE DeleteLeftovers
  BY <1>4 DEF TypeOK, DeleteLeftovers, Locations
<1>5. CASE ArmDaemon
  <2>1. queue' \in Seq(Items)
    BY <1>5, RequestedType DEF TypeOK, ArmDaemon, Jobs, Triggers
  <2>2. nextRun' \in [Scheduled -> Nat \cup {Null}]
    <3>1. \A j \in Scheduled \cap Enabled : NextAligned(now, Periods[j]) \in Nat
      <4>1. now \in Nat
        BY DEF TypeOK
      <4>2. \A j \in Scheduled : Periods[j] \in Nat \ {0}
        BY PeriodsType
      <4>3. QED
        BY <4>1, <4>2, NextAlignedType
    <3>2. QED
      BY <1>5, <3>1 DEF ArmDaemon
  <2>3. QED
    BY <1>5, <2>1, <2>2 DEF TypeOK, ArmDaemon, Locations
<1>6. CASE ArmOneShot
  <2>1. queue' \in Seq(Items)
    BY <1>6, RequestedType DEF TypeOK, ArmOneShot, Triggers
  <2>2. QED
    BY <1>6, <2>1 DEF TypeOK, ArmOneShot, Locations
<1>7. QED
  BY <1>1, <1>2, <1>3, <1>4, <1>5, <1>6

LEMMA LoopType ==
  ASSUME IInv, ReadRequests \/ LeaveLoop \/ HandleRequest \/ CheckSchedules \/ PickNone \/ PickNext
  PROVE  TypeOK'
<1> USE DEF IInv
<1>1. CASE ReadRequests
  BY <1>1 DEF TypeOK, ReadRequests, Locations
<1>2. CASE LeaveLoop
  BY <1>2 DEF TypeOK, LeaveLoop, volatile, Locations
<1>3. CASE HandleRequest
  <2>1. requests # <<>> /\ Head(requests).job \in Jobs
    <3>1. requests # <<>>
      BY <1>3 DEF TypeOK, RequestsMatch, HandleRequest
    <3>2. Head(requests) \in RequestRows
      BY <3>1 DEF TypeOK
    <3>3. QED
      BY <3>1, <3>2 DEF RequestRows
  <2>2. queue' \in Seq(Items)
    BY <1>3, <2>1, RequestedType DEF TypeOK, HandleRequest, Triggers
  <2>3. requests' \in Seq(RequestRows) /\ batch' \in Nat
    BY <1>3, <2>1 DEF TypeOK, HandleRequest
  <2>4. QED
    BY <1>3, <2>2, <2>3 DEF TypeOK, HandleRequest
<1>4. CASE CheckSchedules
  <2>1. queue' \in Seq(Items)
    <3>1. WithDue(queue, "moodle_sync") \in Seq(Items)
      BY WithDueType DEF TypeOK, Jobs
    <3>2. WithDue(WithDue(queue, "moodle_sync"), "notifications") \in Seq(Items)
      BY <3>1, WithDueType DEF TypeOK, Jobs
    <3>3. QED
      BY <1>4, <3>2 DEF CheckSchedules
  <2>2. nextRun' \in [Scheduled -> Nat \cup {Null}]
    <3>1. now \in Nat /\ nextRun \in [Scheduled -> Nat \cup {Null}]
      BY DEF TypeOK
    <3>2. \A j \in Scheduled : NextAligned(now, Periods[j]) \in Nat
      BY <3>1, PeriodsType, NextAlignedType
    <3>3. QED
      BY <1>4, <3>1, <3>2 DEF CheckSchedules
  <2>3. QED
    BY <1>4, <2>1, <2>2 DEF TypeOK, CheckSchedules, Locations
<1>5. CASE PickNone
  BY <1>5 DEF TypeOK, PickNone, volatile, Locations
<1>6. CASE PickNext
  BY <1>6 DEF TypeOK, PickNext, Locations
<1>7. QED
  BY <1>1, <1>2, <1>3, <1>4, <1>5, <1>6

\* Opening a row appends it.
LEMMA OpenRowType ==
  ASSUME TypeOK, RunMatchesLog, pc = "begin", NEW next, OpenRow(next)
  PROVE  /\ log' \in Seq(LogRows)
         /\ Len(log') = Len(log) + 1
         /\ \A i \in 1..Len(log) : log'[i] = log[i]
         /\ log'[Len(log) + 1].status = "running"
         /\ log'[Len(log) + 1].job = item.job
         /\ log'[Len(log) + 1].trigger = item.trigger
         /\ log'[Len(log) + 1].attempt = attempt
<1> DEFINE row == [job |-> item.job, trigger |-> item.trigger, attempt |-> attempt,
                   status |-> "running", started |-> now, finished |-> Null]
<1>1. item \in Items /\ attempt \in 1..MaxAttempts /\ now \in Nat /\ log \in Seq(LogRows)
  BY DEF TypeOK, RunMatchesLog
<1>2. row \in LogRows
  BY <1>1 DEF LogRows, Items
<1>3. log' = Append(log, row)
  BY DEF OpenRow
<1>4. /\ row.status = "running" /\ row.job = item.job /\ row.trigger = item.trigger
      /\ row.attempt = attempt
  OBVIOUS
<1> HIDE DEF row
<1>5. QED
  BY <1>1, <1>2, <1>3, <1>4

LEMMA RunType ==
  ASSUME IInv, StopRun \/ PassStopCheck \/ Skip \/ StartAttempt \/ HasWorkRaises
               \/ AttemptDone \/ AttemptFails \/ ReportFinalFailure
  PROVE  TypeOK'
<1> USE DEF IInv
<1>0. item \in Items /\ item.job \in Jobs /\ attempt \in 1..MaxAttempts
  BY DEF TypeOK, RunMatchesLog, Items, StopRun, PassStopCheck, Skip, StartAttempt, HasWorkRaises,
         AttemptDone, AttemptFails, ReportFinalFailure
<1>1. CASE StopRun
  BY <1>1 DEF TypeOK, StopRun, Idle, Locations
<1>2. CASE PassStopCheck
  BY <1>2 DEF TypeOK, PassStopCheck, volatile, Locations
<1>3. CASE Skip
  <2>1. queue' \in Seq(Items)
    BY <1>0, <1>3, ContinuedType DEF TypeOK, Skip
  <2>2. QED
    BY <1>3, <2>1 DEF TypeOK, Skip, Idle, Locations
<1>4. CASE StartAttempt
  <2>1. log' \in Seq(LogRows)
    BY <1>4, OpenRowType DEF StartAttempt
  <2>2. QED
    BY <1>4, <2>1 DEF TypeOK, StartAttempt, OpenRow, Locations
<1>5. CASE HasWorkRaises
  <2>1. log' \in Seq(LogRows)
    BY <1>5, OpenRowType DEF HasWorkRaises
  <2>2. QED
    BY <1>5, <2>1 DEF TypeOK, HasWorkRaises, OpenRow, Locations
<1>6. CASE AttemptDone
  <2>1. queue' \in Seq(Items)
    BY <1>0, <1>6, ContinuedType DEF TypeOK, AttemptDone
  <2>2. log' \in Seq(LogRows)
    BY <1>6, CloseRowType DEF TypeOK, RunMatchesLog, AttemptDone
  <2>3. QED
    BY <1>6, <2>1, <2>2 DEF TypeOK, AttemptDone, Idle, Locations
<1>7. CASE AttemptFails
  <2>1. log # <<>> /\ log[Len(log)] \in LogRows /\ log[Len(log)].started \in Nat
    <3>1. log # <<>>
      BY <1>7 DEF RunMatchesLog, AttemptFails
    <3>2. log[Len(log)] \in LogRows
      BY <3>1 DEF TypeOK
    <3>3. QED
      BY <3>1, <3>2 DEF LogRows
  <2>2. log' \in Seq(LogRows)
    BY <1>7, <2>1, CloseRowType DEF TypeOK, AttemptFails
  <2>3. Failed
    BY <1>7 DEF AttemptFails
  <2>4. QED
    BY <1>0, <2>2, <2>3 DEF TypeOK, Failed, Locations
<1>8. CASE ReportFinalFailure
  <2>1. queue' \in Seq(Items)
    BY <1>0, <1>8, ChainStoppedType DEF TypeOK, ReportFinalFailure
  <2>2. QED
    BY <1>8, <2>1 DEF TypeOK, ReportFinalFailure, Idle, Locations
<1>9. QED
  BY <1>1, <1>2, <1>3, <1>4, <1>5, <1>6, <1>7, <1>8

LEMMA EndType ==
  ASSUME IInv, RequestStop \/ Abort \/ Exit \/ Crash
  PROVE  TypeOK'
<1> USE DEF IInv
<1>1. CASE RequestStop
  BY <1>1 DEF TypeOK, RequestStop
<1>2. CASE Abort
  <2>1. log' \in Seq(LogRows)
    BY <1>2, CloseRowType DEF TypeOK, RunMatchesLog, Abort
  <2>2. QED
    BY <1>2, <2>1, GoneType DEF TypeOK, Abort
<1>3. CASE Exit
  BY <1>3, GoneType DEF TypeOK, Exit
<1>4. CASE Crash
  BY <1>4, GoneType DEF TypeOK, Crash
<1>5. QED
  BY <1>1, <1>2, <1>3, <1>4

\* What a terminal does keeps its record and the table well formed.
LEMMA TerminalType ==
  ASSUME IInv, NEW c \in Clients, Terminal(c)
  PROVE  TypeOK'
<1> USE DEF IInv
<1>0. client[c] \in ClientStates
  BY DEF TypeOK
<1>1. CASE Knock(c)
  <2>1. PICK j \in AskedJobs : client' = [client EXCEPT ![c].at = "refused", ![c].job = j]
    BY <1>1 DEF Knock
  <2>2. j \in Jobs
    BY <2>1
  <2>3. client' \in [Clients -> ClientStates]
    BY <1>0, <2>1, <2>2 DEF TypeOK, ClientStates
  <2>4. QED
    BY <1>1, <2>3 DEF TypeOK, Knock, volatile
<1>2. CASE Stamp(c)
  <2>1. client' \in [Clients -> ClientStates]
    BY <1>0, <1>2 DEF TypeOK, Stamp, ClientStates
  <2>2. QED
    BY <1>2, <2>1 DEF TypeOK, Stamp, volatile
<1>3. CASE AddRequest(c)
  <2>1. client' \in [Clients -> ClientStates]
    BY <1>0, <1>3 DEF TypeOK, AddRequest, ClientStates
  <2>2. client[c].job \in Jobs /\ client[c].stamp \in Nat
    BY <1>0, <1>3 DEF RequestsMatch, AddRequest, ClientStates
  <2>3. [job |-> client[c].job, stamp |-> client[c].stamp, by |-> starts] \in RequestRows
    BY <2>2 DEF TypeOK, RequestRows
  <2>4. requests' \in Seq(RequestRows)
    BY <1>3, <2>3 DEF TypeOK, AddRequest
  <2>5. QED
    BY <1>3, <2>1, <2>4 DEF TypeOK, AddRequest, volatile
<1>4. CASE DatabaseBusy(c)
  <2>1. client' \in [Clients -> ClientStates]
    BY <1>0, <1>4 DEF TypeOK, DatabaseBusy, ClientStates
  <2>2. QED
    BY <1>4, <2>1 DEF TypeOK, DatabaseBusy, volatile
<1>5. QED
  BY <1>1, <1>2, <1>3, <1>4 DEF Terminal

LEMMA NextType ==
  ASSUME IInv, [Next]_vars
  PROVE  TypeOK'
<1>1. CASE Tick
  BY <1>1 DEF IInv, TypeOK, Tick, volatile
<1>2. CASE UNCHANGED vars
  BY <1>2 DEF IInv, TypeOK, vars, volatile
<1>3. QED
  BY <1>1, <1>2, StartupType, LoopType, RunType, EndType, TerminalType
     DEF Next, Process, IInv
-----------------------------------------------------------------------------
(* The process and its history *)

\* The open row: what each kind of step does to it.
LEMMA OpenRowStep ==
  ASSUME IInv, StartAttempt \/ HasWorkRaises
  PROVE  RunMatchesLog' /\ RunningRowIsLive'
<1> USE DEF IInv
<1>1. /\ pc = "begin" /\ pc' \in {"running", "undetermined"}
      /\ item' = item /\ attempt' = attempt /\ item \in Items /\ attempt > 0
  BY DEF RunMatchesLog, StartAttempt, HasWorkRaises, OpenRow
<1>2. /\ log' \in Seq(LogRows) /\ Len(log') = Len(log) + 1
      /\ \A i \in 1..Len(log) : log'[i] = log[i]
      /\ log'[Len(log) + 1].status = "running" /\ RowOf(log'[Len(log) + 1], attempt)
  BY <1>1, OpenRowType DEF StartAttempt, HasWorkRaises, RowOf
<1>3. log \in Seq(LogRows) /\ log' # <<>>
  BY <1>2 DEF TypeOK
<1>4. (RowOf(log[Len(log)], attempt))'
  BY <1>1, <1>2 DEF RowOf
<1>5. RunMatchesLog'
  BY <1>1, <1>2, <1>3, <1>4 DEF RunMatchesLog
<1>6. \A i \in 1..Len(log) : log[i].status # "running"
  BY <1>1, <1>3 DEF RunningRowIsLive
<1>7. RunningRowIsLive'
  BY <1>1, <1>2, <1>3, <1>4, <1>6 DEF RunningRowIsLive
<1>8. QED
  BY <1>5, <1>7

\* Closing the open row leaves none.
LEMMA CloseRowStep ==
  ASSUME IInv, pc \in {"running", "undetermined"},
         NEW s \in {"done", "failed"}, NEW t \in Nat, CloseRow(s, t)
  PROVE  /\ log' \in Seq(LogRows) /\ Len(log') = Len(log) /\ log' # <<>>
         /\ log'[Len(log')].status = s /\ RowOf(log'[Len(log')], attempt)
         /\ \A i \in DOMAIN log' : log'[i].status # "running"
<1> USE DEF IInv
<1>1. log \in Seq(LogRows) /\ log # <<>> /\ now \in Nat /\ log[Len(log)] \in LogRows
  BY DEF TypeOK, RunMatchesLog
<1>2. /\ log' \in Seq(LogRows) /\ Len(log') = Len(log)
      /\ \A i \in 1..(Len(log) - 1) : log'[i] = log[i]
      /\ log'[Len(log)] = [log[Len(log)] EXCEPT !.status = s, !.finished = t]
  BY <1>1, CloseRowType
<1>3. /\ log'[Len(log)].status = s
      /\ log'[Len(log)].job = log[Len(log)].job
      /\ log'[Len(log)].trigger = log[Len(log)].trigger
      /\ log'[Len(log)].attempt = log[Len(log)].attempt
  BY <1>1, <1>2 DEF LogRows
<1>4. RowOf(log'[Len(log)], attempt)
  BY <1>3 DEF RunMatchesLog, RowOf
<1>5. \A i \in 1..(Len(log) - 1) : log[i].status # "running"
  BY <1>1 DEF RunningRowIsLive
<1>6. ASSUME NEW i \in 1..Len(log') PROVE log'[i].status # "running"
  <2>1. CASE i = Len(log)
    BY <1>3, <2>1
  <2>2. CASE i # Len(log)
    <3>1. i \in 1..(Len(log) - 1)
      BY <1>1, <1>2, <2>2
    <3>2. QED
      BY <1>2, <1>5, <3>1
  <2>3. QED
    BY <2>1, <2>2
<1>7. QED
  BY <1>1, <1>2, <1>3, <1>4, <1>6

LEMMA RunStep ==
  ASSUME IInv, StopRun \/ PassStopCheck \/ Skip \/ StartAttempt \/ HasWorkRaises
               \/ AttemptDone \/ AttemptFails \/ ReportFinalFailure
  PROVE  RunMatchesLog' /\ RunningRowIsLive'
<1>1. CASE StopRun \/ Skip \/ ReportFinalFailure
  <2>1. pc \notin {"running", "undetermined", "down", "recover"} /\ log' = log /\ Idle
    BY <1>1 DEF StopRun, Skip, ReportFinalFailure
  <2>2. QED
    BY <2>1 DEF IInv, RunMatchesLog, RunningRowIsLive, Idle
<1>2. CASE PassStopCheck
  BY <1>2 DEF IInv, RunMatchesLog, RunningRowIsLive, PassStopCheck, RowOf, volatile
<1>3. CASE StartAttempt \/ HasWorkRaises
  BY <1>3, OpenRowStep
<1>4. CASE AttemptDone
  <2>1. now \in Nat /\ pc = "running"
    BY <1>4 DEF IInv, TypeOK, AttemptDone
  <2>2. \A i \in DOMAIN log' : log'[i].status # "running"
    BY <1>4, <2>1, CloseRowStep DEF AttemptDone
  <2>3. QED
    BY <1>4, <2>2 DEF RunMatchesLog, RunningRowIsLive, AttemptDone, Idle
<1>5. CASE AttemptFails
  <2>1. /\ pc \in {"running", "undetermined"} /\ Failed
        /\ \E t \in Nat : CloseRow("failed", t)
    <3>1. now \in Nat
      BY DEF IInv, TypeOK
    <3>2. log[Len(log)].started \in Nat
      <4>1. log # <<>>
        BY <1>5 DEF IInv, RunMatchesLog, AttemptFails
      <4>2. log[Len(log)] \in LogRows
        BY <4>1 DEF IInv, TypeOK
      <4>3. QED
        BY <4>2 DEF LogRows
    <3>3. QED
      BY <1>5, <3>1, <3>2 DEF AttemptFails
  <2>2. /\ log' # <<>> /\ log'[Len(log')].status = "failed" /\ RowOf(log'[Len(log')], attempt)
        /\ \A i \in DOMAIN log' : log'[i].status # "running"
    BY <2>1, CloseRowStep
  <2>3. item \in Items /\ attempt \in 1..MaxAttempts /\ item' = item
    BY <2>1 DEF IInv, TypeOK, RunMatchesLog, Failed
  <2>4. CASE attempt < MaxAttempts
    <3>1. attempt' = attempt + 1 /\ pc' = "attempt"
      BY <2>1, <2>4 DEF Failed
    <3>2. (RowOf(log[Len(log)], attempt - 1))'
      BY <2>2, <2>3, <3>1 DEF RowOf
    <3>3. QED
      BY <2>2, <2>3, <3>1, <3>2 DEF RunMatchesLog, RunningRowIsLive
  <2>5. CASE ~(attempt < MaxAttempts)
    BY <2>1, <2>2, <2>3, <2>5 DEF RunMatchesLog, RunningRowIsLive, Failed
  <2>6. QED
    BY <2>4, <2>5
<1>6. QED
  BY <1>1, <1>2, <1>3, <1>4, <1>5

LEMMA EndStep ==
  ASSUME IInv, RequestStop \/ Abort \/ Exit \/ Crash
  PROVE  RunMatchesLog' /\ RunningRowIsLive'
<1>1. CASE RequestStop
  BY <1>1 DEF IInv, RunMatchesLog, RunningRowIsLive, RequestStop, RowOf
<1>2. ASSUME Gone PROVE RunMatchesLog'
  BY <1>2 DEF RunMatchesLog, Gone
<1>3. CASE Abort
  <2>1. \A i \in DOMAIN log' : log'[i].status # "running"
    BY <1>3, CloseRowStep DEF IInv, TypeOK, Abort
  <2>2. QED
    BY <1>2, <1>3, <2>1 DEF RunningRowIsLive, Abort
<1>4. CASE Exit
  BY <1>2, <1>4 DEF IInv, RunningRowIsLive, Exit, Gone
<1>5. CASE Crash
  <2>1. /\ Len(log') = Len(log) /\ log' \in Seq(LogRows) /\ log \in Seq(LogRows)
        /\ \A i \in 1..Len(log) : log'[i].status = log[i].status
    BY <1>5 DEF IInv, TypeOK, Crash
  <2>2. \A i \in 1..Len(log) : log[i].status = "running" => i = Len(log)
    BY <2>1 DEF IInv, RunningRowIsLive
  <2>3. RunningRowIsLive'
    BY <1>5, <2>1, <2>2 DEF RunningRowIsLive, Crash, Gone
  <2>4. QED
    BY <1>2, <1>5, <2>3 DEF Crash
<1>6. QED
  BY <1>1, <1>3, <1>4, <1>5

\* Recovery closes every open row.
LEMMA RecoverLog ==
  ASSUME TypeOK, Recover
  PROVE  /\ DOMAIN log' = DOMAIN log
         /\ \A i \in DOMAIN log :
              /\ log'[i].job = log[i].job /\ log'[i].trigger = log[i].trigger
              /\ log'[i].attempt = log[i].attempt
              /\ log'[i].status = IF log[i].status = "running" THEN "failed" ELSE log[i].status
<1> DEFINE closed(i) == [log[i] EXCEPT !.status = "failed", !.finished = now]
<1>1. ASSUME NEW i \in DOMAIN log
      PROVE  /\ closed(i).job = log[i].job /\ closed(i).trigger = log[i].trigger
             /\ closed(i).attempt = log[i].attempt /\ closed(i).status = "failed"
  <2>1. log[i] \in LogRows
    BY DEF TypeOK
  <2>2. QED
    BY <2>1 DEF LogRows
<1>2. log' = [i \in DOMAIN log |-> IF log[i].status = "running" THEN closed(i) ELSE log[i]]
  BY Zenon DEF Recover
<1> HIDE DEF closed
<1>3. QED
  BY <1>1, <1>2

LEMMA StartupStep ==
  ASSUME IInv, StartDaemon \/ StartOneShot \/ Recover \/ ReadLeftovers \/ DeleteLeftovers
               \/ ArmDaemon \/ ArmOneShot
  PROVE  RunMatchesLog' /\ RunningRowIsLive'
<1>1. RunMatchesLog'
  BY DEF IInv, RunMatchesLog, StartDaemon, StartOneShot, Start, Recover, ReadLeftovers, DeleteLeftovers,
         ArmDaemon, ArmOneShot, volatile
<1>2. CASE Recover
  <2>1. \A i \in DOMAIN log' : log'[i].status # "running"
    BY <1>2, RecoverLog DEF IInv
  <2>2. QED
    BY <1>1, <2>1 DEF RunningRowIsLive
<1>3. CASE ~Recover
  BY <1>1, <1>3 DEF IInv, RunningRowIsLive, StartDaemon, StartOneShot, Start, ReadLeftovers,
         DeleteLeftovers, ArmDaemon, ArmOneShot
<1>4. QED
  BY <1>2, <1>3

LEMMA LoopStep ==
  ASSUME IInv, ReadRequests \/ LeaveLoop \/ HandleRequest \/ CheckSchedules \/ PickNone \/ PickNext
  PROVE  RunMatchesLog' /\ RunningRowIsLive'
<1>1. CASE PickNext
  <2>1. item' \in Items
    BY <1>1 DEF IInv, TypeOK, PickNext
  <2>2. QED
    BY <1>1, <2>1 DEF IInv, RunMatchesLog, RunningRowIsLive, PickNext
<1>2. CASE ~PickNext
  BY <1>2 DEF IInv, RunMatchesLog, RunningRowIsLive, ReadRequests, LeaveLoop, HandleRequest, CheckSchedules,
         PickNone, volatile
<1>3. QED
  BY <1>1, <1>2

LEMMA NextRun ==
  ASSUME IInv, [Next]_vars
  PROVE  RunMatchesLog' /\ RunningRowIsLive'
<1>1. CASE Tick \/ (\E c \in Clients : Terminal(c)) \/ UNCHANGED vars
  <2>1. UNCHANGED <<pc, item, attempt, log>>
    BY <1>1 DEF Tick, Terminal, Knock, Stamp, AddRequest, DatabaseBusy, vars, volatile
  <2>2. QED
    BY <2>1 DEF IInv, RunMatchesLog, RunningRowIsLive, RowOf
<1>2. QED
  BY <1>1, StartupStep, LoopStep, RunStep, EndStep DEF Next, Process
-----------------------------------------------------------------------------
(* The requests table, and the invariant *)

LEMMA NextRequests ==
  ASSUME IInv, [Next]_vars
  PROVE  RequestsMatch'
<1> USE DEF IInv
<1>0. requests \in Seq(RequestRows) /\ batch \in Nat
  BY DEF TypeOK
<1>1. ASSUME NEW c \in Clients, Terminal(c) PROVE RequestsMatch'
  <2>1. pc' = pc /\ batch' = batch /\ client \in [Clients -> ClientStates] /\ client[c] \in ClientStates
    BY <1>1 DEF TypeOK, Terminal, Knock, Stamp, AddRequest, DatabaseBusy, volatile
  <2>2. Len(requests') >= Len(requests)
    BY <1>0, <1>1 DEF Terminal, Knock, Stamp, AddRequest, DatabaseBusy
  <2>3. ASSUME NEW d \in Clients, client'[d].at \in {"refused", "stamped"} PROVE client'[d].job \in Jobs
    <3>1. CASE d # c
      BY <1>1, <2>1, <2>3, <3>1 DEF RequestsMatch, Terminal, Knock, Stamp, AddRequest, DatabaseBusy
    <3>2. CASE d = c /\ Knock(c)
      <4>1. PICK j \in AskedJobs : client' = [client EXCEPT ![c].at = "refused", ![c].job = j]
        BY <3>2 DEF Knock
      <4>2. QED
        BY <2>1, <3>2, <4>1 DEF ClientStates
    <3>3. CASE d = c /\ Stamp(c)
      BY <2>1, <3>3 DEF RequestsMatch, Stamp, ClientStates
    <3>4. CASE d = c /\ (AddRequest(c) \/ DatabaseBusy(c))
      BY <2>1, <2>3, <3>4 DEF AddRequest, DatabaseBusy, ClientStates
    <3>5. QED
      BY <1>1, <3>1, <3>2, <3>3, <3>4 DEF Terminal
  <2>4. Len(requests) \in Nat /\ Len(requests') \in Nat
    <3>1. requests' \in Seq(RequestRows)
      BY <1>1, TerminalType DEF TypeOK
    <3>2. QED
      BY <1>0, <3>1
  <2>5. QED
    BY <1>0, <2>1, <2>2, <2>3, <2>4 DEF RequestsMatch
<1>2. CASE HandleRequest
  <2>1. batch > 0 /\ batch <= Len(requests) /\ requests # <<>>
    BY <1>0, <1>2 DEF RequestsMatch, HandleRequest
  <2>2. Len(requests') = Len(requests) - 1 /\ batch' = batch - 1 /\ client' = client
    BY <1>0, <1>2, <2>1 DEF HandleRequest
  <2>3. QED
    BY <1>0, <2>1, <2>2 DEF RequestsMatch
<1>3. CASE ReadRequests
  BY <1>0, <1>3 DEF RequestsMatch, ReadRequests
<1>4. CASE Tick \/ UNCHANGED vars \/ RequestStop
  BY <1>4 DEF RequestsMatch, Tick, RequestStop, vars, volatile
<1>5. ASSUME client' = client, pc' # "requests" PROVE RequestsMatch'
  BY <1>5 DEF RequestsMatch
<1>6. CASE StartDaemon \/ StartOneShot \/ Recover \/ ReadLeftovers \/ DeleteLeftovers
           \/ ArmDaemon \/ ArmOneShot
  BY <1>5, <1>6 DEF StartDaemon, StartOneShot, Start, Recover, ReadLeftovers, DeleteLeftovers, ArmDaemon, ArmOneShot
<1>7. CASE LeaveLoop \/ CheckSchedules \/ PickNone \/ PickNext
  BY <1>5, <1>7 DEF LeaveLoop, CheckSchedules, PickNone, PickNext
<1>8. CASE StopRun \/ PassStopCheck \/ Skip \/ StartAttempt \/ HasWorkRaises \/ AttemptDone
           \/ AttemptFails \/ ReportFinalFailure
  BY <1>5, <1>8 DEF StopRun, PassStopCheck, Skip, StartAttempt, HasWorkRaises, AttemptDone, AttemptFails,
         ReportFinalFailure, OpenRow, Failed, Idle
<1>9. CASE Abort \/ Exit \/ Crash
  BY <1>5, <1>9 DEF Abort, Exit, Crash, Gone
<1>10. QED
  BY <1>1, <1>2, <1>3, <1>4, <1>6, <1>7, <1>8, <1>9 DEF Next, Process

\* The process never disagrees with its history: its item, its attempt number
\* and the open row name the same attempt, through failures, stops and crashes.
THEOREM InvariantHolds == Spec => []IInv
<1>1. Init => IInv
  BY InitIInv
<1>2. IInv /\ [Next]_vars => IInv'
  BY NextType, NextRun, NextRequests DEF IInv
<1>3. QED
  BY <1>1, <1>2, PTL DEF Spec

\* Every variable keeps its type, in every configuration.
THEOREM TypeCorrect == Spec => []TypeOK
BY InvariantHolds, PTL DEF IInv

\* What the process remembers of its run agrees with the database.
THEOREM RunMatchesLogHolds == Spec => []RunMatchesLog
BY InvariantHolds, PTL DEF IInv

\* One open attempt at most in the whole history, and it is the live one, or
\* one that a dead process left and the next has not recovered yet.
THEOREM RunningRowIsLiveHolds == Spec => []RunningRowIsLive
BY InvariantHolds, PTL DEF IInv

-----------------------------------------------------------------------------
(* The history implements the log of runs *)

BarOf(l) == [i \in DOMAIN l |-> [job |-> l[i].job, trigger |-> l[i].trigger,
                                 attempt |-> l[i].attempt, status |-> l[i].status]]
Bar == BarOf(log)

\* The mapped history is a sequence of the same length.
LEMMA BarType ==
  ASSUME NEW l \in Seq(LogRows)
  PROVE  /\ BarOf(l) \in Seq(Log!LogRows) /\ Len(BarOf(l)) = Len(l) /\ DOMAIN BarOf(l) = 1..Len(l)
         /\ \A i \in 1..Len(l) :
              BarOf(l)[i] = [job |-> l[i].job, trigger |-> l[i].trigger,
                             attempt |-> l[i].attempt, status |-> l[i].status]
<1>1. DOMAIN l = 1..Len(l) /\ Len(l) \in Nat
  OBVIOUS
<1>2. ASSUME NEW i \in 1..Len(l) PROVE BarOf(l)[i] \in Log!LogRows
  <2>1. l[i] \in LogRows
    BY <1>2
  <2>2. QED
    BY <1>1, <1>2, <2>1 DEF BarOf, LogRows, Log!LogRows, Log!Statuses
<1>3. QED
  BY <1>1, <1>2 DEF BarOf

\* A step that keeps the run, the attempt and the status of every row stutters.
LEMMA BarStutters ==
  ASSUME log \in Seq(LogRows), log' \in Seq(LogRows), Len(log') = Len(log),
         \A i \in 1..Len(log) :
           /\ log'[i].job = log[i].job /\ log'[i].trigger = log[i].trigger
           /\ log'[i].attempt = log[i].attempt /\ log'[i].status = log[i].status
  PROVE  Bar' = Bar
BY DEF Bar, BarOf

\* Opening a row begins a run or retries the last one.
LEMMA OpenImplements ==
  ASSUME IInv, StartAttempt \/ HasWorkRaises
  PROVE  Log!Next
<1> USE DEF IInv
<1>1. /\ pc = "begin" /\ item \in Items /\ attempt \in 1..MaxAttempts /\ log \in Seq(LogRows)
  BY DEF TypeOK, RunMatchesLog, StartAttempt, HasWorkRaises
<1>2. /\ log' \in Seq(LogRows) /\ Len(log') = Len(log) + 1
      /\ \A i \in 1..Len(log) : log'[i] = log[i]
      /\ log'[Len(log) + 1].status = "running"
      /\ log'[Len(log) + 1].job = item.job
      /\ log'[Len(log) + 1].trigger = item.trigger
      /\ log'[Len(log) + 1].attempt = attempt
  BY <1>1, OpenRowType DEF StartAttempt, HasWorkRaises
<1> DEFINE row == [job |-> item.job, trigger |-> item.trigger, attempt |-> attempt, status |-> "running"]
<1>3. Bar' = Append(Bar, row)
  <2>1. /\ Bar' \in Seq(Log!LogRows) /\ Len(Bar') = Len(log) + 1 /\ DOMAIN Bar' = 1..(Len(log) + 1)
        /\ \A i \in 1..(Len(log) + 1) :
             Bar'[i] = [job |-> log'[i].job, trigger |-> log'[i].trigger,
                        attempt |-> log'[i].attempt, status |-> log'[i].status]
    BY <1>2, BarType DEF Bar
  <2>2. /\ Bar \in Seq(Log!LogRows) /\ Len(Bar) = Len(log) /\ DOMAIN Bar = 1..Len(log)
        /\ \A i \in 1..Len(log) :
             Bar[i] = [job |-> log[i].job, trigger |-> log[i].trigger,
                       attempt |-> log[i].attempt, status |-> log[i].status]
    BY <1>1, BarType DEF Bar
  <2>3. row \in Log!LogRows
    BY <1>1 DEF Log!LogRows, Log!Statuses, Items
  <2>4. ASSUME NEW i \in 1..Len(log) PROVE Bar'[i] = Bar[i]
    <3>1. i \in 1..(Len(log) + 1) /\ log'[i] = log[i]
      BY <1>1, <1>2
    <3>2. QED
      BY <2>1, <2>2, <3>1
  <2>5. Bar'[Len(log) + 1] = row
    BY <1>1, <1>2, <2>1
  <2> HIDE DEF row
  <2>6. QED
    BY <1>1, <2>1, <2>2, <2>3, <2>4, <2>5
<1>4. CASE attempt = 1
  <2>1. ~(Bar # <<>> /\ Bar[Len(Bar)].status = "running")
    <3>1. log # <<>> => log[Len(log)].status # "running"
      BY <1>1 DEF RunningRowIsLive
    <3>2. Len(Bar) = Len(log) /\ (log # <<>> => Bar[Len(log)].status = log[Len(log)].status)
      <4>1. log # <<>> => Len(log) \in 1..Len(log)
        BY <1>1
      <4>2. /\ Len(Bar) = Len(log)
            /\ \A i \in 1..Len(log) :
                 Bar[i] = [job |-> log[i].job, trigger |-> log[i].trigger,
                           attempt |-> log[i].attempt, status |-> log[i].status]
        BY <1>1, BarType DEF Bar
      <4>3. CASE log # <<>>
        <5>1. Bar[Len(log)] = [job |-> log[Len(log)].job, trigger |-> log[Len(log)].trigger,
                               attempt |-> log[Len(log)].attempt, status |-> log[Len(log)].status]
          BY <4>1, <4>2, <4>3
        <5>2. QED
          BY <4>2, <5>1
      <4>4. QED
        BY <4>2, <4>3
    <3>3. Bar # <<>> => log # <<>>
      BY <1>1, BarType DEF Bar
    <3>4. QED
      BY <3>1, <3>2, <3>3
  <2>2. Log!Begin(item.job, item.trigger)
    BY <1>3, <1>4, <2>1 DEF Log!Begin, Log!Open, Bar, BarOf
  <2>3. item.job \in Jobs /\ item.trigger \in Triggers
    BY <1>1 DEF Items
  <2>4. \E j \in Jobs, t \in Triggers : Log!Begin(j, t)
    BY <2>2, <2>3 DEF Log!Begin
  <2>5. QED
    BY <2>4 DEF Log!Next
<1>5. CASE attempt > 1
  <2>1. /\ log # <<>> /\ log[Len(log)].status = "failed" /\ log[Len(log)].job = item.job
        /\ log[Len(log)].trigger = item.trigger /\ log[Len(log)].attempt = attempt - 1
    BY <1>1, <1>5 DEF RunMatchesLog, RowOf
  <2> DEFINE last == Bar[Len(Bar)]
  <2>2. /\ Bar # <<>>
        /\ last = [job |-> item.job, trigger |-> item.trigger, attempt |-> attempt - 1, status |-> "failed"]
    BY <1>1, <2>1, BarType DEF Bar
  <2>3. last.status = "failed" /\ last.attempt < MaxAttempts
    BY <1>1, <2>2
  <2>4. row = [job |-> last.job, trigger |-> last.trigger, attempt |-> last.attempt + 1, status |-> "running"]
    BY <1>1, <2>2
  <2>5. Log!Retry
    BY <1>3, <2>2, <2>3, <2>4 DEF Log!Retry, Bar, BarOf
  <2>6. QED
    BY <2>5 DEF Log!Next
<1>6. QED
  BY <1>1, <1>4, <1>5

\* Closing the open row, whoever does it, closes it in the abstract log.
LEMMA CloseImplements ==
  ASSUME log \in Seq(LogRows), log' \in Seq(LogRows), Len(log') = Len(log), log # <<>>,
         log[Len(log)].status = "running",
         NEW s \in {"done", "failed"}, log'[Len(log)].status = s,
         \A i \in 1..Len(log) :
           /\ log'[i].job = log[i].job /\ log'[i].trigger = log[i].trigger
           /\ log'[i].attempt = log[i].attempt
           /\ i # Len(log) => log'[i].status = log[i].status
  PROVE  Log!Next
<1> DEFINE n == Len(log)
<1>1. n \in Nat \ {0}
  OBVIOUS
<1>2. /\ Bar \in Seq(Log!LogRows) /\ Len(Bar) = n /\ DOMAIN Bar = 1..n
      /\ \A i \in 1..n : Bar[i] = [job |-> log[i].job, trigger |-> log[i].trigger,
                                   attempt |-> log[i].attempt, status |-> log[i].status]
  BY BarType DEF Bar
<1>3. /\ Bar' \in Seq(Log!LogRows) /\ Len(Bar') = n /\ DOMAIN Bar' = 1..n
      /\ \A i \in 1..n : Bar'[i] = [job |-> log'[i].job, trigger |-> log'[i].trigger,
                                    attempt |-> log'[i].attempt, status |-> log'[i].status]
  BY BarType DEF Bar
<1>4. Bar'[n] = [Bar[n] EXCEPT !.status = s]
  <2>1. Bar[n] \in Log!LogRows /\ Bar'[n] \in Log!LogRows
    BY <1>1, <1>2, <1>3
  <2>2. /\ Bar'[n].job = Bar[n].job /\ Bar'[n].trigger = Bar[n].trigger
        /\ Bar'[n].attempt = Bar[n].attempt /\ Bar'[n].status = s
    BY <1>1, <1>2, <1>3
  <2>3. QED
    BY <2>1, <2>2 DEF Log!LogRows, Log!Statuses
<1>5. \A i \in 1..n : i # n => Bar'[i] = Bar[i]
  BY <1>2, <1>3
<1>6. Bar' = [Bar EXCEPT ![n] = [Bar[n] EXCEPT !.status = s]]
  <2> DEFINE row == [Bar[n] EXCEPT !.status = s]
  <2> HIDE DEF row
  <2>1. Bar'[n] = row
    BY <1>4 DEF row
  <2>2. Bar' = [Bar EXCEPT ![n] = row]
    BY <1>1, <1>2, <1>3, <1>5, <2>1
  <2>3. QED
    BY <2>2 DEF row
<1>7. Bar' = [Bar EXCEPT ![Len(Bar)].status = s]
  BY <1>2, <1>6
<1>8. Bar # <<>> /\ Bar[Len(Bar)].status = "running"
  BY <1>1, <1>2
<1>9. Log!Close(s)
  BY <1>7, <1>8 DEF Log!Close, Log!Open, Bar, BarOf
<1>10. QED
  BY <1>9 DEF Log!Next

\* Every step of the system is a step of the abstract log, or leaves it alone.
LEMMA StepImplements ==
  ASSUME IInv, [Next]_vars
  PROVE  Log!Next \/ Bar' = Bar
<1> USE DEF IInv
<1>0. log \in Seq(LogRows) /\ log' \in Seq(LogRows) /\ now \in Nat
  BY NextType DEF TypeOK
<1>1. CASE StartAttempt \/ HasWorkRaises
  BY <1>1, OpenImplements
<1>2. ASSUME NEW s \in {"done", "failed"}, NEW t \in Nat, CloseRow(s, t), pc \in {"running", "undetermined"}
      PROVE  Log!Next
  <2>1. log # <<>> /\ log[Len(log)].status = "running" /\ log[Len(log)] \in LogRows
    BY <1>0, <1>2 DEF RunMatchesLog
  <2>2. /\ Len(log') = Len(log)
        /\ \A i \in 1..(Len(log) - 1) : log'[i] = log[i]
        /\ log'[Len(log)] = [log[Len(log)] EXCEPT !.status = s, !.finished = t]
    BY <1>0, <1>2, <2>1, CloseRowType
  <2>3. /\ log'[Len(log)].job = log[Len(log)].job /\ log'[Len(log)].trigger = log[Len(log)].trigger
        /\ log'[Len(log)].attempt = log[Len(log)].attempt /\ log'[Len(log)].status = s
    BY <2>1, <2>2 DEF LogRows
  <2>4. \A i \in 1..Len(log) :
           /\ log'[i].job = log[i].job /\ log'[i].trigger = log[i].trigger
           /\ log'[i].attempt = log[i].attempt
           /\ i # Len(log) => log'[i].status = log[i].status
    <3>1. ASSUME NEW i \in 1..Len(log), i # Len(log) PROVE log'[i] = log[i]
      BY <1>0, <2>2, <3>1
    <3>2. QED
      BY <2>3, <3>1
  <2>5. QED
    BY <1>0, <1>2, <2>1, <2>2, <2>3, <2>4, CloseImplements
<1>3. CASE AttemptDone \/ Abort
  BY <1>0, <1>2, <1>3 DEF AttemptDone, Abort
<1>4. CASE AttemptFails
  <2>1. log # <<>>
    BY <1>4 DEF RunMatchesLog, AttemptFails
  <2>2. log[Len(log)] \in LogRows
    BY <1>0, <2>1
  <2>3. log[Len(log)].started \in Nat
    BY <2>2 DEF LogRows
  <2>4. QED
    BY <1>0, <1>2, <1>4, <2>3 DEF AttemptFails
<1>5. CASE Recover
  <2>1. /\ Len(log') = Len(log)
        /\ \A i \in 1..Len(log) :
              /\ log'[i].job = log[i].job /\ log'[i].trigger = log[i].trigger
              /\ log'[i].attempt = log[i].attempt
              /\ log'[i].status = IF log[i].status = "running" THEN "failed" ELSE log[i].status
    BY <1>0, <1>5, RecoverLog
  <2>2. \A i \in 1..Len(log) : log[i].status = "running" => i = Len(log)
    BY <1>0 DEF RunningRowIsLive
  <2>3. CASE log # <<>> /\ log[Len(log)].status = "running"
    <3>1. Len(log) \in 1..Len(log)
      BY <1>0, <2>3
    <3>2. log'[Len(log)].status = "failed"
      BY <2>1, <2>3, <3>1
    <3>3. QED
      BY <1>0, <2>1, <2>2, <2>3, <3>2, CloseImplements
  <2>4. CASE ~(log # <<>> /\ log[Len(log)].status = "running")
    <3>1. \A i \in 1..Len(log) : log'[i].status = log[i].status
      BY <1>0, <2>1, <2>2, <2>4
    <3>2. QED
      BY <1>0, <2>1, <3>1, BarStutters
  <2>5. QED
    BY <2>3, <2>4
<1>6. CASE Crash
  BY <1>6 DEF Bar, Crash
<1>7. CASE log' = log
  BY <1>7 DEF Bar
<1>8. QED
  <2>1. CASE StartDaemon \/ StartOneShot \/ ReadLeftovers \/ DeleteLeftovers \/ ArmDaemon \/ ArmOneShot
    BY <1>7, <2>1 DEF StartDaemon, StartOneShot, Start, ReadLeftovers, DeleteLeftovers, ArmDaemon, ArmOneShot
  <2>2. CASE ReadRequests \/ LeaveLoop \/ HandleRequest \/ CheckSchedules \/ PickNone \/ PickNext
    BY <1>7, <2>2 DEF ReadRequests, LeaveLoop, HandleRequest, CheckSchedules, PickNone, PickNext
  <2>3. CASE StopRun \/ PassStopCheck \/ Skip \/ ReportFinalFailure \/ RequestStop \/ Exit
    BY <1>7, <2>3 DEF StopRun, PassStopCheck, Skip, ReportFinalFailure, RequestStop, Exit
  <2>4. CASE Tick \/ UNCHANGED vars \/ \E c \in Clients : Terminal(c)
    BY <1>7, <2>4 DEF Tick, vars, Terminal, Knock, Stamp, AddRequest, DatabaseBusy
  <2>5. QED
    BY <1>1, <1>3, <1>4, <1>5, <1>6, <2>1, <2>2, <2>3, <2>4 DEF Next, Process

\* Whatever fails, is skipped, stopped, killed or restarted, scheduler_executions
\* reads as a list of runs with consecutive attempts.
THEOREM LogImplemented == Spec => ImplementsLog
<1>1. Init => Log!Init
  BY DEF Init, Log!Init
<1>2. IInv /\ [Next]_vars => [Log!Next]_Bar
  BY StepImplements
<1>3. QED
  BY <1>1, <1>2, InvariantHolds, PTL DEF Spec, ImplementsLog, Log!Spec, Bar, BarOf

====
