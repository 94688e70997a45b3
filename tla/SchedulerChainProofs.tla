---- MODULE SchedulerChainProofs ----
(* Proofs about the queue of Scheduler: duplicates, the chain, the clock grid *)
(* and requests left for an earlier process.                                 *)
EXTENDS SchedulerProofs

(* Lemmas about the chain *)

LEMMA ChainOrder ==
  /\ Downstream("moodle_sync") = {"ingestion", "extraction"}
  /\ Downstream("ingestion") = {"extraction"}
  /\ Downstream("extraction") = {}
  /\ Downstream("notifications") = {}
<1>1. /\ DOMAIN Pipeline = 1..3
      /\ Pipeline[1] = "moodle_sync" /\ Pipeline[2] = "ingestion" /\ Pipeline[3] = "extraction"
  BY DEF Pipeline
<1>2. ASSUME NEW job
      PROVE  Downstream(job) =
               (IF job = "moodle_sync" THEN {"ingestion", "extraction"}
                ELSE IF job = "ingestion" THEN {"extraction"} ELSE {})
  <2>1. ASSUME NEW x PROVE x \in Downstream(job) <=>
          \/ x = "ingestion" /\ job = "moodle_sync"
          \/ x = "extraction" /\ job \in {"moodle_sync", "ingestion"}
    <3>1. x \in Downstream(job) <=> \E k \in 1..3 : (\E i \in 1..(k - 1) : Pipeline[i] = job) /\ x = Pipeline[k]
      BY <1>1 DEF Downstream
    <3>2. QED
      BY <1>1, <3>1
  <2>2. QED
    BY <2>1
<1>3. QED
  BY <1>2

\* A job is not upstream of itself, and only the last two jobs have upstream.
LEMMA UpstreamOf ==
  ASSUME NEW j \in Jobs, NEW u \in Upstream(j)
  PROVE  u # j /\ j \in {"ingestion", "extraction"} /\ j \in Downstream(u)
BY ChainOrder DEF Upstream, Jobs

(* Lemmas about queues without duplicates *)

LEMMA RequestedDistinct ==
  ASSUME NEW q \in Seq(Items), JobsDistinct(q), NEW j \in Jobs, NEW t \in Triggers
  PROVE  /\ JobsDistinct(Requested(q, j, t))
         /\ QueuedJobs(Requested(q, j, t)) \subseteq QueuedJobs(q) \cup {j}
<1> DEFINE new == [job |-> j, trigger |-> t, mark |-> Len(log)]
<1>1. CASE ~Accepts(q, j, t)
  BY <1>1 DEF Requested
<1>2. CASE Accepts(q, j, t)
  <2>1. Requested(q, j, t) = Append(q, new) /\ new.job = j
    BY <1>2 DEF Requested
  <2>2. \A i \in DOMAIN q : q[i].job # j
    BY <1>2 DEF Accepts, QueuedJobs
  <2> HIDE DEF new
  <2>3. /\ DOMAIN Append(q, new) = 1..(Len(q) + 1) /\ Append(q, new)[Len(q) + 1] = new
        /\ \A i \in 1..Len(q) : Append(q, new)[i] = q[i]
    OBVIOUS
  <2>4. JobsDistinct(Append(q, new))
    BY <2>1, <2>2, <2>3 DEF JobsDistinct
  <2>5. QueuedJobs(Append(q, new)) \subseteq QueuedJobs(q) \cup {j}
    BY <2>1, <2>3 DEF QueuedJobs
  <2>6. QED
    BY <2>1, <2>4, <2>5
<1>3. QED
  BY <1>1, <1>2

LEMMA TailDistinct ==
  ASSUME NEW q \in Seq(Items), q # <<>>, JobsDistinct(q)
  PROVE  JobsDistinct(Tail(q)) /\ Head(q).job \notin QueuedJobs(Tail(q))
<1>1. /\ DOMAIN Tail(q) = 1..(Len(q) - 1) /\ Head(q) = q[1]
      /\ \A i \in 1..(Len(q) - 1) : Tail(q)[i] = q[i + 1]
      /\ DOMAIN q = 1..Len(q) /\ Len(q) \in Nat \ {0}
  OBVIOUS
<1>2. JobsDistinct(Tail(q))
  BY <1>1 DEF JobsDistinct
<1>3. Head(q).job \notin QueuedJobs(Tail(q))
  BY <1>1 DEF JobsDistinct, QueuedJobs
<1>4. QED
  BY <1>2, <1>3

LEMMA RemoveAtElements ==
  ASSUME NEW q \in Seq(Items), NEW i \in DOMAIN q
  PROVE  /\ DOMAIN RemoveAt(q, i) = 1..(Len(q) - 1)
         /\ \A k \in 1..(Len(q) - 1) : RemoveAt(q, i)[k] = IF k < i THEN q[k] ELSE q[k + 1]
<1> DEFINE a == SubSeq(q, 1, i - 1)
           b == SubSeq(q, i + 1, Len(q))
<1>1. i \in 1..Len(q) /\ Len(q) \in Nat
  OBVIOUS
<1>2. a \in Seq(Items) /\ Len(a) = i - 1 /\ \A k \in 1..(i - 1) : a[k] = q[k]
  BY <1>1
<1>3. b \in Seq(Items) /\ Len(b) = Len(q) - i /\ \A k \in 1..(Len(q) - i) : b[k] = q[i + k]
  BY <1>1
<1>4. RemoveAt(q, i) = a \o b
  BY DEF RemoveAt
<1> HIDE DEF a, b
<1>5. /\ a \o b \in Seq(Items) /\ Len(a \o b) = Len(q) - 1
      /\ \A k \in 1..(Len(q) - 1) : (a \o b)[k] = IF k <= i - 1 THEN a[k] ELSE b[k - (i - 1)]
  <2>1. Len(a) + Len(b) = Len(q) - 1
    BY <1>1, <1>2, <1>3
  <2>2. /\ a \o b \in Seq(Items) /\ Len(a \o b) = Len(a) + Len(b)
        /\ \A k \in 1..(Len(a) + Len(b)) : (a \o b)[k] = IF k <= Len(a) THEN a[k] ELSE b[k - Len(a)]
    BY <1>2, <1>3, ConcatProperties
  <2>3. QED
    BY <1>2, <2>1, <2>2
<1>6. ASSUME NEW k \in 1..(Len(q) - 1) PROVE RemoveAt(q, i)[k] = IF k < i THEN q[k] ELSE q[k + 1]
  <2>1. CASE k < i
    BY <1>1, <1>2, <1>4, <1>5, <2>1
  <2>2. CASE k >= i
    <3>1. k - (i - 1) \in 1..(Len(q) - i) /\ i + (k - (i - 1)) = k + 1
      BY <1>1, <2>2
    <3>2. b[k - (i - 1)] = q[k + 1]
      BY <1>3, <3>1
    <3>3. ~(k <= i - 1) /\ ~(k < i)
      BY <1>1, <2>2
    <3>4. QED
      BY <1>4, <1>5, <3>2, <3>3
  <2>3. QED
    BY <1>1, <2>1, <2>2
<1>7. QED
  BY <1>1, <1>4, <1>5, <1>6

\* Dropping a dependent drops all of them, and drops nothing else.
LEMMA WithoutDependentDistinct ==
  ASSUME NEW q \in Seq(Items), JobsDistinct(q), NEW j \in Jobs
  PROVE  LET r == WithoutDependent(q, j) IN
         /\ JobsDistinct(r)
         /\ \A k \in DOMAIN r : (\E i \in DOMAIN q : r[k] = q[i])
                                /\ ~(r[k].job = j /\ r[k].trigger = "dependency")
<1> DEFINE hits == {i \in DOMAIN q : q[i].job = j /\ q[i].trigger = "dependency"}
           h == CHOOSE i \in hits : TRUE
           r == WithoutDependent(q, j)
<1>1. CASE hits = {}
  <2>1. r = q
    BY <1>1 DEF WithoutDependent
  <2>2. QED
    BY <1>1, <2>1
<1>2. CASE hits # {}
  <2>1. h \in hits
    BY <1>2
  <2>2. r = RemoveAt(q, h)
    BY <1>2 DEF WithoutDependent
  <2> HIDE DEF h, r
  <2>3. h \in 1..Len(q) /\ Len(q) \in Nat /\ DOMAIN q = 1..Len(q) /\ q[h].job = j
    BY <2>1
  <2>4. /\ DOMAIN r = 1..(Len(q) - 1)
        /\ \A k \in 1..(Len(q) - 1) : r[k] = IF k < h THEN q[k] ELSE q[k + 1]
    BY <2>2, <2>3, RemoveAtElements
  <2>5. JobsDistinct(r)
    <3> DEFINE from(k) == IF k < h THEN k ELSE k + 1
    <3>1. ASSUME NEW k \in 1..(Len(q) - 1) PROVE from(k) \in DOMAIN q /\ r[k] = q[from(k)]
      BY <2>3, <2>4
    <3>2. ASSUME NEW k \in 1..(Len(q) - 1), NEW l \in 1..(Len(q) - 1), r[k].job = r[l].job
          PROVE  k = l
      <4>1. from(k) = from(l)
        BY <3>1, <3>2 DEF JobsDistinct
      <4>2. QED
        BY <2>3, <4>1
    <3>3. QED
      BY <2>4, <3>2 DEF JobsDistinct
  <2>6. ASSUME NEW k \in DOMAIN r PROVE (\E i \in DOMAIN q : r[k] = q[i]) /\ r[k].job # j
    BY <2>3, <2>4 DEF JobsDistinct
  <2>7. QED
    BY <2>5, <2>6 DEF r
<1>3. QED
  BY <1>1, <1>2
LEMMA RequestedElements ==
  ASSUME NEW q \in Seq(Items), NEW j, NEW t, NEW k \in DOMAIN Requested(q, j, t)
  PROVE  \/ \E i \in DOMAIN q : Requested(q, j, t)[k] = q[i]
         \/ Requested(q, j, t)[k] = [job |-> j, trigger |-> t, mark |-> Len(log)]
<1> DEFINE new == [job |-> j, trigger |-> t, mark |-> Len(log)]
<1>1. CASE Requested(q, j, t) = q
  BY <1>1
<1>2. CASE Requested(q, j, t) = Append(q, new)
  <2> HIDE DEF new
  <2>1. /\ DOMAIN Append(q, new) = 1..(Len(q) + 1) /\ Append(q, new)[Len(q) + 1] = new
        /\ \A i \in 1..Len(q) : Append(q, new)[i] = q[i]
        /\ DOMAIN q = 1..Len(q) /\ Len(q) \in Nat
    OBVIOUS
  <2>2. Requested(q, j, t)[k] = new \/ \E i \in DOMAIN q : Requested(q, j, t)[k] = q[i]
    BY <1>2, <2>1
  <2>3. QED
    BY <2>2 DEF new
<1>3. QED
  BY <1>1, <1>2 DEF Requested

\* Continuing the chain adds at most the child, as a dependent of now.
LEMMA ContinuedDistinct ==
  ASSUME log \in Seq(LogRows), NEW q \in Seq(Items), JobsDistinct(q), NEW j \in Jobs
  PROVE  /\ JobsDistinct(Continued(q, j))
         /\ \A k \in DOMAIN Continued(q, j) :
              \/ \E i \in DOMAIN q : Continued(q, j)[k] = q[i]
              \/ /\ Continued(q, j)[k] = [job |-> Child(j), trigger |-> "dependency", mark |-> Len(log)]
                 /\ Child(j) = "ingestion" => j = "moodle_sync"
<1>1. CASE Child(j) = "none"
  BY <1>1 DEF Continued
<1>2. CASE Child(j) # "none"
  <2>1. /\ Child(j) \in Jobs /\ "dependency" \in Triggers
        /\ Child(j) = "ingestion" => j = "moodle_sync"
    BY <1>2 DEF Child, Jobs, Triggers
  <2>2. Continued(q, j) = Requested(q, Child(j), "dependency")
    BY <1>2 DEF Continued
  <2>3. JobsDistinct(Continued(q, j))
    BY <2>1, <2>2, RequestedDistinct
  <2>4. QED
    BY <2>1, <2>2, <2>3, RequestedElements
<1>3. QED
  BY <1>1, <1>2

\* Stopping the chain keeps no dependent of a downstream job.
LEMMA ChainStoppedDistinct ==
  ASSUME NEW q \in Seq(Items), JobsDistinct(q), NEW j \in Jobs
  PROVE  /\ JobsDistinct(ChainStopped(q, j))
         /\ \A k \in DOMAIN ChainStopped(q, j) :
              /\ \E i \in DOMAIN q : ChainStopped(q, j)[k] = q[i]
              /\ ~(ChainStopped(q, j)[k].job \in Downstream(j)
                    /\ ChainStopped(q, j)[k].trigger = "dependency")
<1> DEFINE q1 == IF "ingestion" \in Downstream(j) THEN WithoutDependent(q, "ingestion") ELSE q
           q2 == IF "extraction" \in Downstream(j) THEN WithoutDependent(q1, "extraction") ELSE q1
<1>0. "ingestion" \in Jobs /\ "extraction" \in Jobs
  BY DEF Jobs
<1>1. /\ q1 \in Seq(Items) /\ JobsDistinct(q1)
      /\ \A k \in DOMAIN q1 : /\ \E i \in DOMAIN q : q1[k] = q[i]
                              /\ "ingestion" \in Downstream(j) =>
                                   ~(q1[k].job = "ingestion" /\ q1[k].trigger = "dependency")
  BY <1>0, WithoutDependentType, WithoutDependentDistinct
<1> HIDE DEF q1
<1>2. /\ JobsDistinct(q2)
      /\ \A k \in DOMAIN q2 : /\ \E i \in DOMAIN q1 : q2[k] = q1[i]
                              /\ "extraction" \in Downstream(j) =>
                                   ~(q2[k].job = "extraction" /\ q2[k].trigger = "dependency")
  BY <1>0, <1>1, WithoutDependentDistinct
<1>3. ChainStopped(q, j) = q2
  BY DEF ChainStopped, q1
<1> HIDE DEF q2
<1>4. Downstream(j) \subseteq {"ingestion", "extraction"}
  BY ChainOrder DEF Jobs
<1>5. ASSUME NEW k \in DOMAIN q2
      PROVE  /\ \E i \in DOMAIN q : q2[k] = q[i]
             /\ ~(q2[k].job \in Downstream(j) /\ q2[k].trigger = "dependency")
  <2>1. PICK i \in DOMAIN q1 : q2[k] = q1[i]
    BY <1>2
  <2>2. QED
    BY <1>1, <1>2, <1>4, <2>1
<1>6. QED
  BY <1>2, <1>3, <1>5

-----------------------------------------------------------------------------
(* Duplicates *)

\* Before the first queue, and after the process, there is nothing queued.
Quiet == pc \in {"down", "recover", "purge", "purging", "arm"} => queue = <<>>

OnceInv == QueuedOnce /\ Quiet

\* A one-element or empty queue and no item: nothing to compare.
LEMMA EmptyDistinct == JobsDistinct(<<>>) /\ QueuedJobs(<<>>) = {}
BY DEF JobsDistinct, QueuedJobs

LEMMA WithDueDistinct ==
  ASSUME NEW q \in Seq(Items), JobsDistinct(q), NEW j \in Jobs
  PROVE  JobsDistinct(WithDue(q, j))
<1>1. "interval" \in Triggers
  BY DEF Triggers
<1>2. QED
  BY <1>1, RequestedDistinct DEF WithDue

LEMMA NextOnce ==
  ASSUME IInv, OnceInv, [Next]_vars
  PROVE  OnceInv'
<1> USE DEF IInv, OnceInv
<1>0. /\ queue \in Seq(Items) /\ log \in Seq(LogRows) /\ JobsDistinct(queue)
      /\ "moodle_sync" \in Jobs /\ "notifications" \in Jobs /\ "manual" \in Triggers /\ "startup" \in Triggers
  BY DEF TypeOK, QueuedOnce, Jobs, Triggers
<1>1. ASSUME queue' = <<>>, attempt' = 0 PROVE OnceInv'
  BY <1>1, EmptyDistinct DEF QueuedOnce, Quiet
<1>2. ASSUME queue' = queue, attempt' = 0 \/ (attempt > 0 /\ item' = item),
             pc' \notin {"down", "recover", "purge", "purging", "arm"}
      PROVE  OnceInv'
  BY <1>2 DEF QueuedOnce, Quiet
<1>3. ASSUME JobsDistinct(queue'), attempt' = 0, pc' \notin {"down", "recover", "purge", "purging", "arm"}
      PROVE  OnceInv'
  BY <1>3 DEF QueuedOnce, Quiet
<1>4. CASE StartDaemon \/ StartOneShot \/ Recover \/ ReadLeftovers \/ DeleteLeftovers
  BY <1>1, <1>4 DEF StartDaemon, StartOneShot, Start, Recover, ReadLeftovers, DeleteLeftovers, Quiet,
         RunMatchesLog, volatile
<1>5. CASE ArmDaemon
  <2>1. JobsDistinct(queue')
    BY <1>0, <1>5, RequestedDistinct DEF ArmDaemon
  <2>2. QED
    BY <1>3, <1>5, <2>1 DEF ArmDaemon, RunMatchesLog
<1>6. CASE ArmOneShot
  <2>1. oneShot \in Jobs
    BY <1>6 DEF TypeOK, ArmOneShot
  <2>2. JobsDistinct(queue')
    BY <1>0, <1>6, <2>1, RequestedDistinct DEF ArmOneShot
  <2>3. QED
    BY <1>3, <1>6, <2>2 DEF ArmOneShot, RunMatchesLog
<1>7. CASE ReadRequests \/ LeaveLoop \/ PickNone
  BY <1>2, <1>7 DEF ReadRequests, LeaveLoop, PickNone, RunMatchesLog, volatile
<1>8. CASE HandleRequest
  <2>1. Head(requests).job \in Jobs
    <3>1. requests # <<>> /\ requests \in Seq(RequestRows)
      BY <1>8 DEF TypeOK, RequestsMatch, HandleRequest
    <3>2. Head(requests) \in RequestRows
      BY <3>1
    <3>3. QED
      BY <3>2 DEF RequestRows
  <2>2. JobsDistinct(queue')
    BY <1>0, <1>8, <2>1, RequestedDistinct DEF HandleRequest
  <2>3. QED
    BY <1>3, <1>8, <2>2 DEF HandleRequest, RunMatchesLog
<1>9. CASE CheckSchedules
  <2>1. WithDue(queue, "moodle_sync") \in Seq(Items) /\ JobsDistinct(WithDue(queue, "moodle_sync"))
    BY <1>0, WithDueType, WithDueDistinct
  <2>2. JobsDistinct(queue')
    BY <1>0, <1>9, <2>1, WithDueDistinct DEF CheckSchedules
  <2>3. QED
    BY <1>3, <1>9, <2>2 DEF CheckSchedules, RunMatchesLog
<1>10. CASE PickNext
  <2>1. JobsDistinct(queue') /\ item'.job \notin QueuedJobs(queue')
    BY <1>0, <1>10, TailDistinct DEF PickNext
  <2>2. QED
    BY <1>10, <2>1 DEF PickNext, QueuedOnce, Quiet
<1>11. CASE StopRun \/ PassStopCheck \/ StartAttempt \/ HasWorkRaises \/ AttemptFails \/ RequestStop
  <2>1. queue' = queue /\ (pc' = pc \/ pc' \notin {"down", "recover", "purge", "purging", "arm"})
    BY <1>11 DEF StopRun, PassStopCheck, StartAttempt, HasWorkRaises, AttemptFails, RequestStop, OpenRow,
           Failed, Idle, volatile
  <2>2. attempt' = 0 \/ (attempt > 0 /\ item' = item)
    BY <1>11 DEF StopRun, PassStopCheck, StartAttempt, HasWorkRaises, AttemptFails, RequestStop, OpenRow,
           Failed, Idle, RunMatchesLog, volatile
  <2>3. QED
    BY <2>1, <2>2 DEF QueuedOnce, Quiet
<1>12. CASE Skip \/ AttemptDone
  <2>1. item.job \in Jobs
    BY <1>12 DEF RunMatchesLog, Skip, AttemptDone, Items
  <2>2. JobsDistinct(queue')
    BY <1>0, <1>12, <2>1, ContinuedDistinct DEF Skip, AttemptDone
  <2>3. QED
    BY <1>3, <1>12, <2>2 DEF Skip, AttemptDone, Idle
<1>13. CASE ReportFinalFailure
  <2>1. item.job \in Jobs
    BY <1>13 DEF RunMatchesLog, ReportFinalFailure, Items
  <2>2. JobsDistinct(queue')
    BY <1>0, <1>13, <2>1, ChainStoppedDistinct DEF ReportFinalFailure
  <2>3. QED
    BY <1>3, <1>13, <2>2 DEF ReportFinalFailure, Idle
<1>14. CASE Abort \/ Exit \/ Crash
  BY <1>1, <1>14 DEF Abort, Exit, Crash, Gone
<1>15. CASE Tick \/ UNCHANGED vars \/ \E c \in Clients : Terminal(c)
  BY <1>15 DEF Tick, vars, volatile, Terminal, Knock, Stamp, AddRequest, DatabaseBusy, QueuedOnce, Quiet
<1>16. QED
  BY <1>4, <1>5, <1>6, <1>7, <1>8, <1>9, <1>10, <1>11, <1>12, <1>13, <1>14, <1>15 DEF Next, Process

LEMMA OnceHolds == Spec => []OnceInv
<1>1. Init => OnceInv
  BY EmptyDistinct DEF Init, OnceInv, QueuedOnce, Quiet
<1>2. IInv /\ OnceInv /\ [Next]_vars => OnceInv'
  BY NextOnce
<1>3. QED
  BY <1>1, <1>2, InvariantHolds, PTL DEF Spec

\* Whoever asks for it - startup, the chain, the clock, terminals - a job waits
\* once at most, and never while it is being executed.
THEOREM QueuedOnceHolds == Spec => []QueuedOnce
BY OnceHolds, PTL DEF OnceInv
-----------------------------------------------------------------------------
(* Dependents *)

\* While the cycle of a failed job is being ended, its last row is the only
\* one that can make a waiting dependent stale.
Ending(n) == pc = "final" /\ n = Len(log) /\ log[n].job = item.job

Fresh(it) ==
  /\ it.mark <= Len(log)
  /\ \A n \in (it.mark + 1)..Len(log) :
       log[n].job \in Upstream(it.job) => ~FinalFailure(log[n]) \/ Ending(n)
  /\ it.job = "ingestion" =>
       it.mark > 0 /\ log[it.mark].job = "moodle_sync" /\ log[it.mark].status = "done"

\* The queue and the item, from the moment it is picked to its final failure.
Held == {queue[i] : i \in DOMAIN queue} \cup (IF attempt > 0 /\ pc # "final" THEN {item} ELSE {})

DependentsFresh == \A it \in Held : it.trigger = "dependency" => Fresh(it)

LEMMA FreshEnough == RunMatchesLog /\ DependentsFresh => NoStaleDependents
BY DEF DependentsFresh, Held, Waiting, Fresh, Ending, NoStaleDependents, RunMatchesLog

\* Items that wait keep fresh when no row changes.
LEMMA FreshWhenLogKept ==
  ASSUME log' = log, pc # "final", NEW it, Fresh(it)
  PROVE  Fresh(it)'
BY DEF Fresh, Ending, FinalFailure

\* An opened row fails nobody.
LEMMA FreshWhenOpened ==
  ASSUME IInv, StartAttempt \/ HasWorkRaises, NEW it \in Items, Fresh(it)
  PROVE  Fresh(it)'
<1>1. /\ log \in Seq(LogRows) /\ log' \in Seq(LogRows) /\ Len(log') = Len(log) + 1 /\ Len(log) \in Nat
      /\ \A i \in 1..Len(log) : log'[i] = log[i]
      /\ log'[Len(log) + 1].status = "running"
  BY OpenRowType DEF IInv, TypeOK, StartAttempt, HasWorkRaises
<1>2. it.mark \in Nat /\ it.mark <= Len(log) /\ pc = "begin"
  BY DEF Items, Fresh, StartAttempt, HasWorkRaises
<1>3. ASSUME NEW n \in (it.mark + 1)..Len(log'), log'[n].job \in Upstream(it.job)
      PROVE  ~FinalFailure(log'[n])
  <2>1. CASE n = Len(log) + 1
    BY <1>1, <2>1 DEF FinalFailure
  <2>2. CASE n # Len(log) + 1
    <3>1. n \in 1..Len(log) /\ n \in (it.mark + 1)..Len(log) /\ log'[n] = log[n]
      BY <1>1, <1>2, <2>2
    <3>2. QED
      BY <1>2, <1>3, <3>1 DEF Fresh, Ending
  <2>3. QED
    BY <2>1, <2>2
<1>4. it.job = "ingestion" => log'[it.mark] = log[it.mark] /\ it.mark > 0
  BY <1>1, <1>2 DEF Fresh
<1>5. QED
  BY <1>1, <1>2, <1>3, <1>4 DEF Fresh, FinalFailure

\* A closed row fails its dependents only by ending its run.
LEMMA FreshWhenClosed ==
  ASSUME IInv, NEW s \in {"done", "failed"}, NEW t \in Nat, CloseRow(s, t),
         pc \in {"running", "undetermined"},
         s = "failed" => attempt < MaxAttempts \/ (pc' = "final" /\ item' = item),
         NEW it \in Items, Fresh(it)
  PROVE  Fresh(it)'
<1> DEFINE last == Len(log)
<1>1. log \in Seq(LogRows) /\ log # <<>> /\ now \in Nat
  BY DEF IInv, TypeOK, RunMatchesLog
<1>2. /\ log' \in Seq(LogRows) /\ Len(log') = last /\ last \in Nat
      /\ \A i \in 1..(last - 1) : log'[i] = log[i]
  <2>1. s \in {"running", "done", "failed"}
    OBVIOUS
  <2>2. /\ log' \in Seq(LogRows) /\ Len(log') = Len(log)
        /\ \A i \in 1..(Len(log) - 1) : log'[i] = log[i]
    BY <1>1, <2>1, CloseRowType
  <2>3. QED
    BY <1>1, <2>2
<1>3. log'[last].status = s /\ log'[last].job = item.job /\ log'[last].attempt = attempt
  BY <1>2, CloseRowStep DEF RowOf
<1>4. it.mark \in Nat /\ it.mark <= last /\ attempt \in 1..MaxAttempts /\ pc # "final"
  BY DEF Items, Fresh, IInv, TypeOK, RunMatchesLog
<1>5. ASSUME NEW n \in (it.mark + 1)..Len(log'), log'[n].job \in Upstream(it.job)
      PROVE  ~FinalFailure(log'[n]) \/ (Ending(n))'
  <2>1. CASE n = last
    <3>1. CASE s = "done"
      BY <1>3, <2>1, <3>1 DEF FinalFailure
    <3>2. CASE s = "failed" /\ attempt < MaxAttempts
      BY <1>3, <1>4, <2>1, <3>2 DEF FinalFailure
    <3>3. CASE pc' = "final" /\ item' = item
      BY <1>2, <1>3, <2>1, <3>3 DEF Ending
    <3>4. QED
      BY <3>1, <3>2, <3>3
  <2>2. CASE n # last
    <3>1. n \in 1..(last - 1) /\ n \in (it.mark + 1)..Len(log) /\ log'[n] = log[n]
      BY <1>2, <1>4, <2>2
    <3>2. QED
      BY <1>4, <1>5, <3>1 DEF Fresh, Ending
  <2>3. QED
    BY <2>1, <2>2
<1>6. ASSUME it.job = "ingestion"
      PROVE  it.mark > 0 /\ log'[it.mark] = log[it.mark]
  <2>1. it.mark > 0 /\ log[it.mark].status = "done"
    BY <1>6 DEF Fresh
  <2>2. log[last].status = "running"
    BY DEF IInv, RunMatchesLog
  <2>3. it.mark \in 1..(last - 1)
    BY <1>2, <1>4, <2>1, <2>2
  <2>4. QED
    BY <1>2, <2>1, <2>3
<1>7. QED
  BY <1>2, <1>4, <1>5, <1>6 DEF Fresh, FinalFailure
\* A new dependent is fresh: nothing has run since it was queued.
LEMMA FreshWhenContinued ==
  ASSUME IInv, OnceInv, DependentsFresh, Skip \/ AttemptDone
  PROVE  DependentsFresh'
<1> USE DEF IInv
<1>0. /\ queue \in Seq(Items) /\ log \in Seq(LogRows) /\ JobsDistinct(queue) /\ now \in Nat
      /\ item.job \in Jobs /\ pc # "final" /\ Len(log) \in Nat
  BY DEF TypeOK, OnceInv, QueuedOnce, RunMatchesLog, Skip, AttemptDone, Items
<1>1. queue' = Continued(queue, item.job) /\ Held' = {queue'[k] : k \in DOMAIN queue'}
  BY DEF Skip, AttemptDone, Idle, Held
<1>2. \A i \in DOMAIN queue : queue[i] \in Held /\ queue[i] \in Items
  BY <1>0 DEF Held
<1>3. ASSUME NEW it \in Items, Fresh(it) PROVE Fresh(it)'
  <2>1. CASE Skip
    BY <1>0, <1>3, <2>1, FreshWhenLogKept DEF Skip
  <2>2. CASE AttemptDone
    BY <1>0, <1>3, <2>2, FreshWhenClosed DEF AttemptDone
  <2>3. QED
    BY <2>1, <2>2
<1>4. Len(log') = Len(log)
  <2>1. CASE Skip
    BY <2>1 DEF Skip
  <2>2. CASE AttemptDone
    BY <1>0, <2>2, CloseRowStep DEF AttemptDone
  <2>3. QED
    BY <2>1, <2>2
<1>5. ASSUME item.job = "moodle_sync"
      PROVE  Len(log) > 0 /\ log'[Len(log)].job = "moodle_sync" /\ log'[Len(log)].status = "done"
  <2>1. AttemptDone
    BY <1>5 DEF Skip, AsksForWork, AlwaysHasWork
  <2>2. /\ log' # <<>> /\ Len(log') = Len(log)
        /\ log'[Len(log')].status = "done" /\ log'[Len(log')].job = item.job
    BY <1>0, <2>1, CloseRowStep DEF AttemptDone, RowOf
  <2>3. log # <<>>
    BY <2>1 DEF RunMatchesLog, AttemptDone
  <2>4. QED
    BY <1>0, <1>5, <2>2, <2>3
<1>6. ASSUME NEW it \in Held', it.trigger = "dependency" PROVE Fresh(it)'
  <2>0. PICK k \in DOMAIN queue' : it = queue'[k]
    BY <1>1
  <2>1. CASE \E i \in DOMAIN queue : queue'[k] = queue[i]
    <3>1. it \in Held /\ it \in Items
      BY <1>2, <2>0, <2>1
    <3>2. Fresh(it)
      BY <1>6, <3>1 DEF DependentsFresh
    <3>3. QED
      BY <1>3, <3>1, <3>2
  <2>2. CASE /\ queue'[k] = [job |-> Child(item.job), trigger |-> "dependency", mark |-> Len(log)]
             /\ Child(item.job) = "ingestion" => item.job = "moodle_sync"
    <3>1. it.mark = Len(log) /\ (it.job = "ingestion" => item.job = "moodle_sync")
      BY <2>0, <2>2
    <3>2. (it.mark + 1)..Len(log') = {}
      BY <1>0, <1>4, <3>1
    <3>3. QED
      BY <1>0, <1>4, <1>5, <3>1, <3>2 DEF Fresh
  <2>3. QED
    BY <1>0, <1>1, <2>1, <2>2, ContinuedDistinct
<1>7. QED
  BY <1>6 DEF DependentsFresh

\* The end of a failed cycle leaves no dependent that its last row makes stale.
LEMMA FreshWhenChainStopped ==
  ASSUME IInv, OnceInv, DependentsFresh, ReportFinalFailure
  PROVE  DependentsFresh'
<1>1. /\ queue \in Seq(Items) /\ JobsDistinct(queue) /\ item.job \in Jobs /\ log' = log
      /\ queue' = ChainStopped(queue, item.job) /\ pc' = "loop" /\ attempt' = 0
  BY DEF IInv, TypeOK, OnceInv, QueuedOnce, RunMatchesLog, ReportFinalFailure, Items, Idle
<1>2. ASSUME NEW it \in Held', it.trigger = "dependency" PROVE Fresh(it)'
  <2>1. PICK k \in DOMAIN queue' : it = queue'[k]
    BY <1>1 DEF Held
  <2>2. (\E i \in DOMAIN queue : it = queue[i]) /\ it.job \notin Downstream(item.job)
    BY <1>1, <1>2, <2>1, ChainStoppedDistinct
  <2>3. it \in Held /\ it.job \in Jobs
    <3>1. PICK i \in DOMAIN queue : it = queue[i]
      BY <2>2
    <3>2. queue[i] \in Items
      BY <1>1
    <3>3. QED
      BY <3>1, <3>2 DEF Held, Items
  <2>4. Fresh(it)
    BY <1>2, <2>3 DEF DependentsFresh
  <2>5. item.job \notin Upstream(it.job)
    BY <2>2 DEF Upstream
  <2>6. QED
    BY <1>1, <2>4, <2>5 DEF Fresh, Ending, FinalFailure
<1>3. QED
  BY <1>2 DEF DependentsFresh

\* What startup, terminals and the clock queue is no dependent.
LEMMA RequestedKeepsDependents ==
  ASSUME NEW q \in Seq(Items), NEW j, NEW t, t # "dependency",
         NEW k \in DOMAIN Requested(q, j, t), Requested(q, j, t)[k].trigger = "dependency"
  PROVE  \E i \in DOMAIN q : Requested(q, j, t)[k] = q[i]
BY RequestedElements

LEMMA NextDependents ==
  ASSUME IInv, OnceInv, DependentsFresh, [Next]_vars
  PROVE  DependentsFresh'
<1>0. /\ queue \in Seq(Items) /\ log \in Seq(LogRows)
      /\ \A i \in DOMAIN queue : queue[i] \in Held /\ queue[i] \in Items
      /\ item \in Items \cup {NoItem}
  BY DEF IInv, TypeOK, Held
<1>1. ASSUME queue' = <<>>, attempt' = 0 PROVE DependentsFresh'
  BY <1>1 DEF Held, DependentsFresh
<1>2. ASSUME log' = log, pc # "final",
             \A it \in Held' : it.trigger = "dependency" => it \in Held
      PROVE  DependentsFresh'
  BY <1>2, FreshWhenLogKept DEF DependentsFresh
<1>3. ASSUME log' = log, pc' = pc, item' = item, attempt' = attempt, queue' = queue PROVE DependentsFresh'
  BY <1>3 DEF DependentsFresh, Held, Fresh, Ending, FinalFailure
<1>4. CASE StartDaemon \/ StartOneShot \/ Recover \/ ReadLeftovers \/ DeleteLeftovers
  BY <1>1, <1>4 DEF StartDaemon, StartOneShot, Start, Recover, ReadLeftovers, DeleteLeftovers,
         OnceInv, Quiet, IInv, RunMatchesLog, volatile
<1>5. CASE ArmDaemon \/ ArmOneShot
  <2>1. PICK j, t : t # "dependency" /\ queue' = Requested(queue, j, t)
    BY <1>5 DEF ArmDaemon, ArmOneShot
  <2>2. Held' = {queue'[k] : k \in DOMAIN queue'} /\ log' = log /\ pc # "final"
    BY <1>5 DEF ArmDaemon, ArmOneShot, Held, IInv, RunMatchesLog
  <2>3. QED
    BY <1>0, <1>2, <2>1, <2>2, RequestedKeepsDependents
<1>6. CASE ReadRequests \/ LeaveLoop \/ PickNone
  <2>1. Held' = {queue[k] : k \in DOMAIN queue} /\ log' = log /\ pc # "final"
    BY <1>6 DEF ReadRequests, LeaveLoop, PickNone, Held, IInv, RunMatchesLog, volatile
  <2>2. QED
    BY <1>0, <1>2, <2>1
<1>7. CASE HandleRequest
  <2>1. queue' = queue \/ queue' = Requested(queue, Head(requests).job, "manual")
    BY <1>7 DEF HandleRequest
  <2>2. Held' = {queue'[k] : k \in DOMAIN queue'} /\ log' = log /\ pc # "final"
    BY <1>7 DEF HandleRequest, Held, IInv, RunMatchesLog
  <2>3. QED
    BY <1>0, <1>2, <2>1, <2>2, RequestedKeepsDependents
<1>8. CASE CheckSchedules
  <2> DEFINE q1 == WithDue(queue, "moodle_sync")
  <2>1. /\ q1 \in Seq(Items)
        /\ \A k \in DOMAIN q1 : q1[k].trigger = "dependency" => \E i \in DOMAIN queue : q1[k] = queue[i]
    <3>1. "moodle_sync" \in Jobs
      BY DEF Jobs
    <3>2. q1 \in Seq(Items)
      BY <1>0, <3>1, WithDueType DEF IInv, TypeOK
    <3>3. q1 = queue \/ q1 = Requested(queue, "moodle_sync", "interval")
      BY DEF WithDue
    <3> HIDE DEF q1
    <3>4. QED
      BY <1>0, <3>2, <3>3, RequestedKeepsDependents
  <2> HIDE DEF q1
  <2>2. \A k \in DOMAIN queue' : queue'[k].trigger = "dependency" => \E i \in DOMAIN q1 : queue'[k] = q1[i]
    <3>1. queue' = q1 \/ queue' = Requested(q1, "notifications", "interval")
      BY <1>8 DEF CheckSchedules, WithDue, q1
    <3>2. QED
      BY <2>1, <3>1, RequestedKeepsDependents
  <2>3. Held' = {queue'[k] : k \in DOMAIN queue'} /\ log' = log /\ pc # "final"
    BY <1>8 DEF CheckSchedules, Held, IInv, RunMatchesLog
  <2>4. ASSUME NEW it \in Held', it.trigger = "dependency" PROVE it \in Held
    <3>1. PICK k \in DOMAIN queue' : it = queue'[k]
      BY <2>3
    <3>2. PICK i \in DOMAIN q1 : it = q1[i]
      BY <2>2, <2>4, <3>1
    <3>3. QED
      BY <1>0, <2>1, <2>4, <3>2
  <2>5. QED
    BY <1>2, <2>3, <2>4
<1>9. CASE PickNext
  <2>1. /\ queue # <<>> /\ queue' = Tail(queue) /\ item' = Head(queue) /\ log' = log
        /\ pc # "final" /\ pc' = "attempt" /\ attempt' = 1
    BY <1>9 DEF PickNext
  <2>2. /\ \A k \in DOMAIN Tail(queue) : k + 1 \in DOMAIN queue /\ Tail(queue)[k] = queue[k + 1]
        /\ 1 \in DOMAIN queue /\ Head(queue) = queue[1]
    BY <1>0, <2>1
  <2>3. Held' = {queue'[k] : k \in DOMAIN queue'} \cup {item'}
    BY <2>1 DEF Held
  <2>4. QED
    BY <1>0, <1>2, <2>1, <2>2, <2>3
<1>10. CASE StopRun \/ PassStopCheck
  <2>1. /\ Held' \subseteq {queue[k] : k \in DOMAIN queue} \cup {item}
        /\ log' = log /\ pc = "attempt" /\ attempt \in Nat \ {0}
    BY <1>10 DEF StopRun, PassStopCheck, Idle, Held, IInv, TypeOK, RunMatchesLog, volatile
  <2>2. item \in Held
    BY <2>1 DEF Held
  <2>3. QED
    BY <1>0, <1>2, <2>1, <2>2
<1>11. CASE Skip \/ AttemptDone
  BY <1>11, FreshWhenContinued
<1>12. CASE StartAttempt \/ HasWorkRaises
  <2>1. Held' = Held /\ item \in Items
    BY <1>12 DEF StartAttempt, HasWorkRaises, OpenRow, Held, IInv, RunMatchesLog
  <2>2. \A it \in Held : it \in Items
    BY <1>0, <2>1 DEF Held
  <2>3. QED
    BY <1>12, <2>1, <2>2, FreshWhenOpened DEF DependentsFresh
<1>13. CASE AttemptFails
  <2>1. PICK t \in Nat : CloseRow("failed", t)
    <3>1. /\ now \in Nat
          /\ pc = "undetermined" => log[Len(log)] \in LogRows
      <4>1. pc = "undetermined" => log # <<>>
        BY DEF IInv, RunMatchesLog
      <4>2. QED
        BY <1>0, <4>1 DEF IInv, TypeOK
    <3>2. pc = "undetermined" => log[Len(log)].started \in Nat
      BY <3>1 DEF LogRows
    <3>3. QED
      BY <1>13, <3>1, <3>2 DEF AttemptFails
  <2>2. /\ pc \in {"running", "undetermined"} /\ Failed
        /\ item \in Items /\ attempt \in 1..MaxAttempts
    BY <1>13 DEF AttemptFails, IInv, TypeOK, RunMatchesLog
  <2>3. /\ attempt < MaxAttempts \/ (pc' = "final" /\ item' = item)
        /\ Held' \subseteq {queue[k] : k \in DOMAIN queue} \cup {item} /\ item \in Held
    BY <2>2 DEF Failed, Held
  <2>4. ASSUME NEW it \in Items, Fresh(it) PROVE Fresh(it)'
    BY <2>1, <2>2, <2>3, <2>4, FreshWhenClosed
  <2>5. \A it \in Held' : it \in Held /\ it \in Items
    BY <1>0, <2>2, <2>3 DEF Held
  <2>6. QED
    BY <2>4, <2>5 DEF DependentsFresh
<1>14. CASE ReportFinalFailure
  BY <1>14, FreshWhenChainStopped
<1>15. CASE Abort \/ Exit \/ Crash
  BY <1>1, <1>15 DEF Abort, Exit, Crash, Gone
<1>16. CASE RequestStop \/ Tick \/ UNCHANGED vars \/ \E c \in Clients : Terminal(c)
  BY <1>3, <1>16 DEF RequestStop, Tick, vars, volatile, Terminal, Knock, Stamp, AddRequest, DatabaseBusy
<1>17. QED
  BY <1>4, <1>5, <1>6, <1>7, <1>8, <1>9, <1>10, <1>11, <1>12, <1>13, <1>14, <1>15, <1>16 DEF Next, Process

\* A dependent never runs on the state its upstream left by failing for good,
\* and ingestion waits as a dependent only behind a sync that succeeded.
THEOREM NoStaleDependentsHolds == Spec => []NoStaleDependents
<1>1. Init => DependentsFresh
  BY DEF Init, DependentsFresh, Held
<1>2. IInv /\ OnceInv /\ DependentsFresh /\ [Next]_vars => DependentsFresh'
  BY NextDependents
<1>3. IInv => RunMatchesLog
  BY DEF IInv
<1>4. QED
  BY <1>1, <1>2, <1>3, FreshEnough, OnceHolds, InvariantHolds, PTL DEF Spec

-----------------------------------------------------------------------------
(* The clock grid *)

LEMMA NextAlignedOnGrid ==
  ASSUME NEW t \in Nat, NEW p \in Nat \ {0}
  PROVE  NextAligned(t, p) \in Nat /\ NextAligned(t, p) > t /\ NextAligned(t, p) % p = 0
BY DEF NextAligned

LEMMA NextAlignedGrows ==
  ASSUME NEW t \in Nat, NEW u \in Nat, t <= u, NEW p \in Nat \ {0}
  PROVE  NextAligned(t, p) <= NextAligned(u, p)
<1>1. t \div p <= u \div p /\ t \div p \in Nat /\ u \div p \in Nat
  OBVIOUS
<1> DEFINE a == t \div p + 1
           b == u \div p + 1
<1>2. a \in Nat /\ b \in Nat /\ a <= b
  BY <1>1
<1> HIDE DEF a, b
<1>3. a * p <= b * p
  BY <1>2
<1>4. QED
  BY <1>3 DEF NextAligned, a, b

LEMMA PeriodsPositive == \A j \in Scheduled : j \in Jobs /\ Periods[j] \in Nat \ {0}
<1>1. /\ Scheduled = {"moodle_sync", "notifications"}
      /\ Periods["moodle_sync"] = SyncPeriod /\ Periods["notifications"] = NotifyPeriod
  BY DEF Scheduled, Periods
<1>2. QED
  BY <1>1, ConfigAssumption DEF Jobs

\* A process that has not armed its clock has none.
ClockUnset == pc \in {"down", "recover", "purge", "purging", "arm"} => nextRun = [j \in Scheduled |-> Null]

LEMMA NextClock ==
  ASSUME IInv, OnGrid, ClockUnset, [Next]_vars
  PROVE  /\ OnGrid'
         /\ ClockUnset'
         /\ \A j \in Scheduled : nextRun'[j] \notin {Null, nextRun[j]} =>
              nextRun'[j] > now /\ (nextRun[j] # Null => nextRun[j] <= now)
<1> USE DEF IInv
<1>0. now \in Nat /\ nextRun \in [Scheduled -> Nat \cup {Null}]
  BY DEF TypeOK
<1>1. CASE ArmDaemon
  <2>1. nextRun = [j \in Scheduled |-> Null] /\ pc' = "loop" /\ now' = now
    BY <1>1 DEF ArmDaemon, ClockUnset
  <2>2. ASSUME NEW j \in Scheduled, nextRun'[j] # Null
        PROVE  /\ j \in Enabled
               /\ nextRun'[j] = NextAligned(now, Periods[j])
    BY <1>1, <2>2 DEF ArmDaemon
  <2>3. ASSUME NEW j \in Scheduled, nextRun'[j] # Null
        PROVE  nextRun'[j] > now /\ nextRun'[j] % Periods[j] = 0
    BY <1>0, <2>2, <2>3, PeriodsPositive, NextAlignedOnGrid
  <2>4. ASSUME NEW j \in Scheduled, nextRun'[j] # Null
        PROVE  nextRun'[j] <= NextAligned(now, Periods[j])
    BY <1>0, <2>2, <2>4, PeriodsPositive, NextAlignedOnGrid
  <2>5. OnGrid'
    BY <2>1, <2>2, <2>3, <2>4 DEF OnGrid, Periods, Scheduled, NextAligned
  <2>6. QED
    BY <2>1, <2>3, <2>5 DEF ClockUnset
<1>2. CASE CheckSchedules
  <2>1. pc' = "pick" /\ now' = now
    BY <1>2 DEF CheckSchedules
  <2>2. ASSUME NEW j \in Scheduled
        PROVE  nextRun'[j] = IF Due(j, now) THEN NextAligned(now, Periods[j]) ELSE nextRun[j]
    BY <1>2 DEF CheckSchedules
  <2>3. ASSUME NEW j \in Scheduled, Due(j, now)
        PROVE  /\ nextRun[j] <= now /\ j \in Enabled
               /\ nextRun'[j] = NextAligned(now, Periods[j])
               /\ nextRun'[j] > now /\ nextRun'[j] % Periods[j] = 0 /\ nextRun'[j] \in Nat
    BY <1>0, <2>2, <2>3, PeriodsPositive, NextAlignedOnGrid DEF Due, OnGrid
  <2>4. ASSUME NEW j \in Scheduled, nextRun'[j] # Null
        PROVE  /\ j \in Enabled
               /\ nextRun'[j] % Periods[j] = 0
               /\ nextRun'[j] <= NextAligned(now, Periods[j])
    <3>1. CASE Due(j, now)
      BY <2>3, <3>1
    <3>2. CASE ~Due(j, now)
      BY <2>2, <2>4, <3>2 DEF OnGrid
    <3>3. QED
      BY <3>1, <3>2
  <2>5. OnGrid'
    BY <2>1, <2>4 DEF OnGrid, Periods, Scheduled, NextAligned
  <2>6. QED
    BY <2>1, <2>2, <2>3, <2>5 DEF ClockUnset
<1>3. CASE Tick
  <2>1. now' = now + 1 /\ nextRun' = nextRun /\ pc' = pc
    BY <1>3 DEF Tick, volatile
  <2>2. ASSUME NEW j \in Scheduled, nextRun[j] # Null
        PROVE  nextRun[j] <= NextAligned(now + 1, Periods[j])
    <3>1. Periods[j] \in Nat \ {0}
      BY <2>2, PeriodsPositive DEF OnGrid
    <3>2. /\ NextAligned(now, Periods[j]) <= NextAligned(now + 1, Periods[j])
          /\ NextAligned(now, Periods[j]) \in Nat /\ NextAligned(now + 1, Periods[j]) \in Nat
      <4>1. now + 1 \in Nat /\ now <= now + 1
        BY <1>0
      <4>2. QED
        BY <1>0, <3>1, <4>1, NextAlignedGrows, NextAlignedOnGrid
    <3>3. nextRun[j] <= NextAligned(now, Periods[j]) /\ nextRun[j] \in Nat
      BY <1>0, <2>2 DEF OnGrid
    <3>4. QED
      BY <3>2, <3>3
  <2>3. QED
    BY <2>1, <2>2 DEF OnGrid, ClockUnset, Periods, Scheduled, NextAligned
<1>4. CASE Abort \/ Exit \/ Crash
  <2>1. nextRun' = [j \in Scheduled |-> Null]
    BY <1>4 DEF Abort, Exit, Crash, Gone
  <2>2. QED
    BY <2>1 DEF OnGrid, ClockUnset
<1>5. ASSUME nextRun' = nextRun, now' = now,
             pc \notin {"down", "recover", "purge", "purging", "arm"} =>
               pc' \notin {"down", "recover", "purge", "purging", "arm"},
             pc = "arm" => pc' = "arm" \/ nextRun' = [j \in Scheduled |-> Null]
      PROVE  OnGrid' /\ ClockUnset'
  BY <1>5 DEF OnGrid, ClockUnset, Periods, Scheduled, NextAligned
<1>6. CASE StartDaemon \/ StartOneShot \/ Recover \/ ReadLeftovers \/ DeleteLeftovers \/ ArmOneShot
  <2>1. nextRun' = nextRun /\ now' = now /\ nextRun = [j \in Scheduled |-> Null]
    BY <1>6 DEF StartDaemon, StartOneShot, Start, Recover, ReadLeftovers, DeleteLeftovers, ArmOneShot,
           ClockUnset, volatile
  <2>2. QED
    BY <2>1 DEF OnGrid, ClockUnset
<1>7. CASE \/ ReadRequests \/ LeaveLoop \/ HandleRequest \/ PickNone \/ PickNext \/ StopRun
           \/ PassStopCheck \/ Skip \/ StartAttempt \/ HasWorkRaises \/ AttemptDone
           \/ AttemptFails \/ ReportFinalFailure
  <2>1. nextRun' = nextRun /\ now' = now /\ pc' \notin {"down", "recover", "purge", "purging", "arm"}
    BY <1>7 DEF ReadRequests, LeaveLoop, HandleRequest, PickNone, PickNext, StopRun, PassStopCheck, Skip,
           StartAttempt, HasWorkRaises, OpenRow, AttemptDone, AttemptFails, Failed,
           ReportFinalFailure, Idle, volatile
  <2>2. QED
    BY <2>1 DEF OnGrid, ClockUnset, Periods, Scheduled, NextAligned
<1>8. CASE RequestStop \/ UNCHANGED vars \/ \E c \in Clients : Terminal(c)
  <2>1. nextRun' = nextRun /\ now' = now /\ pc' = pc
    BY <1>8 DEF RequestStop, vars, volatile, Terminal, Knock, Stamp, AddRequest, DatabaseBusy
  <2>2. QED
    BY <2>1 DEF OnGrid, ClockUnset, Periods, Scheduled, NextAligned
<1>9. QED
  BY <1>1, <1>2, <1>3, <1>4, <1>6, <1>7, <1>8 DEF Next, Process

\* A scheduled job is always due at a multiple of its period, at the next slot
\* at the latest, however long the process was busy.
THEOREM OnGridHolds == Spec => []OnGrid
<1>1. Init => OnGrid /\ ClockUnset
  BY DEF Init, OnGrid, ClockUnset
<1>2. IInv /\ OnGrid /\ ClockUnset /\ [Next]_vars => OnGrid' /\ ClockUnset'
  BY NextClock
<1>3. QED
  BY <1>1, <1>2, InvariantHolds, PTL DEF Spec

\* A slot is never replayed: a job's new slot is in the future, and its earlier
\* one had arrived.
THEOREM NoReplayHolds == Spec => NoReplay
<1> DEFINE Step == \A j \in Scheduled : nextRun'[j] \notin {Null, nextRun[j]} =>
                     /\ nextRun'[j] > now
                     /\ nextRun[j] # Null => nextRun[j] <= now
<1>1. Init => OnGrid /\ ClockUnset
  BY DEF Init, OnGrid, ClockUnset
<1>2. IInv /\ OnGrid /\ ClockUnset /\ [Next]_vars => OnGrid' /\ ClockUnset' /\ Step
  BY NextClock
<1>3. NoReplay <=> [][Step]_vars
  BY DEF NoReplay
<1> HIDE DEF Step
<1>4. QED
  BY <1>1, <1>2, <1>3, InvariantHolds, PTL DEF Spec

-----------------------------------------------------------------------------
(* Requests left for an earlier process *)

LEMMA NextOwnRequests ==
  ASSUME IInv, NoReplayedRequest, [Next]_vars
  PROVE  NoReplayedRequest'
<1> USE DEF IInv
<1>0. requests \in Seq(RequestRows)
  BY DEF TypeOK
<1>1. CASE StartDaemon \/ StartOneShot \/ Recover \/ ReadLeftovers \/ Abort \/ Exit \/ Crash
  BY <1>1 DEF StartDaemon, StartOneShot, Start, Recover, ReadLeftovers, Abort, Exit, Crash, Gone,
         NoReplayedRequest
<1>2. CASE DeleteLeftovers
  BY <1>2 DEF DeleteLeftovers, NoReplayedRequest
<1>3. CASE HandleRequest
  <2>1. requests # <<>> /\ requests' = Tail(requests) /\ starts' = starts /\ pc = "requests"
    BY <1>3 DEF HandleRequest, RequestsMatch, TypeOK
  <2>2. \A i \in DOMAIN Tail(requests) : i + 1 \in DOMAIN requests /\ Tail(requests)[i] = requests[i + 1]
    BY <1>0, <2>1
  <2>3. QED
    BY <2>1, <2>2 DEF NoReplayedRequest
<1>4. CASE \E c \in Clients : AddRequest(c)
  <2>1. PICK c \in Clients : AddRequest(c)
    BY <1>4
  <2> DEFINE new == [job |-> client[c].job, stamp |-> client[c].stamp, by |-> starts]
  <2>2. requests' = Append(requests, new) /\ starts' = starts /\ pc' = pc /\ new.by = starts
    BY <2>1 DEF AddRequest
  <2> HIDE DEF new
  <2>3. /\ DOMAIN Append(requests, new) = 1..(Len(requests) + 1)
        /\ Append(requests, new)[Len(requests) + 1] = new
        /\ \A i \in 1..Len(requests) : Append(requests, new)[i] = requests[i]
        /\ DOMAIN requests = 1..Len(requests) /\ Len(requests) \in Nat
    BY <1>0
  <2>4. QED
    BY <2>2, <2>3 DEF NoReplayedRequest
<1>5. CASE \/ ArmDaemon \/ ArmOneShot
           \/ ReadRequests \/ LeaveLoop \/ CheckSchedules \/ PickNone \/ PickNext \/ StopRun
           \/ PassStopCheck \/ Skip \/ StartAttempt \/ HasWorkRaises \/ AttemptDone
           \/ AttemptFails \/ ReportFinalFailure
  <2>1. /\ requests' = requests /\ starts' = starts
        /\ pc \notin {"down", "recover", "purge", "purging"}
    BY <1>5 DEF ArmDaemon, ArmOneShot, ReadRequests, LeaveLoop, CheckSchedules, PickNone, PickNext, StopRun,
           PassStopCheck, Skip, StartAttempt, HasWorkRaises, OpenRow, AttemptDone, AttemptFails,
           Failed, ReportFinalFailure, volatile
  <2>2. QED
    BY <2>1 DEF NoReplayedRequest
<1>6. CASE \/ RequestStop \/ Tick \/ UNCHANGED vars
           \/ \E c \in Clients : Knock(c) \/ Stamp(c) \/ DatabaseBusy(c)
  BY <1>6 DEF RequestStop, Tick, vars, volatile, Knock, Stamp, DatabaseBusy, NoReplayedRequest
<1>7. QED
  BY <1>1, <1>2, <1>3, <1>4, <1>5, <1>6 DEF Next, Process, Terminal

\* A request left for an earlier process is never replayed by a later one,
\* daemon or one-shot, however the earlier one ended.
THEOREM NoReplayedRequestHolds == Spec => []NoReplayedRequest
<1>1. Init => NoReplayedRequest
  BY DEF Init, NoReplayedRequest
<1>2. IInv /\ NoReplayedRequest /\ [Next]_vars => NoReplayedRequest'
  BY NextOwnRequests
<1>3. QED
  BY <1>1, <1>2, InvariantHolds, PTL DEF Spec
====
