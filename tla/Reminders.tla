---- MODULE Reminders ----
(* The reminders of src/notifications and the scheduler's notifications job.  *)
(* One thread copies the assignments of the site (sync) and, on an hourly     *)
(* clock, looks for deadlines that have reached the band of a rule, reads     *)
(* their submission status again, looks a second time, and sends and records  *)
(* one message after the other. Around it the clock goes on at every step,    *)
(* the student hands work in, teachers move and withdraw assignments, an      *)
(* interface stores other rules, and the process may end.                     *)
EXTENDS Integers, FiniteSets

CONSTANTS
  Assignments,
  Ids,                \* names of rules
  Configured,         \* the rules of scheduler.toml
  Choices,            \* sets of rules that an interface may try to store
  Dues,               \* possible deadlines
  Cycle,              \* CYCLE_HOURS, in ticks
  Null,
  MaxSyncs, MaxTime   \* bounds: syncs begun, ticks

VARIABLES
  site,       \* Moodle: whether the assignment is there, its deadline, whether it is handed in
  copy,       \* assignments and assignment_submission_status
  run,        \* the number of the last sync begun
  confirmed,  \* the number of the last sync that ended well, or 0
  stored,     \* reminder_preferences, or Null if nothing was ever saved
  sent,       \* notifications_sent
  now,
  pc,         \* where the process is
  slot,       \* when the notifications job is next due
  queued,     \* it waits in the queue
  todo,       \* assignments whose status is still to be read
  batch,      \* notifications still to be sent
  item        \* the one delivered and not yet recorded

outside == <<site, stored, now>>
synced == <<run, confirmed>>
job == <<todo, batch, item>>
vars == <<outside, copy, synced, sent, pc, slot, queued, job>>

-----------------------------------------------------------------------------
(* Rules *)

\* A rule; its texts are left out.
Rules == [id: Ids, offset: Nat \ {0}]

\* validate(): names and offsets differ, and no band is narrower than a cycle.
Valid(rules) ==
  /\ \A r \in rules : r.offset >= Cycle
  /\ \A r, s \in rules : r # s =>
       /\ r.id # s.id /\ r.offset # s.offset
       /\ r.offset < s.offset => s.offset - r.offset >= Cycle

ASSUME RemindersAssumption ==
  /\ Cycle \in Nat \ {0}
  /\ Configured \in SUBSET Rules /\ Valid(Configured)
  /\ Choices \subseteq SUBSET Rules
  /\ Dues \subseteq Nat \ {0}
  /\ Null \notin Choices

ASSUME RemindersBounds == MaxSyncs \in Nat /\ MaxTime \in Nat

\* effective_rules(): the student's rules, also when they are none.
Effective == IF stored = Null THEN Configured ELSE stored

Reached(rules, left) == {r \in rules : r.offset >= left}

Applicable_Widest(rules, left) ==
  CHOOSE r \in Reached(rules, left) : \A s \in Reached(rules, left) : r.offset >= s.offset

\* applicable_rule(), when some rule is reached: the tightest of them.
Applicable(rules, left) ==
  CHOOSE r \in Reached(rules, left) : \A s \in Reached(rules, left) : r.offset <= s.offset

-----------------------------------------------------------------------------
(* Notifications *)

Notifications == [rule: Ids, of: Assignments, due: Dues]

Owed_Unknown(a) == copy[a].due # 0 /\ copy[a].due >= now /\ copy[a].status # "submitted"

\* is_assignment_pending(): a status that was never read is not "not submitted".
Owed(a) == copy[a].due # 0 /\ copy[a].due >= now /\ copy[a].status = "new"

Confirmed_Ever(a) == copy[a].synced # 0 /\ confirmed # 0

\* last_synced_at against the start of the last sync that ended well.
Confirmed(a) == confirmed # 0 /\ copy[a].synced >= confirmed

Due(a) == [rule |-> Applicable(Effective, copy[a].due - now).id, of |-> a, due |-> copy[a].due]

Pending_Again ==
  {Due(a) : a \in {a \in Assignments :
     Confirmed(a) /\ Owed(a) /\ Reached(Effective, copy[a].due - now) # {}}}

\* NotificationService.pending()
Pending ==
  {Due(a) : a \in {a \in Assignments :
     Confirmed(a) /\ Owed(a) /\ Reached(Effective, copy[a].due - now) # {}}} \ sent

\* next_aligned()
NextSlot_FromNow(t) == t + Cycle
NextSlot(t) == ((t \div Cycle) + 1) * Cycle

-----------------------------------------------------------------------------
(* The loop *)

Init ==
  /\ site \in [Assignments -> [there: {TRUE}, due: Dues, submitted: {FALSE}]]
  /\ copy = [a \in Assignments |-> [due |-> 0, synced |-> 0, status |-> Null]]
  /\ run = 0 /\ confirmed = 0 /\ stored = Null /\ sent = {}
  /\ now = 0 /\ pc = "down" /\ slot = 0 /\ queued = FALSE
  /\ todo = {} /\ batch = {} /\ item = Null

\* startup(): no slot of the past is made up for.
Start ==
  /\ pc = "down"
  /\ pc' = "idle" /\ slot' = NextSlot(now)
  /\ UNCHANGED <<outside, copy, synced, sent, queued, job>>

\* _check_schedules(), at the top of every step.
CheckSchedule ==
  /\ pc = "idle"
  /\ IF slot <= now THEN slot' = NextSlot(now) /\ queued' = TRUE ELSE UNCHANGED <<slot, queued>>
  /\ pc' = "pick"
  /\ UNCHANGED <<outside, copy, synced, sent, job>>

PickNone ==
  /\ pc = "pick" /\ ~queued
  /\ pc' = "idle"
  /\ UNCHANGED <<outside, copy, synced, sent, slot, queued, job>>

\* An automatic run asks has_work() first.
PickNotifications ==
  /\ pc = "pick" /\ queued
  /\ queued' = FALSE /\ pc' = "ask"
  /\ UNCHANGED <<outside, copy, synced, sent, slot, job>>

\* A manual request: no has_work(), and no run if one is queued.
PickByHand ==
  /\ pc = "pick" /\ ~queued
  /\ pc' = "look"
  /\ UNCHANGED <<outside, copy, synced, sent, slot, queued, job>>

PickSync ==
  /\ pc = "pick" /\ run < MaxSyncs
  /\ run' = run + 1 /\ pc' = "copy"
  /\ UNCHANGED <<outside, copy, confirmed, sent, slot, queued, job>>

-----------------------------------------------------------------------------
(* The sync, as far as assignments go *)

Listed == {a \in Assignments : site[a].there}

\* sync_assignments(): one commit. Rows that were not returned stay.
CopyAssignments ==
  /\ pc = "copy"
  /\ copy' = [a \in Assignments |->
       IF a \in Listed THEN [copy[a] EXCEPT !.due = site[a].due, !.synced = run] ELSE copy[a]]
  /\ \E more \in SUBSET Listed :  \* those of the courses that changed
       todo' = more \cup {a \in Listed :
                 copy[a].status = Null \/ (copy'[a].due > now /\ copy[a].status # "submitted")}
  /\ pc' = "statuses"
  /\ UNCHANGED <<outside, synced, sent, slot, queued, batch, item>>

\* sync_assignment_submission_status(), which commits.
ReadStatus(a) ==
  /\ pc \in {"statuses", "refresh"} /\ a \in todo /\ site[a].there
  /\ copy' = [copy EXCEPT ![a].status = IF site[a].submitted THEN "submitted" ELSE "new"]
  /\ todo' = todo \ {a}
  /\ UNCHANGED <<outside, synced, sent, pc, slot, queued, batch, item>>

\* In a sync an error about one assignment is a warning.
WarnStatus(a) ==
  /\ pc = "statuses" /\ a \in todo
  /\ todo' = todo \ {a}
  /\ UNCHANGED <<outside, copy, synced, sent, pc, slot, queued, batch, item>>

\* finish_execution(): from now on this sync's start is confirmed_since.
SyncDone ==
  /\ pc = "statuses" /\ todo = {}
  /\ confirmed' = run /\ pc' = "idle"
  /\ UNCHANGED <<outside, copy, run, sent, slot, queued, job>>

SyncFails ==
  /\ pc \in {"copy", "statuses"}
  /\ todo' = {} /\ pc' = "idle"
  /\ UNCHANGED <<outside, copy, synced, sent, slot, queued, batch, item>>

-----------------------------------------------------------------------------
(* The notifications job *)

\* has_work()
Ask ==
  /\ pc = "ask"
  /\ pc' = IF Pending = {} THEN "idle" ELSE "look"
  /\ UNCHANGED <<outside, copy, synced, sent, slot, queued, job>>

\* run(), first evaluation: whose status is to be read again.
Look ==
  /\ pc = "look"
  /\ todo' = {n.of : n \in Pending} /\ pc' = "refresh"
  /\ UNCHANGED <<outside, copy, synced, sent, slot, queued, batch, item>>

\* The first error ends the refresh, and nothing else.
RefreshFails ==
  /\ pc = "refresh" /\ todo # {}
  /\ todo' = {}
  /\ UNCHANGED <<outside, copy, synced, sent, pc, slot, queued, batch, item>>

\* send_pending(), second evaluation.
LookAgain ==
  /\ pc = "refresh" /\ todo = {}
  /\ batch' = Pending /\ pc' = "send"
  /\ UNCHANGED <<outside, copy, synced, sent, slot, queued, todo, item>>

\* Telegram has the message, and the process knows.
Deliver(n) ==
  /\ pc = "send" /\ n \in batch
  /\ item' = n /\ pc' = "record"
  /\ UNCHANGED <<outside, copy, synced, sent, slot, queued, todo, batch>>

\* The call failed, though the message may have arrived: next run again.
SendFails(n) ==
  /\ pc = "send" /\ n \in batch
  /\ batch' = batch \ {n}
  /\ UNCHANGED <<outside, copy, synced, sent, pc, slot, queued, todo, item>>

Record ==
  /\ pc = "record"
  /\ sent' = sent \cup {item} /\ batch' = batch \ {item}
  /\ item' = Null /\ pc' = "send"
  /\ UNCHANGED <<outside, copy, synced, slot, queued, todo>>

Finish ==
  /\ pc = "send" /\ batch = {}
  /\ pc' = "idle"
  /\ UNCHANGED <<outside, copy, synced, sent, slot, queued, job>>

\* An error of the database, that of the row of a delivered message included,
\* fails the attempt: the job waits and is tried again, or gives up.
AttemptFails ==
  /\ pc \in {"ask", "look", "refresh", "send", "record"}
  /\ pc' = "wait" /\ todo' = {} /\ batch' = {} /\ item' = Null
  /\ UNCHANGED <<outside, copy, synced, sent, slot, queued>>

\* An automatic run asks again, one by hand does not.
Retry ==
  /\ pc = "wait"
  /\ pc' \in {"ask", "look", "idle"}
  /\ UNCHANGED <<outside, copy, synced, sent, slot, queued, job>>

\* The process ends anywhere.
Crash ==
  /\ pc # "down"
  /\ pc' = "down" /\ slot' = 0 /\ queued' = FALSE
  /\ todo' = {} /\ batch' = {} /\ item' = Null
  /\ UNCHANGED <<outside, copy, synced, sent>>

-----------------------------------------------------------------------------
(* The others *)

\* The student hands in, teachers move a deadline, withdraw or show again.
SiteChanges ==
  /\ \E a \in Assignments :
       \/ ~site[a].submitted /\ site' = [site EXCEPT ![a].submitted = TRUE]
       \/ \E d \in Dues \ {site[a].due} : site' = [site EXCEPT ![a].due = d]
       \/ site' = [site EXCEPT ![a].there = ~@]
  /\ UNCHANGED <<copy, synced, stored, sent, now, pc, slot, queued, job>>

\* replace_rules(), in one transaction, if validate() lets it pass.
ReplaceRules ==
  /\ \E rules \in Choices : Valid(rules) /\ stored' = rules
  /\ UNCHANGED <<site, copy, synced, sent, now, pc, slot, queued, job>>

\* clear_rules()
ClearRules ==
  /\ stored # Null
  /\ stored' = Null
  /\ UNCHANGED <<site, copy, synced, sent, now, pc, slot, queued, job>>

\* The process waits, or a job is at work: the steps in between are local, and
\* a tick is longer than the polling interval of the loop.
Slow ==
  \/ pc \in {"down", "copy", "statuses", "refresh", "send", "record", "wait"}
  \/ pc = "idle" /\ ~queued /\ slot > now

Tick ==
  /\ now < MaxTime /\ Slow
  /\ now' = now + 1
  /\ UNCHANGED <<site, copy, synced, stored, sent, pc, slot, queued, job>>

Sync == PickSync \/ CopyAssignments \/ (\E a \in todo : ReadStatus(a) \/ WarnStatus(a))
        \/ SyncDone \/ SyncFails

Notify == Ask \/ Look \/ RefreshFails \/ LookAgain
          \/ (\E n \in batch : Deliver(n) \/ SendFails(n)) \/ Record \/ Finish
          \/ AttemptFails \/ Retry

Next ==
  \/ Start \/ CheckSchedule \/ PickNone \/ PickNotifications \/ PickByHand
  \/ Sync \/ Notify \/ Crash
  \/ SiteChanges \/ ReplaceRules \/ ClearRules \/ Tick

Spec == Init /\ [][Next]_vars

-----------------------------------------------------------------------------
(* Properties *)

\* Every variable in its range; slots are full hours, a message that waits for
\* its row is one of the batch.
TypeOK ==
  /\ site \in [Assignments -> [there: BOOLEAN, due: Dues, submitted: BOOLEAN]]
  /\ copy \in [Assignments -> [due: Dues \cup {0}, synced: Nat, status: {Null, "new", "submitted"}]]
  /\ run \in Nat /\ confirmed \in 0..run
  /\ stored = Null \/ (stored \in SUBSET Rules /\ Valid(stored))
  /\ sent \in SUBSET Notifications
  /\ now \in Nat /\ slot \in Nat /\ slot % Cycle = 0
  /\ queued \in BOOLEAN
  /\ pc \in {"down", "idle", "pick", "copy", "statuses", "ask", "look", "refresh", "send", "record",
            "wait"}
  /\ todo \in SUBSET Assignments
  /\ batch \in SUBSET Notifications
  /\ IF pc = "record" THEN item \in batch ELSE item = Null

\* A message may leave the process in this step.
Leaves(n) == n \in batch /\ (Deliver(n) \/ SendFails(n))

\* A reminder that was recorded is never sent again (service.py, "each at most
\* once"), whatever is evaluated, refreshed, stored or restarted in between.
NeverTwice == [][\A n \in batch : Leaves(n) => n \notin sent]_vars

\* Nothing is sent about work that is, by now, known to be handed in, or whose
\* status or deadline is not the one known: the status read again by the job
\* counts, although the batch was first put together before.
SilentOnceKnown ==
  [][\A n \in batch : Leaves(n) =>
       copy[n.of].status = "new" /\ copy[n.of].due = n.due]_vars
====
