---- MODULE MoodleSync ----
(* MoodleSync.sync_changes() as the moodle_sync job runs it, and the rows it  *)
(* leaves for Ingestion. One thread asks Moodle course by course and commits  *)
(* table by table; every request may fail the run and every commit may be the *)
(* last before a crash, while the site goes on changing. The checkpoint is    *)
(* the start of the last run that ended well. Submission statuses, which have *)
(* rules of their own, are in module Reminders.                               *)
EXTENDS Integers, FiniteSets

CONSTANTS
  Courses,
  Items,               \* what Moodle serves: one row of one table each
  CourseOf, KindOf,    \* of every item
  Overlap,             \* CHECKPOINT_OVERLAP_SECONDS
  Behind,              \* how far the site's clock may lag ours
  Null,
  MaxTime, MaxChanges, MaxFails  \* bounds: clock, changes outside, failures

\* Rows asked for in bulk in every run, and rows asked for by course.
Bulk == {"course", "label", "task", "event"}
Contents == {"url", "file"}
Kinds == Bulk \cup Contents \cup {"mark"}

\* The margin of jobs.py:40-44 is wider than the lag it is there for.
ASSUME MoodleSyncAssumption ==
  /\ CourseOf \in [Items -> Courses] /\ KindOf \in [Items -> Kinds]
  /\ Overlap \in Nat /\ Behind \in Nat /\ Behind < Overlap
  /\ Null \notin Int

ASSUME MoodleSyncBounds == MaxTime \in Nat /\ MaxChanges \in Nat /\ MaxFails \in Nat

VARIABLES
  clock,
  site,        \* Moodle: the edition of every item, 0 if it is not served
  stampedAt,   \* Moodle: when the item changed, by the site's clock
  enrolled,    \* Moodle: the courses it lists for us
  copy,        \* the rows: the edition last stored, 0 if there is no row
  sections,    \* courses with rows in course_sections
  fresh,       \* rows not older than the newest section of their course
  checkpoint,  \* when the last done execution began, or Null
  step,        \* where the run is
  since,       \* what the run asks for, Null in a full run
  startedAt,
  listed,      \* course_ids
  todo,        \* courses the present step has still to handle
  changed,     \* courses to be fetched again
  course,      \* the course being stored, or Null
  answer,      \* its contents
  fails, changes,
  tracked,     \* observer: items whose next change incremental runs must see
  returned,    \* observer: items of the last contents sync of their course
  touched      \* observer: items changed outside since the run began

outside == <<clock, site, stampedAt, enrolled, changes>>
rows == <<copy, sections, fresh>>
run == <<since, startedAt, listed>>
storing == <<course, answer>>
observers == <<tracked, returned>>
vars == <<outside, rows, checkpoint, step, run, todo, changed, storing, fails, observers, touched>>

Of(K, C) == {d \in Items : KindOf[d] \in K /\ CourseOf[d] \in C}
Nothing == [d \in Items |-> 0]

\* The rows that the answers of one request make.
CourseRows(C) == Of({"course", "label"}, C)
LinkRows(c) == Of({"url"}, {c})
FileRows(c) == Of({"file"}, {c})
TaskRows(C) == Of({"task"}, C)
MarkRows(c) == Of({"mark"}, {c})
EventRows(C) == Of({"event"}, C)

-----------------------------------------------------------------------------
(* The tables *)

\* INSERT ... ON CONFLICT DO UPDATE: what Moodle did not return keeps its row.
Upserted(seen, D) == [d \in Items |-> IF d \in D /\ seen[d] # 0 THEN seen[d] ELSE copy[d]]

Returned(seen, D) == {d \in D : seen[d] # 0}

\* _CURRENT_ROW_FILTER: what discover() of the two adapters yields to Ingestion.
Offered == {d \in Of(Contents, Courses) : copy[d] # 0 /\ d \in fresh}

Since_Exact(start) == start

\* MoodleSyncJob._checkpoint()
Since(start) == IF start > Overlap THEN start - Overlap ELSE 0

\* course_has_contents(): one of its sections is stored.
HasContents(c) == c \in sections

\* What core_course_get_updates_since answers: strictly later, nothing of what
\* was taken away.
Updated(c) == \E d \in Of(Contents \cup {"mark"}, {c}) : site[d] # 0 /\ stampedAt[d] > since

-----------------------------------------------------------------------------
(* Moodle *)

Init ==
  /\ clock = Overlap /\ site = [d \in Items |-> 1] /\ stampedAt = Nothing
  /\ enrolled \in SUBSET Courses
  /\ copy = Nothing /\ sections = {} /\ fresh = {} /\ checkpoint = Null
  /\ step = "idle" /\ since = Null /\ startedAt = 0 /\ listed = {}
  /\ todo = {} /\ changed = {} /\ course = Null /\ answer = Nothing
  /\ fails = 0 /\ changes = 0
  /\ tracked = {} /\ returned = {} /\ touched = {}

Tick ==
  /\ clock < Overlap + MaxTime
  /\ clock' = clock + 1
  /\ UNCHANGED <<site, stampedAt, enrolled, changes, rows, checkpoint, step, run, todo, changed,
                 storing, fails, observers, touched>>

\* Somebody changes the site.
Change(D) ==
  /\ changes < MaxChanges
  /\ changes' = changes + 1
  /\ touched' = IF step = "idle" THEN {} ELSE touched \cup D
  /\ UNCHANGED <<clock, rows, checkpoint, step, run, todo, changed, storing, fails, observers>>

\* A new item or a new edition, stamped by a clock that may lag.
Publish(d) ==
  /\ Change({d})
  /\ site' = [site EXCEPT ![d] = changes + 2]
  /\ \E lag \in 0 .. Behind : stampedAt' = [stampedAt EXCEPT ![d] = clock - lag]
  /\ UNCHANGED enrolled

\* There is no signal of a deletion.
Withdraw(d) ==
  /\ site[d] # 0 /\ Change({d})
  /\ site' = [site EXCEPT ![d] = 0]
  /\ UNCHANGED <<stampedAt, enrolled>>

Enroll(c) ==
  /\ c \notin enrolled /\ Change(Of(Kinds, {c}))
  /\ enrolled' = enrolled \cup {c}
  /\ UNCHANGED <<site, stampedAt>>

Leave(c) ==
  /\ c \in enrolled /\ Change(Of(Kinds, {c}))
  /\ enrolled' = enrolled \ {c}
  /\ UNCHANGED <<site, stampedAt>>

-----------------------------------------------------------------------------
(* One run *)

\* MoodleSyncJob.run(): at startup, or when no run ever ended well, in full.
Begin(startup) ==
  /\ step = "idle"
  /\ step' = "profile" /\ startedAt' = clock
  /\ since' = IF startup \/ checkpoint = Null THEN Null ELSE Since(checkpoint)
  /\ UNCHANGED <<outside, rows, checkpoint, listed, todo, changed, storing, fails, observers, touched>>

ListCourses_FromTable ==
  /\ step = "profile"
  /\ step' = "detect" /\ listed' = enrolled /\ todo' = enrolled \cup sections
  /\ copy' = Upserted(site, CourseRows(enrolled))
  /\ UNCHANGED <<outside, sections, fresh, checkpoint, since, startedAt, changed, storing,
                 fails, observers, touched>>

\* sync_profile(), sync_courses() and sync_course_classification(), taken as one:
\* the rows of a course are not read again in the run.
ListCourses ==
  /\ step = "profile"
  /\ step' = "detect" /\ listed' = enrolled /\ todo' = enrolled
  /\ copy' = Upserted(site, CourseRows(enrolled))
  /\ UNCHANGED <<outside, sections, fresh, checkpoint, since, startedAt, changed, storing,
                 fails, observers, touched>>

Detected(c, yes) ==
  /\ step = "detect" /\ c \in todo
  /\ todo' = todo \ {c}
  /\ changed' = IF yes THEN changed \cup {c} ELSE changed
  /\ UNCHANGED <<outside, rows, checkpoint, step, run, storing, fails, observers, touched>>

\* Fetched without a question: in a full run, and when nothing is stored.
TakeWhole(c) ==
  /\ since = Null \/ ~HasContents(c)
  /\ Detected(c, TRUE)

\* A warning hides the changes of some module and counts as a change.
AskUpdates(c) ==
  /\ since # Null /\ HasContents(c) /\ c \in enrolled
  /\ \E warned \in BOOLEAN : Detected(c, warned \/ Updated(c))

FetchChanged ==
  /\ step = "detect" /\ todo = {}
  /\ step' = "contents" /\ todo' = changed
  /\ UNCHANGED <<outside, rows, checkpoint, run, changed, storing, fails, observers, touched>>

StoreSections_KeepRows(c) ==
  /\ step = "contents" /\ c \in todo /\ c \in enrolled
  /\ step' = "modules" /\ todo' = todo \ {c}
  /\ course' = c /\ answer' = [d \in Items |-> IF d \in Of(Contents, {c}) THEN site[d] ELSE 0]
  /\ sections' = sections \cup {c} /\ fresh' = fresh
  /\ returned' = (returned \ Of(Contents, {c})) \cup Returned(site, Of(Contents, {c}))
  /\ tracked' = IF HasContents(c) THEN tracked ELSE tracked \ Of(Kinds, {c})
  /\ UNCHANGED <<outside, copy, checkpoint, run, changed, fails, touched>>

\* sync_course_contents(): the answer, and the first of its three commits, which
\* makes every other row of the course older than a section. Moodle answers one
\* section at least, the general one; without any, no row would be made older.
StoreSections(c) ==
  /\ step = "contents" /\ c \in todo /\ c \in enrolled
  /\ step' = "modules" /\ todo' = todo \ {c}
  /\ course' = c /\ answer' = [d \in Items |-> IF d \in Of(Contents, {c}) THEN site[d] ELSE 0]
  /\ sections' = sections \cup {c} /\ fresh' = fresh \ Of(Contents, {c})
  /\ returned' = (returned \ Of(Contents, {c})) \cup Returned(site, Of(Contents, {c}))
  /\ tracked' = IF HasContents(c) THEN tracked ELSE tracked \ Of(Kinds, {c})
  /\ UNCHANGED <<outside, copy, checkpoint, run, changed, fails, touched>>

StoreModules ==
  /\ step = "modules"
  /\ step' = "files"
  /\ copy' = Upserted(answer, LinkRows(course))
  /\ fresh' = fresh \cup Returned(answer, LinkRows(course))
  /\ UNCHANGED <<outside, sections, checkpoint, run, todo, changed, storing, fails, observers, touched>>

StoreFiles ==
  /\ step = "files"
  /\ step' = "contents" /\ course' = Null /\ answer' = Nothing
  /\ copy' = Upserted(answer, FileRows(course))
  /\ fresh' = fresh \cup Returned(answer, FileRows(course))
  /\ tracked' = tracked \cup Of(Contents, {course})
  /\ UNCHANGED <<outside, sections, checkpoint, run, todo, changed, fails, returned, touched>>

StoreTasks_OfChanged ==
  /\ step = "contents" /\ todo = {}
  /\ step' = "marks" /\ todo' = changed
  /\ copy' = Upserted(site, TaskRows(changed \cap enrolled))
  /\ UNCHANGED <<outside, sections, fresh, checkpoint, run, changed, storing, fails, observers, touched>>

\* sync_assignments(), of every listed course.
StoreTasks ==
  /\ step = "contents" /\ todo = {}
  /\ step' = "marks" /\ todo' = changed
  /\ copy' = Upserted(site, TaskRows(listed \cap enrolled))
  /\ UNCHANGED <<outside, sections, fresh, checkpoint, run, changed, storing, fails, observers, touched>>

\* sync_grades()
StoreMarks(c) ==
  /\ step = "marks" /\ c \in todo /\ c \in enrolled
  /\ todo' = todo \ {c}
  /\ copy' = Upserted(site, MarkRows(c))
  /\ tracked' = tracked \cup MarkRows(c)
  /\ UNCHANGED <<outside, sections, fresh, checkpoint, step, run, changed, storing, fails, returned, touched>>

\* MoodleAPIError: an item warning. Marks that had changed are not looked for
\* again until something else of their course changes.
RefuseMarks(c) ==
  /\ step = "marks" /\ c \in todo
  /\ todo' = todo \ {c}
  /\ tracked' = tracked \ {d \in MarkRows(c) : copy[d] # site[d]}
  /\ UNCHANGED <<outside, rows, checkpoint, step, run, changed, storing, fails, returned, touched>>

Idle ==
  /\ step' = "idle" /\ since' = Null /\ startedAt' = 0 /\ listed' = {}
  /\ todo' = {} /\ changed' = {} /\ course' = Null /\ answer' = Nothing
  /\ touched' = {}

\* sync_calendar(), and the row of the execution: done. What changed in a course
\* that this run did not list may lie before the next checkpoint.
Finish ==
  /\ step = "marks" /\ todo = {}
  /\ Idle /\ checkpoint' = startedAt
  /\ copy' = Upserted(site, EventRows(listed \cap enrolled))
  /\ tracked' = tracked \cap Of(Kinds, listed)
  /\ UNCHANGED <<outside, sections, fresh, fails, returned>>

\* Moodle refuses what is asked about a course we have just left.
Refused ==
  /\ \/ /\ step = "detect" /\ since # Null
        /\ \E c \in todo \ enrolled : HasContents(c)
     \/ step = "contents" /\ todo \ enrolled # {}
  /\ Idle
  /\ UNCHANGED <<outside, rows, checkpoint, fails, observers>>

\* Any other error of the client or of SQLite, or the end of the process: what
\* was committed stays, and the checkpoint does not advance.
Fail ==
  /\ step # "idle" /\ fails < MaxFails
  /\ Idle /\ fails' = fails + 1
  /\ UNCHANGED <<outside, rows, checkpoint, observers>>

\* The end-of-term purge keeps scheduler_executions, and with it the checkpoint.
Purge ==
  /\ step = "idle" /\ changes < MaxChanges
  /\ copy' = Nothing /\ sections' = {} /\ fresh' = {} /\ returned' = {}
  /\ changes' = changes + 1
  /\ UNCHANGED <<clock, site, stampedAt, enrolled, checkpoint, step, run, todo, changed, storing,
                 fails, tracked, touched>>

Advance ==
  \/ ListCourses \/ FetchChanged
  \/ \E c \in Courses : TakeWhole(c) \/ AskUpdates(c) \/ StoreSections(c)
                        \/ StoreMarks(c) \/ RefuseMarks(c)
  \/ StoreModules \/ StoreFiles \/ StoreTasks \/ Finish \/ Refused

Moodle ==
  \/ Tick
  \/ \E d \in Items : Publish(d) \/ Withdraw(d)
  \/ \E c \in Courses : Enroll(c) \/ Leave(c)

Next ==
  \/ Moodle \/ Advance \/ Fail \/ Purge
  \/ \E startup \in BOOLEAN : Begin(startup)

Spec == Init /\ [][Next]_vars

-----------------------------------------------------------------------------
(* Properties *)

Steps == {"idle", "profile", "detect", "contents", "modules", "files", "marks"}
Editions == 0 .. MaxChanges + 1

\* The types of the variables. Only courses that Moodle listed in this run are
\* asked for, though the tables hold others (the note of sync_changes()).
TypeOK ==
  /\ clock \in Overlap .. (Overlap + MaxTime) /\ changes \in 0 .. MaxChanges /\ fails \in 0 .. MaxFails
  /\ site \in [Items -> Editions] /\ copy \in [Items -> Editions] /\ answer \in [Items -> Editions]
  /\ stampedAt \in [Items -> Int] /\ \A d \in Items : stampedAt[d] <= clock
  /\ enrolled \subseteq Courses /\ sections \subseteq Courses /\ listed \subseteq Courses
  /\ checkpoint \in Nat \cup {Null} /\ since \in Nat \cup {Null} /\ startedAt \in 0 .. clock
  /\ step \in Steps
  /\ todo \subseteq listed /\ changed \subseteq listed /\ course \in changed \cup {Null}
  /\ fresh \subseteq Items /\ tracked \subseteq Items /\ returned \subseteq Items /\ touched \subseteq Items

Lagging(d) == site[d] # 0 /\ copy[d] # site[d]

\* The checkpoint hides no change: of a course that was stored whole and listed
\* ever since, what the tables lack is stamped later than what the next run
\* asks for, whatever failed, was purged or changed while a run was going on.
NoChangeLost ==
  \A d \in tracked : Lagging(d) =>
    \/ checkpoint = Null \/ ~HasContents(CourseOf[d])
    \/ stampedAt[d] > Since(checkpoint)

\* Ingestion is never offered a file or a link that the last contents sync of
\* its course did not return (the filter of source_adapters.py), at any moment.
OfferedIsLastFetch == Offered \subseteq returned

Finished == step = "marks" /\ step' = "idle" /\ checkpoint' = startedAt /\ fails' = fails

\* What a done run vouches for. Of what nobody touched while it ran, the rows of
\* the courses it listed are as on the site, those it only had to watch included;
\* and in the courses it fetched exactly what is served is offered.
DoneRunReconciles == [][
  Finished => \A d \in Items \ touched : CourseOf[d] \in listed =>
    /\ KindOf[d] \in Bulk \/ d \in tracked' => site[d] = 0 \/ copy'[d] = site[d]
    /\ KindOf[d] \in Contents /\ (since = Null \/ CourseOf[d] \in changed) =>
         (d \in Offered' <=> site[d] # 0)]_vars

\* source_adapters.py:23-28: "every row Moodle returned in a course's latest
\* contents sync is stamped at or after that sync's sections", so when a run is
\* done what Moodle returned of its courses is offered.
ReturnedIsOffered == [][
  Finished => returned \cap Of(Contents, listed) \subseteq Offered']_vars
====
