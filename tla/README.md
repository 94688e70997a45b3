# Verification of Agente-Universitario

TLA+ models of the program in `src/`, the TLC configurations that check them on small
instances, and TLAPS proofs of what matters most about them. Source paths are relative to the
directory that holds `src/`, so `src/src/scheduler/scheduler.py` is the program's file
`src/scheduler/scheduler.py`. `PROJECT.json` names, for every definition that models code, the
lines it stands for.

The program is one Linux service for one student. It copies the state of their Moodle account
into SQLite, downloads the documents that changed, extracts their text, and sends Telegram
messages about new work and approaching deadlines. A single thread runs these jobs one after
the other; everything that survives it is in the database and in a directory of originals.

Contents: 1 inventory, 2 what is hard, 3 modules, 4 runs, 5 bounds, 6 fairness, 7 proofs,
8 where documentation and code differ, 9 what is not modelled, 10 plan.

## 1. Inventory

| Component | State it keeps | Operations | Interacts with |
|---|---|---|---|
| Scheduler loop (`scheduler/scheduler.py`, `schedules.py`) | in memory: queue, attempt in progress, next slots, stop flag | startup, step, run_forever, run_until_idle, request, request_stop | jobs (calls), history and request table (SQL), signals |
| Execution history and request queue (`database/scheduler_repository.py`) | tables `scheduler_executions`, `scheduler_requests` | start, finish, fail_stale_running, add/purge/delete request, ran_at_or_after | scheduler, terminals |
| Command line and lock (`scheduler/__main__.py`, `app.py`, `lock.py`) | the flock on the lock file | daemon, `--job`, `--status`, `--purge`, hand-over, signal handlers | every process on the machine |
| Purge (`scheduler/purge.py`) | none of its own; deletes content tables, then the original files | count, backup, purge | database, files |
| Configuration (`scheduler/config.py`, `*.toml`) | none (read once) | load, validate | scheduler, jobs |
| Job adapters (`scheduler/jobs.py`) | none | has_work, run | the domains below |
| Ingestion (`ingestion/*`, `database/ingestion_repository.py`) | tables `resources`, `resource_versions`, `ingestion_source_checks`, `ingestion_deferrals`; files of originals | pending, ingest, ingest_pending, store | Moodle copy, network, file system |
| Extraction (`extraction/extract.py`, `database/extraction_repository.py`) | table `extracted_documents` | pending_version_ids, extract, extract_pending | document versions, originals, extractors |
| Format extractors and OCR (`extraction/extractors.py`, `ocr.py`) | a loaded model | supports, extract | libraries |
| Moodle sync (`moodle/sync.py`, `database/moodle_repository.py`) | copies of courses, sections, modules, files, assignments, statuses, grades, events; the checkpoint is the last done row of the history | sync_changes and one method per entity | Moodle client, SQL |
| Moodle client (`moodle/client.py`) | one HTTP connection, the token | call, download_file, retries | network |
| Notifications and reminders (`notifications/*`, `notification_repository.py`, `reminder_repository.py`) | tables `notifications_sent`, `reminder_preferences`, `reminder_preferences_saved` | pending, send_pending, notify_job_failure, replace/clear rules | Moodle copy, Telegram |
| Read model (`read_model/*`) | none (queries) | get/list | every table |
| Redaction (`scheduler/redaction.py`) | known secrets | filter | logging |
| Schema (`database/db.py`) | DDL | connect | every repository |
| Deployment (`deploy/*`) | systemd units, backups | update.sh, backup.sh | service, database |
| `agent`, `llm`, `rag` | – | empty packages | – |

How they interact. The scheduler calls one job at a time in its own thread: the chain is
`moodle_sync` → `ingestion` → `extraction`, and `notifications` has a clock of its own. The jobs
talk to each other only through tables: the sync writes the rows that ingestion compares with
its own, ingestion writes the versions that extraction reads, notifications read the copy of the
assignments and the history of syncs. Other processes reach the scheduler through two things
only: the lock file (is one running?) and the table `scheduler_requests` (run this job). Signals
set the stop flag; jobs read it between two items.

What makes each component correct:

- scheduler: one job at a time, each job queued once, attempts bounded, no dependent on a stale
  upstream, no slot replayed, the history readable whatever dies when, a stop that ends;
- lock: one scheduler on the machine; no purge beside it;
- ingestion: versions in the order of the site's editions, none without its original, none
  forgotten, no starvation under the budget;
- purge and restoration: recoverable, and consistent wherever it is cut short;
- extraction: bounded attempts, an interrupted document neither shortened nor counted, only current
  versions read, each read, found unsupported or reported as given up at last;
- extractors: what counts as read is whole, a scan is recognised, hidden text stays out, and neither pass
  over the members of a container unpacks more than the limits;
- Moodle sync: the checkpoint never passes a change that was not copied; a done run leaves what it
  vouches for as on the site; stale rows are never offered to ingestion;
- reminders: each at most once unless the process dies while sending, each at least once while
  its band lasts, none for work handed in or no longer confirmed;
- Moodle client: bounded retries, no truncated document.

## 2. What is hard here

`PROJECT.json` lists every hazard at its line, with the properties that would catch it. They
fall into these groups: the process may die between any two commits (history, requests,
versions, purge); terminals and probes act concurrently with it through the lock and the request
table; state is read and used later (the probe's answer, the snapshot of requests, the copied row
while the site changes, the list of courses while they are left and joined); the checkpoint and the
stamps of two clocks; versions that arrive while older ones wait to be read, and a scan stopped
between two pages; the chain, retries, skips and manual requests interleave in the queue
over a whole cycle; a budget, a size limit or a failing item may starve the others; a single
thread delays the clock of everything else.

## 3. The modules

| Module | What it models | Kind |
|---|---|---|
| `ExecutionLog` | what the history of executions promises to its readers | abstract specification |
| `Scheduler` | the scheduler process, its two tables, terminals | component, refines `ExecutionLog` |
| `SingleInstance` | every process of the machine over the lock file | component |
| `Ingestion` | the ingestion pipeline over a site that changes | component |
| `MoodleSync` | one sync after another over a site that changes, and the rows they leave | component |
| `Readers` | the converters of documents, as functions | operators |
| `Extraction` | the extraction pipeline over versions that arrive | component, uses `Readers` |
| `Reminders` | the notifications job, with what it needs of sync, clock and rules | component |
| `ReminderBands` | `Reminders` and an observer that remembers what the program need not | observer |
| `Maintenance` | `Ingestion` composed with the purge, backups and restorations | composition |
| `MC...` | small instances for TLC | instances |
| `SchedulerProofs`, `SchedulerChainProofs`, `SingleInstanceProofs`, `IngestionProofs`, `MaintenanceProofs`, `MoodleSyncProofs`, `ExtractionProofs`, `RemindersProofs` | theorems | proofs |

Definitions named `X_Something` next to `X` are faulty variants of `X`, a plausible bug each. For
every property of a passing run there is one with which that run fails, so no property holds
whatever the code does.

### Scheduler and ExecutionLog

The state is the fields of the class `Scheduler` (`queue`, `item` and `attempt` for the run in
`_execute`, `nextRun`, `stop`), the two tables (`log`, `requests`), the clock and the terminals.
`pc` is the line the process is at, in steps that end at a commit or at a read of shared state:
that is where a crash or another process can be noticed.

- Startup: `Start`, `Recover` (fail_stale_running), `ReadLeftovers` and `DeleteLeftovers` (the two
  statements of purge_requests), `ArmDaemon` or `ArmOneShot`.
- Loop: `ReadRequests`, one `HandleRequest` per row, `CheckSchedules`, `PickNext` or `PickNone`,
  `LeaveLoop`.
- One run: `PassStopCheck`, `Skip` (has_work says no), `StartAttempt`, `HasWorkRaises`,
  `AttemptDone`, `AttemptFails`, `ReportFinalFailure`, `StopRun`; `Abort` is the second signal.
- The others: `RequestStop`, `Crash`, `Tick`, and per terminal `Knock` (lock taken), `Stamp`,
  `AddRequest`, `DatabaseBusy`.

What a job does inside `run()` is an outcome here, done or failed. The automatic trigger asks
`has_work()` first, which may answer anything except for the sync, that keeps the default yes.
Times are ticks of the clock grid. Two components are auxiliary and are read by properties only:
`mark` of a queue item and `by` of a request.

`ExecutionLog` says what a reader of `scheduler_executions` may rely on: rows are appended, one is
open at most and it is the last, attempts of a run are consecutive, a closed row never changes.
`ImplementsLog` is the refinement, the identity on the columns that matter.

### SingleInstance

`lock` is the owner of the flock; `at` is where each process is. `TryAcquire` is try_acquire(),
`Probe` and `ReleaseProbe` the two halves of is_locked(), `Purge` the guard of run_purge() after
the probe. `End` is any end of a process, by itself or by a signal: the operating system lets the
lock go. `Orderly` says that nobody starts a scheduler while a purge is being run; the run
and the theorem about purges assume it, because the probe lets the lock go before the purge begins
(section 8).

### Ingestion

`editions` is the site, where teachers publish at any time (`Publish`); `copied` is the row the
sync wrote; `known`, `since`, `versions`, `confirmed`, `deferred` are the tables of
`ingestion_repository.py`, `originals` the storage. `pc` moves through the commits of one item:
`Upsert` (resource row), `FetchUrl` or `Download`, `Store`, `InsertVersion`, `Confirm`,
`ClearDeferral`; `TooLarge`, `DownloadFails`, `StoreFails` end the item, `Interrupted` the run.
`Pending`, `Group` and `Precedes` are `_pending_items()` with its sort key; the time of the last
attempt is the relation `since` (which sources were attempted after this one), so that no clock
is needed. An edition is its content and whether it is over the size limit; contents stand for
their hashes, so equal contents share a file.

### MoodleSync

`site`, `stampedAt` and `enrolled` are Moodle: what it serves of each item (an edition number, 0 for
nothing), when by its own clock the item changed, and the courses it lists for the student; they
change at any time (`Publish`, `Withdraw`, `Enroll`, `Leave`). An item is one row of one table, and
`KindOf` says which. `copy` are the rows, `sections` the courses with rows in `course_sections`,
`fresh` the rows that pass the filter of the source adapters, `checkpoint` the start of the last done
execution, which `MoodleSyncJob._checkpoint()` reads from the history.

- One run: `Begin` (full or incremental), `ListCourses`, the detection per course (`TakeWhole`,
  `AskUpdates`), `FetchChanged`, per changed course `StoreSections`, `StoreModules`, `StoreFiles` (one
  request, three commits), then `StoreTasks`, per changed course `StoreMarks` or `RefuseMarks`, and
  `Finish` with the calendar, whose commit and the done row of the history are one step: a death between
  both would leave the checkpoint where it is and repeat the run.
- Its ends: `Finish`, `Refused` (Moodle refuses what is asked of a course that was just left), `Fail`
  (any other error, or the end of the process).
- Outside: the site, `Tick`, and `Purge`, which empties the tables and keeps the history.

Courses, labels, assignments and events are asked for in bulk in every run; files, links and marks
by course, which is where an incremental run saves work and could lose something. `tracked`,
`returned` and `touched` are observers: what the next incremental runs must see, what the last
contents sync of a course returned, and what changed outside while the run was going on.

### Readers and Extraction

`Readers` has what the converters decide as functions of what they can tell apart in a document:
`Selected` (the registry), `Sufficient` (the median page), `SkipDepth` and `Visible` (the HTML
parser), `Unsafe` and `Skipped` (the limits of a container, over the members in order), `Rendered`
(the scale of a page and the rounding of the rasteriser), `Embedded` (the pictures of a document),
`Unpacked` (what each pass over a container unpacks: the library that opens it, all of it; the slides
and the pictures, what is not skipped). A content has `parts`, which are slides, sheets or whatever
its library reads, and `media`. The row of an attempt carries what was unpacked as an observer.
The text of a document is the set of its parts that were read.

`Extraction` is the job. `versions` is `resource_versions`, `rows` the attempts in
`extracted_documents`, oldest first, so that failures are counted as the SQL counts them. A run is
`BeginRun`, then per version `Take`, one of the outcomes of the conversion, and `Insert`, or
`Unstorable` when the database refuses the text and a failed row takes its place; `EndRun` by budget,
by a stop or with nothing left. A scan is recognised a page at a time (`BeginOcr`, `Recognise`,
`PagesOver`), so that a stop or the end of the process may fall between two pages
(`PageInterrupted`, `Cut`). `Arrive` is ingestion, which adds versions between two runs. Its own
store, budget and deferrals are in `Ingestion`: the two meet in the table of versions only.

### Reminders and ReminderBands

`site` is Moodle, `copy` the rows of `assignments` and `assignment_submission_status` that the sync
wrote, `stored` the student's rules, `sent` the table `notifications_sent`. A sync is its number
`run`; `confirmed` is the number of the last one that ended well, which stands for the start time
that `last_successful_sync_started_at()` returns, and `synced` in a row stands for
`last_synced_at`, compared with it. A rule is its name and offset, a notification its identity:
rule, assignment, deadline.

- Loop: `Start`, `CheckSchedule`, `PickNone`, `PickNotifications` (by the clock), `PickByHand`
  (without has_work), `PickSync`.
- Sync, the part about assignments: `CopyAssignments`, `ReadStatus` and `WarnStatus` per assignment,
  `SyncDone`, `SyncFails`.
- Job: `Ask` (has_work), `Look` (first evaluation), `ReadStatus` again, `RefreshFails`, `LookAgain`
  (the evaluation of send_pending), `Deliver`, `SendFails`, `Record`, `Finish`, and `AttemptFails`
  with `Retry`.
- The others: `SiteChanges`, `ReplaceRules`, `ClearRules`, `Tick`, `Crash`.

`Pending` is `pending()` and is evaluated three times per run, each time with the clock, the rules
and the rows of that moment. Loop and sync appear here a second time, reduced to what reminders
depend on: `Scheduler` does not know what a job does, and this module does not know the queue.

`ReminderBands` runs beside it and changes nothing: it remembers since when a deadline has been
known and pending, which sync last found an assignment on the site, whether the clock moved while a
job ran, and whether anything failed.

### Maintenance

Extends `Ingestion` with the operator: `StopService`, `StartService`, the purge as `PurgeSave`
(backup), `DeleteRows` (one transaction), `RemoveOriginal` per file, `PurgeOver` (the end of the
purge, or its death at that point); `NightlyBackup` is deploy/backup.sh, `Restore` what
docs/operations.md tells the operator to do. A backup is the value of all the tables the purge
empties, and no originals.

## 4. The runs

Passing runs, with the distinct states TLC finds:

| Run | Module and cfg | Properties | States | Question |
|---|---|---|---|---|
| `chain` | `MCScheduler`, `SchedulerChain` | TypeOK, QueuedOnce, NoStaleDependents, RunMatchesLog | 255,217 | Do the queue and the history stay right while syncs and notifications fall due in the middle of a chain that fails, retries, skips, stops, aborts or dies? |
| `live` | `SchedulerLive` | OnGrid, NoReplay, RunningRowIsLive, NoReplayedRequest, ImplementsLog, StopEnds, RequestsTaken, SlotTaken | 221,012 | Two processes in a row, daemon or one-shot, death anywhere, two clock grids and a terminal at any time: does a restart leave the history and the requests right, are slots on the grid and taken once, requests taken off the table, and does a stop end? |
| `single_instance` | `MCSingleInstance`, `SingleInstance` | OneScheduler, PurgeAlone | 40,137 | Four processes of any kind, started again and again, killed anywhere. |
| `ingestion` | `MCIngestion`, `Ingestion` | TypeOK, VersionsFollowEditions, VersionsHaveOriginals, SettledIsCurrent, NoStarvation | 110,949 | A file and a link that may share contents, edited while they are being ingested, one item per run; failures, oversized editions and one interruption. Is each state sound, and does each source get its turn? |
| `reminders` | `MCReminders`, `Reminders` | TypeOK, PunctualEveryBand, NeverTwice, SilentOnceKnown, NoGhostReminder | 821,824 | A deadline that moves, work handed in, an assignment withdrawn, other rules, syncs and sends that fail and a process that dies, at any moment: is each reminder sent that should be, once, and no other? |
| `moodle_sync` | `MCMoodleSync`, `MoodleSync` | TypeOK, NoChangeLost, OfferedIsLastFetch, DoneRunReconciles | 2,008,289 | Two courses, left and joined, with a file, a link, a mark and a task that change while a run asks for them; a run that fails anywhere, marks that are refused, tables that are purged. Does a change fall between two runs, and is what a done run vouches for there? |
| `extraction` | `MCExtraction`, `Extraction` | TypeOK, DoneIsWhole, ScansRecognised, VisibleTextOnly, PassesBounded, AttemptsEnd, AuditTrail, RunAdvances, EventuallySettled | 247,475 | Twelve documents that take every branch of the converters, two versions, of one document or of two, one per run, anything failing, one run cut short anywhere. Is what counts as read whole, does every run end, and is each version settled? |
| `maintenance` | `MCMaintenance`, `Maintenance` | PurgeKeepsOriginals, RestoredRecordsAgree, PurgeRecoverable | 1,693,762 | Purges killed anywhere, backups at any moment and restorations around a service that goes on afterwards, over a document that changes. |

What they show, beyond their names. `NoStaleDependents`: since a dependent was queued no job
upstream of it has failed for good, so `_stop_chain` removes enough, also when an interval sync
overtakes the rest of an older chain. `RunningRowIsLive` and `RunMatchesLog`: there is no exit path,
`KeyboardInterrupt` and crash included, that leaves an open row behind a live process or an attempt
the history does not know. `SettledIsCurrent`: the confirmation is of the edition as synced, not as
downloaded, so a document that changes during its own download is taken up again. `NoStarvation`
carries its exception in its statement: a document that was never stored waits as long as others
stay changed. `PurgeKeepsOriginals`: rows before files is the order that survives a kill.
`RestoredRecordsAgree`: a backup may be older than the site and may fall between any two commits of a
run, and still no mark in it makes a document seem settled that is not; `restored` shows that the
same cannot be said of its files.

`PunctualEveryBand`: a process that is up, on time and able to send skips no band, whatever the phase of
the deadline on the grid.

`NoChangeLost` is about the only thing that an incremental run can get wrong for good: of a course
stored whole, what the tables lack is stamped later than what the next run asks for. It needs the
margin of the checkpoint to be wider than the lag of the site's clock, that the checkpoint is the
start of a run and not its end, and that a failed run does not move it. `DoneRunReconciles` says what
a done run is worth: bulk rows, fetched courses, and courses that it only watched agree with the site,
but for what changed meanwhile; two exceptions are in the definition of `tracked` and in section 8.
`OfferedIsLastFetch` is the filter of the source adapters from the side that holds; `half_stored`
shows the other side. `EventuallySettled` together with `AttemptsEnd`: a version is read, unsupported
or reported as given up after a bounded number of attempts, whatever fails, unless a newer one takes
its place; without the failed row of `Unstorable` a text that SQLite refuses would be tried for ever.
`DoneIsWhole`: the pages recognised before a stop are thrown away rather than kept as a short text.
`RunAdvances` gives a run a measure that every step lowers (`Left`, the steps until the row is there)
or else one more version of the budget: a run that is left alone ends, whatever is refused.

`PassesBounded` is about each of the two passes of `ocr.py` by itself, the slides of a presentation and
the pictures of a document: within one pass no member, expansion or total is over its limit. It does
not say that a document as a whole is bounded, which is not so: `document_total` shows both passes of
one presentation above the total together, and the libraries that open .docx, .xlsx, .odt and .ods
unpack every part without any limit. `Unpacked` has the three passes side by side; the instance has
documents in which a library unpacks parts that `ocr.py` would refuse.

`PurgeAlone` holds under `Orderly` only, that is, without a start between the probe of a purge and
its end; it says that the lock excludes a purge beside a scheduler that is already there, not that
the probe is enough. `NoGhostReminder` is about reminders that should not be sent; that work which a
sync failed to confirm is not reminded of, though it is still due, is what the code accepts.
`PunctualEveryBand` says nothing of an evaluation that is late because a job ran across its instant.

Violation runs: `restored` (Maintenance), `big_pages` and `document_total` (Extraction), `half_stored`
(MoodleSync); section 8 says what each shows.

Deadlock is not checked: every specification has states in which the process is down for good,
the clock and the starts are at their bound and the terminals are done, and stopping there is
right. That nothing blocks earlier is what the liveness properties say.

## 5. Bounds

`MaxTime`, `MaxStarts` (Scheduler), `MaxEditions`, `MaxStops` (Ingestion), `MaxPurges`,
`MaxRestores` (Maintenance), `MaxSyncs`, `MaxTime` (Reminders), `MaxTime`, `MaxChanges`, `MaxFails`
(MoodleSync), `MaxVersions`, `MaxStops` (Extraction) are the only bounds that the code does not have. Each is a guard of
the action it limits, and each theorem holds for all their values, so they limit the runs and not
the proofs.

- `chain`: two attempts and periods of one tick over one tick of time make a second sync fall due
  while the chain of the first is queued, waiting for a retry, or failing for good, which is the
  only way two chains meet. One start: what a restart adds is the subject of `live`. No terminal:
  entries come from startup, the clock and the chain; requests beside them are left to the theorem
  `QueuedOnceHolds`.
- `live`: two starts, so that there is one recovery after any history the first process can leave;
  two attempts, so that a crash may fall on the first, between both, or on the last; one terminal.
  Periods one and two over one tick of time: both grids start together, the shorter one has a slot at
  which the other has none, and a job may end exactly on a slot. Several slots missed in one job
  are left to the theorem `NoReplayHolds`. The safety properties of both runs are proved for all
  constants.
- `ingestion`: two editions are the smallest number with a change; a file and a link take every
  branch of `_pending_items()`; two contents allow equal and different ones between both sources
  and both editions; a budget of one item for two sources is the smallest case of starvation. One
  interruption, at any point. Two items in one run are left to the proofs, which hold for any budget.
- `reminders`: one assignment, since no property relates two; a cycle of two ticks, so that there are
  instants on the grid and off it; deadlines 3 and 5, rules at 4 and 2 ticks, so that both bands are
  just one cycle wide, the narrowest that `validate()` lets pass; all bands begin
  between two instants of the grid, and one that begins exactly on the grid is left to the theorem
  `EveryBandHasASlot`; a choice it lets pass and one it
  refuses; two syncs, so that one may fail to confirm what another confirmed. `MaxTime` is one tick
  past the last deadline. The
  clock moves while the process waits or a job is at work, and not between the statements of the
  loop: a tick is longer than the polling interval.
- `moodle_sync`: two courses, so that one is fetched while the other is only watched or is left; a
  file and a link, since they are stored in different commits of one course sync; a mark, asked for
  by course but not part of its contents; a task for all that is asked for in bulk, which is one
  action for each request. A margin of one tick and no lag is the narrowest pair that the assumption
  lets pass; one tick of time puts changes before, at and after the start of a run; two changes allow
  one while a run goes on and one between runs; one failure, at any step, and any number of runs.
- `extraction`: two versions meet as versions of one document or of two; two failed attempts instead
  of three, one item per run for two versions; one interruption, at any point. Limits are scaled to
  a few units so that each is met from both sides by one of the twelve documents. `big_pages` has the
  code's three attempts.
- `maintenance`: two purges with a service that ingests again in between, two restorations, of
  either backup; one document, since the operator's steps treat all alike, with two editions, the
  smallest number at which a backup can be older than the site.
- `single_instance`: four processes, so that a scheduler, another one, a probe and a purge are
  there at once.

## 6. Fairness

`Scheduler!FairSpec` assumes weak fairness of `Process`, the steps of the scheduler's own thread.
The code justifies it: the thread waits only in `_idle_wait` for at most the poll interval,
in `_sleep_interruptibly` for the delay between attempts, and in jobs, whose network calls have timeouts and whose batches
have budgets. SQLite's busy timeout bounds the commits. Nothing is assumed of crashes, stops,
starts, terminals or the clock, and nothing of a job's outcome.

`Ingestion!FairSpec` assumes weak fairness of `Job`: cycles keep coming on the clock and an item
ends. In the program a cycle of ingestion is queued only after a sync that ended well, because a sync
that fails for good takes its dependents out of the queue; the assumption is therefore that syncs
keep succeeding, or that ingestion keeps being asked for by hand, and `NoStarvation` promises nothing
while Moodle is out of reach. Nothing is assumed of teachers, of what the syncs find, or of the
success of downloads: they may fail for ever.
Interruptions are finitely many (`MaxStops`); a system that is killed in every run makes no
promise.

`Extraction!FairSpec` assumes weak fairness of `Job`, for the same reason and with the same reserve,
one link further: the chain reaches extraction only if neither the sync nor the ingestion before it
failed for good. Nothing is assumed of arrivals or of success; runs cut short are finitely many (`MaxStops`).

`MoodleSync` has no fairness and no liveness property: what may be wrong there for good is a change
behind the checkpoint, which `NoChangeLost` excludes as a safety property.

`Maintenance!MFairSpec` adds weak fairness of the sync of each source while the service is up. It is
used by the violation run only, where it makes the counterexample a failure of the code: a service
that stays up, synchronises and ingests for ever, and still leaves the file missing.

## 7. Proofs

TLAPS proves the following for every value of the constants that meets the named assumptions
(`ConfigAssumption`, `BoundAssumption`, `IngestionAssumption`, `MaintenanceAssumption`, `ProcessAssumption`,
`RemindersAssumption`, `MoodleSyncAssumption`, `MoodleSyncBounds`, `ReadersAssumption`,
`TokensAssumption`, `ExtractionAssumption`): any set of jobs enabled, any periods, any number of attempts, terminals,
sources, contents, editions, processes, rules, deadlines, courses, items, documents and limits. Among
them only `Behind < Overlap` speaks of the world: the margin of the checkpoint is wider than the lag of
the site's clock, which is what jobs.py:40-44 gives as its reason. `TokensAssumption` is about the library: html.parser takes
what follows a script or style tag as its text until that tag is closed, so no two of them open in a
row.

`SchedulerProofs`: the inductive invariant is

    IInv == TypeOK /\ RunMatchesLog /\ RequestsMatch /\ RunningRowIsLive

No part is inductive alone. That an open row is the attempt in progress needs that the process's
memory matches the last row, which needs the types of the rows; that a snapshot of requests is
still at the head of the table (`RequestsMatch`) is what makes `HandleRequest` well defined while
terminals append. From it: `TypeCorrect`, `RunMatchesLogHolds`, `RunningRowIsLiveHolds`, and
`LogImplemented`, the refinement: each step of the scheduler is a step of `ExecutionLog` or leaves
the history alone.

`SchedulerChainProofs` builds on it.

- `QueuedOnceHolds`: with `Quiet` (outside a run and before startup is over the queue is empty).
- `NoStaleDependentsHolds`: strengthened to `DependentsFresh`, which also speaks of the item in
  every state of its execution, and of the instant between the row of a final failure and the
  removal of the dependents. The lemmas say how opening and closing a row, continuing and stopping
  the chain keep dependents fresh.
- `OnGridHolds`, `NoReplayHolds`: from `ClockUnset` (no slot before startup is over) and two lemmas
  on `NextAligned`: it is on the grid, later than now, and grows with time.
- `NoReplayedRequestHolds`: requests left over are deleted before the loop, by daemon and one-shot.

`IngestionProofs`: the inductive invariant has, besides `TypeOK`,

- `ContentFits`, `ItemKnown`, `OriginalFirst`, `ConfirmsStored`: what is true between two commits of
  an item, e.g. that the file is there before the version row is inserted;
- `VersionsInReach`: the versions follow the editions up to the one that an item in progress has
  seen, which is what lets `InsertVersion` append;
- `ConfirmationsSound`, `DeferralsSound`: what a confirmation or a deferral promises about the
  edition it names.

All but the two parts about files form `Records`, which is inductive without them: what the tables
say of the site needs no storage. `RecordsFollow` and `RecordsSettle` draw the consequences. From them
and `OriginalsStep`: `IngestionTypeCorrect`, `OriginalsHold`, `VersionsFollowHolds`,
`SettledIsCurrentHolds`.

`NextItemIsDefinite` is about the order of a run. The sort key mixes a group, which changes as items
are attempted, with the time of the last attempt; `AttemptsOrdered`, inductive beside `TypeOK`, says
that these times are a strict total order on the resources. With finitely many sources (the only
theorem of this module that asks it) some item is always next, and it is one item unless it is new.
Both formulas were checked by TLC on the instance of `ingestion` before their proof; they are no
property of a run.

`MaintenanceProofs` builds on the step lemmas of `IngestionProofs`: a step of the service is a step of
`Ingestion`. Its invariant `MInv` says that the operator works on a service that is stopped between two
runs (`Stopped`, `AtRest`), that the last backup of a purge is the database until the deletion
(`SavedIsCurrent`), that the tables are right (`Records`) and that every backup is (`BackupsAgree`).
The last is the heart of it: `Agrees(d)` states `Records` of a copy, against the site of now and not
of then, so it has to survive whatever the teachers publish (`PublishAgrees`), to hold of a copy made
between any two commits (`DatabaseAgrees`), and to be enough to go on from (`AgreeingTables`). What is
claimed before the first restoration only, is that the files are there and are removed when no row
is left (`FilesKept`). From it `PurgeKeepsOriginalsHolds`, `PurgeRecoverableHolds` and
`RestoredRecordsAgreeHolds`, the last for any number of purges, restorations and runs cut short.

`MoodleSyncProofs`: the inductive invariant is

    IInv == TypeOK /\ RunOK /\ TrackedOK /\ NoChangeLost /\ KeptOK /\ AnswerOK

`NoChangeLost` is not inductive: when a run ends the checkpoint moves to its start, so a tracked row
that lags at that moment must have changed since. `KeptOK` carries that through the run: what lags is
`Awaited`, still to be fetched by this run, or `Late`, stamped after what the next run asks for;
`AnswerOK` does so for an answer that is stored in three commits while the site goes on. `MarginSuffices`
is where the margin is needed. From it `MoodleSyncTypeCorrect` and `NoChangeLostHolds`; with `OfferOK` (what
passes the filter was returned) `OfferedIsLastFetchHolds`; with `BulkOK`, `WatchedOK`, `FullOK` and
`FetchedOK`, what a run has achieved by each of its steps, `DoneRunReconcilesHolds`.

`ExtractionProofs` has two layers. The first is about the converters, which run over sequences of any
length. An induction over data is written as a least counterexample: `LeastOfNaturals` (from the
well-foundedness of < on the naturals) and `UpTo`; `PassExists` says that a recursive function over
0..n has the values its equation gives, which `TotalBytesCourse`, `SkipDepthCourse` and `SizesOfCourse`
use. On top: `UnpackedSafely` (the running total of one guarded pass stays within the limits),
`DepthIsOpen` and `VisibleIsShown` (the counter of the HTML parser is 0 exactly when the last script or
style tag does not open), `RankedIsRank` and `SufficientIsMajority` (the upper median has enough text
exactly when half of the pages or more do), and for the scaled page `SideIsLeast`,
`RenderedReachesLimit` and the theorem `SquarePagesRefused`: unless the limit is a square number, every
square page over it is refused, which makes `big_pages` a rule and not an accident. The second layer
is the behaviour. The inductive invariant adds to `TypeOK` and `AttemptsEnd` that the version in hand
and those to come are still pending (`ItemPending`, `TodoPending`), that only scans are recognised page
by page, without a gap (`ScanInHand`), and that every successful row, stored or about to be
(`RowsSound`, `RowReady`), is whole and says what its converter makes of the content (`AsRead`); that
link is what turns the lemmas about the converters into `ScansRecognisedHolds`,
`VisibleTextOnlyHolds` and `PassesBoundedHolds`. Also from it: `ExtractionTypeCorrect`,
`DoneIsWholeHolds`, `AttemptsEndHolds`, `AuditTrailHolds`, `RunAdvancesHolds` and `SomeVersionIsNext`.
The last two are the part of the liveness of a run that needs no ENABLED: it never repeats itself, and
it never lacks a version to take while some are pending and the budget lasts.

`SingleInstanceProofs`: `OneSchedulerHolds` from `LockMatches` (who works or probes is the owner of
the lock), `PurgeAloneHolds` under `Orderly` from `PurgeCleared`: a process that found nobody running
still finds nobody, because nobody started.

`RemindersProofs`: `EveryBandHasASlot` is the design of the bands as a theorem on `Valid`, `Applicable`
and the grid: for rules that `validate()` accepts and any deadline there is a slot at which exactly
the given rule applies. `Applicable` is a CHOOSE of a minimum, which exists by the least-number
principle (`LeastOfNaturals`, from the well-foundedness of < on the naturals). About the behaviour,
the inductive invariant is `IInv == TypeOK /\ BatchSound`: while the job sends, every notification
still to be sent is unrecorded, of an assignment that is not handed in, with the stored deadline,
and confirmed, because nobody else writes those rows meanwhile (another process would need the
lock). From it `RemindersTypeCorrect`, `NeverTwiceHolds`, `SilentOnceKnownHolds`; with `ListedSince` (a
row's stamp is not later than the last sync that found it on the site) `NoGhostReminderHolds`.
`PunctualEveryBandHolds` needs `BandInv`: as long as nothing failed and nothing was late, a process is
never behind its next slot (`OnTime`), and what was owed at a slot of the grid, when the deadline was
known and in a band, is recorded, or this is the slot being worked on (`Evaluated`). The band that ends
then has a slot by the argument of `EveryBandHasASlot`, and what was told there is the reminder of
that band and no other.

Every invariant and every action property of a passing run is proved. Only model-checked: `StopEnds`,
`RequestsTaken`, `SlotTaken`, `NoStarvation` and `EventuallySettled`, which are liveness under fairness
(TLAPS has no ENABLED), and the violation runs, which are counterexamples.

## 8. Where documentation and code differ

Each of these is a run that TLC ends with a counterexample; `PROJECT.json` quotes both sides.

| Run | The documentation says | The code does |
|---|---|---|
| `restored` | after a restoration the next cycle downloads what is missing | what is confirmed in the restored tables is not pending, so its original stays missing |
| `big_pages` | a page above the limit is rendered at a lower resolution instead of failing | the sides are rounded up, so the picture may have more pixels than the next step accepts, and the document is given up |
| `document_total` | the 200 MB are a total "for one document" | they are a total for one pass: the slides and the pictures of one presentation are counted apart, each from 0, and what python-docx, openpyxl and odfpy unpack is not counted at all |
| `half_stored` | every row that Moodle returned in the latest contents sync is as new as that sync's sections | a sync cut after the sections leaves them older; if nothing else changes, the next incremental run ends well and the course stays hidden |

None of them is likely to be met often; `restored` is the one an operator who follows the manual
meets every time. Until the code changes, a restoration needs the archive of originals, which
the manual presents as optional.

Others were met while modelling and have no run:

- Scheduler. A manual request, which "always runs", is dropped as a duplicate of a queued dependent,
  which may then be skipped or cancelled with its chain (scheduler.py:136). One made to the process
  that is starting, between its lock and its purge of leftovers, is deleted with them;
  `purge_requests` returns the rows it read and deletes those inserted since as well. `run_until_idle`
  promises to work until the requests are empty, but one inserted after the last read stays and the
  next startup discards it. An attempt that died counts as running at a time after its death once
  recovery has stamped it.
- Moodle sync. A contents answer without any section would stamp none, and so make no older row of the
  course stale (sync.py:209). The model lets no such answer occur: Moodle has a general section in
  every course.
- Lock. A process that finds no scheduler running is said to become the scheduler, but gives up
  while `--status` or `--purge` is probing the lock. A scheduler may start between the probe
  of `--purge` and its first deletion, which is why `PurgeAlone` assumes `Orderly`.
- Ingestion. An oversized item is said not to be offered until its source changes, but with an older
  version stored it is offered in every run. A deferral names an edition and not a limit: raising the
  limit offers nothing again. A process that ends between the version and `clear_deferral` leaves the
  deferral of a document that is ingested.
- Moodle sync. Marks that were refused once are not asked for again until something else of their
  course changes (sync.py:166-173), and neither are those of a course whose first contents sync was
  cut short, nor those of a course that was left and joined again; `tracked` excludes them.
- Reminders. "An hourly cycle lands in every band exactly once" needs an evaluation on time: a job
  that runs across the hour may step over a band that ends meanwhile (reminders.py:17-19). What the second evaluation
  adds to the first is sent without its status being read again (jobs.py:250).
- Extraction. `HtmlExtractor` never closes its parser, so a last text that ends in an unfinished
  reference ("R&D") is dropped. An engine that fails on the picture of a document is recorded with
  the picture and never tried again, although extract.py:23-25 makes such failures an attempt that
  is repeated. Slides are taken by name, `slide10` before `slide2`.

## 9. What is not modelled

- Texts, durations, counts for display, logging, redaction: the models leave data out that no
  property needs.
- TOML parsing and validation: sequential, without state, the domain of the unit tests. What it
  lets pass is in the assumptions on the constants.
- The Moodle client beyond its outcomes. `call()` repeats a request a bounded number of times and ends
  in an answer, a refusal or another failure; `download_file()` checks length and type and ends in a
  content, an oversized one or a failure. Its callers tell apart no more, and neither do the models.
- Recognition itself: the engine, the estimate of the skew, the layout of sheets and tables. They
  compute text from pixels or cells, which the models take as read or not read.
- The read model: queries without state, but for `is_assignment_pending()`, which is in `Reminders`.
- `update.sh`, systemd, rotation of backups: outside the program.
- SQLite itself: a commit is atomic and durable, two connections are serialised.
- `notify_job_failure()`: one message without a record, from the scheduler's final failure.
- The two reads of `get_rules()`, taken as one: rules cleared between both give one empty evaluation.
- The empty packages `agent`, `llm`, `rag`.

## 10. Plan

What would add most from here:

1. Measures like `Left` for the other batches: a run of the ingestion, of the sync and of the
   notifications, and the scheduler's own queue, so that what remains of each liveness property is
   its fairness alone.
2. The liveness of the sync as a theorem or a smaller run: from some moment on without failures, the
   rows of a course that stays enrolled are as on the site.
3. A composition of the chain, sync, ingestion, extraction and reminders over one site, with an
   abstract specification of the copy that the student sees. The present modules meet in
   variables that are already shared in kind: `Offered` of `MoodleSync` is what `Ingestion` calls
   `copied`, its `versions` are those of `Extraction`.
4. The extraction after a purge and a restoration, which the present `Extraction` takes as versions
   that stay.
