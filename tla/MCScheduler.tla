---- MODULE MCScheduler ----
(* Small instances of Scheduler for TLC. *)
EXTENDS Scheduler

SyncOnly == {"moodle_sync"}
ChainJobs == {"moodle_sync", "ingestion", "extraction"}
ScheduledJobs == {"moodle_sync", "notifications"}
====
