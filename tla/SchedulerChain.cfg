SPECIFICATION Spec
CONSTANTS
  Enabled <- ChainJobs
  AllowManualDisabled = TRUE
  SyncPeriod = 1
  NotifyPeriod = 1
  MaxAttempts = 2
  Clients = {}
  AskedJobs <- ScheduledJobs
  MaxTime = 1
  MaxStarts = 1
CHECK_DEADLOCK FALSE
INVARIANTS
  TypeOK
  QueuedOnce
  NoStaleDependents
  RunMatchesLog
