SPECIFICATION FairSpec
CONSTANTS
  Enabled <- ScheduledJobs
  AllowManualDisabled = FALSE
  SyncPeriod = 2
  NotifyPeriod = 1
  MaxAttempts = 2
  Clients = {c1}
  AskedJobs <- SyncOnly
  MaxTime = 1
  MaxStarts = 2
CHECK_DEADLOCK FALSE
INVARIANTS
  OnGrid
  RunningRowIsLive
  NoReplayedRequest
PROPERTIES
  NoReplay
  ImplementsLog
  StopEnds
  RequestsTaken
  SlotTaken
