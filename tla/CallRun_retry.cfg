\* Run flows may die: a vapi task at any hour, one slot, the cron and a run-flow slot.
SPECIFICATION RunSpec
CONSTANTS
  t1 = t1
  cron = cron
  Tasks = {t1}
  Flows = {f1}
  Scanners = {cron, s1}
  Cron = cron
  NoFlow = NoFlow
  NoTask = NoTask
  NoImage = NoImage
  Created <- JustPending
  CheckHours = FALSE
  Provider <- OnVapi
  Errors <- RetryErrors
  MaxRetries = 1
  CronRetries = 1
  RejectRetries = 1
  Mortal <- SlotsOnly
  MaxAttempts = 1
  Faults <- NoFaults
  MaxQueued = 1
  MaxOrphans = 0
  MaxLeaks = 0
INVARIANTS
  RunTypeOK
  ScheduledComesBack
PROPERTIES
  GivenUpForGood
