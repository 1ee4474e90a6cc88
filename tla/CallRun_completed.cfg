\* No faults: a vapi task, one slot, the cron and a run-flow slot.
SPECIFICATION RunSpec
CONSTANTS
  t1 = t1
  cron = cron
  Tasks = {t1}
  Flows = {f1}
  Scanners = {cron, s1}
  Cron = cron
  NoFlow = NoFlow
  NoTask = NoTask
  NoImage = NoImage
  Created <- JustPending
  CheckHours = TRUE
  Provider <- OnVapi
  Errors <- RetryErrors
  MaxRetries = 1
  CronRetries = 1
  RejectRetries = 1
  Mortal <- Immortal
  MaxAttempts = 3
  Faults <- NoFaults
  MaxQueued = 1
  MaxOrphans = 1
  MaxLeaks = 0
PROPERTIES
  ScansKeepCompleted
