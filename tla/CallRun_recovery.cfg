\* Workers die, no attempts left: a pipecat task, one slot, the cron and a run-flow slot.
SPECIFICATION FairRunSpec
CONSTANTS
  t1 = t1
  cron = cron
  Tasks = {t1}
  Flows = {f1}
  Scanners = {cron, s1}
  Cron = cron
  NoFlow = NoFlow
  NoTask = NoTask
  NoImage = NoImage
  Created <- EitherWay
  CheckHours = TRUE
  Provider <- OnPipecat
  Errors <- CustomerErrors
  MaxRetries = 0
  CronRetries = 1
  RejectRetries = 1
  Mortal <- Immortal
  MaxAttempts = 0
  Faults <- CrashOnly
  MaxQueued = 1
  MaxOrphans = 0
  MaxLeaks = 0
PROPERTIES
  StuckIsRecovered
  PendingIsTaken
  ScheduledRunStarts
