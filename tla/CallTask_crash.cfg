\* Crashes, expiring deduplication keys: one pipecat task, three slots.
SPECIFICATION Spec
CONSTANTS
  t1 = t1
  t2 = t2
  Tasks = {t1}
  Flows = {f1, f2, f3}
  NoFlow = NoFlow
  NoTask = NoTask
  Created <- EitherWay
  CheckHours = TRUE
  Provider <- OnPipecat
  Errors <- MCErrors
  MaxRetries = 1
  Faults <- CrashEvict
  MaxQueued = 1
  MaxOrphans = 1
  MaxLeaks = 1
SYMMETRY Symmetry
INVARIANTS
  SectionExclusive
  LocalCallExclusive
  WorkersAccount
PROPERTIES
  OneWorkerPerTask
