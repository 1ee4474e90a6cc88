\* No faults: one pipecat task, three slots.
SPECIFICATION FairSpec
CONSTANTS
  t1 = t1
  t2 = t2
  Tasks = {t1}
  Flows = {f1, f2, f3}
  NoFlow = NoFlow
  NoTask = NoTask
  Created <- JustPending
  CheckHours = TRUE
  Provider <- OnPipecat
  Errors <- MCErrors
  MaxRetries = 1
  Faults <- NoFaults
  MaxQueued = 1
  MaxOrphans = 1
  MaxLeaks = 0
INVARIANTS
  LateFlowSkips
  NotAbandoned
PROPERTIES
  TaskResolved
