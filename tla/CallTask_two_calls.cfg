\* No faults: the same vapi task is started twice.
SPECIFICATION Spec
CONSTANTS
  t1 = t1
  t2 = t2
  Tasks = {t1}
  Flows = {f1, f2}
  NoFlow = NoFlow
  NoTask = NoTask
  Created <- JustPending
  CheckHours = TRUE
  Provider <- OnVapi
  Errors <- MCErrors
  MaxRetries = 1
  Faults <- NoFaults
  MaxQueued = 1
  MaxOrphans = 1
  MaxLeaks = 0
SYMMETRY Symmetry
INVARIANTS
  AtMostOneCall
