\* Every fault but an overrun of the lock: a vapi task, two slots.
SPECIFICATION Spec
CONSTANTS
  t1 = t1
  t2 = t2
  Tasks = {t1}
  Flows = {f1, f2}
  NoFlow = NoFlow
  NoTask = NoTask
  Created <- EitherWay
  CheckHours = TRUE
  Provider <- OnVapi
  Errors <- MCErrors
  MaxRetries = 1
  Faults <- AllButOverrun
  MaxQueued = 1
  MaxOrphans = 2
  MaxLeaks = 1
SYMMETRY Symmetry
INVARIANTS
  TypeOK
  SectionExclusive
  NoUnitLeaks
