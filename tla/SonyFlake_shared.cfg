CONSTANTS
  p1 = p1
  p2 = p2
  t1 = t1
  t2 = t2
  t3 = t3
  Procs = {p1, p2}
  Threads = {t1, t2, t3}
  Proc <- MCProc
  Machine <- Alike
  MachineSize = 2
  SeqSize = 2
  TimeLimit = 4
  SleepFactor = 2
  MaxClock = 5
  MaxBoots = 0
  MaxSetBacks = 0
SPECIFICATION Spec
CHECK_DEADLOCK FALSE
INVARIANT IdsUnique
