CONSTANTS
  p1 = p1
  p2 = p2
  t1 = t1
  t2 = t2
  t3 = t3
  Procs = {p1, p2}
  Threads = {t1, t2, t3}
  Proc <- MCProc
  Machine <- Apart
  MachineSize = 2
  SeqSize = 2
  TimeLimit = 3
  SleepFactor = 2
  MaxClock = 3
  MaxBoots = 1
  MaxSetBacks = 1
SPECIFICATION Spec
CHECK_DEADLOCK FALSE
INVARIANTS FlakeTypeOK IdsUnique IdsFit
PROPERTY IdsIncrease
SYMMETRY Symmetry
