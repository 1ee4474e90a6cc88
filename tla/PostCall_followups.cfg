CONSTANTS
  Tasks = {a, b, c}
  First = a
  Tools = {end_call}
  Idlers = {}
  Handovers = {}
  Disconnect = disconnect
  Document = TRUE
  Flows = {f}
  MaxRedials = 0
  MaxCalls = 2
  MaxFaults = 0
SPECIFICATION Spec
CHECK_DEADLOCK FALSE
INVARIANT AttemptsBounded
