CONSTANTS
  Tasks = {a, b}
  First = a
  Tools = {end_call}
  Idlers = {idle}
  Handovers = {handover}
  Disconnect = disconnect
  Document = FALSE
  Flows = {f}
  MaxRedials = 1
  MaxCalls = 3
  MaxFaults = 1
SPECIFICATION FairSpec
CHECK_DEADLOCK FALSE
INVARIANTS PostCallTypeOK OneFlowPerCall RedialsBounded
PROPERTY TasksSettle
