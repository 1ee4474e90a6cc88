CONSTANTS
  Nodes <- MCNodes
  First = "ask"
  Kind <- MCKind
  NextNode <- MCNext
  Tool <- MCTool
  NoNode = "none"
  PollLimit = 1
  MaxTasks = 3
  MaxStarts = 2
SPECIFICATION FairSpec
CHECK_DEADLOCK FALSE
INVARIANTS DualAgentTypeOK PendingListed ToolCalledOnce ToolNodesAnswered
PROPERTIES ExplainsWhatWasTold DoneStays WaitEnds
