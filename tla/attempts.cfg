CONSTANTS
  p1 = p1
  p2 = p2
  p3 = p3
  Peer <- MCPeer
  NoPeer = NoPeer
  NoOfDevices = 2
  TimeoutMin = 1
  TimeoutMax = 3
  Steps <- MCSteps
  MaxConnections = 2
SPECIFICATION FairSpec
INVARIANTS OneEntryEach RefusedExactly
PROPERTY EveryWaitEnds
CHECK_DEADLOCK FALSE
