CONSTANTS
  p1 = p1
  p2 = p2
  p3 = p3
  Peer <- MCPeer
  NoPeer = NoPeer
  NoOfDevices = 2
  TimeoutMin = 1
  TimeoutMax = 3
  Steps <- MCSteps
  MaxConnections = 1
SPECIFICATION Spec
PROPERTY RefusedUntilOver
CHECK_DEADLOCK FALSE
