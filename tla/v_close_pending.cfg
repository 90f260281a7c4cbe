\* Closing with a frame still queued: ClearMessageQueue locks its own mutex twice.
SPECIFICATION FairSpec
CONSTANTS
  w1 = w1
  Writers <- MCWriters
  TxAck = FALSE
  RxAck = FALSE
  NumberOfRetries = 1
  MaxFrames = 1
  MaxOpens = 1
  MaxFaults = 0
  BoardTypes = {"data"}
  MaxRx = 0
PROPERTIES CloseReturns
CHECK_DEADLOCK FALSE
