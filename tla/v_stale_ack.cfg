\* A late ACK for one frame ends the wait for the next one.
SPECIFICATION SessionSpec
CONSTANTS
  w1 = w1
  Writers <- MCWriters
  TxAck = TRUE
  RxAck = FALSE
  NumberOfRetries = 1
  MaxFrames = 2
  MaxOpens = 1
  MaxFaults = 0
  BoardTypes = {"data"}
  MaxRx = 0
PROPERTIES AckedOrRetried
CHECK_DEADLOCK FALSE
