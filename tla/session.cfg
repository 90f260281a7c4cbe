\* An open device with both ACK directions: board frames arrive while host frames
\* are in flight, observers answer from the framer thread, anything may be lost.
SPECIFICATION FairSessionSpec
CONSTANTS
  w1 = w1
  Writers <- MCWriters
  TxAck = TRUE
  RxAck = TRUE
  NumberOfRetries = 2
  MaxFrames = 2
  MaxOpens = 1
  MaxFaults = 0
  BoardTypes = {"data", "a4"}
  MaxRx = 1
INVARIANTS TypeOK AnnouncedIsQueued AckedThenDelivered
PROPERTIES QuietWhileWaiting ImplementsStopAndWait
           TxLockReleased QueueDrains FramerDrains
CHECK_DEADLOCK FALSE
