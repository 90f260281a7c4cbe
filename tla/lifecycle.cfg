\* Open, close, reopen and destroy at any moment, with one failing system call and
\* up to two WaitACK threads.
SPECIFICATION Spec
CONSTANTS
  w1 = w1
  Writers <- MCWriters
  TxAck = TRUE
  RxAck = TRUE
  NumberOfRetries = 1
  MaxFrames = 2
  MaxOpens = 2
  MaxFaults = 1
  BoardTypes = {"data"}
  MaxRx = 1
INVARIANTS LockHandover LockOthers ClosedAtRest
PROPERTIES ReleasedByHolder
CHECK_DEADLOCK FALSE
