SPECIFICATION Spec
CONSTANTS
  l1 = l1
  l2 = l2
  Link <- MCLink
  Commands <- MCCommands
  MaxRequests = 4
  MaxCount = 1
  Troubles = {"refusal", "reset", "overlap"}
SYMMETRY Sym
INVARIANTS Accounted StackWritesLive ReportsOwn
CHECK_DEADLOCK FALSE
