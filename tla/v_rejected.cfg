\* The stack refuses a request.
SPECIFICATION Spec
CONSTANTS
  l1 = l1
  l2 = l2
  Link <- MCLink
  Commands <- MCCommands
  MaxRequests = 4
  MaxCount = 1
  Troubles = {"refusal"}
INVARIANT RejectedErased
CHECK_DEADLOCK FALSE
