SPECIFICATION Spec
CONSTANTS
  Services <- MCServices
  MaxHandle = 10
INVARIANTS IndexFound RangesAgree ReportedWhole HashWhereTold
CHECK_DEADLOCK FALSE
