\* Two handovers, there and back or one after a failed one, with one fault of any kind.
SPECIFICATION FairSpec
CONSTANTS
  a1 = a1
  a2 = a2
  Anchors <- MCAnchors
  MaxStarts = 2
  MaxPending = 1
  Faults = {"loss", "late", "error", "refuse", "abort"}
  MaxFaults = 1
INVARIANTS RestIsClean TakenWhole Kept
PROPERTIES PassesConnection ServedAgain HandoverEnds Settles
CHECK_DEADLOCK FALSE
