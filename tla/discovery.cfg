\* Two discoveries of each peer, whole or of one service.
SPECIFICATION FairSpec
CONSTANTS
  Databases <- MCDatabases
  MaxServices = 3
  MaxChars = 3
  MaxDescs = 2
  Garbage = {0, 18, 65535}
  MayRefuse = FALSE
  Orderly = TRUE
  MaxStarts = 2
INVARIANTS BuffersMatch StackWritesLive DescsFit AllReported DescriptorsSearched
PROPERTIES DiscoveryEnds
CHECK_DEADLOCK FALSE
