\* Six streams of three pieces, each in up to four chunks.
SPECIFICATION FairSpec
CONSTANTS
  Boards <- MCBoards
  MTU = 2048
  MaxChunks = 4
INVARIANTS ParsesStream SizeMatches
PROPERTIES FramerSettles
CHECK_DEADLOCK FALSE
