CONSTANTS
  HistorySize = 1
  MatchMaxLen = 2
  NumHashBytes = 2
  HashBlockSize = 1
  HashNumBlocks = 2
  BtBlockSize = 2
  BtLimit = 2
  BtNumBlocks = 2
  SizeReserv = 1
  Lens <- MCLens
  MaxEnds = 2
  MaxRounds = 2
  SetupFaults = TRUE
  ReadFaults = TRUE
SPECIFICATION FairSpec
INVARIANTS StreamIsFollowed WindowIsKept ThreadsAtRest
PROPERTIES CallsReturn
CHECK_DEADLOCK FALSE
