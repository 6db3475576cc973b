CONSTANTS
  BlockSize = 2
  NumBlocks = 1
  Bytes = {1}
  MaxSize = 5
  MaxWrite = 3
  MaxShift = 1
  InitialSizes = {2}
  FileFaults = TRUE
  CloseFaults = TRUE
SPECIFICATION FairSpec
PROPERTIES PlainFileSpec OnlyCacheIsLost
CHECK_DEADLOCK FALSE
