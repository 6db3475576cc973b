CONSTANTS
  N = 4
  Kind <- MCKind
  NumThreads = 2
  NumBlocks = 2
  MaxChunks = 2
  NumMethods = 2
  MaySkip = TRUE
  MutexKinds = {"normal", "errorcheck"}
  EncoderFaults = TRUE
  FileFaults = TRUE
SPECIFICATION FairSpec
INVARIANTS OneWriterOfArchive PoolIsBalanced DataIsWhole
PROPERTIES SequentialSpec Termination
CHECK_DEADLOCK FALSE
