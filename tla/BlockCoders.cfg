CONSTANTS
  NumThreads = 3
  NumBlocks = 4
  MaxRounds = 2
  SetupFaults = TRUE
  ReadFaults = TRUE
  CodeFaults = TRUE
  WriteFaults = TRUE
  AbortFaults = TRUE
  Inputs <- MCInputs
SPECIFICATION FairSpec
INVARIANTS ThreadsAtRest DecodesLikeOneThread
PROPERTIES OrderedSpec CodeReturns
CHECK_DEADLOCK FALSE
