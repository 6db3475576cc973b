CONSTANTS
  NumCoders = 3
  Shapes <- ChainAndFork
  Chunks = 1
  MaxRounds = 1
  OwnFaults = {"error"}
  ThrowFaults = TRUE
  CreateFaults = TRUE
SPECIFICATION FairSpec
INVARIANTS ThreadsAtRest SuccessIsWhole RootCause
PROPERTIES UsesPipes CallsReturn
CHECK_DEADLOCK FALSE
