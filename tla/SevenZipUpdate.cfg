CONSTANTS
  Updates <- MCUpdates
  MaxSize = 1
  Faults = TRUE
SPECIFICATION Spec
INVARIANTS NewArchiveIsRight WorkerAtRest
PROPERTY UpdateReturns
CHECK_DEADLOCK FALSE
