CONSTANTS
  Bonds = {b1}
  MaxBytes = 4
  MaxSize = 3
  MaxRounds = 1
SPECIFICATION FairSpec
INVARIANTS BufferIsLent IInv
PROPERTIES PipeSpec NobodySleepsForever
