CONSTANTS
  Threads = {t1, t2, t3}
  auto = auto
  manual = manual
  sem = sem
  shared = shared
  own = own
  Objects = {auto, manual, sem}
  Semaphores = {sem}
  ManualReset = {manual}
  Synchros = {shared, own}
  MaxCount <- MCMaxCount
  Initial <- MCInitial
  SynchroOf <- MCSynchroOf
  Waits <- MCWaits
  Releases = {1, 2}
  NoCall = NoCall
  Nobody = Nobody
SPECIFICATION FairSpec
INVARIANTS NoLostWakeup
PROPERTIES WaitObjectsSpec SignalWakes
