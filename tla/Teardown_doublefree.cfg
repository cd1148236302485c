SPECIFICATION FairSpec
CONSTANTS
  MaxTimers = 2
  MaxBusy = 0
INVARIANTS
  DeletedOnce
CHECK_DEADLOCK FALSE
