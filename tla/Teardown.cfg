\* A timer that is set again once, one packet in flight at a time.
SPECIFICATION FairSpec
CONSTANTS
  MaxTimers = 2
  MaxBusy = 1
INVARIANTS
  UndefinedNeedsRace
  AllReleased
  ReapedIsReleased
PROPERTIES
  ShutdownCompletes
CHECK_DEADLOCK FALSE
