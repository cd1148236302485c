\* Two calls at a time and an id that is used again, while a third
\* session waits for the next offer; the SG delivers everything
\* but an offer once.
SPECIFICATION FairSpec
CONSTANTS
  Ids = {a, b}
  MaxSessions = 3
  Repeats = 1
  ReOffers = TRUE
INVARIANTS
  OwnSession
  FreshUntouched
  SilentBeforeStop
PROPERTIES
  QuietSessionStops
  ImplementsCalls
CHECK_DEADLOCK FALSE
