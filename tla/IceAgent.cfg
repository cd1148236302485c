\* Two sessions.
SPECIFICATION Spec
CONSTANTS
  Agents = {a1, a2}
  Locals = 1
  SEND_RTCP_INTERVAL = 2
  MaxCnt = 2
SYMMETRY Symmetry
INVARIANTS
  OfferedAll
  BrowserTold
  PictureIsRequested
CHECK_DEADLOCK FALSE
