\* Audio and video of one browser, past the first rollover, with a key that is
\* used up on the way.
SPECIFICATION Spec
CONSTANTS
  seq_num_median = 3
  WindowSize = 3
  Ssrcs = {audio, video}
  MaxIndex = 6
  KeyUses = 9
  soft_limit = 2
  KeyRange = 10
SYMMETRY Symmetry
INVARIANTS
  AcceptedOnce
  DatabaseIsRecord
  NewIsAccepted
  OneLimit
CHECK_DEADLOCK FALSE
