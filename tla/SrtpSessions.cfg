\* Two SSRC values that the byte order maps to each other.
SPECIFICATION Spec
CONSTANTS
  Substitute = "other"
  SSRCs = {1, 2}
  ByteOrder <- Swap
  FailurePoints = {6, 11}
  MaxObjects = 4
  MaxBlame = 1
INVARIANTS
  SecureIsComplete
  LiveIsAllocated
  NothingLost
CHECK_DEADLOCK FALSE
