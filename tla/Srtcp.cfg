\* Six indices and a window of three; more calls than the counter has values.
SPECIFICATION Spec
CONSTANTS
  half = 6
  rdb_bits_in_bitmask = 3
  MaxCalls = 15
INVARIANTS
  AcceptedOnce
  IvUsedOnce
  DecryptedRight
CHECK_DEADLOCK FALSE
