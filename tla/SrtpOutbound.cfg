\* Two media packets for each stream, in any order or twice, two reports, and
\* a key that the last media packet would use up.
SPECIFICATION Spec
CONSTANTS
  audio = audio
  video = video
  rtcp = rtcp
  MaxCalls = 2
  Packets = {0, 1}
  Blocks = 2
  seq_num_median = 2
  WindowSize = 2
  half = 4
  rdb_bits_in_bitmask = 2
  KeyUses = 4
  soft_limit = 2
  KeyRange = 6
  BlockOctets = 1
  CtrRange = 4
SYMMETRY Symmetry
INVARIANTS
  SoundUnlessOverlap
  KeystreamUsedOnce
  ReportIndexOnce
CHECK_DEADLOCK FALSE
