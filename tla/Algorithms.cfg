CONSTANTS
  BlockOctets = 4
  CtrRange = 64
  MAX_PRNG_OUT_LEN = 120
INIT WorkInit
NEXT WorkNext
INVARIANTS
  AesInverts
  TransformsAreRight
  PiecesAreWhole
  ShiftsMove
  WrittenIsRead
  FramesInOrder
  SdpUnderstood
  RunsCounted
  KeysSeparate
  PrngFresh
