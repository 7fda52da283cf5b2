SPECIFICATION Spec
CONSTANTS
  NumSectors = 3
  SectorPages = 2
  ChunkPages = 1
  FailsafeEnd = 1
  FirstSafe = 2
  f = f
  r = r
  Bits <- MCBits
  FirstByteBits <- MCFirstByteBits
  Buffers = {usb}
  Payloads <- MCPayloads
  Garbage <- MCGarbage
  Sizes = {1, 2}
  WarmRestart = FALSE
  NULL = NULL
CHECK_DEADLOCK FALSE
INVARIANTS
  SkippedPagesAlreadyStored
