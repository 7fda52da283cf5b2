SPECIFICATION FairSpec
CONSTANTS
  NumSectors = 3
  SectorPages = 2
  ChunkPages = 1
  FailsafeEnd = 1
  FirstSafe = 2
  f = f
  r = r
  Bits <- MCBits
  FirstByteBits <- MCFirstByteBits
  Buffers = {usb}
  Payloads <- SomePayloads
  Garbage <- MCGarbage
  Sizes = {1, 2}
  WarmRestart = TRUE
  NULL = NULL
CHECK_DEADLOCK FALSE
INVARIANTS
  ProgrammedAsPlanned
  MappedChipIsIdle
PROPERTIES
  FailsafeUntouched
  ReservedOnlyByUnsafe
  CommandsOnlyWhenIdle
  EarlierChunksSurvive
  TransferEnds
