SPECIFICATION FairCallersSpec
CONSTANTS
  NumSectors = 2
  SectorPages = 2
  ChunkPages = 1
  FailsafeEnd = 0
  FirstSafe = 1
  f = f
  r = r
  usb = usb
  cache = cache
  Bits <- MCBits
  FirstByteBits <- MCFirstByteBits
  Buffers = {usb, cache}
  Payloads <- MCPayloads
  Garbage <- MCErasedView
  Sizes = {1, 2}
  WarmRestart = TRUE
  Regions = {0}
  InstallSectors = 1
  HostMayAbort = TRUE
  NULL = NULL
CHECK_DEADLOCK FALSE
INVARIANTS
  AckedIsStored
PROPERTIES
  CommandsComplete
