SPECIFICATION CallersSpec
CONSTANTS
  NumSectors = 3
  SectorPages = 2
  ChunkPages = 1
  FailsafeEnd = 0
  FirstSafe = 1
  f = f
  r = r
  usb = usb
  cache = cache
  Bits <- MCBits
  FirstByteBits <- MCFirstByteBits
  Buffers = {usb, cache}
  Payloads <- MCPayloads
  Garbage <- MCGarbage
  Sizes = {1, 2}
  WarmRestart = FALSE
  Regions = {}
  InstallSectors = 1
  HostMayAbort = TRUE
  NULL = NULL
CHECK_DEADLOCK FALSE
INVARIANTS
  CompleteIsStored
