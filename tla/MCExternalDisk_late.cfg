SPECIFICATION Spec
CONSTANTS
  Tracks = {0, 1}
  SectorCount = 2
  SectorSize = 2
  RetryLimit = 1
  TxRoom = 1
  RxSize = 3
  Patient = FALSE
  Terse = FALSE
  NoTrack = NoTrack
  NULL = NULL
INVARIANTS
  OtherTracksIgnored
