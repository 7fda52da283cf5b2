SPECIFICATION FairSpec
CONSTANTS
  Tracks = {0, 1}
  SectorCount = 2
  SectorSize = 2
  RetryLimit = 1
  TxRoom = 1
  RxSize = 3
  Patient = TRUE
  Terse = FALSE
  NoTrack = NoTrack
  NULL = NULL
PROPERTIES
  BytesHaveAPlace
  ImplementsCache
  RequestEnds
