SPECIFICATION FairSpec
CONSTANTS
  SECTOR_SIZE = 256
  Third = 86
  LastTrack2x = 2
  NumSectors = 3
  HeaderSize = 2
  DataSize = 2
  Polls = 1
INVARIANTS
  AnswerFitsTheLine
PROPERTIES
  StreamInOrder
  NothingFromAnotherTrack
  EverySectorComesAround
