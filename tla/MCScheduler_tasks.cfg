SPECIFICATION FairSpec
CONSTANTS
  BootLimit = 16
  RunLimit = 17
INVARIANTS
  ActiveIsOnStack
  NestingIsBounded
PROPERTIES
  NoFalseAlarm
  HangIsCaught
  WaitsEnd
  OthersGoOn
