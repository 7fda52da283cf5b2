SPECIFICATION Spec
CONSTANTS
  SectorSize = 2
  Base = 20
  NUL = NUL
  WILD = WILD
  HELLO = HELLO
  B = B
  D = D
  Images <- MCImages
  Paths <- MCPaths
  Hello <- MCHello
  Counts = {1, 3, 7}
CHECK_DEADLOCK FALSE
INVARIANTS
  LookupAgrees
  FileIsLoaded
  FileIsInstalled
  OnlyScriptsStayOpen
PROPERTIES
  TypedListingComplete
