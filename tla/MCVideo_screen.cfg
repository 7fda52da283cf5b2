SPECIFICATION Spec
CONSTANTS
  Rows = 2
  Cols = 3
  Near = 2
  scroll_mode = "enhanced"
  Letter = "A"
  Flash = "flashing A"
  Space = " "
  HostReads = TRUE
  RoomForTwo = TRUE
  Depth = 3
  MaxWrites = 4
INVARIANTS
  ScreenShown
  CursorTracked
  CursorShown
