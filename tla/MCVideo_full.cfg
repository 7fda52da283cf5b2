SPECIFICATION Spec
CONSTANTS
  Rows = 2
  Cols = 3
  Near = 2
  scroll_mode = "enhanced"
  Letter = "A"
  Flash = "flashing A"
  Space = " "
  HostReads = FALSE
  RoomForTwo = TRUE
  Depth = 3
  MaxWrites = 4
INVARIANT CursorTracked
