SPECIFICATION Spec
CONSTANTS
  Keys <- MCKeys
  PacketSize = 3
  MaxKeys = 5
  CMD_BUFFER_LEN = 3
  Script <- MCScript
  StdinRoom = 1
  StaleReturn = TRUE
CHECK_DEADLOCK FALSE
INVARIANTS
  TypedCommandIntact
