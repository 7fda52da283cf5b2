SPECIFICATION Spec
CONSTANTS
  Chars <- MCChars
  a = a
  nl = nl
  cr = cr
  newline = nl
  CR = cr
  EOF = EOF
  Max = 3
  Room = {0, 1, 2, 3}
PROPERTIES
  ImplementsQueue
  TtyLosesNothing
