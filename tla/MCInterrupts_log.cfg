SPECIFICATION InterruptsSpec
CONSTANTS
  Max = 3
  MessageLength = 2
  Word = 3
  MaxChars = 5
  MaxRestarts = 2
  MaxTime = 3
CHECK_DEADLOCK FALSE
INVARIANTS
  LogSurvives
  ActiveTimeCoherent
