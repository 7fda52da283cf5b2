SPECIFICATION FairSpec
CONSTANTS
  Char = {69, 114, 32, 13, 0}
  MaxText = 5
PROPERTIES
  SignsAreHeard
  WordsAreKept
  TextGoesOut
