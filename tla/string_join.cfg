\* The program joins Strings of any length with String_add_destroy.
CONSTANTS
  Files = {}
  Points = {}
  Arrays <- MCArrays
  Unset = unset
  IntMax = 7
  PartStarts = {0}
  AnyJoins = TRUE
  MaxLen = 3
  MaxBlocks = 4
  MaxChars = 3
SPECIFICATION ProgramSpec
PROPERTY ImplementsTexts
CHECK_DEADLOCK FALSE
