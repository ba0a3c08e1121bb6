\* Every kind of file, boundary code points, and Strings of up to three chars.
CONSTANTS
  Files <- MCFiles
  Points <- MCPoints
  Arrays <- MCArrays
  Unset = unset
  IntMax = 7
  PartStarts = {0}
  AnyJoins = FALSE
  MaxLen = 3
  MaxBlocks = 4
  MaxChars = 3
SPECIFICATION ProgramSpec
INVARIANTS
  TypeOK Decodes RoundTrip NothingLost ReadsWhole BuffersFit
  StringsTypeOK Ownership Comparisons
PROPERTIES CallsReturn ImplementsTexts
