\* As list_ops, with flatmap of any list.
SPECIFICATION Spec
CONSTANTS
  Names = {x, y}
  Blocks = {p1, p2, p3}
  Null = null
  Values = {1, 2}
  Unset = unset
  Maps <- SomeMaps
  Mappers <- SomeMappers
  Slack = 1
  MaxLen = 3
  MaxCap = 2
  FlatmapAny = TRUE
  SelfAppend = FALSE
SYMMETRY Symmetry
PROPERTY LoopsCorrect
