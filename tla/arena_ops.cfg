\* Words of 8 bytes: sizeof(Arena) is 6 with MEMDEBUG, max_align_t needs 2.
SPECIFICATION Spec
CONSTANTS
  ARENA_SIZE = 14
  Header = 6
  Align = 2
  SizeMax = 31
  HeadCaps = {6}
  Requests = {0, 3, 9}
  MEMDEBUG = TRUE
  MaxArenas = 3
  MaxLive = 4
INVARIANTS TypeOK InCapacity Disjoint Aligned Recorded HeapExact
