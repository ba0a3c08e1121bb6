\* libc's realloc, or the malloc of a map node, may fail.
SPECIFICATION FairSpec
CONSTANTS
  Threads = {t1}
  a1 = a1
  a2 = a2
  a3 = a3
  w1 = w1
  b1 = b1
  b2 = b2
  Addrs = {a1, a2, a3}
  Wild = {w1}
  Null = null
  Nobody = nobody
  Sites = {s1, s2}
  Buckets = {b1, b2}
  Hash <- CollidingHash
  SizeMax = 7
  FailPoints = {"realloc", "node"}
  NullFree = FALSE
PROPERTY OOMExits
CHECK_DEADLOCK FALSE
