\* One thread prints the heap while another allocates.
SPECIFICATION Spec
CONSTANTS
  Threads = {t1, t2}
  a1 = a1
  a2 = a2
  a3 = a3
  w1 = w1
  b1 = b1
  b2 = b2
  Addrs = {a1, a2, a3}
  Wild = {w1}
  Null = null
  Nobody = nobody
  Sites = {s1, s2}
  Buckets = {b1, b2}
  Hash <- CollidingHash
  SizeMax = 7
  FailPoints = {}
  NullFree = FALSE
INVARIANT DumpFits
