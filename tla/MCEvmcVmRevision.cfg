SPECIFICATION Spec
CONSTANTS
  None = None
  a1 = a1
  a2 = a2
  empty = empty
  c1 = c1
  c2 = c2
  frontier = frontier
  cancun = cancun
  Addrs = {a1}
  Revs = {frontier, cancun}
  Codes = {empty, c1, c2}
  Empty = empty
  Contexts = {h1}
  Threads = {t1}
  Slots = {s1, s2, s3}
  Depths = {0, 1}
  Finger <- Apart
  Fallback = {c2}
  Precompiles = {}
  Configs <- Interpreted
  DEFAULT_REVISION = cancun
  MAX_MODULE_CACHE_SIZE = 1
  CodeReused = TRUE
SYMMETRY Interchangeable
INVARIANTS
  RunsAtRevision
CHECK_DEADLOCK FALSE
