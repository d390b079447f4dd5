SPECIFICATION Spec
CONSTANTS
  t1 = t1
  t2 = t2
  t3 = t3
  Threads = {t1, t2}
  Capacity = 4
  ElemSize = 1
  GranularityBytes = 2
  PageSize = 2
  MaxClaims = 4
  Builds <- MCUnixRelease
INVARIANT NoPanicWithinCapacity
CHECK_DEADLOCK FALSE
