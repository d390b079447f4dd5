SPECIFICATION FairSpec
CONSTANTS
  t1 = t1
  t2 = t2
  t3 = t3
  Threads = {t1, t2, t3}
  Capacity = 3
  ElemSize = 1
  GranularityBytes = 2
  PageSize = 2
  MaxClaims = 4
  Builds <- MCBuilds
INVARIANTS
  MappedBeforeWrite
  PublishedWritten
  ReturnedReadable
PROPERTIES
  PublishedStable
  PushReturns
CHECK_DEADLOCK FALSE
