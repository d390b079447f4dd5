SPECIFICATION Spec
CONSTANTS
  t1 = t1
  t2 = t2
  k1 = k1
  k2 = k2
  k3 = k3
  k4 = k4
  k5 = k5
  v1 = v1
  v2 = v2
  Threads = {t1, t2}
  Keys = {k1, k2, k3, k4, k5}
  Values = {v1, v2}
  Hash <- MCHash
  ShardCount = 4
  Capacity = 2
  ShardRange = 2
  LocalRange = 3
  DebugAssertions = TRUE
INVARIANTS
  OneIndexPerKey
  ReadBack
PROPERTY Implements
CHECK_DEADLOCK FALSE
