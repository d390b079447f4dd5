SPECIFICATION Spec
CONSTANTS
  int = int
  void = void
  ptr = ptr
  rec = rec
  un = un
  en = en
  fn = fn
  none = none
  w1 = w1
  w2 = w2
  w3 = w3
  Types <- MCTypes
  Shape <- MCShape
  VoidType = void
  NoType = none
  ShardOf <- MCShardOf
  Workers = {w1, w2, w3}
  Requests <- MCRequests
INVARIANT TypeInfoFollows
PROPERTY TableWritten
CHECK_DEADLOCK FALSE
