SPECIFICATION FairSpec
CONSTANTS
  t1 = t1
  t2 = t2
  t3 = t3
  root = root
  lib = lib
  c = c
  d = d
  gone = gone
  bad = bad
  Threads = {t1, t2, t3}
  Paths = {root, lib, c, d, gone, bad}
  Initial <- MCInitial
  Imports <- MCImports
  ImportNames <- MCNames
  NotUtf8 <- MCNotUtf8
  Resolve <- MCResolve
  Contents <- MCContents
INVARIANTS
  OneModulePerPath
  ParsedOnce
  Settled
  ImportsResolve
PROPERTY ScopeEnds
CHECK_DEADLOCK FALSE
