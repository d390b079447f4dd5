SPECIFICATION FairSpec
CONSTANTS
  w0 = w0
  w1 = w1
  w2 = w2
  builtin = builtin
  rt = rt
  lib = lib
  main = main
  a = a
  b = b
  mainFn = mainFn
  f = f
  g = g
  Main = w0
  Decls = {main, a, b}
  Funcs = {mainFn, f, g}
  Modules = {builtin, rt, lib}
  Workers = {w0, w1, w2}
  Programs <- LeafPrograms
PROPERTIES
  CompileReturns
  DemandAnswered
CHECK_DEADLOCK FALSE
