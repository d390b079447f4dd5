SPECIFICATION Spec
CONSTANTS
  Modules <- MCModules
  Builtins <- MCBuiltins
INVARIANTS
  Placed
  TargetsEnclose
  DefersRun
  InitStored
  CapturesResolve
  GenericExact
CHECK_DEADLOCK FALSE
