SPECIFICATION GenSpec
CONSTANTS
  Modules <- MCModules
  Builtins <- MCBuiltins
  Decls <- MCDecls
  Kind <- MCKind
  Enums <- MCEnums
  TagTy <- MCTagTy
INVARIANTS
  Analysed
  MovedOnce
  WellFormed
  BehavesAsSource
CHECK_DEADLOCK FALSE
