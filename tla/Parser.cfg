SPECIFICATION Spec
CONSTANTS
  Files <- MCFiles
  LexErrors = {0, 1}
  MaxDepth = 60
  MaxErrors = 9
  MaxNodes = 12
INVARIANTS InBounds AcceptsWhole OperatorTree
PROPERTY Terminates
