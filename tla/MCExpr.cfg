CONSTANTS
  X = X
  None = None
  Env <- MCEnv
  IntWidth = 4
  Name <- MCName
  Type <- MCType
  Literals <- MCLiterals
  Casts <- MCCasts
  Unhandled <- MCUnhandled
  Divergent = {}
  MaxWidth = 5
  MaxDepth = 3
  MaxSteps = 4
  LeftHandSides <- MCLeftHandSides
SPECIFICATION Spec
INVARIANTS
  ExprTypeOK
  DerivedTypesAgree
  LoweredAsWritten
  ValuesAsWritten
  FoldedAsWritten
CHECK_DEADLOCK FALSE
