CONSTANTS
  None = None
  Var <- MCVar
  Val <- MCVal
  Like <- MCLike
  Sigma <- MCSigma
  Patch <- MCPatch
  Assigns <- MCAssigns
  Decls = {}
  Tests = {}
  Selectors <- MCSelectors
  Labels <- MCLabels
  FullCases <- MCFullCases
  Asserts = TRUE
  BareLoops = FALSE
  MaxStmts = 3
  MaxDepth = 2
SPECIFICATION Spec
PROPERTIES
  ImplementsProcess
