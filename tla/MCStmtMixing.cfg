CONSTANTS
  None = None
  Var <- MCVar
  Val <- MCVal
  Like <- MCLike
  Sigma <- MCSigma
  Patch <- MCPatch
  Assigns <- MCAssigns
  Decls <- MCDecls
  Tests <- MCTests
  Selectors <- MCSelectors
  Labels <- MCLabels
  FullCases <- MCFullCases
  Asserts = TRUE
  BareLoops = FALSE
  MaxStmts = 5
  MaxDepth = 3
SPECIFICATION MixingSpec
INVARIANTS
  MixingIsReported
  ReportsAreTrue
  NonblockingStaysInvisible
