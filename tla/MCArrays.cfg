CONSTANTS
  None = None
  InputNode = InputNode
  Var <- MCVar
  Val <- MCVal
  Like <- MCLike
  Sigma <- MCSigma
  Patch <- MCPatch
  Assigns <- MCAssigns
  Decls = {}
  Tests <- MCTests
  Selectors <- MCSelectors
  Labels <- MCLabels
  FullCases <- MCFullCases
  BareLoops = FALSE
  MaxStmts = 5
  MaxDepth = 2
  Array <- MCArray
  Pos <- MCPos
  Element <- MCElement
  ArrayOf <- MCArrayOf
  Position <- MCPosition
  Replace <- MCReplace
  Asserts = FALSE
SPECIFICATION ArraySpec
INVARIANTS
  ArraysTypeOK
PROPERTIES
  ImplementsBuilder
