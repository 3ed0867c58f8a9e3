CONSTANTS
  None = None
  InputNode = InputNode
  Var <- MCVar
  Val <- MCVal
  Like <- MCLike
  Sigma <- MCSigma
  Patch <- MCPatch
  Assigns <- MCReadAndWrite
  Decls = {}
  Tests <- MCTests
  Selectors = {}
  Labels = {}
  FullCases <- MCFullCases
  BareLoops = FALSE
  MaxStmts = 4
  MaxDepth = 2
  Array <- MCArray
  Pos <- MCPos
  Element <- MCElement
  ArrayOf <- MCArrayOf
  Position <- MCPosition
  Replace <- MCReplace
  Asserts = TRUE
SPECIFICATION ArraySpec
INVARIANTS
  SequencesAreContinued
