CONSTANTS
  None = None
  Var <- MCVar
  Val <- MCVal
  Like <- MCLike
  Sigma <- MCSigma
  Patch <- MCPatch
  Assigns <- MCAssigns
  Decls <- MCDecls
  Tests <- MCTests
  Selectors <- MCSelectors
  Labels <- MCLabels
  FullCases <- MCFullCases
  Asserts = TRUE
  BareLoops = TRUE
  MaxStmts = 4
  MaxDepth = 2
SPECIFICATION Spec
INVARIANTS
  TypeOK
  StackDiscipline
  OutputsAreScheduled
  LocalsStayInside
  CaseBranchesAgree
PROPERTIES
  ImplementsProcess
