CONSTANTS
  X = X
  None = None
  Env <- MCEnv
  IntWidth = 4
  Var <- MCVar
  Type <- MCType
  Loops <- MCLoops
  WarnAt = 4
  MaxIterations = 20
SPECIFICATION Spec
INVARIANTS
  LoopTypeOK
  IterationsAsWritten
  AbortsOnlyBeyondInt
  ContextIsClosed
PROPERTIES
  UnrollingEnds
CHECK_DEADLOCK FALSE
