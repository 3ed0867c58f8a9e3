SPECIFICATION FairSpec
CONSTANTS
  nothing = nothing
  Signal <- MCSignal
  Val <- MCVal
  Fn <- MCFn
  NoValue <- nothing
  Apply <- MCApply
  Sub <- MCSub
  Subroutine <- MCSubroutine
  Depth <- MCDepth
  Graphs <- MCGraphs
INVARIANTS
  TypeOK
  CallsAreListed
  Acyclic
  ValuesKept
PROPERTY
  Terminates
CHECK_DEADLOCK FALSE
