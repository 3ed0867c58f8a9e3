SPECIFICATION Spec
CONSTANTS
  nothing = nothing
  Signal <- MCSignal
  Val <- MCVal
  Fn <- MCFn
  NoValue <- nothing
  Apply <- MCApply
  Sub <- MCSub
  Subroutine <- MCSubroutine
  Depth <- MCDepth
  Graphs <- MCGlobalGraphs
INVARIANTS
  ValuesKept
CHECK_DEADLOCK FALSE
