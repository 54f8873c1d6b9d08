SPECIFICATION Spec
CONSTANTS
  Node <- MCNode
  X <- MCX
  Y <- MCY
  NoPass = {7}
  Problem <- MCProblem
  TurnPenalty = 3
  UsedPenalty = 50
  HotPenalty = 2
  TopK = 3
INVARIANTS TypeOK FoundIsRoute DistanceIsCost FailsOnlyWithoutRoute CheapestOnGrid
CHECK_DEADLOCK FALSE
