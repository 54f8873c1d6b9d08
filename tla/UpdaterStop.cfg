SPECIFICATION FairSpec
CONSTANTS
  w1 = w1
  w2 = w2
  Worker = {w1, w2}
  Node <- MCPoint
  Asked <- MCAsked
  MaxCalls = 1
  Valid <- MCValid
  Batch <- MCBatch
  Found <- MCFound
  Point <- MCPoint
  Link <- MCLink
  Weight <- MCWeight
  Heading <- MCHeading
  X <- MCX
  Y <- MCY
  NoPass = {6}
  NoTurn = {2}
  TurnTime <- MCTurnTime
PROPERTIES DestructorReturns
CHECK_DEADLOCK FALSE
