SPECIFICATION Spec
CONSTANTS
  receiver = receiver
  ticker = ticker
  worker = worker
  Thread = {receiver, ticker, worker}
  Node <- PairNode
  Edge <- PairEdge
  Home = 1
  Goals <- PairStops
  Duty <- PairDuty
  Serial = FALSE
  Budget = 2
  MaxPlans = 2
INVARIANTS TargetsOfPlan
