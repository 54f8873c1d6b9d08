SPECIFICATION Spec
CONSTANTS
  receiver = receiver
  ticker = ticker
  worker = worker
  Thread = {receiver, worker}
  Node <- PairNode
  Edge <- PairEdge
  Home = 1
  Goals <- PairGoals
  Duty <- TrailDuty
  Serial = FALSE
  Budget = 2
  MaxPlans = 1
PROPERTIES OnlyReservedSent
