SPECIFICATION Spec
CONSTANTS
  receiver = receiver
  ticker = ticker
  worker = worker
  Thread = {receiver, ticker, worker}
  Node <- MCNode
  Edge <- MCEdge
  Home = 1
  Goals <- MCGoals
  Duty <- MCDuty
  Serial = TRUE
  Budget = 3
  MaxPlans = 2
INVARIANTS TypeOK 
 
