SPECIFICATION Spec
CONSTANTS
  Device = {d1}
  Map = {m1, m2}
  ReadyMaps = {m1}
  NoMap = NoMap
  Node = {n1, n2}
  NoNode = NoNode
  NoStatus = NoStatus
  NoReport = NoReport
  NoTime = NoTime
  Time <- MCTime
  Unit <- MCUnit
  MsPerSec = 10
  MsBoundary = 5
  MaxSec = 100
  MaxPending = 1
SYMMETRY MCSymmetry
INVARIANTS TypeOK CacheIsFreshest StreamLivesAtHome NodeHistory
