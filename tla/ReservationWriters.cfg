CONSTANTS
  n1 = n1  n2 = n2  n3 = n3
  m1 = m1  m2 = m2
  Node = {n1, n2, n3}
  Map = {m1}
  Position <- ChainPosition
  Threshold = 2
  Owner = {a1, a2}
  NoOwner = NoOwner
  Thread = {t1, t2}
  ShardOf <- MCShardOf
  Ttl = {0, 1}
  KeepSets <- OneKeepSet
  Ops <- WriterOps
  NoHold = NoHold
  NoCall = NoCall
  NoNode = NoNode
  NoMap = NoMap
  MaxTime = 1
SPECIFICATION Spec
SYMMETRY MCSymmetry
INVARIANTS TypeOK MutualExclusion NoCircularWait
PROPERTIES LiveHoldsKept
