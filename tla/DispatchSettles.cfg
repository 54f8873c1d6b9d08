SPECIFICATION FairSpec
CONSTANTS
  r1 = r1
  r2 = r2
  r3 = r3
  Request = {r1, r2, r3}
  NoRequest = NoRequest
  Map <- MCMap
  MapsOf <- MCMapsOf
  Worker = {w1, w2}
  MaxLoads = 1
INVARIANTS TypeOK OneServerPerMap NothingLost AnsweredOnce
PROPERTIES EverySettled
CHECK_DEADLOCK FALSE
