CONSTANTS
  Entities = {d1, e1, e2, e3}
  PeerIDs = {1, 3}
  LowWord = 2
  Lifetime = 2
  Collectibles0 = {}
  Destructibles0 = {d1}
  Sites = {d1}
  MaxTick = 5
SPECIFICATION Spec
PROPERTIES
  InputReachesOwnTank
CHECK_DEADLOCK FALSE
