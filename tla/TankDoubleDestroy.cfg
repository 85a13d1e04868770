CONSTANTS
  Entities = {d1, d2, e1, e2}
  PeerIDs = {1, 3}
  LowWord = 2
  Lifetime = 2
  Collectibles0 = {}
  Destructibles0 = {d1, d2}
  Sites = {d1, d2}
  MaxTick = 5
SPECIFICATION Spec
INVARIANTS
  NoDoubleDestroy
CHECK_DEADLOCK FALSE
