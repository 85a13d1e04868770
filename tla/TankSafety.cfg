CONSTANTS
  Entities = {d1, e1, e2, e3}
  PeerIDs = {1, 2, 4}
  LowWord = 3
  Lifetime = 2
  Collectibles0 = {}
  Destructibles0 = {d1}
  Sites = {d1}
  MaxTick = 5
SPECIFICATION Spec
SYMMETRY Symmetry
INVARIANTS
  TypeOK
  HealthExact
  BulletsExpire
PROPERTIES
  DamagePaid
  ShootersSteer
CHECK_DEADLOCK FALSE
