CONSTANTS
  Clients = {c1}
  Runs = {s1, s2}
  ServerId = ServerId
  Nobody = Nobody
  Candidates = 1
SPECIFICATION FairSpec
INVARIANTS
  TypeOK
  DescriptionsPaired
  NoMisfits
  DisconnectFinal
  RegisterFirst
  NothingMissing
PROPERTIES
  RelayKeepsContract
  JoinNegotiates
CHECK_DEADLOCK FALSE
