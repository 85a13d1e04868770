CONSTANTS
  Clients = {c1}
  Runs = {s1, s2}
  ServerId = ServerId
  Nobody = Nobody
  Candidates = 0
SPECIFICATION FairSpec
PROPERTIES
  RegisteredServerListed
CHECK_DEADLOCK FALSE
