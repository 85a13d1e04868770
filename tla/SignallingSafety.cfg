CONSTANTS
  Ids = {i1, i2, i3}
  NoId = NoId
  Conns = {c1, c2, c3}
  NoConn = NoConn
  RelayTypes = {"join"}
  MaxConns = 2
SPECIFICATION Spec
SYMMETRY Symmetry
INVARIANTS
  TypeOK
  RegistrationExact
  ServerListExact
  CapRespected
  StaleTargetsAreClosed
PROPERTIES
  AccessControl
  OnlyOwnerWithdraws
  ImplementsContract
CHECK_DEADLOCK FALSE
