CONSTANTS
  Ids = {i1, i2, i3}
  NoId = NoId
  Conns = {c1, c2, c3}
  NoConn = NoConn
  RelayTypes = {"join"}
  MaxConns = 0
SPECIFICATION Spec
PROPERTIES
  JoinForwarded
CHECK_DEADLOCK FALSE
