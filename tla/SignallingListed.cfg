CONSTANTS
  Ids = {i1, i2}
  NoId = NoId
  Conns = {c1, c2}
  NoConn = NoConn
  RelayTypes = {"join"}
  MaxConns = 0
SPECIFICATION Spec
PROPERTIES
  ListedWhileConnected
CHECK_DEADLOCK FALSE
