SPECIFICATION Spec
CONSTANTS
  Conns = {c1, c2}
  Socks = {s1, s2}
  Roles = {0, 1}
  MaxConnections = 1
  GrowRate = 1
  SweepTimeout = 1
  AgeCap = 1
  Sizes = {1}
  Faults = {"listenAdd"}
  NoConn = NoConn
  NoSock = NoSock
SYMMETRY Symmetry
INVARIANT
  RemoveFindsConnection
