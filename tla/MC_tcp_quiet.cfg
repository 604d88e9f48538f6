SPECIFICATION QuietSpec
CONSTANTS
  Conns = {c1}
  Socks = {s1}
  Roles = {0}
  MaxConnections = 1
  GrowRate = 1
  SweepTimeout = 2
  AgeCap = 2
  Sizes = {1}
  Faults = {}
  NoConn = NoConn
  NoSock = NoSock
PROPERTY
  ClosesOnlyQuiet
