SPECIFICATION LiveSpec
CONSTANTS
  Conns = {c1, c2}
  Socks = {s1, s2}
  Roles = {0}
  MaxConnections = 1
  GrowRate = 1
  SweepTimeout = 2
  AgeCap = 2
  Sizes = {2}
  Faults = {"rate", "memory", "pollChange"}
  NoConn = NoConn
  NoSock = NoSock
INVARIANTS
  LifetimeBound
  ListensBelowMax
PROPERTIES
  StopCompletes
  EveryConnectionEnds
  BacklogServed
