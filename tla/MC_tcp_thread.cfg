SPECIFICATION Spec
CONSTANTS
  Conns = {c1, c2, c3}
  Socks = {s1, s2, s3}
  Roles = {0}
  MaxConnections = 2
  GrowRate = 2
  SweepTimeout = 2
  AgeCap = 2
  Sizes = {2}
  Faults <- MostFaults
  NoConn = NoConn
  NoSock = NoSock
SYMMETRY Symmetry
INVARIANTS
  TypeOK
  TableAgreement
  Conservation
  InterestMatchesState
  ReadyToServe
  ConnectionLimit
  CleanExit
PROPERTY
  SweepGrace
