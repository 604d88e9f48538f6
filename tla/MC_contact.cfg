SPECIFICATION FairSpec
CONSTANTS
  c1 = c1
  c3 = c3
  c4 = c4
  Clients = {c1, c3, c4}
  Version <- OneOfEach
  Splits = FALSE
CHECK_DEADLOCK FALSE
INVARIANTS
  OkMeansHeard
  NoVainWait
PROPERTY
  ClientEnds
