SPECIFICATION Spec
CONSTANTS
  Adapters <- TwoAdapters
  BestAdapter <- HostBest
  Any = "any"
  CommandLines <- MaxConnOptions
  Files <- NoFiles
  MaxServers = 1
  Taken <- TakenAddresses
  Faults = {"init", "start"}
CHECK_DEADLOCK FALSE
INVARIANTS
  AcceptedMaxConnections
