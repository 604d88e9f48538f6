SPECIFICATION FairSpec
CONSTANTS
  Adapters <- TwoAdapters
  BestAdapter <- HostBest
  Any = "any"
  CommandLines <- AllCommandLines
  Files <- AllFiles
  MaxServers = 3
  Taken <- TakenAddresses
  Faults = {"init", "start"}
CHECK_DEADLOCK FALSE
INVARIANTS
  TypeOK
  ServersHeld
  WaitsServing
  ExitStopsAll
  SocketsDiffer
PROPERTIES
  RunsUntilTold
  EndsWhenTold
