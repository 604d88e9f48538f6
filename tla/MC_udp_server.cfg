SPECIFICATION Spec
CONSTANTS
  Roles = {0, 1, 2}
  QueueCap = 2
  Faults = {"init", "thread", "recv", "rate", "drop"}
INVARIANTS
  TypeOK
  SocketsOutliveThreads
  AllOrNothing
PROPERTIES
  StartsClean
  ImplementsLife
