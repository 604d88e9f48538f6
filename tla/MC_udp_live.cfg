SPECIFICATION FairSpec
CONSTANTS
  Roles = {0, 1}
  QueueCap = 1
  Faults = {"thread", "rate"}
PROPERTIES
  CallsReturn
  DatagramServed
