SPECIFICATION FairSpec
CONSTANTS
  Configs <- BasicAndFull
  Faults = {"listen", "pipe", "poll", "table", "thread"}
INVARIANTS
  TypeOK
  NothingLeft
  ResourcesOutliveThread
  EachRoleOnce
PROPERTIES
  StartsClean
  ImplementsLife
  CallsReturn
