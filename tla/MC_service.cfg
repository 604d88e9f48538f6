SPECIFICATION FairSpec
CONSTANTS
  main = main
  handler = handler
  Main = main
  Handler = handler
  Threads <- BothThreads
CHECK_DEADLOCK FALSE
PROPERTIES
  UndoneOnlyByStart
  StopEndsStopped
  UninstallCompletes
