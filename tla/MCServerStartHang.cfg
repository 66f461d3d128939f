SPECIFICATION FairSpec
CONSTANTS
  Callers = {main, c1}
  Main = main
  MaxThreads = 1
PROPERTIES
  StartListens
CHECK_DEADLOCK FALSE
