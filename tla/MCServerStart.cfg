SPECIFICATION FairSpec
CONSTANTS
  Callers = {main, c1, c2, c3, c4}
  Main = main
  MaxThreads = 2
INVARIANTS
  StartInv
  ListenOnce
PROPERTIES
  AloneListens
\* A server that was started has nothing left to start.
CHECK_DEADLOCK FALSE
