SPECIFICATION FairSpec
CONSTANTS
  Loop = Loop
  Threads = {t1, t2}
  MaxQueue = 1
INVARIANTS
  ConnectionInv
  EarlyFunctorsFindObject
  OnlyLateCrash
  DownOnlyWrites
PROPERTIES
  LifeSpec
  ClosedIsFreed
\* After ~TcpServer and the last shared_ptr nothing is left to do.
CHECK_DEADLOCK FALSE
