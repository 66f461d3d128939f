\* Three descriptors and three connections, one after the other or at once.
SPECIFICATION FairSpec
CONSTANTS
  MaxConns = 3
  Fds = {3, 4, 5}
  Null = Null
  MaxBacklog = 2
INVARIANTS
  ServerInv
  MapHoldsOpen
  DestroyedLeavesNothing
  OpenIsWatched
PROPERTIES
  PollerSpec
  LivesSpec
  AcceptsWhenRoom
\* A destroyed server outside loop() need not start it again.
CHECK_DEADLOCK FALSE
