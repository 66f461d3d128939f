\* Two foreign threads, three submissions.
CONSTANTS
  Loop = L
  Threads = {t1, t2}
  Functors = {f1, f2, f3}
  Channels = {c1}
  WakeupChannel = wake
SPECIFICATION FairSpec
INVARIANTS
  LoopInv
  Accounting
  ExitsBetweenIterations
PROPERTIES
  BatchNeverGrows
  QueueSpec
  PendingRunsUnlessQuit
  QuitLeavesLoop
\* A destroyed loop stops.
CHECK_DEADLOCK FALSE
