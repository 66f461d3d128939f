\* wakeup() against a loop blocked in poll, poll's timeout not counted on.
CONSTANTS
  Loop = L
  Threads = {t1}
  Functors = {f1, f2}
  Channels = {c1}
  WakeupChannel = wake
SPECIFICATION PromptSpec
PROPERTIES
  WakeupLeavesPoll
\* A destroyed loop stops.
CHECK_DEADLOCK FALSE
