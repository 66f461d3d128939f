\* quit() racing with the start of loop().
CONSTANTS
  Loop = L
  Threads = {t1}
  Functors = {f1}
  Channels = {c1}
  WakeupChannel = wake
SPECIFICATION StartedSpec
PROPERTIES
  QuitEndsLoop
\* A destroyed loop stops.
CHECK_DEADLOCK FALSE
