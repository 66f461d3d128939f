\* What becomes of buffered output.
CONSTANTS
  kCheapPrepend = 1
  kInitiaSize = 3
  Bytes <- SmallBytes
  Zero = 0
  Data <- SmallData
  highWaterMark_ = 3
  MaxAccepted = 6
SPECIFICATION FairSpec
PROPERTIES
  BufferedIsSent
\* The bound ends every behaviour.
CHECK_DEADLOCK FALSE
