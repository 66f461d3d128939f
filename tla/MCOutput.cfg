\* Safety: up to six bytes in sends of one to three.
CONSTANTS
  kCheapPrepend = 1
  kInitiaSize = 3
  Bytes <- SmallBytes
  Zero = 0
  Data <- SmallData
  highWaterMark_ = 3
  MaxAccepted = 6
SPECIFICATION Spec
INVARIANTS
  OutputInv
  ArmedWhilePending
  ConsumedInOrder
  FinExactly
  WireIntact
\* The bound ends every behaviour.
CHECK_DEADLOCK FALSE
