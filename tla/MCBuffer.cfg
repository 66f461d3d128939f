\* All strings of one to three bits, at most four readable.
CONSTANTS
  kCheapPrepend = 1
  kInitiaSize = 3
  ExtraBuf = 2
  Bytes <- SmallBytes
  Zero = 0
  Data <- SmallData
  MaxReadable = 4
SPECIFICATION Spec
INVARIANTS
  BufferInv
  MovesToLowerAddress
  GrowthBounded
PROPERTIES
  QueueSpec
