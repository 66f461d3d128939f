\* Three channels, two descriptors.
CONSTANTS
  Channels = {c1, c2, c3}
  Fds = {1, 2}
  Null = Null
SPECIFICATION Spec
INVARIANTS
  PollerInv
  KernelAgrees
  NeverFatal
  NoDanglingPointer
