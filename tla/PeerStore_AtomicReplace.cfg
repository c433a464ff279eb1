CONSTANTS
  NoList = NoList
  Torn = Torn
  MaxPeers = 2
SPECIFICATION Spec
CHECK_DEADLOCK FALSE
INVARIANT AtomicReplace
