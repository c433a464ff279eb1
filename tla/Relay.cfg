CONSTANTS
  Socks = {w1, w2, w3, w4}
  Pins = {p1, p2}
  NoSock = NoSock
  NoPin = NoPin
  Ttl = 1
  MaxRooms = 3
  MaxTime = 4
SPECIFICATION Spec
SYMMETRY Symmetry
CHECK_DEADLOCK FALSE
INVARIANTS TypeOK HoldsItsSlot NoEmptyRoom PairedUnlessSwept
PROPERTIES ForwardsInRoom
