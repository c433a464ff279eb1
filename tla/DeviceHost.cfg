CONSTANTS
  Sessions = {s1, s2}
  Pins = {p1, p2}
  Malformed = Malformed
  ClientPubs = {c1, c2}
  BadPub = BadPub
  NoPub = NoPub
  NoSecret = NoSecret
  NoSlot = NoSlot
  NoHandshake = NoHandshake
  NoKey = NoKey
  Ids = {1}
  MaxAttempts = 2
  Ttl = 0
  MaxSlots = 2
  MaxTime = 1
  MaxKeys = 2
  MaxSeq = 2
  MaxSend = 1
  MaxRunning = 1
SPECIFICATION Spec
SYMMETRY Symmetry
VIEW View
CHECK_DEADLOCK FALSE
INVARIANTS TypeOK OneSessionPerPin GuessBudget AwaitedKey
PROPERTIES LivePairing NoCounterTwice
