CONSTANTS
  Sessions = {s1}
  Pins = {p1}
  Malformed = Malformed
  ClientPubs = {c1}
  BadPub = BadPub
  NoPub = NoPub
  NoSecret = NoSecret
  NoSlot = NoSlot
  NoHandshake = NoHandshake
  NoKey = NoKey
  Ids = {1}
  MaxAttempts = 2
  Ttl = 0
  MaxSlots = 1
  MaxTime = 1
  MaxKeys = 2
  MaxSeq = 2
  MaxSend = 1
  MaxRunning = 2
SPECIFICATION Spec
CHECK_DEADLOCK FALSE
INVARIANTS ReplaysRejected
