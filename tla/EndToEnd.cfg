CONSTANTS
  Pins = {p1, p2}
  Malformed = Malformed
  BadPub = BadPub
  NoPub = NoPub
  NoSalt = NoSalt
  NoSecret = NoSecret
  NoHandshake = NoHandshake
  NoKey = NoKey
  NoSlot = NoSlot
  MaxAttempts = 2
  Ttl = 0
  MaxHellos = 2
  MaxSlots = 2
  MaxTime = 1
  MaxKeys = 4
  MaxConns = 2
  MaxIds = 1
  MaxRunning = 2
SPECIFICATION Spec
SYMMETRY Symmetry
VIEW View
CHECK_DEADLOCK FALSE
INVARIANTS TypeOK SameKey
PROPERTIES HonestIsHeard RemoteControl
