CONSTANTS
  Pins = {p1}
  Salts = {a1}
  ServerPubs = {k1}
  BadPub = BadPub
  NoPub = NoPub
  NoSalt = NoSalt
  NoSecret = NoSecret
  NoKey = NoKey
  MaxHellos = 2
  MaxConns = 3
  MaxIds = 2
  MaxSeq = 1
SPECIFICATION Spec
VIEW View
CHECK_DEADLOCK FALSE
INVARIANTS TypeOK KeyOfThisConnection SealOnce
PROPERTIES NoSlotLeaks RelayAttemptEnds
