CONSTANTS
  Pins = {p1}
  Salts = {a1}
  ServerPubs = {k1}
  BadPub = BadPub
  NoPub = NoPub
  NoSalt = NoSalt
  NoSecret = NoSecret
  NoKey = NoKey
  MaxHellos = 2
  MaxConns = 2
  MaxIds = 1
  MaxSeq = 1
SPECIFICATION Spec
CHECK_DEADLOCK FALSE
PROPERTIES HelloAfterBridge
