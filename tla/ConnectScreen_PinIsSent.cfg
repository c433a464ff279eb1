CONSTANTS
  Pins = {p1}
  NoPin = NoPin
  Salts = {a1}
  ServerPubs = {k1}
  BadPub = BadPub
  NoPub = NoPub
  NoSalt = NoSalt
  NoSecret = NoSecret
  NoKey = NoKey
  MaxHellos = 2
  MaxConns = 2
  MaxIds = 0
  MaxSeq = 0
SPECIFICATION AppSpec
CHECK_DEADLOCK FALSE
PROPERTY PinIsSent
