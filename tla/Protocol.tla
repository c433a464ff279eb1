------------------------------- MODULE Protocol --------------------------------
(***************************************************************************)
(* What both ends of a connection share: the frames and messages of        *)
(* shared/src/protocol.ts, and shared/src/crypto.ts as the algebra of its  *)
(* functions.  A digest or a derived key is the record of what it was      *)
(* computed from (the functions are taken to be injective), and a sealed   *)
(* payload carries the key it was sealed under and opens under that one.   *)
(* Fields nothing reads (the pub of a hello, nonces, device names, the     *)
(* texts of errors) are left out.                                          *)
(***************************************************************************)
EXTENDS Integers

Version == 1

(* Frames *)
HelloFrame(v)          == [type |-> "hello", v |-> v]
ChallengeFrame(salt)   == [type |-> "challenge", salt |-> salt]
PinVerifyFrame(pin, p) == [type |-> "pin_verify", pin |-> pin, pub |-> p]
PinAckFrame(p)         == [type |-> "pin_ack", pub |-> p]
PinNackFrame           == [type |-> "pin_nack"]
KeyxFrame(p)           == [type |-> "keyx", pub |-> p]
ReadyFrame             == [type |-> "ready"]
EncFrame(key, n, msg)  == [type |-> "enc", key |-> key, s |-> n, msg |-> msg]
ErrorFrame(code)       == [type |-> "error", code |-> code]
ByeFrame               == [type |-> "bye"]
UnknownFrame           == [type |-> "unknown"]

(* The counter of a payload travels beside the sealed text: seal leaves it  *)
(* out of what the tag covers, and neither end looks at its type.  NoSeq   *)
(* is one that is missing or no number.  A comparison with it is false in  *)
(* JavaScript, so `s <= recvSeq` refuses neither a payload without counter *)
(* nor anything after one; written as -1, it is below every counter.       *)
NoSeq     == -1
Stale(n, last) == n # NoSeq /\ n <= last

(* Messages inside encrypted payloads *)
Cmd(id)         == [type |-> "cmd", id |-> id]
Response(t, id) == [type |-> t, id |-> id]
Event           == [type |-> "event"]
NotJson         == [type |-> "not_json"]

(* hashPin, and deriveSessionKey over the shared secret of the two key     *)
(* pairs, salted with deterministicSalt(server, client).                   *)
HashPin(pin, salt) == [pin |-> pin, salt |-> salt]

DeriveKey(server, client, secret) ==
  [server |-> server, client |-> client, secret |-> secret]

===============================================================================
