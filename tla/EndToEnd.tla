------------------------------- MODULE EndToEnd --------------------------------
(***************************************************************************)
(* Both ends together: the Transport of the controller and the sessions of *)
(* the device, each with all its variables, joined by what carries their   *)
(* frames.  A direct connection n reaches session n of the secure server.  *)
(* Through the relay every connection reaches the one session of the       *)
(* RelayHost (app/src/server/relay-host.ts), one connection at a time.     *)
(*                                                                         *)
(* A queue of frames stands for the whole way from one end to the other:   *)
(* frames stay in order, and are lost when a connection breaks or when     *)
(* the relay finds nobody on the other side.  Neither end invents frames,  *)
(* and nothing rewrites one on the way: what becomes of a payload under    *)
(* another counter is in DeviceHost (ReplaysRejected).                     *)
(* The PIN is typed when the Transport asks for it, in the state           *)
(* "challenge".                                                            *)
(***************************************************************************)
EXTENDS Protocol, SequencesExt

CONSTANTS
  Pins, Malformed, BadPub, NoPub, NoSalt, NoSecret, NoHandshake, NoKey, NoSlot,
  MaxAttempts, Ttl, MaxHellos,  \* as in DeviceHost and Transport
  MaxSlots, MaxTime, MaxKeys, MaxConns, MaxIds, MaxRunning  \* bounds

VARIABLES
  (* the controller, see Transport *)
  sock, made, ws, state, clientKeys, serverPub, salt, pairingSecret, clientKey,
  sendSeq, recvSeq, pendingRes, timer, attempts, promise, armed, clientSent,
  sealed, spoilt,
  (* the device, see DeviceHost *)
  pending, minted, now, link, hs, deviceKey, keyed, running, deviceSent,
  wrong, accepted,
  (* between them *)
  via,   \* "direct" or "relay"; it never changes
  up,    \* up[n]: frames of connection n on their way to the device
  down,  \* down[s]: frames of session s on their way to the controller
  peer,  \* peer[s]: the connection session s is joined to, or NoConn
  (* history *)
  offered,  \* offered[s]: the slot of the latest challenge of session s, or 0
  bond,     \* bond[p]: the connection that was paired by slot p, or NoConn
  asked,    \* asked[c]: the connection call c was sent on, or NoConn
  runs      \* runs[c]: how often its command reached the platform

NoConn   == 0
Conns    == 1..MaxConns
Sessions == Conns
Host     == 1           \* the session of the RelayHost
Calls    == 1..MaxIds

(* The two ends, each with what is proved of it alone. *)
C == INSTANCE TransportProofs WITH
       Salts <- 1..MaxSlots, ServerPubs <- 1..MaxKeys, MaxSeq <- MaxIds,
       sessionKey <- clientKey, sent <- clientSent

D == INSTANCE DeviceHostProofs WITH
       ClientPubs <- Conns, Ids <- Calls, MaxSeq <- MaxIds, MaxSend <- MaxIds,
       sessionKey <- deviceKey, sent <- deviceSent

ASSUME EndToEndAssumption ==
  /\ MaxAttempts \in Nat \ {0} /\ MaxHellos \in Nat \ {0}
  /\ Ttl \in Nat /\ MaxSlots \in Nat /\ MaxTime \in Nat /\ MaxKeys \in Nat
  /\ MaxConns \in Nat \ {0} /\ MaxIds \in Nat /\ MaxRunning \in Nat
  /\ Malformed \notin Pins
  /\ BadPub \notin 1..MaxKeys \cup Conns /\ NoPub \notin 1..MaxKeys \cup Conns
  /\ NoSalt \notin 1..MaxSlots
  /\ NoSecret \notin D!Secrets /\ NoKey \notin D!Keys
  /\ NoHandshake \notin D!Handshakes /\ NoSlot \notin D!Slots

controller == <<sock, made, ws, state, clientKeys, serverPub, salt, pairingSecret,
                clientKey, sendSeq, recvSeq, pendingRes, timer, attempts, promise,
                armed, sealed, spoilt>>
device     == <<pending, minted, now, link, hs, deviceKey, keyed, running, wrong,
                accepted>>
network    == <<via, up, down, peer>>
history    == <<offered, bond, asked, runs>>
vars       == <<controller, clientSent, device, deviceSent, network, history>>

Init ==
  /\ C!Init
  /\ D!Init
  /\ via \in C!Modes
  /\ up = [n \in Conns |-> <<>>]
  /\ down = [s \in Sessions |-> <<>>]
  /\ peer = [s \in Sessions |-> NoConn]
  /\ offered = [s \in Sessions |-> 0]
  /\ bond = [p \in 1..MaxSlots |-> NoConn]
  /\ asked = [c \in Calls |-> NoConn]
  /\ runs = [c \in Calls |-> 0]

-------------------------------------------------------------------------------
ControllerIdle == C!Silent /\ UNCHANGED controller
DeviceIdle     == D!Silent /\ UNCHANGED device

SessionOf(n) == IF via = "relay" THEN Host ELSE n
Joined(n)    == peer[SessionOf(n)] = n

(* The queues with what the controller or session s has just sent. *)
Upward ==
  IF clientSent' = <<>> THEN up
  ELSE [up EXCEPT ![clientSent'[1]] = Append(@, clientSent'[2])]
Downward(s) == [down EXCEPT ![s] = @ \o deviceSent'[s]]

(* Between the two ends *)

(* The relay joins a guest to the host if both came under one PIN and no   *)
(* other guest is there; if not, the guest's frames go nowhere.            *)
Opens(n) ==
  /\ C!OnOpen(n)
  /\ up' = Upward
  /\ \/ /\ via = "direct"
        /\ D!Connect(n)
        /\ peer' = [peer EXCEPT ![n] = n]
     \/ /\ via = "relay"
        /\ DeviceIdle
        /\ UNCHANGED peer
     \/ /\ via = "relay"
        /\ DeviceIdle
        /\ peer[Host] = NoConn
        /\ peer' = [peer EXCEPT ![Host] = n]
  /\ UNCHANGED <<via, down, history>>

(* A connection ends for the controller; frames on their way may still     *)
(* arrive, or are lost with it.                                            *)
Closes(n) ==
  /\ C!OnClose(n)
  /\ up' \in {up, [up EXCEPT ![n] = <<>>]}
  /\ DeviceIdle
  /\ UNCHANGED <<via, down, peer, history>>

(* A connection ends for the server or the relay. *)
Leaves(n) ==
  /\ Joined(n)
  /\ up[n] = <<>>
  /\ peer' = [peer EXCEPT ![SessionOf(n)] = NoConn]
  /\ IF via = "direct" THEN D!Disconnect(n) ELSE DeviceIdle
  /\ ControllerIdle
  /\ UNCHANGED <<via, up, down, history>>

Lost(n) ==
  /\ up[n] # <<>>
  /\ ~(Joined(n) /\ D!Receiving(SessionOf(n)))
  /\ up' = [up EXCEPT ![n] = Tail(@)]
  /\ ControllerIdle /\ DeviceIdle
  /\ UNCHANGED <<via, down, peer, history>>

-------------------------------------------------------------------------------
(* The device *)

(* What session s did in this step, for the properties. *)
Says(s, type) == deviceSent'[s] # <<>> /\ Head(deviceSent'[s]).type = type
Offered(s) ==
  IF Says(s, "challenge")
  THEN [offered EXCEPT ![s] = Head(deviceSent'[s]).salt] ELSE offered
Bonded(s) ==
  IF Says(s, "pin_ack")
  THEN [bond EXCEPT ![hs'[s].pairingSecret.salt] = hs'[s].clientPub] ELSE bond
Ran(s) ==
  IF Len(running'[s]) > Len(running[s])
  THEN [runs EXCEPT ![Last(running'[s]).id] = @ + 1] ELSE runs

Handles(n) ==
  LET s == SessionOf(n) IN
  /\ Joined(n)
  /\ up[n] # <<>>
  /\ D!HandleFrame(s, Head(up[n]))
  /\ up' = [up EXCEPT ![n] = Tail(@)]
  /\ down' = Downward(s)
  /\ offered' = Offered(s)
  /\ bond' = Bonded(s)
  /\ runs' = Ran(s)
  /\ ControllerIdle
  /\ UNCHANGED <<via, peer, asked>>

Settles(s) ==
  /\ \E i \in 1..Len(running[s]) : D!Settle(s, i, "ok")
  /\ down' = Downward(s)
  /\ ControllerIdle
  /\ UNCHANGED <<via, up, peer, history>>

(* RelayHost.start draws its PIN and connects once; the secure server may  *)
(* be given new PINs while it runs.                                        *)
DeviceAlone ==
  /\ \/ (via = "relay" => minted = 0) /\ D!NewPin
     \/ D!ClockTicks
     \/ via = "relay" /\ minted > 0 /\ D!Connect(Host)
     \/ via = "relay" /\ D!Disconnect(Host)
  /\ ControllerIdle
  /\ UNCHANGED <<network, history>>

-------------------------------------------------------------------------------
(* The controller *)

Receives(s) ==
  /\ down[s] # <<>>
  /\ down' = [down EXCEPT ![s] = Tail(@)]
  /\ IF peer[s] # NoConn /\ C!IsOpen(peer[s])
     THEN C!OnMessage(peer[s], Head(down[s])) /\ up' = Upward
     ELSE ControllerIdle /\ UNCHANGED up
  /\ DeviceIdle
  /\ UNCHANGED <<via, peer, history>>

User ==
  \/ C!Connect(via) \/ C!Disconnect
  \/ state = "challenge" /\ \E pin \in Pins : C!SubmitPin(pin)

Sends ==
  /\ state = "ready"
  /\ C!SendCommand
  /\ asked' = IF Last(promise') = "pending"
              THEN [asked EXCEPT ![Len(promise')] = clientKeys] ELSE asked
  /\ up' = Upward
  /\ DeviceIdle
  /\ UNCHANGED <<via, down, peer, offered, bond, runs>>

ControllerAlone ==
  /\ User \/ C!HelloTimer \/ \E c \in Calls : C!CommandTimeout(c)
  /\ up' = Upward
  /\ DeviceIdle
  /\ UNCHANGED <<via, down, peer, history>>

Next ==
  \/ \E n \in Conns : Opens(n) \/ Closes(n) \/ Leaves(n) \/ Lost(n) \/ Handles(n)
  \/ \E s \in Sessions : Settles(s) \/ Receives(s)
  \/ DeviceAlone
  \/ Sends
  \/ ControllerAlone

Spec == Init /\ [][Next]_vars

-------------------------------------------------------------------------------
(* What must hold of it *)

TypeOK ==
  /\ C!TypeOK /\ D!TypeOK
  /\ via \in C!Modes
  /\ peer \in [Sessions -> Conns \cup {NoConn}]
  /\ offered \in [Sessions -> 0..MaxSlots]
  /\ bond \in [1..MaxSlots -> Conns \cup {NoConn}]
  /\ asked \in [Calls -> Conns \cup {NoConn}]
  /\ runs \in [Calls -> 0..MaxIds]

(* No older socket of the Transport is open: there is no orphan, whose     *)
(* frames onMessage takes for those of the current connection.             *)
SoleSocket == ws # C!NoSocket /\ \A n \in Conns : C!IsOpen(n) => n = ws

(* When the controller is ready and has no other socket open, the session  *)
(* it is connected to has the same key, derived independently ("so both    *)
(* sides get identical bytes", transport.ts:14-15), unless a slot that     *)
(* replaced the one the controller was challenged for was used: then the   *)
(* two keys differ, in the salt only.                                      *)
SameKey ==
  C!IsReady /\ SoleSocket =>
    LET key == deviceKey[SessionOf(clientKeys)] IN
    /\ key # NoKey
    /\ key = [clientKey EXCEPT !.secret.salt = key.secret.salt]
    /\ key = clientKey \/ key.secret.salt # offered[SessionOf(clientKeys)]

(* While both ends have one key, and the controller one socket, the device *)
(* refuses no command of the controller, neither as stale nor as           *)
(* undecryptable nor for want of a key: retried hellos, interrupted        *)
(* handshakes and earlier connections leave their counters in step         *)
(* (session.ts:166-181).                                                   *)
HonestIsHeard ==
  [][\A s \in Sessions :
       SoleSocket /\ clientKey # NoKey /\ deviceKey[s] = clientKey /\ Says(s, "error")
         => Head(deviceSent'[s]).code \notin {"not_ready", "replay", "decrypt"}]_vars

(* What a call of sendCommand came to, "idle" before it was made.          *)
Fate(c) == IF c <= Len(promise) THEN promise[c] ELSE "idle"

(* The two ends implement RemoteControl: no PIN is given to two            *)
(* connections, no command runs twice or without having been asked for on  *)
(* a paired connection, no call returns before its command ran, although   *)
(* connections break, frames are lost and late ones reach later guests.    *)
Abstract ==
  INSTANCE RemoteControl WITH
    Slots <- 1..MaxSlots, None <- NoConn, asker <- asked,
    fate <- [c \in Calls |-> Fate(c)]

RemoteControl == Abstract!Spec

===============================================================================
