------------------------------- MODULE Transport -------------------------------
(***************************************************************************)
(* The controller's end: the class Transport of app/src/lib/transport.ts,  *)
(* one object the UI connects again and again, with a new WebSocket and a  *)
(* new key pair every time.  `this.ws` is the latest socket, but an older  *)
(* one keeps its handlers, and they act on the same object: its close      *)
(* event comes after the closing handshake, when another may be current.   *)
(*                                                                         *)
(* Sockets and key pairs are numbered by the connect call that made them,  *)
(* and commands by the sendCommand call: the random ids never repeat.      *)
(* A browser delivers messages only while a socket is OPEN; a socket that  *)
(* fails fires `error` and `close` in one task, so the two handlers are    *)
(* one step.  The other end may send any frame; a `pub` or a sealed text   *)
(* that does not decode is refused like one of the wrong length or key.    *)
(***************************************************************************)
EXTENDS Protocol, SequencesExt

CONSTANTS
  Pins,        \* what /^\d{6}$/ accepts in submitPin
  Salts,       \* the salts of challenges
  ServerPubs,  \* the 32-byte public keys the other end sends
  BadPub,      \* a `pub` that is not 32 bytes
  NoPub, NoSalt, NoSecret, NoKey,  \* the nulls of the fields
  MaxHellos,   \* 8 in startRelayHelloRetry
  MaxConns,    \* bound: connect calls
  MaxIds,      \* bound: commands ever sent
  MaxSeq       \* bound: counters of the other end's payloads

NoSocket == 0
Conns    == 1..MaxConns
Modes    == {"direct", "relay"}
Secrets  == [pin : Pins, salt : Salts]
Keys     == [server : ServerPubs, client : Conns, secret : Secrets]
Ids      == 1..MaxIds

ConnectionStates == {"disconnected", "connecting", "challenge", "pin_sent",
                     "pin_ok", "keyx_sent", "ready", "wrong_pin", "error"}

ASSUME TransportAssumption ==
  /\ BadPub \notin ServerPubs /\ NoPub \notin ServerPubs
  /\ NoSalt \notin Salts
  /\ NoSecret \notin Secrets
  /\ NoKey \notin Keys
  /\ MaxHellos \in Nat \ {0} /\ MaxConns \in Nat /\ MaxIds \in Nat /\ MaxSeq \in Nat

VARIABLES
  sock,           \* sock[n]: readyState of the n-th socket, and its handlers
  made,           \* how many connect calls there were
  ws,             \* this.ws, or NoSocket
  state,          \* this.state
  clientKeys,     \* this.clientKeys: the connect call that drew them, or 0
  serverPub, salt, pairingSecret, sessionKey, sendSeq, recvSeq,
  pendingRes,     \* the ids in this.pendingRes
  timer,          \* is relayHelloTimer set?
  attempts,       \* this.relayHelloAttempts
  promise,        \* promise[id]: how the promise of command id stands
  armed,          \* ids whose 15 second timeout is still to fire
  sent,           \* the frame put on a socket by the latest step, or <<>>
  sealed,         \* history: <<key, counter>> of payloads sent, in order
  spoilt          \* history: did a challenge without a salt end the retry
                  \* since the latest connect call?

handshake == <<clientKeys, serverPub, salt, pairingSecret, sessionKey>>
counters  == <<sendSeq, recvSeq>>
hellos    == <<timer, attempts>>
requests  == <<pendingRes, promise, armed>>
history   == <<sealed, spoilt>>
vars      == <<sock, made, ws, state, handshake, counters, hellos, requests,
               sent, history>>

Init ==
  /\ sock = [n \in Conns |-> [state |-> "none", mode |-> "direct"]]
  /\ made = 0 /\ ws = NoSocket /\ state = "disconnected"
  /\ clientKeys = 0 /\ serverPub = NoPub /\ salt = NoSalt
  /\ pairingSecret = NoSecret /\ sessionKey = NoKey
  /\ sendSeq = 0 /\ recvSeq = 0
  /\ pendingRes = {} /\ promise = <<>> /\ armed = {}
  /\ timer = FALSE /\ attempts = 0
  /\ sent = <<>> /\ sealed = <<>> /\ spoilt = FALSE

-------------------------------------------------------------------------------
(* send, and what the socket operations share *)

IsOpen(n) == n # NoSocket /\ sock[n].state = "open"
IsReady   == state = "ready" /\ sessionKey # NoKey

Send(frame) == sent' = IF IsOpen(ws) THEN <<ws, frame>> ELSE <<>>
Silent      == sent' = <<>>

(* The sockets once this.ws.close() was called *)
WsClosed ==
  IF ws # NoSocket /\ sock[ws].state \in {"connecting", "open"}
  THEN [sock EXCEPT ![ws].state = "closing"] ELSE sock

ClearRelayHelloRetry == timer' = FALSE /\ attempts' = 0

SendRelayHello == IF clientKeys # 0 THEN Send(HelloFrame(Version)) ELSE Silent

-------------------------------------------------------------------------------
(* connect, connectRelay and disconnect *)

(* disconnect, but for the fields that connect sets again.  The promises   *)
(* of the cleared requests are left as they are.                           *)
ForgetKey_Kept == UNCHANGED sessionKey
ForgetKey == sessionKey' = NoKey

DisconnectFirst ==
  /\ ClearRelayHelloRetry
  /\ Send(ByeFrame)
  /\ serverPub' = NoPub /\ salt' = NoSalt /\ pairingSecret' = NoSecret
  /\ ForgetKey
  /\ sendSeq' = 0 /\ recvSeq' = 0
  /\ pendingRes' = {}
  /\ spoilt' = FALSE
  /\ UNCHANGED <<promise, armed, sealed>>

Disconnect ==
  /\ DisconnectFirst
  /\ sock' = WsClosed
  /\ ws' = NoSocket
  /\ clientKeys' = 0
  /\ state' = "disconnected"
  /\ UNCHANGED made

(* The second disjunct: the WebSocket constructor throws. *)
Connect(mode) ==
  /\ made < MaxConns
  /\ DisconnectFirst
  /\ made' = made + 1
  /\ clientKeys' = made + 1
  /\ \/ /\ sock' = [WsClosed EXCEPT ![made + 1] =
                      [state |-> "connecting", mode |-> mode]]
        /\ ws' = made + 1
        /\ state' = "connecting"
     \/ /\ sock' = WsClosed
        /\ ws' = NoSocket
        /\ state' = "error"

-------------------------------------------------------------------------------
(* Socket events.  Only the first line of each knows which socket it is    *)
(* about: the handlers go on with this.ws.                                 *)

OnOpen(n) ==
  /\ sock[n].state = "connecting"
  /\ sock' = [sock EXCEPT ![n].state = "open"]
  /\ sent' = IF clientKeys # 0 /\ ws # NoSocket /\ sock'[ws].state = "open"
             THEN <<ws, HelloFrame(Version)>> ELSE <<>>
  /\ IF sock[n].mode = "relay" THEN timer' = TRUE /\ attempts' = 1
     ELSE UNCHANGED hellos
  /\ UNCHANGED <<made, ws, state, handshake, counters, requests, history>>

OnClose(n) ==
  /\ sock[n].state \in {"connecting", "open", "closing"}
  /\ sock' = [sock EXCEPT ![n].state = "closed"]
  /\ ws' = NoSocket
  /\ state' = "disconnected"
  /\ IF sock[n].mode = "relay" THEN ClearRelayHelloRetry ELSE UNCHANGED hellos
  /\ Silent
  /\ UNCHANGED <<made, handshake, counters, requests, history>>

(* The 700 ms interval of startRelayHelloRetry *)
NextAttempt_Restarted == 1
NextAttempt == attempts + 1

HelloTimer ==
  /\ timer
  /\ \/ /\ ~(IsOpen(ws) /\ state = "connecting")
        /\ ClearRelayHelloRetry
        /\ Silent
        /\ UNCHANGED <<sock, state>>
     \/ /\ IsOpen(ws) /\ state = "connecting"
        /\ attempts >= MaxHellos
        /\ ClearRelayHelloRetry
        /\ state' = "error"
        /\ sock' = WsClosed
        /\ Silent
     \/ /\ IsOpen(ws) /\ state = "connecting"
        /\ attempts < MaxHellos
        /\ attempts' = NextAttempt
        /\ SendRelayHello
        /\ UNCHANGED <<sock, state, timer>>
  /\ UNCHANGED <<made, ws, handshake, counters, requests, history>>

-------------------------------------------------------------------------------
(* onMessage *)

ServerFrames ==
  {ChallengeFrame(s) : s \in Salts \cup {NoSalt}}
    \cup {PinAckFrame(p) : p \in ServerPubs \cup {BadPub}}
    \cup {KeyxFrame(p) : p \in ServerPubs \cup {BadPub}}
    \cup {EncFrame(sessionKey, n, msg) :
            n \in {NoSeq} \cup 1..MaxSeq, msg \in {Response("ok", id) : id \in Ids} \cup {Event}}
    \cup {EncFrame(NoKey, MaxSeq, NotJson), PinNackFrame, ReadyFrame, ByeFrame}
    \cup {ErrorFrame(code) : code \in {"replay", "version"}}

(* A salt that is missing or does not decode makes it throw, after the     *)
(* retry was ended.                                                        *)
HandleChallenge(f) ==
  /\ ClearRelayHelloRetry
  /\ IF f.salt = NoSalt
     THEN spoilt' = TRUE /\ UNCHANGED <<salt, state>>
     ELSE salt' = f.salt /\ state' = "challenge" /\ UNCHANGED spoilt
  /\ Silent
  /\ UNCHANGED <<sock, made, ws, clientKeys, serverPub, pairingSecret, sessionKey,
                 counters, requests, sealed>>

(* Without client keys it throws before it sends, the new serverPub kept. *)
HandlePinAck(f) ==
  /\ IF f.pub \in ServerPubs THEN serverPub' = f.pub ELSE UNCHANGED serverPub
  /\ state' = IF f.pub \notin ServerPubs THEN "error"
              ELSE IF clientKeys = 0 THEN state ELSE "keyx_sent"
  /\ IF f.pub \in ServerPubs /\ clientKeys # 0
     THEN Send(KeyxFrame(clientKeys)) ELSE Silent
  /\ UNCHANGED <<sock, made, ws, clientKeys, salt, pairingSecret, sessionKey,
                 counters, hellos, requests, history>>

HandlePinNack ==
  /\ pairingSecret' = NoSecret
  /\ state' = "challenge"
  /\ Silent
  /\ UNCHANGED <<sock, made, ws, clientKeys, serverPub, salt, sessionKey,
                 counters, hellos, requests, history>>

(* The counters go on when a repeated keyx derives the same key again.     *)
CountersAfterKeyx_Restarted == sendSeq' = 0 /\ UNCHANGED recvSeq
CountersAfterKeyx == UNCHANGED counters

HandleKeyx(f) ==
  /\ \/ /\ \/ clientKeys = 0 \/ pairingSecret = NoSecret
           \/ f.pub \notin ServerPubs \/ serverPub \notin {NoPub, f.pub}
        /\ state' = "error"
        /\ UNCHANGED <<serverPub, sessionKey, counters>>
     \/ /\ clientKeys # 0 /\ pairingSecret # NoSecret
        /\ f.pub \in ServerPubs /\ serverPub \in {NoPub, f.pub}
        /\ serverPub' = f.pub
        /\ sessionKey' = DeriveKey(f.pub, clientKeys, pairingSecret)
        /\ CountersAfterKeyx
        /\ UNCHANGED state
  /\ Silent
  /\ UNCHANGED <<sock, made, ws, clientKeys, salt, pairingSecret, hellos,
                 requests, history>>

(* ready and error only move the state *)
HandleOther(f) ==
  /\ state' = IF f.type = "ready" /\ state = "keyx_sent" THEN "ready"
              ELSE IF f.type = "error" /\ f.code \in {"decrypt", "replay"} THEN "error"
              ELSE state
  /\ Silent
  /\ UNCHANGED <<sock, made, ws, handshake, counters, hellos, requests, history>>

InSequence(f) == ~Stale(f.s, recvSeq)

Unanswered_Kept(id) == pendingRes
Unanswered(id) == pendingRes \ {id}

(* A payload refused, by its counter or its key, changes nothing.          *)
HandleEncrypted(f) ==
  /\ IF sessionKey # NoKey /\ InSequence(f) /\ f.key = sessionKey
     THEN /\ recvSeq' = f.s
          /\ IF f.msg.type \in {"ok", "err"} /\ f.msg.id \in pendingRes
             THEN /\ pendingRes' = Unanswered(f.msg.id)
                  /\ promise' = [promise EXCEPT ![f.msg.id] = "resolved"]
             ELSE UNCHANGED <<pendingRes, promise>>
     ELSE UNCHANGED <<recvSeq, pendingRes, promise>>
  /\ Silent
  /\ UNCHANGED <<sock, made, ws, state, handshake, sendSeq, hellos, armed, history>>

OnMessage(n, f) ==
  /\ sock[n].state = "open"
  /\ \/ f.type = "challenge" /\ HandleChallenge(f)
     \/ f.type = "pin_ack" /\ HandlePinAck(f)
     \/ f.type = "pin_nack" /\ HandlePinNack
     \/ f.type = "keyx" /\ HandleKeyx(f)
     \/ f.type = "enc" /\ HandleEncrypted(f)
     \/ f.type \in {"ready", "error"} /\ HandleOther(f)
     \/ f.type = "bye" /\ Disconnect

-------------------------------------------------------------------------------
(* What the UI calls once connected *)

SubmitPin(pin) ==
  /\ clientKeys # 0 /\ salt # NoSalt
  /\ pairingSecret' = HashPin(pin, salt)
  /\ Send(PinVerifyFrame(pin, clientKeys))
  /\ state' = "pin_sent"
  /\ UNCHANGED <<sock, made, ws, clientKeys, serverPub, salt, sessionKey,
                 counters, hellos, requests, history>>

ArmTimeout_WhenSent(id) == IF IsOpen(ws) THEN armed \cup {id} ELSE armed
ArmTimeout(id) == armed \cup {id}

SendCommand ==
  LET id == Len(promise) + 1 IN
  /\ Len(promise) < MaxIds
  /\ \/ /\ ~IsReady
        /\ promise' = Append(promise, "rejected")
        /\ Silent
        /\ UNCHANGED <<sendSeq, pendingRes, armed, sealed>>
     \/ /\ IsReady
        /\ promise' = Append(promise, "pending")
        /\ sendSeq' = sendSeq + 1
        /\ sealed' = Append(sealed, <<sessionKey, sendSeq + 1>>)
        /\ pendingRes' = pendingRes \cup {id}
        /\ armed' = ArmTimeout(id)
        /\ Send(EncFrame(sessionKey, sendSeq + 1, Cmd(id)))
  /\ UNCHANGED <<sock, made, ws, state, handshake, recvSeq, hellos, spoilt>>

CommandTimeout(id) ==
  /\ id \in armed
  /\ armed' = armed \ {id}
  /\ pendingRes' = pendingRes \ {id}
  /\ promise' = IF id \in pendingRes THEN [promise EXCEPT ![id] = "rejected"]
                ELSE promise
  /\ Silent
  /\ UNCHANGED <<sock, made, ws, state, handshake, counters, hellos, history>>

Next ==
  \/ \E mode \in Modes : Connect(mode)
  \/ Disconnect
  \/ \E n \in Conns : \/ OnOpen(n) \/ OnClose(n)
                      \/ \E f \in ServerFrames : OnMessage(n, f)
  \/ HelloTimer
  \/ \E pin \in Pins : SubmitPin(pin)
  \/ SendCommand
  \/ \E id \in Ids : CommandTimeout(id)

(* Timers fire, and the browser concludes what a socket is doing: a        *)
(* connection attempt opens or fails, a closing handshake ends.  Nothing   *)
(* is assumed of the UI or of the other end.                               *)
Concluded(n) == sock[n].state \in {"connecting", "closing"} /\ (OnOpen(n) \/ OnClose(n))

Fairness ==
  /\ WF_vars(HelloTimer)
  /\ \A id \in Ids : WF_vars(CommandTimeout(id))
  /\ \A n \in Conns : WF_vars(Concluded(n))

Spec == Init /\ [][Next]_vars /\ Fairness

-------------------------------------------------------------------------------
(* What must hold of it *)

TypeOK ==
  /\ sock \in [Conns -> [state : {"none", "connecting", "open", "closing", "closed"},
                         mode : Modes]]
  /\ made \in 0..MaxConns
  /\ ws \in 0..made
  /\ state \in ConnectionStates
  /\ clientKeys \in 0..made
  /\ serverPub \in ServerPubs \cup {NoPub}
  /\ salt \in Salts \cup {NoSalt}
  /\ pairingSecret \in Secrets \cup {NoSecret}
  /\ sessionKey \in Keys \cup {NoKey}
  /\ sendSeq \in 0..MaxIds /\ recvSeq \in NoSeq..MaxSeq
  /\ timer \in BOOLEAN /\ attempts \in 0..MaxHellos
  /\ promise \in Seq({"pending", "resolved", "rejected"})
  /\ pendingRes \subseteq 1..Len(promise) /\ armed \subseteq 1..Len(promise)
  /\ \A id \in pendingRes : promise[id] = "pending"
  /\ sealed \in Seq(Keys \X Nat) /\ spoilt \in BOOLEAN

(* The session key belongs to the key pair of the latest connect call: no  *)
(* key, and with it no readiness, survives into a later connection, in     *)
(* whatever order the handlers of older sockets run (transport.ts:158-176).*)
KeyOfThisConnection ==
  sessionKey # NoKey => sessionKey.client = clientKeys

(* No counter is used twice under one key, or the device takes the second  *)
(* command for a replay: across repeated keyx frames, commands sent while  *)
(* the socket is down and reconnections (transport.ts:363-365).            *)
SealOnce == IsInjective(sealed)

(* Every request leaves pendingRes, answered, timed out or cleared:        *)
(* "Defensive timeout so a dropped response doesn't leak the pending       *)
(* slot." (transport.ts:369-375)                                           *)
NoSlotLeaks == \A id \in Ids : id \in pendingRes ~> id \notin pendingRes

(* An attempt through the relay does not hang in "connecting": the guest   *)
(* gives up after MaxHellos hellos nobody answered, whatever the older     *)
(* sockets do meanwhile (transport.ts:210-233).  One kind of answer leaves *)
(* it hanging: a challenge whose salt does not decode ends the retry       *)
(* before it makes the handler throw (transport.ts:285-286).               *)
Attempting == state = "connecting" /\ ws # NoSocket /\ sock[ws].mode = "relay"
RelayAttemptEnds == Attempting ~> ~Attempting \/ spoilt

(* "After the relay bridge is established we send the standard Caldir      *)
(* `hello` frame" (transport.ts:124-126), on the socket that was opened.   *)
HelloAfterBridge ==
  [][\A n \in Conns :
       sock[n].state = "connecting" /\ sock'[n].state = "open" /\ sock[n].mode = "relay"
         => sent' = <<n, HelloFrame(Version)>>]_vars

===============================================================================
