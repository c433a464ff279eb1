----------------------------- MODULE EndToEndProofs -----------------------------
(***************************************************************************)
(* Proofs about EndToEnd, for any number of connections, PINs, keys and    *)
(* commands.  What each end does by itself is taken from its own proofs.   *)
(***************************************************************************)
EXTENDS EndToEnd, SequenceTheorems, TLAPS

LEMMA ControllerAssumption == C!TransportAssumption
BY EndToEndAssumption
DEF C!TransportAssumption, D!Secrets, C!Secrets, D!Salts, D!Keys, C!Keys, C!Conns, Conns

LEMMA DeviceAssumptions == D!PairingAssumption /\ D!DeviceAssumption
BY EndToEndAssumption DEF D!DeviceAssumption, D!PairingAssumption, D!Secrets, D!Salts

LEMMA ControllerStep == C!TransportInv /\ ([C!Next]_(C!vars) \/ C!Delivered) => C!TransportInv'
BY C!InvKept, ControllerAssumption DEF C!TransportAssumption

LEMMA DeviceStep == D!DeviceInv /\ ([D!Next]_(D!vars) \/ D!Served) => D!DeviceInv'
BY D!DeviceStep, DeviceAssumptions

-------------------------------------------------------------------------------
(* The inductive invariant *)

(* What either end puts on the way. *)
UpFrames ==
  {HelloFrame(Version), ByeFrame}
    \cup {PinVerifyFrame(pin, n) : pin \in Pins, n \in Conns}
    \cup {KeyxFrame(n) : n \in Conns}
    \cup {EncFrame(k, q, Cmd(c)) : k \in D!Keys, q \in 1..MaxIds, c \in Calls}

DownFrames ==
  {ChallengeFrame(p) : p \in 1..MaxSlots} \cup {PinAckFrame(k) : k \in 1..MaxKeys}
    \cup {KeyxFrame(k) : k \in 1..MaxKeys} \cup {PinNackFrame, ReadyFrame}
    \cup {ErrorFrame(e) : e \in {"version", "no_pairing", "no_session", "bad_keyx",
                                 "key_switch", "not_ready", "replay", "decrypt",
                                 "bad_frame"}}
    \cup {EncFrame(k, q, Response("ok", c)) : k \in D!Keys, q \in 1..MaxIds, c \in Calls}

WorldTypes ==
  /\ via \in C!Modes
  /\ up \in [Conns -> Seq(UpFrames)]
  /\ down \in [Sessions -> Seq(DownFrames)]
  /\ peer \in [Sessions -> Conns \cup {NoConn}]
  /\ offered \in [Sessions -> 0..MaxSlots]
  /\ bond \in [1..MaxSlots -> Conns \cup {NoConn}]
  /\ asked \in [Calls -> Conns \cup {NoConn}]
  /\ runs \in [Calls -> {0, 1}]

(* The Transport sends on the socket its key pair was drawn for.           *)
SocketInv == ws \in {C!NoSocket, clientKeys}

(* Nothing here closes a connection of the server for the policy.          *)
LinkInv == \A s \in Sessions : link[s] # "closing"

(* A slot was given away at most once, to the connection whose key pair    *)
(* the session names that holds its secret.                                *)
BondInv ==
  /\ \A p \in 1..MaxSlots :
       bond[p] # NoConn => p <= minted /\ (pending # NoSlot => p < minted)
  /\ \A s \in Sessions :
       /\ D!Paired(s) => bond[hs[s].pairingSecret.salt] = hs[s].clientPub
       /\ deviceKey[s] # NoKey =>
            bond[deviceKey[s].secret.salt] = deviceKey[s].client

(* A frame on its way from connection n is one of n's own, and a command   *)
(* among them was asked for on n and has not run.                          *)
OwnFrame(n, f) ==
  /\ f.type \in {"pin_verify", "keyx"} => f.pub = n
  /\ f.type = "enc" => /\ f.key.client = n
                       /\ f.msg.id <= Len(promise)
                       /\ asked[f.msg.id] = n
                       /\ runs[f.msg.id] = 0

UpInv == \A n \in Conns : \A i \in 1..Len(up[n]) : OwnFrame(n, up[n][i])

(* There is one copy of a command. *)
OneCopy ==
  \A n \in Conns : \A i, j \in 1..Len(up[n]) :
    up[n][i].type = "enc" /\ up[n][j].type = "enc" /\ up[n][i].msg.id = up[n][j].msg.id
      => i = j

(* What is under way at the device, or answered, has run. *)
RanInv ==
  \A s \in Sessions :
    /\ \A i \in 1..Len(running[s]) : runs[running[s][i].id] = 1
    /\ \A i \in 1..Len(down[s]) :
         down[s][i].type = "enc" => runs[down[s][i].msg.id] = 1

(* A call that was not made was not asked for and has not run.             *)
CallsInv ==
  \A c \in Calls : c > Len(promise) => asked[c] = NoConn /\ runs[c] = 0

EndsInv ==
  /\ C!TransportInv /\ D!DeviceInv /\ WorldTypes
  /\ SocketInv /\ LinkInv /\ BondInv /\ UpInv /\ OneCopy /\ RanInv /\ CallsInv

-------------------------------------------------------------------------------
(* Queues *)

LEMMA TailFacts ==
  ASSUME NEW S, NEW q \in Seq(S), q # <<>>
  PROVE  /\ Tail(q) \in Seq(S) /\ Len(Tail(q)) = Len(q) - 1
         /\ \A i \in 1..Len(Tail(q)) : i + 1 \in 1..Len(q) /\ Tail(q)[i] = q[i + 1]
         /\ Head(q) = q[1] /\ 1 \in 1..Len(q) /\ Head(q) \in S
OBVIOUS

LEMMA AppendFacts ==
  ASSUME NEW S, NEW q \in Seq(S), NEW f \in S
  PROVE  /\ Append(q, f) \in Seq(S) /\ Len(Append(q, f)) = Len(q) + 1
         /\ \A i \in 1..Len(q) : Append(q, f)[i] = q[i]
         /\ Append(q, f)[Len(q) + 1] = f
OBVIOUS

-------------------------------------------------------------------------------
(* Frames are the same to both ends *)

LEMMA ControllerFrames ==
  /\ C!HelloFrame(C!Version) = HelloFrame(Version) /\ C!ByeFrame = ByeFrame
  /\ \A n : C!KeyxFrame(n) = KeyxFrame(n)
  /\ \A pin, n : C!PinVerifyFrame(pin, n) = PinVerifyFrame(pin, n)
  /\ \A k, q, c : C!EncFrame(k, q, C!Cmd(c)) = EncFrame(k, q, Cmd(c))
BY DEF C!HelloFrame, HelloFrame, C!Version, Version, C!ByeFrame, ByeFrame, C!KeyxFrame,
       KeyxFrame, C!PinVerifyFrame, PinVerifyFrame, C!EncFrame, EncFrame, C!Cmd, Cmd

LEMMA DeviceFrames ==
  /\ D!PinNackFrame = PinNackFrame /\ D!ReadyFrame = ReadyFrame
  /\ \A p : D!ChallengeFrame(p) = ChallengeFrame(p)
  /\ \A k : D!PinAckFrame(k) = PinAckFrame(k) /\ D!KeyxFrame(k) = KeyxFrame(k)
  /\ \A e : D!ErrorFrame(e) = ErrorFrame(e)
  /\ \A k, q, o, c : D!EncFrame(k, q, D!Response(o, c)) = EncFrame(k, q, Response(o, c))
BY DEF D!PinNackFrame, PinNackFrame, D!ReadyFrame, ReadyFrame, D!ChallengeFrame,
       ChallengeFrame, D!PinAckFrame, PinAckFrame, D!KeyxFrame, KeyxFrame, D!ErrorFrame,
       ErrorFrame, D!EncFrame, EncFrame, D!Response, Response

-------------------------------------------------------------------------------
(* Each end keeps its own invariant, whatever the other sends *)

LEMMA ControllerUnmoved ==
  ASSUME C!TransportInv, UNCHANGED controller PROVE C!TransportInv'
BY DEF C!TransportInv, C!TypeOK, C!CountedInv, C!LatestInv, C!KeyOfThisConnection,
       C!SealedBelow, C!SealOnce, C!IsInjective, controller

LEMMA DeviceUnmoved ==
  ASSUME D!DeviceInv, UNCHANGED device PROVE D!DeviceInv'
<1>1. D!TypeOK'
  BY DEF D!DeviceInv, D!TypeOK, D!PairingTypeOK, device
<1> QED
  BY <1>1, D!SessionsIdle, DeviceAssumptions DEF device, D!sessionVars, D!history

LEMMA DownWellFormed == \A f \in DownFrames : C!WellFormed(f)
<1> SUFFICES ASSUME NEW f \in DownFrames PROVE C!WellFormed(f)
  OBVIOUS
<1>1. f.type = "challenge" => f.salt \in 1..MaxSlots
  BY DEF DownFrames, ChallengeFrame, PinAckFrame, KeyxFrame, PinNackFrame, ReadyFrame,
         ErrorFrame, EncFrame
<1>2. f.type = "enc" => f.s \in 1..MaxIds
  BY DEF DownFrames, ChallengeFrame, PinAckFrame, KeyxFrame, PinNackFrame, ReadyFrame,
         ErrorFrame, EncFrame
<1>3. 1..MaxIds \subseteq C!NoSeq..MaxIds
  BY DEF C!NoSeq
<1> QED BY <1>1, <1>2, <1>3 DEF C!WellFormed

LEMMA UpReadable == \A f \in UpFrames : D!Readable(f)
<1> SUFFICES ASSUME NEW f \in UpFrames, f.type = "enc"
             PROVE  f.s \in D!NoSeq..MaxIds /\ (f.msg.type = "cmd" => f.msg.id \in Calls)
  BY DEF D!Readable
<1>1. PICK k \in D!Keys, q \in 1..MaxIds, c \in Calls : f = EncFrame(k, q, Cmd(c))
  BY DEF UpFrames, HelloFrame, ByeFrame, PinVerifyFrame, KeyxFrame
<1> QED BY <1>1, EndToEndAssumption DEF EncFrame, Cmd, D!NoSeq

LEMMA ControllerKeeps == EndsInv /\ [Next]_vars => C!TransportInv'
<1> SUFFICES ASSUME EndsInv, [Next]_vars PROVE C!TransportInv'
  OBVIOUS
<1> USE DEF EndsInv
<1>1. ASSUME [C!Next]_(C!vars) \/ C!Delivered PROVE C!TransportInv'
  BY <1>1, ControllerStep
<1>2. ASSUME UNCHANGED controller PROVE C!TransportInv'
  BY <1>2, ControllerUnmoved
<1>3. ASSUME NEW n \in Conns, Opens(n) \/ Closes(n) PROVE C!TransportInv'
  BY <1>1, <1>3 DEF Opens, Closes, C!Next, Conns, C!Conns
<1>4. ASSUME NEW s \in Sessions, Receives(s) PROVE C!TransportInv'
  <2>1. CASE C!OnMessage(peer[s], Head(down[s])) /\ peer[s] # NoConn
    <3>1. peer[s] \in C!Conns /\ down[s] \in Seq(DownFrames) /\ down[s] # <<>>
      BY <1>4, <2>1 DEF Receives, WorldTypes, Conns, C!Conns
    <3>2. Head(down[s]) \in DownFrames
      BY <3>1, TailFacts
    <3> QED BY <1>1, <2>1, <3>1, <3>2, DownWellFormed DEF C!Delivered
  <2> QED BY <1>2, <1>4, <2>1 DEF Receives, ControllerIdle
<1>5. CASE Sends
  BY <1>1, <1>5 DEF Sends, C!Next
<1>6. CASE ControllerAlone
  BY <1>1, <1>6 DEF ControllerAlone, User, C!Next, WorldTypes, C!Ids, Calls
<1> QED
  BY <1>2, <1>3, <1>4, <1>5, <1>6
  DEF Next, vars, Leaves, Lost, Handles, Settles, DeviceAlone, ControllerIdle

LEMMA DeviceKeeps == EndsInv /\ [Next]_vars => D!DeviceInv'
<1> SUFFICES ASSUME EndsInv, [Next]_vars PROVE D!DeviceInv'
  OBVIOUS
<1> USE DEF EndsInv
<1>1. ASSUME [D!Next]_(D!vars) \/ D!Served PROVE D!DeviceInv'
  BY <1>1, DeviceStep
<1>2. ASSUME UNCHANGED device PROVE D!DeviceInv'
  BY <1>2, DeviceUnmoved
<1>3. ASSUME NEW n \in Conns, Opens(n) \/ Leaves(n) PROVE D!DeviceInv'
  BY <1>1, <1>2, <1>3 DEF Opens, Leaves, D!Next, Sessions, DeviceIdle
<1>4. ASSUME NEW n \in Conns, Handles(n) PROVE D!DeviceInv'
  <2>1. up[n] \in Seq(UpFrames) /\ up[n] # <<>> /\ SessionOf(n) \in Sessions
    BY <1>4, EndToEndAssumption DEF Handles, WorldTypes, SessionOf, Sessions, Host, Conns
  <2>2. D!Readable(Head(up[n]))
    BY <2>1, TailFacts, UpReadable
  <2> QED BY <1>1, <1>4, <2>1, <2>2 DEF Handles, D!Served
<1>5. ASSUME NEW s \in Sessions, Settles(s) PROVE D!DeviceInv'
  BY <1>1, <1>5 DEF Settles, D!Next
<1>6. CASE DeviceAlone
  BY <1>1, <1>6, EndToEndAssumption DEF DeviceAlone, D!Next, Host, Sessions, Conns
<1> QED
  BY <1>2, <1>3, <1>4, <1>5, <1>6
  DEF Next, vars, Closes, Lost, Receives, Sends, ControllerAlone, DeviceIdle

-------------------------------------------------------------------------------
(* What the controller sends *)

(* The frames that carry no command. *)
Plain(n) == {HelloFrame(Version), ByeFrame, KeyxFrame(n)}
              \cup {PinVerifyFrame(pin, n) : pin \in Pins}

SpeaksPlainly ==
  \/ clientSent' = <<>>
  \/ /\ ws \in Conns /\ ws = clientKeys
     /\ \E f \in Plain(ws) : clientSent' = <<ws, f>>

LEMMA Connected ==
  ASSUME EndsInv PROVE ws = C!NoSocket \/ (ws \in Conns /\ ws = clientKeys)
<1>1. ws \in 0..made /\ made \in 0..MaxConns /\ MaxConns \in Nat
  BY EndToEndAssumption DEF EndsInv, C!TransportInv, C!TypeOK
<1> QED BY <1>1 DEF EndsInv, SocketInv, C!NoSocket, Conns

LEMMA SendsPlain ==
  ASSUME EndsInv, NEW f, C!Send(f), C!IsOpen(ws) => f \in Plain(clientKeys)
  PROVE  SpeaksPlainly
BY Connected DEF C!Send, C!IsOpen, SpeaksPlainly

LEMMA SilentPlain == C!Silent => SpeaksPlainly
BY DEF C!Silent, SpeaksPlainly

(* But for sendCommand, the Transport sends nothing that carries a command.*)
LEMMA PlainSteps ==
  ASSUME EndsInv,
         \/ \E m \in C!Modes : C!Connect(m)
         \/ C!Disconnect
         \/ \E n \in Conns : C!OnOpen(n) \/ C!OnClose(n)
         \/ C!HelloTimer
         \/ \E pin \in Pins : C!SubmitPin(pin)
         \/ \E n, f : C!OnMessage(n, f)
         \/ \E c \in Calls : C!CommandTimeout(c)
  PROVE  SpeaksPlainly /\ SocketInv'
<1>1. CASE C!Disconnect \/ \E m \in C!Modes : C!Connect(m)
  <2>1. C!Send(C!ByeFrame) /\ SocketInv'
    BY <1>1 DEF C!Connect, C!Disconnect, C!DisconnectFirst, SocketInv
  <2> QED BY <2>1, SendsPlain, ControllerFrames DEF Plain
<1>2. ASSUME NEW n \in Conns, C!OnOpen(n) PROVE SpeaksPlainly /\ SocketInv'
  <2>1. SocketInv'
    BY <1>2 DEF C!OnOpen, C!handshake, EndsInv, SocketInv
  <2>2. SpeaksPlainly
    <3>1. clientSent' = <<>> \/ (ws # C!NoSocket /\ clientSent' = <<ws, HelloFrame(Version)>>)
      BY <1>2, ControllerFrames DEF C!OnOpen
    <3> QED BY <3>1, Connected DEF SpeaksPlainly, Plain
  <2> QED BY <2>1, <2>2
<1>3. ASSUME NEW n \in Conns, C!OnClose(n) PROVE SpeaksPlainly /\ SocketInv'
  BY <1>3, SilentPlain DEF C!OnClose, SocketInv
<1>4. CASE C!HelloTimer
  <2>1. SocketInv'
    BY <1>4 DEF C!HelloTimer, C!handshake, EndsInv, SocketInv
  <2>2. C!Silent \/ C!Send(HelloFrame(Version))
    BY <1>4, ControllerFrames DEF C!HelloTimer, C!SendRelayHello
  <2> QED BY <2>1, <2>2, SilentPlain, SendsPlain DEF Plain
<1>5. ASSUME NEW pin \in Pins, C!SubmitPin(pin) PROVE SpeaksPlainly /\ SocketInv'
  <2>1. SocketInv' /\ C!Send(PinVerifyFrame(pin, clientKeys))
    BY <1>5, ControllerFrames DEF C!SubmitPin, EndsInv, SocketInv
  <2> QED BY <2>1, SendsPlain DEF Plain
<1>6. ASSUME NEW n, NEW f, C!OnMessage(n, f) PROVE SpeaksPlainly /\ SocketInv'
  <2>1. CASE C!HandleChallenge(f) \/ C!HandlePinNack \/ C!HandleKeyx(f) \/ C!HandleOther(f)
             \/ C!HandleEncrypted(f)
    BY <2>1, SilentPlain
    DEF C!HandleChallenge, C!HandlePinNack, C!HandleKeyx, C!HandleOther, C!HandleEncrypted,
        C!handshake, EndsInv, SocketInv
  <2>2. CASE C!HandlePinAck(f)
    <3>1. SocketInv' /\ (C!Silent \/ C!Send(KeyxFrame(clientKeys)))
      BY <2>2, ControllerFrames DEF C!HandlePinAck, EndsInv, SocketInv
    <3> QED BY <3>1, SilentPlain, SendsPlain DEF Plain
  <2> QED BY <1>1, <1>6, <2>1, <2>2 DEF C!OnMessage
<1>7. ASSUME NEW c \in Calls, C!CommandTimeout(c) PROVE SpeaksPlainly /\ SocketInv'
  BY <1>7, SilentPlain DEF C!CommandTimeout, C!handshake, EndsInv, SocketInv
<1> QED BY <1>1, <1>2, <1>3, <1>4, <1>5, <1>6, <1>7

(* What becomes of the calls meanwhile. *)
LEMMA CallsSettle ==
  ASSUME EndsInv,
         \/ \E m \in C!Modes : C!Connect(m)
         \/ C!Disconnect
         \/ \E n \in Conns : C!OnOpen(n) \/ C!OnClose(n)
         \/ C!HelloTimer
         \/ \E pin \in Pins : C!SubmitPin(pin)
         \/ \E c \in Calls : C!CommandTimeout(c)
  PROVE  \/ promise' = promise
         \/ \E c \in 1..Len(promise) :
              promise[c] = "pending" /\ promise' = [promise EXCEPT ![c] = "rejected"]
<1>1. ASSUME NEW c \in Calls, C!CommandTimeout(c), c \in pendingRes
      PROVE  /\ c \in 1..Len(promise) /\ promise[c] = "pending"
             /\ promise' = [promise EXCEPT ![c] = "rejected"]
  BY <1>1 DEF C!CommandTimeout, EndsInv, C!TransportInv, C!TypeOK
<1> QED
  BY <1>1 DEF C!Connect, C!Disconnect, C!DisconnectFirst, C!OnOpen, C!OnClose, C!HelloTimer,
              C!SubmitPin, C!CommandTimeout, C!requests

LEMMA CallsAnswered ==
  ASSUME EndsInv, NEW n, NEW f, C!OnMessage(n, f)
  PROVE  \/ promise' = promise
         \/ /\ f.type = "enc" /\ f.msg.id \in 1..Len(promise)
            /\ promise[f.msg.id] = "pending"
            /\ promise' = [promise EXCEPT ![f.msg.id] = "resolved"]
<1>1. CASE f.type = "enc" /\ C!HandleEncrypted(f) /\ f.msg.id \in pendingRes
  <2>1. f.msg.id \in 1..Len(promise) /\ promise[f.msg.id] = "pending"
    BY <1>1 DEF EndsInv, C!TransportInv, C!TypeOK
  <2> QED BY <1>1, <2>1 DEF C!HandleEncrypted
<1> QED
  BY <1>1 DEF C!OnMessage, C!HandleChallenge, C!HandlePinNack, C!HandleKeyx, C!HandleOther,
              C!HandlePinAck, C!HandleEncrypted, C!Disconnect, C!DisconnectFirst, C!requests

-------------------------------------------------------------------------------
(* The queues to the device *)

UpKept == up' \in [Conns -> Seq(UpFrames)] /\ UpInv' /\ OneCopy'

LEMMA PlainFrames ==
  ASSUME NEW n \in Conns, NEW f \in Plain(n)
  PROVE  f \in UpFrames /\ f.type # "enc" /\ (f.type \in {"pin_verify", "keyx"} => f.pub = n)
BY DEF Plain, UpFrames, HelloFrame, ByeFrame, KeyxFrame, PinVerifyFrame

LEMMA AppendPlain ==
  ASSUME EndsInv, SpeaksPlainly, up' = Upward,
         UNCHANGED <<asked, runs>>, Len(promise') = Len(promise)
  PROVE  UpKept
<1>1. CASE clientSent' = <<>>
  <2>1. up' = up
    BY <1>1 DEF Upward
  <2>2. up' \in [Conns -> Seq(UpFrames)] /\ OneCopy'
    BY <2>1 DEF EndsInv, WorldTypes, OneCopy
  <2>3. UpInv'
    BY <2>1 DEF EndsInv, UpInv, OwnFrame
  <2> QED BY <2>2, <2>3 DEF UpKept
<1>2. CASE clientSent' # <<>>
  <2>1. PICK f \in Plain(ws) : clientSent' = <<ws, f>>
    BY <1>2 DEF SpeaksPlainly
  <2>2. /\ ws \in Conns /\ up \in [Conns -> Seq(UpFrames)] /\ up[ws] \in Seq(UpFrames)
    BY <1>2 DEF SpeaksPlainly, EndsInv, WorldTypes
  <2>3. up' = [up EXCEPT ![ws] = Append(@, f)]
    BY <1>2, <2>1 DEF Upward
  <2>4. f \in UpFrames /\ f.type # "enc" /\ (f.type \in {"pin_verify", "keyx"} => f.pub = ws)
    BY <2>2, PlainFrames
  <2>5. /\ up'[ws] \in Seq(UpFrames) /\ Len(up'[ws]) = Len(up[ws]) + 1
        /\ \A i \in 1..Len(up[ws]) : up'[ws][i] = up[ws][i]
        /\ up'[ws][Len(up[ws]) + 1] = f /\ Len(up[ws]) \in Nat
    BY <2>2, <2>3, <2>4, AppendFacts
  <2>6. \A n \in Conns \ {ws} : up'[n] = up[n]
    BY <2>2, <2>3
  <2>7. up' \in [Conns -> Seq(UpFrames)]
    BY <2>2, <2>3, <2>4
  <2>8. \A n \in Conns : \A i \in 1..Len(up'[n]) :
          \/ i \in 1..Len(up[n]) /\ up'[n][i] = up[n][i]
          \/ n = ws /\ up'[n][i] = f
    BY <2>5, <2>6
  <2>9. UpInv'
    BY <2>4, <2>8 DEF EndsInv, UpInv, OwnFrame
  <2>10. OneCopy'
    <3>1. ASSUME NEW n \in Conns, NEW i \in 1..Len(up'[n]), up'[n][i].type = "enc"
          PROVE  i \in 1..Len(up[n]) /\ up'[n][i] = up[n][i]
      BY <2>4, <2>8, <3>1
    <3> QED BY <3>1 DEF EndsInv, OneCopy
  <2> QED BY <2>7, <2>9, <2>10 DEF UpKept
<1> QED BY <1>1, <1>2

LEMMA TailKept ==
  ASSUME EndsInv, NEW n \in Conns, up[n] # <<>>, up' = [up EXCEPT ![n] = Tail(@)],
         UNCHANGED <<asked, promise>>,
         \/ runs' = runs
         \/ up[n][1].type = "enc" /\ runs' = [runs EXCEPT ![up[n][1].msg.id] = 1]
  PROVE  UpKept
<1>1. up \in [Conns -> Seq(UpFrames)] /\ up[n] \in Seq(UpFrames)
  BY DEF EndsInv, WorldTypes
<1>2. /\ up'[n] \in Seq(UpFrames) /\ 1 \in 1..Len(up[n])
      /\ \A i \in 1..Len(up'[n]) : i + 1 \in 1..Len(up[n]) /\ up'[n][i] = up[n][i + 1]
  BY <1>1, TailFacts
<1>3. \A m \in Conns \ {n} : up'[m] = up[m]
  BY <1>1
<1>4. up' \in [Conns -> Seq(UpFrames)]
  BY <1>1, <1>2
<1>5. OneCopy'
  <2>1. ASSUME NEW i \in 1..Len(up'[n]), NEW j \in 1..Len(up'[n]),
               up'[n][i].type = "enc", up'[n][j].type = "enc",
               up'[n][i].msg.id = up'[n][j].msg.id
        PROVE  i = j
    <3>1. i + 1 \in 1..Len(up[n]) /\ j + 1 \in 1..Len(up[n])
      BY <1>2, <2>1
    <3>2. i + 1 = j + 1
      BY <1>2, <2>1, <3>1 DEF EndsInv, OneCopy
    <3> QED BY <3>2
  <2> QED BY <1>3, <2>1 DEF EndsInv, OneCopy
<1>6. ASSUME NEW m \in Conns, NEW i \in 1..Len(up'[m]) PROVE OwnFrame(m, up[m][i])'
  <2>1. PICK j \in 1..Len(up[m]) : up'[m][i] = up[m][j] /\ (m = n => j # 1)
    <3>1. CASE m = n
      <4>1. i + 1 \in 1..Len(up[n]) /\ up'[n][i] = up[n][i + 1] /\ i + 1 # 1
        BY <1>2, <1>6, <3>1
      <4> QED BY <3>1, <4>1
    <3> QED BY <1>3, <1>6, <3>1
  <2>2. OwnFrame(m, up[m][j])
    BY DEF EndsInv, UpInv
  <2>3. CASE runs' = runs
    BY <2>1, <2>2, <2>3 DEF OwnFrame
  <2>4. CASE up[n][1].type = "enc" /\ runs' = [runs EXCEPT ![up[n][1].msg.id] = 1]
    <3>1. OwnFrame(n, up[n][1])
      BY <1>2 DEF EndsInv, UpInv
    <3>2. up[m][j].type = "enc" => up[m][j].msg.id # up[n][1].msg.id
      <4>1. CASE m = n
        BY <1>2, <2>1, <2>4, <4>1 DEF EndsInv, OneCopy
      <4>2. CASE m # n
        BY <2>2, <2>4, <3>1, <4>2 DEF OwnFrame
      <4> QED BY <4>1, <4>2
    <3> QED BY <2>1, <2>2, <2>4, <3>2 DEF OwnFrame, EndsInv, WorldTypes
  <2> QED BY <2>3, <2>4
<1> QED BY <1>4, <1>5, <1>6 DEF UpKept, UpInv

LEMMA ClearedKept ==
  ASSUME EndsInv, NEW n \in Conns, up' \in {up, [up EXCEPT ![n] = <<>>]},
         UNCHANGED <<asked, runs>>, Len(promise') = Len(promise)
  PROVE  UpKept
<1>1. CASE up' = up
  BY <1>1 DEF UpKept, EndsInv, WorldTypes, UpInv, OwnFrame, OneCopy
<1>2. CASE up' = [up EXCEPT ![n] = <<>>]
  <2>1. up \in [Conns -> Seq(UpFrames)] /\ up' \in [Conns -> Seq(UpFrames)]
    BY <1>2 DEF EndsInv, WorldTypes
  <2>2. \A m \in Conns : \A i \in 1..Len(up'[m]) : up'[m] = up[m] /\ i \in 1..Len(up[m])
    BY <1>2, <2>1
  <2> QED BY <2>1, <2>2 DEF UpKept, EndsInv, UpInv, OwnFrame, OneCopy
<1> QED BY <1>1, <1>2

-------------------------------------------------------------------------------
(* What a session does with a frame *)

Unnumbered(q) == \A i \in 1..Len(q) : q[i].type # "enc"

(* A slot is given to one connection. *)
Pairs == \E p \in 1..MaxSlots, n \in Conns :
           bond[p] = NoConn /\ bond' = [bond EXCEPT ![p] = n]

(* One more command reaches the platform of session s. *)
Starts(s, f) ==
  /\ f.type = "enc" /\ f.msg.id \in Calls
  /\ \E k \in D!Keys :
       running' = [running EXCEPT ![s] = Append(@, [id |-> f.msg.id, key |-> k])]
  /\ runs' = [runs EXCEPT ![f.msg.id] = @ + 1]
  /\ \E p \in 1..MaxSlots : bond[p] = f.key.client

Answers(s) == /\ deviceSent' \in [Sessions -> Seq(DownFrames)]
              /\ Unnumbered(deviceSent'[s])

(* The histories beside a handler, as Handles keeps them. *)
Recorded(s) == offered' = Offered(s) /\ bond' = Bonded(s) /\ runs' = Ran(s)

LEMMA RunningLength ==
  ASSUME EndsInv, NEW s \in Sessions
  PROVE  /\ running \in [Sessions -> Seq(D!Commands)] /\ running[s] \in Seq(D!Commands)
         /\ Len(running[s]) \in Nat
BY DEF EndsInv, D!DeviceInv, D!TypeOK

LEMMA Answered ==
  ASSUME EndsInv, NEW s \in Sessions, D!Receiving(s), NEW q \in Seq(DownFrames),
         D!Send(s, q), Unnumbered(q)
  PROVE  Answers(s) /\ deviceSent'[s] = q
<1>1. link[s] = "open"
  BY DEF EndsInv, LinkInv, D!Receiving
<1>2. deviceSent' = [r \in Sessions |-> IF r = s THEN q ELSE <<>>]
  BY <1>1 DEF D!Send
<1> QED BY <1>2 DEF Answers

(* The handlers that neither pair nor run anything.  (challenge is one: a  *)
(* new handshake forgets the secret of the one before.)                    *)
LEMMA NoBond ==
  ASSUME EndsInv, NEW s \in Sessions, D!Receiving(s),
         NEW f \in DownFrames, f.type \in {"error", "pin_nack", "challenge"},
         D!Send(s, <<f>>), Recorded(s), running' = running
  PROVE  /\ Answers(s) /\ bond' = bond /\ runs' = runs
         /\ offered' \in [Sessions -> 0..MaxSlots]
<1>1. Answers(s) /\ deviceSent'[s] = <<f>>
  <2>1. <<f>> \in Seq(DownFrames) /\ Unnumbered(<<f>>)
    BY DEF Unnumbered
  <2> QED BY <2>1, Answered
<1>2. bond' = bond
  BY <1>1 DEF Recorded, Bonded, Says
<1>3. runs' = runs
  <2>1. ~(Len(running'[s]) > Len(running[s]))
    BY RunningLength
  <2> QED BY <2>1 DEF Recorded, Ran
<1>4. offered' \in [Sessions -> 0..MaxSlots]
  <2>1. f.type = "challenge" => f.salt \in 0..MaxSlots
    BY EndToEndAssumption
    DEF DownFrames, ChallengeFrame, PinAckFrame, KeyxFrame, PinNackFrame, ReadyFrame,
        ErrorFrame, EncFrame
  <2> QED BY <1>1, <2>1 DEF Recorded, Offered, Says, EndsInv, WorldTypes
<1> QED BY <1>1, <1>2, <1>3, <1>4

LEMMA ErrorsAreFrames ==
  \A e \in {"version", "no_pairing", "no_session", "bad_keyx", "key_switch", "not_ready",
            "replay", "decrypt", "bad_frame"} :
    D!ErrorFrame(e) \in DownFrames /\ D!ErrorFrame(e).type = "error"
BY DeviceFrames DEF DownFrames, ErrorFrame

LEMMA NackIsFrame == D!PinNackFrame \in DownFrames /\ D!PinNackFrame.type = "pin_nack"
BY DeviceFrames DEF DownFrames, PinNackFrame

(* The part of BondInv about the sessions, for a step that pairs none.     *)
LEMMA BondKept ==
  ASSUME EndsInv, bond' = bond, minted' \in {minted, minted + 1},
         pending' # NoSlot => \/ minted' = minted + 1
                              \/ pending # NoSlot /\ minted' = minted,
         \A s \in Sessions :
           /\ D!Paired(s)' => /\ D!Paired(s)
                              /\ hs'[s].pairingSecret = hs[s].pairingSecret
                              /\ hs'[s].clientPub = hs[s].clientPub
           /\ deviceKey'[s] = deviceKey[s]
  PROVE  BondInv'
<1>1. \A p \in 1..MaxSlots : p \in Nat
  BY EndToEndAssumption
<1>2. minted \in Nat
  BY DEF EndsInv, D!DeviceInv, D!TypeOK, D!PairingTypeOK
<1>3. \A p \in 1..MaxSlots :
        bond'[p] # NoConn => p <= minted' /\ (pending' # NoSlot => p < minted')
  BY <1>1, <1>2 DEF EndsInv, BondInv
<1> QED BY <1>3 DEF EndsInv, BondInv

Handled(s, f) ==
  /\ Answers(s) /\ BondInv' /\ offered' \in [Sessions -> 0..MaxSlots]
  /\ \/ (bond' = bond \/ Pairs) /\ runs' = runs /\ running' = running
     \/ bond' = bond /\ Starts(s, f)

LEMMA PendingSalt ==
  ASSUME EndsInv, pending # NoSlot
  PROVE  /\ pending.salt \in 1..MaxSlots /\ pending.salt = minted
         /\ pending.secret \in D!Secrets
BY DEF EndsInv, D!DeviceInv, D!TypeOK, D!PairingTypeOK, D!SlotInv, D!Slots, D!Salts

LEMMA HelloHandled ==
  ASSUME EndsInv, NEW s \in Sessions, NEW f, D!Receiving(s), D!HandleHello(s, f), Recorded(s)
  PROVE  Handled(s, f)
<1>1. UNCHANGED <<pending, minted, deviceKey, running>>
  BY DEF D!HandleHello, D!pairingVars
<1>2. PICK g \in DownFrames : /\ g.type \in {"error", "pin_nack", "challenge"}
                              /\ D!Send(s, <<g>>)
  <2>1. CASE pending # NoSlot /\ D!Send(s, <<D!ChallengeFrame(pending.salt)>>)
    <3>1. ChallengeFrame(pending.salt) \in DownFrames
      BY <2>1, PendingSalt DEF DownFrames
    <3> QED BY <2>1, <3>1, DeviceFrames DEF ChallengeFrame
  <2>2. CASE \E e \in {"version", "no_pairing"} : D!Send(s, <<D!ErrorFrame(e)>>)
    BY <2>2, ErrorsAreFrames
  <2> QED BY <2>1, <2>2 DEF D!HandleHello
<1>3. /\ Answers(s) /\ bond' = bond /\ runs' = runs
      /\ offered' \in [Sessions -> 0..MaxSlots]
  BY <1>1, <1>2, NoBond
<1>4. \A r \in Sessions : hs'[r] = hs[r] \/ ~D!Paired(r)'
  BY DEF D!HandleHello, D!FreshHandshake, D!Paired, EndsInv, D!DeviceInv, D!TypeOK
<1>5. BondInv'
  BY <1>1, <1>3, <1>4, BondKept DEF D!Paired
<1> QED BY <1>1, <1>3, <1>5 DEF Handled

(* An error, a nack or nothing is said, and no session is touched.         *)
LEMMA RefusalHandled ==
  ASSUME EndsInv, NEW s \in Sessions, NEW f, D!Receiving(s), Recorded(s),
         UNCHANGED <<minted, hs, deviceKey, running>>,
         pending' # NoSlot => pending # NoSlot,
         \/ D!Send(s, <<D!PinNackFrame>>)
         \/ \E e \in {"version", "no_pairing", "no_session", "bad_keyx", "key_switch",
                      "not_ready", "replay", "decrypt", "bad_frame"} :
              D!Send(s, <<D!ErrorFrame(e)>>)
  PROVE  Handled(s, f)
<1>1. PICK g \in DownFrames : /\ g.type \in {"error", "pin_nack", "challenge"}
                              /\ D!Send(s, <<g>>)
  BY ErrorsAreFrames, NackIsFrame
<1>2. /\ Answers(s) /\ bond' = bond /\ runs' = runs
      /\ offered' \in [Sessions -> 0..MaxSlots]
  BY <1>1, NoBond
<1>3. BondInv'
  BY <1>2, BondKept DEF D!Paired
<1> QED BY <1>2, <1>3 DEF Handled

LEMMA SilenceHandled ==
  ASSUME EndsInv, NEW s \in Sessions, NEW f, Recorded(s), D!Silent,
         UNCHANGED <<pending, minted, hs, deviceKey, running>>
  PROVE  Handled(s, f)
<1>1. Answers(s) /\ deviceSent'[s] = <<>>
  BY DEF D!Silent, Answers, Unnumbered
<1>2. offered' = offered /\ bond' = bond
  BY <1>1 DEF Recorded, Offered, Bonded, Says
<1>3. runs' = runs
  <2>1. ~(Len(running'[s]) > Len(running[s]))
    BY RunningLength
  <2> QED BY <2>1 DEF Recorded, Ran
<1>4. BondInv'
  BY <1>2, BondKept DEF D!Paired
<1> QED BY <1>1, <1>2, <1>3, <1>4 DEF Handled, EndsInv, WorldTypes

LEMMA PairingHandled ==
  ASSUME EndsInv, D!DeviceInv', NEW s \in Sessions, NEW f, D!Receiving(s),
         D!PinAccepted(s, f), D!Consumable, Recorded(s)
  PROVE  Handled(s, f)
<1> DEFINE p == pending.secret.salt
<1>1. /\ pending # NoSlot /\ pending' = NoSlot /\ p = minted /\ p \in 1..MaxSlots
      /\ pending.secret \in D!Secrets /\ f.pub \in Conns
      /\ minted' = minted /\ deviceKey' = deviceKey /\ running' = running
      /\ hs[s] # NoHandshake
  BY PendingSalt
  DEF D!PinAccepted, D!Consumable, D!PinMatches, D!HashPin, D!ConsumePending, D!AfterConsume
<1>2. /\ \A r \in Sessions \ {s} : hs'[r] = hs[r]
      /\ hs'[s].pairingSecret = pending.secret /\ hs'[s].clientPub = f.pub
  <2>1. hs[s] \in D!Handshakes
    BY <1>1, D!HandshakeTypes, DeviceAssumptions DEF EndsInv, D!DeviceInv
  <2> QED BY <2>1 DEF D!PinAccepted, D!Handshakes, EndsInv, D!DeviceInv, D!TypeOK
<1>3. Answers(s) /\ deviceSent'[s] = <<PinAckFrame(hs[s].serverKeys)>>
  <2>1. PinAckFrame(hs[s].serverKeys) \in DownFrames
    BY <1>1, D!HandshakeTypes, DeviceAssumptions DEF EndsInv, D!DeviceInv, DownFrames
  <2>2. D!Send(s, <<PinAckFrame(hs[s].serverKeys)>>)
    BY DeviceFrames DEF D!PinAccepted
  <2>3. /\ <<PinAckFrame(hs[s].serverKeys)>> \in Seq(DownFrames)
        /\ Unnumbered(<<PinAckFrame(hs[s].serverKeys)>>)
    BY <2>1 DEF Unnumbered, PinAckFrame
  <2> QED BY <2>2, <2>3, Answered
<1>4. bond' = [bond EXCEPT ![p] = f.pub] /\ offered' = offered
  BY <1>2, <1>3 DEF Recorded, Bonded, Offered, Says, PinAckFrame
<1>5. runs' = runs
  <2>1. ~(Len(running'[s]) > Len(running[s]))
    BY <1>1, RunningLength
  <2> QED BY <2>1 DEF Recorded, Ran
<1>6. bond[p] = NoConn
  BY <1>1 DEF EndsInv, BondInv
<1>7. Pairs
  BY <1>1, <1>4, <1>6 DEF Pairs
<1>8. bond \in [1..MaxSlots -> Conns \cup {NoConn}] /\ minted \in Nat
  BY DEF EndsInv, WorldTypes, D!DeviceInv, D!TypeOK, D!PairingTypeOK
<1>9. BondInv'
  <2>1. \A q \in 1..MaxSlots :
          bond'[q] # NoConn => q <= minted' /\ (pending' # NoSlot => q < minted')
    BY <1>1, <1>4, <1>8 DEF EndsInv, BondInv
  <2>2. \A r \in Sessions \ {s} :
          D!Paired(r)' => bond'[hs'[r].pairingSecret.salt] = hs'[r].clientPub
    <3> SUFFICES ASSUME NEW r \in Sessions \ {s}, D!Paired(r)'
                 PROVE  bond'[hs'[r].pairingSecret.salt] = hs'[r].clientPub
      OBVIOUS
    <3>1. D!Paired(r) /\ hs'[r] = hs[r]
      BY <1>2 DEF D!Paired
    <3>2. hs[r].pairingSecret.salt # p
      BY <1>1, <3>1 DEF EndsInv, D!DeviceInv, D!SessionInv, D!HeldInv, D!SlotsHeld
    <3> QED BY <1>4, <1>8, <3>1, <3>2 DEF EndsInv, BondInv
  <2>3. bond'[hs'[s].pairingSecret.salt] = hs'[s].clientPub
    BY <1>1, <1>2, <1>4, <1>8
  <2>4. ASSUME NEW r \in Sessions, deviceKey'[r] # NoKey
        PROVE  bond'[deviceKey'[r].secret.salt] = deviceKey'[r].client
    <3>1. deviceKey[r].secret.salt # p
      <4>1. pending # NoSlot /\ p = minted /\ deviceKey[r] # NoKey
        BY <1>1, <2>4
      <4>2. minted \notin D!SlotsHeld(r)
        BY <1>8, <4>1 DEF EndsInv, D!DeviceInv, D!SessionInv, D!HeldInv
      <4> QED BY <4>1, <4>2 DEF D!SlotsHeld
    <3> QED BY <1>1, <1>4, <1>8, <2>4, <3>1 DEF EndsInv, BondInv
  <2> QED BY <2>1, <2>2, <2>3, <2>4 DEF BondInv
<1> QED BY <1>1, <1>3, <1>4, <1>5, <1>7, <1>9 DEF Handled, EndsInv, WorldTypes

LEMMA KeyHandled ==
  ASSUME EndsInv, D!DeviceInv', NEW s \in Sessions, NEW f, D!Receiving(s), Recorded(s),
         D!HandleKeyx(s, f), D!Paired(s), D!SameClient(s, f.pub)
  PROVE  Handled(s, f)
<1> DEFINE key == [server |-> hs[s].serverKeys, client |-> f.pub,
                   secret |-> hs[s].pairingSecret]
<1>1. /\ hs[s] # NoHandshake /\ hs[s].serverKeys \in 1..MaxKeys /\ hs[s] \in D!Handshakes
  BY D!HandshakeTypes, DeviceAssumptions DEF EndsInv, D!DeviceInv, D!Paired
<1>2. hs[s].clientPub = f.pub
  BY <1>1, EndToEndAssumption
  DEF EndsInv, D!DeviceInv, D!SessionInv, D!HandshakeInv, D!SameClient
<1>3. /\ UNCHANGED <<pending, minted, running>> /\ hs' = hs
      /\ deviceKey' = [deviceKey EXCEPT ![s] = key]
      /\ D!Send(s, <<KeyxFrame(hs[s].serverKeys), ReadyFrame>>)
  <2>1. /\ UNCHANGED <<pending, minted, running>>
        /\ hs' = [hs EXCEPT ![s].clientPub = f.pub]
        /\ deviceKey' = [deviceKey EXCEPT ![s] = key]
    BY DEF D!HandleKeyx, D!pairingVars, D!DeriveKey
  <2>2. D!Send(s, <<KeyxFrame(hs[s].serverKeys), ReadyFrame>>)
    BY DeviceFrames DEF D!HandleKeyx
  <2>3. hs' = hs
    BY <1>1, <1>2, <2>1 DEF D!Handshakes, EndsInv, D!DeviceInv, D!TypeOK
  <2> QED BY <2>1, <2>2, <2>3
<1>4. Answers(s) /\ deviceSent'[s] = <<KeyxFrame(hs[s].serverKeys), ReadyFrame>>
  <2>1. KeyxFrame(hs[s].serverKeys) \in DownFrames /\ ReadyFrame \in DownFrames
    BY <1>1 DEF DownFrames
  <2>2. /\ <<KeyxFrame(hs[s].serverKeys), ReadyFrame>> \in Seq(DownFrames)
        /\ Unnumbered(<<KeyxFrame(hs[s].serverKeys), ReadyFrame>>)
    BY <2>1 DEF Unnumbered, KeyxFrame, ReadyFrame
  <2> QED BY <1>3, <2>2, Answered
<1>5. bond' = bond /\ offered' = offered
  BY <1>4 DEF Recorded, Bonded, Offered, Says, KeyxFrame
<1>6. runs' = runs
  <2>1. ~(Len(running'[s]) > Len(running[s]))
    BY <1>3, RunningLength
  <2> QED BY <2>1 DEF Recorded, Ran
<1>7. BondInv'
  <2>1. bond[key.secret.salt] = key.client
    BY <1>2 DEF EndsInv, BondInv
  <2>2. deviceKey \in [Sessions -> D!Keys \cup {NoKey}]
    BY DEF EndsInv, D!DeviceInv, D!TypeOK
  <2> HIDE DEF key
  <2> QED BY <1>3, <1>5, <2>1, <2>2 DEF EndsInv, BondInv, D!Paired
<1> QED BY <1>3, <1>4, <1>5, <1>6, <1>7 DEF Handled, EndsInv, WorldTypes

(* A frame that carries a command has these fields. *)
LEMMA CommandFields ==
  ASSUME NEW f \in UpFrames, f.type = "enc"
  PROVE  /\ f.key \in D!Keys /\ f.s \in 1..MaxIds
         /\ f.msg.type = "cmd" /\ f.msg.id \in Calls
<1>1. PICK k \in D!Keys, q \in 1..MaxIds, c \in Calls : f = EncFrame(k, q, Cmd(c))
  BY DEF UpFrames, HelloFrame, ByeFrame, PinVerifyFrame, KeyxFrame
<1> QED BY <1>1 DEF EncFrame, Cmd

LEMMA CommandHandled ==
  ASSUME EndsInv, D!DeviceInv', NEW s \in Sessions, NEW f \in UpFrames, D!Receiving(s),
         Recorded(s), f.type = "enc", D!PayloadOpened(s, f)
  PROVE  Handled(s, f)
<1> DEFINE cmd == [id |-> f.msg.id, key |-> deviceKey[s]]
<1>1. /\ f.key \in D!Keys /\ f.key = deviceKey[s] /\ f.msg.id \in Calls
      /\ deviceKey[s] # NoKey /\ hs[s] # NoHandshake
  BY CommandFields DEF D!PayloadOpened, D!Opens, D!Ready
<1>2. /\ UNCHANGED <<pending, minted, deviceKey>> /\ D!Silent
      /\ hs' = [hs EXCEPT ![s].recvSeq = f.s]
      /\ running' = [running EXCEPT ![s] = Append(@, cmd)]
  <2>1. f.msg.type = "cmd"
    BY CommandFields
  <2>2. /\ UNCHANGED <<pending, minted, deviceKey>> /\ D!Silent
        /\ hs' = [hs EXCEPT ![s].recvSeq = f.s]
    BY DEF D!PayloadOpened, D!pairingVars
  <2>3. running' = [running EXCEPT ![s] = Append(@, cmd)]
    BY <2>1 DEF D!PayloadOpened
  <2> QED BY <2>2, <2>3
<1>3. Answers(s) /\ deviceSent'[s] = <<>>
  BY <1>2 DEF D!Silent, Answers, Unnumbered
<1>4. bond' = bond /\ offered' = offered
  BY <1>3 DEF Recorded, Bonded, Offered, Says
<1>5. cmd \in D!Commands
  BY <1>1 DEF D!Commands
<1>6. running'[s] = Append(running[s], cmd) /\ running[s] \in Seq(D!Commands)
  BY <1>2, RunningLength
<1>7. runs' = [runs EXCEPT ![f.msg.id] = @ + 1]
  <2>1. /\ Len(running'[s]) = Len(running[s]) + 1
        /\ running'[s][Len(running'[s])] = cmd /\ Len(running[s]) \in Nat
    BY <1>5, <1>6, AppendFacts
  <2>2. Len(running'[s]) > Len(running[s]) /\ Last(running'[s]) = cmd
    BY <2>1 DEF Last
  <2> QED BY <2>2 DEF Recorded, Ran
<1>8. Starts(s, f)
  <2>1. f.key.secret.salt \in 1..MaxSlots
    BY <1>1 DEF D!Keys, D!Secrets, D!Salts
  <2>2. bond[f.key.secret.salt] = f.key.client
    BY <1>1 DEF EndsInv, BondInv
  <2> QED BY <1>1, <1>2, <1>7, <2>1, <2>2 DEF Starts
<1>9. BondInv'
  <2>1. hs[s] \in D!Handshakes
    BY <1>1, D!HandshakeTypes, DeviceAssumptions DEF EndsInv, D!DeviceInv
  <2>2. /\ \A r \in Sessions \ {s} : hs'[r] = hs[r]
        /\ hs'[s].pairingSecret = hs[s].pairingSecret /\ hs'[s].clientPub = hs[s].clientPub
    BY <1>2, <2>1 DEF D!Handshakes, EndsInv, D!DeviceInv, D!TypeOK
  <2> QED BY <1>1, <1>2, <1>4, <2>2, BondKept DEF D!Paired
<1> QED BY <1>3, <1>4, <1>8, <1>9 DEF Handled, EndsInv, WorldTypes

LEMMA FrameHandled ==
  ASSUME EndsInv, D!DeviceInv', NEW s \in Sessions, NEW f \in UpFrames,
         D!HandleFrame(s, f), Recorded(s)
  PROVE  Handled(s, f)
<1>1. D!Receiving(s)
  BY DEF D!HandleFrame
<1>2. CASE D!HandleHello(s, f)
  BY <1>1, <1>2, HelloHandled
<1>3. CASE D!PinBeforeHello(s, f) \/ D!PayloadRefused(s, f)
  <2>1. UNCHANGED <<pending, minted, hs, deviceKey, running>>
    BY <1>3 DEF D!PinBeforeHello, D!PayloadRefused, D!pairingVars, D!sessionVars
  <2>2. \E e \in {"no_session", "not_ready", "replay", "decrypt"} :
          D!Send(s, <<D!ErrorFrame(e)>>)
    BY <1>3 DEF D!PinBeforeHello, D!PayloadRefused
  <2> QED BY <1>1, <2>1, <2>2, RefusalHandled
<1>4. CASE D!PinRefused(s, f) \/ D!PinWithBadPub(s, f)
  <2>1. /\ UNCHANGED <<minted, hs, deviceKey, running>> /\ D!Send(s, <<D!PinNackFrame>>)
        /\ pending' # NoSlot => pending # NoSlot
    BY <1>4 DEF D!PinRefused, D!PinFails, D!PinWithBadPub, D!sessionVars, D!pairingVars
  <2> QED BY <1>1, <2>1, RefusalHandled
<1>5. CASE D!PinAccepted(s, f) /\ ~D!Consumable
  <2>1. /\ UNCHANGED <<minted, hs, deviceKey, running>> /\ D!Send(s, <<D!PinNackFrame>>)
        /\ pending' = NoSlot
    BY <1>5 DEF D!PinAccepted, D!ConsumePending, D!AfterConsume
  <2> QED BY <1>1, <2>1, RefusalHandled
<1>6. CASE D!PinAccepted(s, f) /\ D!Consumable
  BY <1>1, <1>6, PairingHandled
<1>7. CASE D!HandleKeyx(s, f) /\ ~(D!Paired(s) /\ D!SameClient(s, f.pub))
  <2>1. UNCHANGED <<pending, minted, hs, deviceKey, running>>
    BY <1>7 DEF D!HandleKeyx, D!pairingVars
  <2>2. \E e \in {"no_pairing", "bad_keyx", "key_switch"} : D!Send(s, <<D!ErrorFrame(e)>>)
    BY <1>7 DEF D!HandleKeyx
  <2> QED BY <1>1, <2>1, <2>2, RefusalHandled
<1>8. CASE D!HandleKeyx(s, f) /\ D!Paired(s) /\ D!SameClient(s, f.pub)
  BY <1>1, <1>8, KeyHandled
<1>9. CASE f.type = "enc" /\ D!PayloadOpened(s, f)
  BY <1>1, <1>9, CommandHandled
<1>10. CASE D!HandleOther(s, f)
  <2>1. UNCHANGED <<pending, minted, hs, deviceKey, running>>
    BY <1>10 DEF D!HandleOther, D!pairingVars, D!sessionVars
  <2>2. D!Silent \/ D!Send(s, <<D!ErrorFrame("bad_frame")>>)
    BY <1>10 DEF D!HandleOther
  <2> QED BY <1>1, <2>1, <2>2, RefusalHandled, SilenceHandled
<1> QED
  BY <1>2, <1>3, <1>4, <1>5, <1>6, <1>7, <1>8, <1>9, <1>10
  DEF D!HandleFrame, D!HandlePinVerify, D!HandleEncrypted

-------------------------------------------------------------------------------
(* Every step keeps the invariant and is one of RemoteControl, or none     *)

Fates == [c \in Calls |-> Fate(c)]
Refined == [Abstract!Next]_(Abstract!vars)

LEMMA Unseen ==
  ASSUME UNCHANGED <<bond, asked, runs, promise>> PROVE Refined
<1>1. Fates' = Fates
  BY DEF Fates, Fate
<1> QED BY <1>1 DEF Refined, Abstract!vars, Fates

LEMMA PromiseLength ==
  ASSUME EndsInv
  PROVE  /\ Len(promise) \in 0..MaxIds /\ 1..Len(promise) \subseteq Calls
         /\ promise \in Seq({"pending", "resolved", "rejected"})
<1>1. /\ Len(promise) <= MaxIds /\ promise \in Seq({"pending", "resolved", "rejected"})
  BY DEF EndsInv, C!TransportInv, C!TypeOK, C!CountedInv
<1> QED BY <1>1, EndToEndAssumption DEF Calls

LEMMA FateMoves ==
  ASSUME EndsInv, NEW c \in 1..Len(promise), NEW x \in {"pending", "resolved", "rejected"},
         promise' = [promise EXCEPT ![c] = x]
  PROVE  /\ Len(promise') = Len(promise) /\ c \in Calls /\ Fates[c] = promise[c]
         /\ Fates' = [Fates EXCEPT ![c] = x]
<1>1. c \in Calls /\ Len(promise') = Len(promise) /\ Fates[c] = promise[c]
  BY PromiseLength DEF Fates, Fate
<1>2. \A d \in Calls : Fates'[d] = IF d = c THEN x ELSE Fates[d]
  BY <1>1, PromiseLength DEF Fates, Fate, Calls
<1> QED BY <1>1, <1>2 DEF Fates

(* What holds of the device's side while it is still. *)
LEMMA DeviceStill ==
  ASSUME EndsInv, UNCHANGED <<pending, minted, hs, deviceKey, running, bond, runs>>,
         \A s \in Sessions : \A i \in 1..Len(down'[s]) :
           \E j \in 1..Len(down[s]) : down'[s][i] = down[s][j]
  PROVE  BondInv' /\ RanInv'
<1>1. BondInv'
  BY BondKept DEF D!Paired
<1>2. RanInv'
  BY DEF EndsInv, RanInv
<1> QED BY <1>1, <1>2

LEMMA OpensStep ==
  ASSUME EndsInv, C!TransportInv', D!DeviceInv', NEW n \in Conns, Opens(n)
  PROVE  EndsInv' /\ Refined
<1>1. SpeaksPlainly /\ SocketInv'
  BY PlainSteps DEF Opens
<1>2. UNCHANGED <<via, down, offered, bond, asked, runs, promise>> /\ up' = Upward
  BY DEF Opens, history, C!OnOpen, C!requests
<1>3. UNCHANGED <<pending, minted, hs, deviceKey, running>>
  BY DEF Opens, DeviceIdle, device, D!Connect, D!pairingVars, D!sessionVars
<1>4. UpKept
  BY <1>1, <1>2, AppendPlain
<1>5. LinkInv'
  BY DEF Opens, DeviceIdle, device, D!Connect, EndsInv, LinkInv, D!DeviceInv, D!TypeOK
<1>6. WorldTypes'
  <2>1. peer' \in [Sessions -> Conns \cup {NoConn}]
    BY DEF Opens, EndsInv, WorldTypes, Sessions
  <2> QED BY <1>2, <1>4, <2>1 DEF EndsInv, WorldTypes, UpKept
<1>7. BondInv' /\ RanInv'
  BY <1>2, <1>3, DeviceStill
<1>8. CallsInv'
  BY <1>2 DEF EndsInv, CallsInv
<1> QED BY <1>1, <1>2, <1>4, <1>5, <1>6, <1>7, <1>8, Unseen DEF EndsInv, UpKept

LEMMA ClosesStep ==
  ASSUME EndsInv, C!TransportInv', D!DeviceInv', NEW n \in Conns, Closes(n)
  PROVE  EndsInv' /\ Refined
<1>1. SocketInv'
  BY PlainSteps DEF Closes
<1>2. UNCHANGED <<via, down, peer, offered, bond, asked, runs, promise>>
  BY DEF Closes, history, C!OnClose, C!requests
<1>3. UNCHANGED <<pending, minted, link, hs, deviceKey, running>>
  BY DEF Closes, DeviceIdle, device
<1>4. UpKept
  BY <1>2, ClearedKept DEF Closes
<1>5. LinkInv' /\ WorldTypes' /\ CallsInv'
  BY <1>2, <1>3, <1>4 DEF EndsInv, LinkInv, WorldTypes, CallsInv, UpKept
<1>6. BondInv' /\ RanInv'
  BY <1>2, <1>3, DeviceStill
<1> QED BY <1>1, <1>2, <1>4, <1>5, <1>6, Unseen DEF EndsInv, UpKept

LEMMA LeavesStep ==
  ASSUME EndsInv, C!TransportInv', D!DeviceInv', NEW n \in Conns, Leaves(n)
  PROVE  EndsInv' /\ Refined
<1>1. UNCHANGED <<ws, clientKeys, promise, via, up, down, offered, bond, asked, runs>>
  BY DEF Leaves, ControllerIdle, controller, history
<1>2. UNCHANGED <<pending, minted, hs, deviceKey, running>>
  BY DEF Leaves, DeviceIdle, device, D!Disconnect, D!pairingVars, D!sessionVars
<1>3. LinkInv'
  BY DEF Leaves, DeviceIdle, device, D!Disconnect, EndsInv, LinkInv, D!DeviceInv, D!TypeOK
<1>4. SocketInv' /\ UpInv' /\ OneCopy' /\ CallsInv'
  BY <1>1 DEF EndsInv, SocketInv, UpInv, OwnFrame, OneCopy, CallsInv
<1>5. WorldTypes'
  <2>1. peer' \in [Sessions -> Conns \cup {NoConn}]
    BY DEF Leaves, EndsInv, WorldTypes
  <2> QED BY <1>1, <2>1 DEF EndsInv, WorldTypes
<1>6. BondInv' /\ RanInv'
  BY <1>1, <1>2, DeviceStill
<1> QED BY <1>1, <1>3, <1>4, <1>5, <1>6, Unseen DEF EndsInv

LEMMA LostStep ==
  ASSUME EndsInv, C!TransportInv', D!DeviceInv', NEW n \in Conns, Lost(n)
  PROVE  EndsInv' /\ Refined
<1>1. UNCHANGED <<ws, clientKeys, promise, via, down, peer, offered, bond, asked, runs>>
  BY DEF Lost, ControllerIdle, controller, history
<1>2. UNCHANGED <<pending, minted, link, hs, deviceKey, running>>
  BY DEF Lost, DeviceIdle, device
<1>3. UpKept
  BY <1>1, TailKept DEF Lost
<1>4. SocketInv' /\ LinkInv' /\ WorldTypes' /\ CallsInv'
  BY <1>1, <1>2, <1>3 DEF EndsInv, SocketInv, LinkInv, WorldTypes, CallsInv, UpKept
<1>5. BondInv' /\ RanInv'
  BY <1>1, <1>2, DeviceStill
<1> QED BY <1>1, <1>3, <1>4, <1>5, Unseen DEF EndsInv, UpKept

LEMMA ControllerAloneStep ==
  ASSUME EndsInv, C!TransportInv', D!DeviceInv', ControllerAlone
  PROVE  EndsInv' /\ Refined
<1>1. /\ via \in C!Modes
      /\ \/ \E m \in C!Modes : C!Connect(m)
         \/ C!Disconnect \/ C!HelloTimer
         \/ \E pin \in Pins : C!SubmitPin(pin)
         \/ \E c \in Calls : C!CommandTimeout(c)
  BY DEF ControllerAlone, User, EndsInv, WorldTypes
<1>2. SpeaksPlainly /\ SocketInv'
  BY <1>1, PlainSteps
<1>3. UNCHANGED <<via, down, peer, offered, bond, asked, runs>> /\ up' = Upward
  BY DEF ControllerAlone, history
<1>4. UNCHANGED <<pending, minted, link, hs, deviceKey, running>>
  BY DEF ControllerAlone, DeviceIdle, device
<1>5. Len(promise') = Len(promise) /\ Refined
  <2>1. CASE promise' = promise
    BY <1>3, <2>1, Unseen
  <2>2. CASE \E c \in 1..Len(promise) :
               promise[c] = "pending" /\ promise' = [promise EXCEPT ![c] = "rejected"]
    <3>1. PICK c \in 1..Len(promise) :
            promise[c] = "pending" /\ promise' = [promise EXCEPT ![c] = "rejected"]
      BY <2>2
    <3>2. /\ Len(promise') = Len(promise) /\ c \in Calls /\ Fates[c] = "pending"
          /\ Fates' = [Fates EXCEPT ![c] = "rejected"]
      BY <3>1, FateMoves
    <3>3. Abstract!Fail(c)
      BY <1>3, <3>2 DEF Abstract!Fail, Fates
    <3> QED BY <3>2, <3>3 DEF Refined, Abstract!Next
  <2> QED BY <1>1, <2>1, <2>2, CallsSettle
<1>6. UpKept
  BY <1>2, <1>3, <1>5, AppendPlain
<1>7. LinkInv' /\ WorldTypes' /\ CallsInv'
  BY <1>3, <1>4, <1>5, <1>6 DEF EndsInv, LinkInv, WorldTypes, CallsInv, UpKept
<1>8. BondInv' /\ RanInv'
  BY <1>3, <1>4, DeviceStill
<1> QED BY <1>2, <1>5, <1>6, <1>7, <1>8 DEF EndsInv, UpKept

(* What session s says goes to the end of its queue. *)
LEMMA DownGrows ==
  ASSUME EndsInv, NEW s \in Sessions, down' = Downward(s),
         deviceSent' \in [Sessions -> Seq(DownFrames)]
  PROVE  /\ down' \in [Sessions -> Seq(DownFrames)]
         /\ \A r \in Sessions : \A i \in 1..Len(down'[r]) :
              \/ i \in 1..Len(down[r]) /\ down'[r][i] = down[r][i]
              \/ r = s /\ \E j \in 1..Len(deviceSent'[s]) : down'[r][i] = deviceSent'[s][j]
<1>1. /\ down \in [Sessions -> Seq(DownFrames)] /\ down[s] \in Seq(DownFrames)
      /\ deviceSent'[s] \in Seq(DownFrames)
  BY DEF EndsInv, WorldTypes
<1>2. /\ down'[s] = down[s] \o deviceSent'[s]
      /\ \A r \in Sessions \ {s} : down'[r] = down[r]
  BY <1>1 DEF Downward
<1>3. /\ down'[s] \in Seq(DownFrames)
      /\ Len(down'[s]) = Len(down[s]) + Len(deviceSent'[s])
      /\ \A i \in 1..(Len(down[s]) + Len(deviceSent'[s])) :
           down'[s][i] = IF i <= Len(down[s]) THEN down[s][i]
                         ELSE deviceSent'[s][i - Len(down[s])]
  BY <1>1, <1>2, ConcatProperties
<1>4. down' \in [Sessions -> Seq(DownFrames)]
  BY <1>1, <1>3 DEF Downward
<1>5. ASSUME NEW i \in 1..Len(down'[s])
      PROVE  \/ i \in 1..Len(down[s]) /\ down'[s][i] = down[s][i]
             \/ \E j \in 1..Len(deviceSent'[s]) : down'[s][i] = deviceSent'[s][j]
  <2>1. Len(down[s]) \in Nat /\ Len(deviceSent'[s]) \in Nat
    BY <1>1
  <2>2. CASE i <= Len(down[s])
    BY <1>3, <2>1, <2>2
  <2>3. CASE ~(i <= Len(down[s]))
    <3>1. /\ i - Len(down[s]) \in 1..Len(deviceSent'[s])
          /\ down'[s][i] = deviceSent'[s][i - Len(down[s])]
      BY <1>3, <2>1, <2>3
    <3> QED BY <3>1
  <2> QED BY <2>2, <2>3
<1>6. ASSUME NEW r \in Sessions, NEW i \in 1..Len(down'[r])
      PROVE  \/ i \in 1..Len(down[r]) /\ down'[r][i] = down[r][i]
             \/ r = s /\ \E j \in 1..Len(deviceSent'[s]) : down'[r][i] = deviceSent'[s][j]
  <2>1. CASE r = s
    BY <1>5, <2>1
  <2>2. CASE r # s
    BY <1>2, <2>2
  <2> QED BY <2>1, <2>2
<1> QED BY <1>4, <1>6

(* RanInv when the device starts nothing and says nothing that is sealed.  *)
LEMMA NothingRuns ==
  ASSUME EndsInv, NEW s \in Sessions, down' = Downward(s), Answers(s),
         running' = running, runs' = runs
  PROVE  RanInv'
<1>1. \A r \in Sessions : \A i \in 1..Len(down'[r]) :
        \/ i \in 1..Len(down[r]) /\ down'[r][i] = down[r][i]
        \/ down'[r][i].type # "enc"
  BY DownGrows DEF Answers, Unnumbered
<1> QED BY <1>1 DEF EndsInv, RanInv

(* RanInv when it starts a command that has not run.                       *)
LEMMA OneRuns ==
  ASSUME EndsInv, NEW s \in Sessions, NEW f, down' = Downward(s), Answers(s),
         Starts(s, f), runs[f.msg.id] = 0
  PROVE  RanInv' /\ runs' = [runs EXCEPT ![f.msg.id] = 1]
<1>1. runs' = [runs EXCEPT ![f.msg.id] = 1] /\ runs \in [Calls -> {0, 1}]
  BY DEF Starts, EndsInv, WorldTypes
<1>2. \A r \in Sessions : \A i \in 1..Len(down'[r]) :
        \/ i \in 1..Len(down[r]) /\ down'[r][i] = down[r][i]
        \/ down'[r][i].type # "enc"
  BY DownGrows DEF Answers, Unnumbered
<1>3. \A c : runs[c] = 1 => runs'[c] = 1
  BY <1>1 DEF Starts
<1>4. \A r \in Sessions : \A i \in 1..Len(running'[r]) :
        \/ i \in 1..Len(running[r]) /\ running'[r][i] = running[r][i]
        \/ running'[r][i].id = f.msg.id
  <2>1. PICK k \in D!Keys :
          running' = [running EXCEPT ![s] = Append(@, [id |-> f.msg.id, key |-> k])]
    BY DEF Starts
  <2>2. [id |-> f.msg.id, key |-> k] \in D!Commands
    BY DEF D!Commands, Starts
  <2>3. /\ running'[s] = Append(running[s], [id |-> f.msg.id, key |-> k])
        /\ \A r \in Sessions \ {s} : running'[r] = running[r]
    BY <2>1, RunningLength
  <2>4. /\ Len(running'[s]) = Len(running[s]) + 1 /\ Len(running[s]) \in Nat
        /\ \A i \in 1..Len(running[s]) : running'[s][i] = running[s][i]
        /\ running'[s][Len(running[s]) + 1] = [id |-> f.msg.id, key |-> k]
    BY <2>2, <2>3, RunningLength, AppendFacts
  <2> QED BY <2>3, <2>4
<1>5. runs'[f.msg.id] = 1
  BY <1>1 DEF Starts
<1> QED BY <1>1, <1>2, <1>3, <1>4, <1>5 DEF EndsInv, RanInv

LEMMA HandlesStep ==
  ASSUME EndsInv, C!TransportInv', D!DeviceInv', NEW n \in Conns, Handles(n)
  PROVE  EndsInv' /\ Refined
<1> DEFINE s == SessionOf(n)
           f == Head(up[n])
<1>1. UNCHANGED <<ws, clientKeys, promise, via, peer, asked>>
  BY DEF Handles, ControllerIdle, controller
<1>2. s \in Sessions /\ up[n] # <<>> /\ up[n] \in Seq(UpFrames)
  BY EndToEndAssumption DEF Handles, SessionOf, Sessions, Host, Conns, EndsInv, WorldTypes
<1>3. f \in UpFrames /\ f = up[n][1] /\ 1 \in 1..Len(up[n])
  BY <1>2, TailFacts
<1>4. D!HandleFrame(s, f) /\ down' = Downward(s) /\ Recorded(s)
  BY DEF Handles, Recorded
<1> HIDE DEF s, f
<1>5. Handled(s, f)
  BY <1>2, <1>3, <1>4, FrameHandled
<1>6. link' = link
  BY <1>4 DEF D!HandleFrame, D!HandleHello, D!HandlePinVerify, D!PinBeforeHello, D!PinRefused,
              D!PinWithBadPub, D!PinAccepted, D!HandleKeyx, D!HandleEncrypted,
              D!PayloadRefused, D!PayloadOpened, D!HandleOther
<1>7. BondInv' /\ down' \in [Sessions -> Seq(DownFrames)] /\ offered' \in [Sessions -> 0..MaxSlots]
  BY <1>2, <1>4, <1>5, DownGrows DEF Handled, Answers
<1>8. SocketInv' /\ LinkInv'
  BY <1>1, <1>6 DEF EndsInv, SocketInv, LinkInv
<1>9. up' = [up EXCEPT ![n] = Tail(@)]
  BY DEF Handles
<1>10. f.type = "enc" => /\ f.msg.id <= Len(promise) /\ asked[f.msg.id] = n
                         /\ runs[f.msg.id] = 0 /\ f.key.client = n
  BY <1>3 DEF EndsInv, UpInv, OwnFrame
<1>11. CASE (bond' = bond \/ Pairs) /\ runs' = runs /\ running' = running
  <2>1. RanInv'
    BY <1>2, <1>4, <1>5, <1>11, NothingRuns DEF Handled
  <2>2. UpKept
    BY <1>1, <1>2, <1>9, <1>11, TailKept
  <2>3. CallsInv'
    BY <1>1, <1>11 DEF EndsInv, CallsInv
  <2>4. WorldTypes'
    <3>1. bond' \in [1..MaxSlots -> Conns \cup {NoConn}]
      BY <1>11 DEF Pairs, EndsInv, WorldTypes
    <3> QED BY <1>1, <1>7, <1>11, <2>2, <3>1 DEF EndsInv, WorldTypes, UpKept
  <2>5. Refined
    <3>1. CASE bond' = bond
      BY <1>1, <1>11, <3>1, Unseen
    <3>2. CASE Pairs
      <4>1. Fates' = Fates
        BY <1>1 DEF Fates, Fate
      <4> QED BY <1>1, <1>11, <3>2, <4>1 DEF Pairs, Refined, Abstract!Next, Abstract!Pair, Fates
    <3> QED BY <1>11, <3>1, <3>2
  <2> QED BY <1>7, <1>8, <2>1, <2>2, <2>3, <2>4, <2>5 DEF EndsInv, UpKept
<1>12. CASE bond' = bond /\ Starts(s, f)
  <2>1. f.type = "enc" /\ f.msg.id \in Calls
    BY <1>12 DEF Starts
  <2>2. RanInv' /\ runs' = [runs EXCEPT ![f.msg.id] = 1]
    BY <1>2, <1>4, <1>5, <1>10, <1>12, <2>1, OneRuns DEF Handled
  <2>3. UpKept
    BY <1>1, <1>2, <1>3, <1>9, <2>1, <2>2, TailKept
  <2>4. CallsInv' /\ runs' \in [Calls -> {0, 1}]
    BY <1>1, <1>10, <2>1, <2>2, PromiseLength DEF EndsInv, CallsInv, WorldTypes, Calls
  <2>5. WorldTypes'
    BY <1>1, <1>7, <1>12, <2>3, <2>4 DEF EndsInv, WorldTypes, UpKept
  <2>6. Refined
    <3>1. Fates' = Fates
      BY <1>1 DEF Fates, Fate
    <3>2. n # NoConn
      BY EndToEndAssumption DEF Conns, NoConn
    <3>3. Abstract!Run(f.msg.id)
      BY <1>1, <1>10, <1>12, <2>1, <2>2, <3>1, <3>2 DEF Starts, Abstract!Run, Fates
    <3> QED BY <2>1, <3>3 DEF Refined, Abstract!Next
  <2> QED BY <1>7, <1>8, <2>2, <2>3, <2>4, <2>5, <2>6 DEF EndsInv, UpKept
<1> QED BY <1>5, <1>11, <1>12 DEF Handled

LEMMA SettlesStep ==
  ASSUME EndsInv, C!TransportInv', D!DeviceInv', NEW s \in Sessions, Settles(s)
  PROVE  EndsInv' /\ Refined
<1>1. /\ UNCHANGED <<ws, clientKeys, promise, via, up, peer, offered, bond, asked, runs>>
      /\ down' = Downward(s)
  BY DEF Settles, ControllerIdle, controller, history
<1>2. PICK i \in 1..Len(running[s]) : D!Settle(s, i, "ok")
  BY DEF Settles
<1> DEFINE id == running[s][i].id
<1>3. id \in Calls /\ runs[id] = 1
  <2>1. running[s][i] \in D!Commands
    BY RunningLength
  <2> QED BY <2>1 DEF D!Commands, EndsInv, RanInv
<1>4. /\ UNCHANGED <<pending, minted, link, deviceKey>>
      /\ running' = [running EXCEPT ![s] = D!RemoveAt(@, i)]
      /\ D!SendEncrypted(s, D!Response("ok", id))
  BY <1>2 DEF D!Settle, D!pairingVars
<1> HIDE DEF id
<1>5. \A r \in Sessions :
        \/ hs'[r] = hs[r]
        \/ /\ hs[r] # NoHandshake /\ hs'[r].pairingSecret = hs[r].pairingSecret
           /\ hs'[r].clientPub = hs[r].clientPub
  <2>1. CASE hs' = hs
    BY <2>1
  <2>2. CASE hs[s] # NoHandshake /\ hs' = [hs EXCEPT ![s].sendSeq = @ + 1]
    <3>1. hs[s] \in D!Handshakes
      BY <2>2, D!HandshakeTypes, DeviceAssumptions DEF EndsInv, D!DeviceInv
    <3>2. /\ \A r \in Sessions \ {s} : hs'[r] = hs[r]
          /\ hs'[s].pairingSecret = hs[s].pairingSecret /\ hs'[s].clientPub = hs[s].clientPub
      BY <2>2, <3>1 DEF D!Handshakes, EndsInv, D!DeviceInv, D!TypeOK
    <3> QED BY <2>2, <3>2
  <2> QED BY <1>4, <2>1, <2>2 DEF D!SendEncrypted, D!Ready
<1>6. BondInv'
  <2>1. \A r \in Sessions : D!Paired(r)' =>
          /\ D!Paired(r) /\ hs'[r].pairingSecret = hs[r].pairingSecret
          /\ hs'[r].clientPub = hs[r].clientPub
    BY <1>5 DEF D!Paired
  <2> QED BY <1>1, <1>4, <2>1, BondKept
<1>7. /\ deviceSent' \in [Sessions -> Seq(DownFrames)]
      /\ \A j \in 1..Len(deviceSent'[s]) :
           deviceSent'[s][j].type = "enc" => deviceSent'[s][j].msg.id = id
  <2>1. CASE D!Silent
    BY <2>1 DEF D!Silent
  <2>2. CASE /\ D!Ready(s) /\ hs[s].sendSeq < MaxIds
             /\ D!Send(s, <<EncFrame(deviceKey[s], hs[s].sendSeq + 1, Response("ok", id))>>)
    <3> DEFINE g == EncFrame(deviceKey[s], hs[s].sendSeq + 1, Response("ok", id))
    <3>1. deviceKey[s] \in D!Keys
      BY <2>2 DEF D!Ready, EndsInv, D!DeviceInv, D!TypeOK
    <3>2. hs[s].sendSeq + 1 \in 1..MaxIds
      BY <2>2, D!HandshakeTypes, DeviceAssumptions, EndToEndAssumption
      DEF D!Ready, EndsInv, D!DeviceInv
    <3>3. g \in DownFrames
      BY <1>3, <3>1, <3>2 DEF DownFrames
    <3>4. <<g>> \in Seq(DownFrames) /\ Len(<<g>>) = 1 /\ <<g>>[1] = g /\ g.msg.id = id
      BY <3>3 DEF EncFrame, Response
    <3> HIDE DEF g
    <3>5. deviceSent' = [r \in Sessions |-> IF r = s /\ link[s] = "open" THEN <<g>> ELSE <<>>]
      BY <2>2 DEF D!Send, g
    <3>6. deviceSent'[s] \in {<<g>>, <<>>} /\ deviceSent' \in [Sessions -> Seq(DownFrames)]
      BY <3>4, <3>5
    <3>7. CASE deviceSent'[s] = <<g>>
      BY <3>4, <3>6, <3>7
    <3>8. CASE deviceSent'[s] = <<>>
      BY <3>6, <3>8
    <3> QED BY <3>6, <3>7, <3>8
  <2>3. D!EncFrame(deviceKey[s], hs[s].sendSeq + 1, D!Response("ok", id))
          = EncFrame(deviceKey[s], hs[s].sendSeq + 1, Response("ok", id))
    BY DeviceFrames
  <2> QED BY <1>4, <2>1, <2>2, <2>3 DEF D!SendEncrypted
<1>8. RanInv'
  <2>1. \A r \in Sessions : \A j \in 1..Len(down'[r]) :
          \/ j \in 1..Len(down[r]) /\ down'[r][j] = down[r][j]
          \/ down'[r][j].type = "enc" => down'[r][j].msg.id = id
    BY <1>1, <1>7, DownGrows
  <2>2. \A r \in Sessions : \A j \in 1..Len(running'[r]) :
          \E k \in 1..Len(running[r]) : running'[r][j] = running[r][k]
    <3>1. /\ \A r \in Sessions \ {s} : running'[r] = running[r]
          /\ running'[s] = D!RemoveAt(running[s], i)
      BY <1>4, RunningLength
    <3>2. /\ Len(running'[s]) = Len(running[s]) - 1
          /\ \A j \in 1..Len(running'[s]) :
               \/ running'[s][j] = running[s][j]
               \/ j + 1 \in 1..Len(running[s]) /\ running'[s][j] = running[s][j + 1]
      BY <3>1, RunningLength, D!RemoveAtElements, DeviceAssumptions
    <3>3. \A j \in 1..Len(running'[s]) :
            \E k \in 1..Len(running[s]) : running'[s][j] = running[s][k]
      BY <3>2, RunningLength
    <3> QED BY <3>1, <3>3
  <2>3. ASSUME NEW r \in Sessions, NEW j \in 1..Len(running'[r])
        PROVE  runs[running'[r][j].id] = 1
    BY <2>2 DEF EndsInv, RanInv
  <2>4. ASSUME NEW r \in Sessions, NEW j \in 1..Len(down'[r]), down'[r][j].type = "enc"
        PROVE  runs[down'[r][j].msg.id] = 1
    BY <1>3, <2>1, <2>4 DEF EndsInv, RanInv
  <2> QED BY <1>1, <2>3, <2>4 DEF RanInv
<1>9. WorldTypes'
  BY <1>1, <1>7, DownGrows DEF EndsInv, WorldTypes
<1>10. SocketInv' /\ LinkInv' /\ UpInv' /\ OneCopy' /\ CallsInv'
  BY <1>1, <1>4 DEF EndsInv, SocketInv, LinkInv, UpInv, OwnFrame, OneCopy, CallsInv
<1> QED BY <1>1, <1>6, <1>8, <1>9, <1>10, Unseen DEF EndsInv

LEMMA ReceivesStep ==
  ASSUME EndsInv, C!TransportInv', D!DeviceInv', NEW s \in Sessions, Receives(s)
  PROVE  EndsInv' /\ Refined
<1> DEFINE f == Head(down[s])
<1>1. /\ UNCHANGED <<via, peer, offered, bond, asked, runs>>
      /\ UNCHANGED <<pending, minted, link, hs, deviceKey, running>>
      /\ down' = [down EXCEPT ![s] = Tail(@)]
  BY DEF Receives, DeviceIdle, device, history
<1>2. /\ down[s] \in Seq(DownFrames) /\ down \in [Sessions -> Seq(DownFrames)]
      /\ Tail(down[s]) \in Seq(DownFrames) /\ f = down[s][1] /\ 1 \in 1..Len(down[s])
      /\ \A i \in 1..Len(Tail(down[s])) :
           i + 1 \in 1..Len(down[s]) /\ Tail(down[s])[i] = down[s][i + 1]
  <2>1. down \in [Sessions -> Seq(DownFrames)] /\ down[s] \in Seq(DownFrames) /\ down[s] # <<>>
    BY DEF Receives, EndsInv, WorldTypes
  <2> QED BY <2>1, TailFacts
<1>3. BondInv' /\ RanInv'
  <2>1. \A r \in Sessions : \A i \in 1..Len(down'[r]) :
          \E j \in 1..Len(down[r]) : down'[r][i] = down[r][j]
    <3>1. down'[s] = Tail(down[s]) /\ \A r \in Sessions \ {s} : down'[r] = down[r]
      BY <1>1, <1>2
    <3>2. \A i \in 1..Len(down'[s]) : \E j \in 1..Len(down[s]) : down'[s][i] = down[s][j]
      BY <1>2, <3>1
    <3> QED BY <3>1, <3>2
  <2> QED BY <1>1, <2>1, DeviceStill
<1>4. LinkInv' /\ down' \in [Sessions -> Seq(DownFrames)]
  BY <1>1, <1>2 DEF EndsInv, LinkInv
<1>5. CASE ControllerIdle /\ up' = up
  <2>1. UNCHANGED <<ws, clientKeys, promise>>
    BY <1>5 DEF ControllerIdle, controller
  <2>2. SocketInv' /\ UpInv' /\ OneCopy' /\ CallsInv'
    BY <1>1, <1>5, <2>1 DEF EndsInv, SocketInv, UpInv, OwnFrame, OneCopy, CallsInv
  <2>3. WorldTypes'
    BY <1>1, <1>4, <1>5 DEF EndsInv, WorldTypes
  <2> QED BY <1>1, <1>3, <1>4, <2>1, <2>2, <2>3, Unseen DEF EndsInv
<1>6. CASE C!OnMessage(peer[s], f) /\ up' = Upward
  <2>1. SpeaksPlainly /\ SocketInv'
    BY <1>6, PlainSteps
  <2> HIDE DEF f
  <2>2. Len(promise') = Len(promise) /\ Refined
    <3>1. CASE promise' = promise
      BY <1>1, <3>1, Unseen
    <3>2. CASE /\ f.type = "enc" /\ f.msg.id \in 1..Len(promise)
               /\ promise[f.msg.id] = "pending"
               /\ promise' = [promise EXCEPT ![f.msg.id] = "resolved"]
      <4>1. /\ Len(promise') = Len(promise) /\ f.msg.id \in Calls
            /\ Fates[f.msg.id] = "pending"
            /\ Fates' = [Fates EXCEPT ![f.msg.id] = "resolved"]
        BY <3>2, FateMoves
      <4>2. runs[f.msg.id] = 1
        BY <1>2, <3>2 DEF EndsInv, RanInv
      <4>3. Abstract!Return(f.msg.id)
        BY <1>1, <4>1, <4>2 DEF Abstract!Return, Fates
      <4> QED BY <4>1, <4>3 DEF Refined, Abstract!Next
    <3> QED BY <1>6, <3>1, <3>2, CallsAnswered
  <2>3. UpKept
    BY <1>1, <1>6, <2>1, <2>2, AppendPlain
  <2>4. WorldTypes' /\ CallsInv'
    BY <1>1, <1>4, <2>2, <2>3 DEF EndsInv, WorldTypes, CallsInv, UpKept
  <2> QED BY <1>3, <1>4, <2>1, <2>2, <2>3, <2>4 DEF EndsInv, UpKept
<1> QED BY <1>5, <1>6 DEF Receives

LEMMA DeviceAloneStep ==
  ASSUME EndsInv, C!TransportInv', D!DeviceInv', DeviceAlone
  PROVE  EndsInv' /\ Refined
<1>1. UNCHANGED <<ws, clientKeys, promise, via, up, down, peer, offered, bond, asked, runs>>
  BY DEF DeviceAlone, ControllerIdle, controller, network, history
<1>2. UNCHANGED <<hs, deviceKey, running>>
  BY DEF DeviceAlone, D!NewPin, D!ClockTicks, D!Local, D!Connect, D!Disconnect, D!sessionVars
<1>3. /\ minted' \in {minted, minted + 1}
      /\ pending' # NoSlot => \/ minted' = minted + 1
                              \/ pending # NoSlot /\ minted' = minted
  BY DEF DeviceAlone, D!NewPin, D!ClockTicks, D!BeginPairing, D!Tick, D!Connect,
         D!Disconnect, D!pairingVars
<1>4. BondInv'
  BY <1>1, <1>2, <1>3, BondKept DEF D!Paired
<1>5. LinkInv'
  <2>1. link \in [Sessions -> {"new", "open", "closing", "closed"}]
    BY DEF EndsInv, D!DeviceInv, D!TypeOK
  <2>2. \/ link' = link
        \/ \E s \in Sessions : \/ link' = [link EXCEPT ![s] = "open"]
                              \/ link' = [link EXCEPT ![s] = "closed"]
    BY EndToEndAssumption DEF DeviceAlone, D!NewPin, D!ClockTicks, D!Local, D!Connect,
                              D!Disconnect, Host, Sessions, Conns
  <2> QED BY <2>1, <2>2 DEF EndsInv, LinkInv
<1>6. SocketInv' /\ WorldTypes' /\ OneCopy' /\ CallsInv'
  BY <1>1 DEF EndsInv, SocketInv, WorldTypes, OneCopy, CallsInv
<1>7. UpInv' /\ RanInv'
  BY <1>1, <1>2 DEF EndsInv, UpInv, OwnFrame, RanInv
<1> QED BY <1>1, <1>4, <1>5, <1>6, <1>7, Unseen DEF EndsInv

LEMMA PromiseGrows ==
  ASSUME EndsInv, NEW x \in {"pending", "rejected"}, Len(promise) < MaxIds,
         promise' = Append(promise, x)
  PROVE  /\ Len(promise) + 1 \in Calls /\ Len(promise') = Len(promise) + 1
         /\ Last(promise') = x /\ Fates[Len(promise) + 1] = "idle"
         /\ Fates' = [Fates EXCEPT ![Len(promise) + 1] = x]
<1> DEFINE c == Len(promise) + 1
<1>1. /\ Len(promise) \in Nat /\ Len(promise') = c /\ promise'[c] = x
      /\ \A d \in 1..Len(promise) : promise'[d] = promise[d]
  BY PromiseLength, AppendFacts
<1>2. c \in Calls /\ Last(promise') = x /\ ~(c <= Len(promise))
  BY <1>1, EndToEndAssumption DEF Calls, Last
<1>3. Fates[c] = "idle"
  BY <1>2 DEF Fates, Fate
<1>4. \A d \in Calls : Fates'[d] = IF d = c THEN x ELSE Fates[d]
  BY <1>1 DEF Fates, Fate, Calls
<1> QED BY <1>1, <1>2, <1>3, <1>4 DEF Fates

(* A command joins the queue of its connection. *)
LEMMA AppendCommand ==
  ASSUME EndsInv, NEW n \in Conns, NEW c \in Calls, NEW f \in UpFrames,
         up' \in {up, [up EXCEPT ![n] = Append(@, f)]},
         f.type = "enc" /\ f.msg.id = c /\ f.key.client = n,
         c = Len(promise) + 1 /\ Len(promise') = c,
         runs' = runs, asked' = [asked EXCEPT ![c] = n]
  PROVE  UpKept
<1>1. /\ up \in [Conns -> Seq(UpFrames)] /\ asked'[c] = n /\ runs[c] = 0
      /\ \A d \in Calls \ {c} : asked'[d] = asked[d]
      /\ Len(promise) \in Nat /\ c > Len(promise)
  BY PromiseLength DEF EndsInv, WorldTypes, CallsInv
<1>2. /\ up' \in [Conns -> Seq(UpFrames)]
      /\ \A m \in Conns : \A i \in 1..Len(up'[m]) :
           \/ i \in 1..Len(up[m]) /\ up'[m][i] = up[m][i]
           \/ m = n /\ i = Len(up[n]) + 1 /\ up'[m][i] = f
  <2>1. CASE up' = up
    BY <1>1, <2>1
  <2>2. CASE up' = [up EXCEPT ![n] = Append(@, f)]
    <3>1. /\ up[n] \in Seq(UpFrames) /\ up'[n] = Append(up[n], f)
          /\ \A m \in Conns \ {n} : up'[m] = up[m]
      BY <1>1, <2>2
    <3>2. /\ up'[n] \in Seq(UpFrames) /\ Len(up'[n]) = Len(up[n]) + 1
          /\ \A i \in 1..Len(up[n]) : up'[n][i] = up[n][i]
          /\ up'[n][Len(up[n]) + 1] = f /\ Len(up[n]) \in Nat
      BY <3>1, AppendFacts
    <3>3. up' \in [Conns -> Seq(UpFrames)]
      BY <1>1, <2>2, <3>1, <3>2
    <3>4. ASSUME NEW m \in Conns, NEW i \in 1..Len(up'[m])
          PROVE  \/ i \in 1..Len(up[m]) /\ up'[m][i] = up[m][i]
                 \/ m = n /\ i = Len(up[n]) + 1 /\ up'[m][i] = f
      <4>1. CASE m = n
        BY <3>2, <4>1
      <4>2. CASE m # n
        BY <3>1, <4>2
      <4> QED BY <4>1, <4>2
    <3> QED BY <3>3, <3>4
  <2> QED BY <2>1, <2>2
<1>3. ASSUME NEW m \in Conns, NEW i \in 1..Len(up[m]), up[m][i].type = "enc"
      PROVE  up[m][i].msg.id \in Calls /\ up[m][i].msg.id # c
  <2>1. up[m][i] \in UpFrames
    BY <1>1
  <2>2. up[m][i].msg.id \in Calls /\ up[m][i].msg.id <= Len(promise)
    BY <1>3, <2>1, CommandFields DEF EndsInv, UpInv, OwnFrame
  <2> QED BY <1>1, <2>2 DEF Calls
<1>4. ASSUME NEW m \in Conns, NEW i \in 1..Len(up'[m]) PROVE OwnFrame(m, up[m][i])'
  <2>1. CASE i \in 1..Len(up[m]) /\ up'[m][i] = up[m][i]
    <3>1. OwnFrame(m, up[m][i])
      BY <2>1 DEF EndsInv, UpInv
    <3>2. up[m][i].type = "enc" =>
            up[m][i].msg.id <= Len(promise') /\ asked'[up[m][i].msg.id] = m
      BY <1>1, <1>3, <2>1, <3>1 DEF OwnFrame, Calls
    <3> QED BY <2>1, <3>1, <3>2 DEF OwnFrame
  <2>2. CASE m = n /\ up'[m][i] = f
    BY <1>1, <2>2 DEF OwnFrame
  <2> QED BY <1>2, <1>4, <2>1, <2>2
<1>5. OneCopy'
  BY <1>2, <1>3 DEF EndsInv, OneCopy
<1> QED BY <1>2, <1>4, <1>5 DEF UpKept, UpInv

LEMMA SendsStep ==
  ASSUME EndsInv, C!TransportInv', D!DeviceInv', Sends
  PROVE  EndsInv' /\ Refined
<1> DEFINE c == Len(promise) + 1
<1>1. /\ UNCHANGED <<via, down, peer, offered, bond, runs, ws, clientKeys>>
      /\ UNCHANGED <<pending, minted, link, hs, deviceKey, running>>
      /\ C!SendCommand /\ up' = Upward /\ Len(promise) < MaxIds
      /\ asked' = IF Last(promise') = "pending"
                  THEN [asked EXCEPT ![Len(promise')] = clientKeys] ELSE asked
  BY DEF Sends, DeviceIdle, device, C!SendCommand, C!handshake
<1>2. BondInv' /\ RanInv' /\ SocketInv' /\ LinkInv'
  BY <1>1, DeviceStill DEF EndsInv, SocketInv, LinkInv
<1>3. CASE promise' = Append(promise, "rejected") /\ C!Silent
  <2>1. /\ c \in Calls /\ Len(promise') = c /\ Last(promise') = "rejected"
        /\ Fates[c] = "idle" /\ Fates' = [Fates EXCEPT ![c] = "rejected"]
    BY <1>1, <1>3, PromiseGrows
  <2>2. asked' = asked /\ up' = up
    BY <1>1, <1>3, <2>1 DEF C!Silent, Upward
  <2>3. Len(promise) <= Len(promise') /\ \A d \in Calls : d > Len(promise') => d > Len(promise)
    BY <2>1, PromiseLength DEF Calls
  <2>4. UpInv' /\ OneCopy' /\ CallsInv'
    <3>1. UpInv'
      <4> SUFFICES ASSUME NEW m \in Conns, NEW i \in 1..Len(up'[m])
                   PROVE  OwnFrame(m, up[m][i])'
        BY DEF UpInv
      <4>1. OwnFrame(m, up[m][i]) /\ up[m][i] \in UpFrames
        BY <2>2 DEF EndsInv, UpInv, WorldTypes
      <4>2. up[m][i].type = "enc" => up[m][i].msg.id <= Len(promise')
        <5>1. up[m][i].type = "enc" =>
                up[m][i].msg.id \in Calls /\ up[m][i].msg.id <= Len(promise)
          BY <4>1, CommandFields DEF OwnFrame
        <5> QED BY <2>1, <5>1, PromiseLength DEF Calls
      <4> QED BY <1>1, <2>2, <4>1, <4>2 DEF OwnFrame
    <3> QED BY <1>1, <2>2, <2>3, <3>1 DEF EndsInv, OneCopy, CallsInv
  <2>5. WorldTypes'
    BY <1>1, <2>2 DEF EndsInv, WorldTypes
  <2>6. Refined
    BY <1>1, <2>1, <2>2 DEF Refined, Abstract!Next, Abstract!Refuse, Fates
  <2> QED BY <1>2, <2>4, <2>5, <2>6 DEF EndsInv
<1>4. CASE /\ C!IsReady /\ promise' = Append(promise, "pending") /\ sendSeq' = sendSeq + 1
           /\ C!Send(C!EncFrame(clientKey, sendSeq + 1, C!Cmd(c)))
  <2> DEFINE f == EncFrame(clientKey, sendSeq + 1, Cmd(c))
  <2>1. /\ c \in Calls /\ Len(promise') = c /\ Last(promise') = "pending"
        /\ Fates[c] = "idle" /\ Fates' = [Fates EXCEPT ![c] = "pending"]
    BY <1>1, <1>4, PromiseGrows
  <2>2. /\ clientKey \in D!Keys /\ clientKey.client = clientKeys /\ clientKeys \in Conns
    <3>1. clientKey \in C!Keys /\ clientKey.client = clientKeys
      BY <1>4 DEF C!IsReady, EndsInv, C!TransportInv, C!TypeOK, C!KeyOfThisConnection
    <3> QED BY <3>1 DEF C!Keys, D!Keys, C!Secrets, D!Secrets, D!Salts, C!Conns, Conns
  <2>3. sendSeq + 1 \in 1..MaxIds
    <3>1. sendSeq \in 0..MaxIds /\ sendSeq + 1 \in 0..MaxIds
      BY <1>4 DEF EndsInv, C!TransportInv, C!TypeOK
    <3> QED BY <3>1, EndToEndAssumption
  <2>4. /\ f \in UpFrames /\ f.type = "enc" /\ f.msg.id = c /\ f.key.client = clientKeys
        /\ C!EncFrame(clientKey, sendSeq + 1, C!Cmd(c)) = f
    BY <2>1, <2>2, <2>3, ControllerFrames DEF UpFrames, EncFrame, Cmd
  <2> HIDE DEF f
  <2>5. up' \in {up, [up EXCEPT ![clientKeys] = Append(@, f)]}
    <3>1. clientSent' = <<>> \/ (ws = clientKeys /\ clientSent' = <<ws, f>>)
      BY <1>4, <2>4, Connected DEF C!Send, C!IsOpen
    <3>2. CASE clientSent' = <<>>
      BY <1>1, <3>2 DEF Upward
    <3>3. CASE ws = clientKeys /\ clientSent' = <<ws, f>>
      <4>1. clientSent' # <<>> /\ clientSent'[1] = clientKeys /\ clientSent'[2] = f
        BY <3>3
      <4> QED BY <1>1, <4>1 DEF Upward
    <3> QED BY <3>1, <3>2, <3>3
  <2>6. asked' = [asked EXCEPT ![c] = clientKeys]
    BY <1>1, <2>1
  <2> HIDE DEF c
  <2>7. UpKept
    <3>1. /\ clientKeys \in Conns /\ c \in Calls /\ f \in UpFrames /\ f.type = "enc"
          /\ f.msg.id = c /\ f.key.client = clientKeys /\ Len(promise') = c /\ runs' = runs
      BY <1>1, <2>1, <2>2, <2>4
    <3>2. c = Len(promise) + 1
      BY DEF c
    <3> QED BY <2>5, <2>6, <3>1, <3>2, AppendCommand
  <2>8. CallsInv'
    BY <1>1, <2>1, <2>6, PromiseLength DEF EndsInv, CallsInv, WorldTypes, c, Calls
  <2>9. WorldTypes'
    BY <1>1, <2>2, <2>6, <2>7 DEF EndsInv, WorldTypes, UpKept
  <2>10. Refined
    BY <1>1, <2>1, <2>2, <2>6 DEF Refined, Abstract!Next, Abstract!Ask, Fates
  <2> QED BY <1>2, <2>7, <2>8, <2>9, <2>10 DEF EndsInv, UpKept
<1> QED BY <1>1, <1>3, <1>4 DEF C!SendCommand

LEMMA EndsStep == EndsInv /\ [Next]_vars => EndsInv' /\ Refined
<1> SUFFICES ASSUME EndsInv, [Next]_vars PROVE EndsInv' /\ Refined
  OBVIOUS
<1>1. C!TransportInv' /\ D!DeviceInv'
  BY ControllerKeeps, DeviceKeeps
<1>2. CASE UNCHANGED vars
  <2>1. UNCHANGED <<ws, clientKeys, promise, pending, minted, link, hs, deviceKey, running>>
        /\ UNCHANGED <<via, up, down, peer, offered, bond, asked, runs>>
    BY <1>2 DEF vars, controller, device, network, history
  <2>2. BondInv' /\ RanInv'
    BY <2>1, DeviceStill
  <2>3. SocketInv' /\ LinkInv' /\ WorldTypes' /\ UpInv' /\ OneCopy' /\ CallsInv'
    BY <2>1 DEF EndsInv, SocketInv, LinkInv, WorldTypes, UpInv, OwnFrame, OneCopy, CallsInv
  <2> QED BY <1>1, <2>1, <2>2, <2>3, Unseen DEF EndsInv
<1>3. ASSUME NEW n \in Conns,
             Opens(n) \/ Closes(n) \/ Leaves(n) \/ Lost(n) \/ Handles(n)
      PROVE  EndsInv' /\ Refined
  BY <1>1, <1>3, OpensStep, ClosesStep, LeavesStep, LostStep, HandlesStep
<1>4. ASSUME NEW s \in Sessions, Settles(s) \/ Receives(s) PROVE EndsInv' /\ Refined
  BY <1>1, <1>4, SettlesStep, ReceivesStep
<1>5. CASE DeviceAlone \/ Sends \/ ControllerAlone
  BY <1>1, <1>5, DeviceAloneStep, SendsStep, ControllerAloneStep
<1> QED BY <1>2, <1>3, <1>4, <1>5 DEF Next

LEMMA EndsInit == Init => EndsInv /\ Abstract!Init
<1> SUFFICES ASSUME Init PROVE EndsInv /\ Abstract!Init
  OBVIOUS
<1>1. C!TransportInv /\ D!DeviceInv
  BY C!TransportInit, D!DeviceInit, ControllerAssumption, DeviceAssumptions DEF Init
<1>2. /\ ws = C!NoSocket /\ promise = <<>>
      /\ link = [s \in Sessions |-> "new"] /\ hs = [s \in Sessions |-> NoHandshake]
      /\ deviceKey = [s \in Sessions |-> NoKey] /\ running = [s \in Sessions |-> <<>>]
  BY DEF Init, C!Init, D!Init
<1>3. WorldTypes
  BY EndToEndAssumption DEF Init, WorldTypes, C!Modes, NoConn
<1>4. BondInv
  BY <1>2 DEF Init, BondInv, NoConn, D!Paired
<1>5. UpInv /\ OneCopy /\ RanInv
  BY <1>2 DEF Init, UpInv, OneCopy, RanInv
<1>6. SocketInv /\ LinkInv /\ CallsInv
  BY <1>2 DEF Init, SocketInv, LinkInv, CallsInv
<1>7. Fates = [c \in Calls |-> "idle"]
  <2>1. \A c \in Calls : ~(c <= Len(promise))
    BY <1>2 DEF Calls
  <2> QED BY <2>1 DEF Fates, Fate
<1>8. Abstract!Init
  BY <1>7 DEF Init, Abstract!Init, Fates
<1> QED BY <1>1, <1>3, <1>4, <1>5, <1>6, <1>8 DEF EndsInv

-------------------------------------------------------------------------------
(* The theorems *)

THEOREM EndsInvariant == Spec => []EndsInv
<1>1. Init => EndsInv
  BY EndsInit
<1>2. EndsInv /\ [Next]_vars => EndsInv'
  BY EndsStep
<1> QED BY <1>1, <1>2, PTL DEF Spec

(* Both ends keep their types when each is fed by the other, and what is   *)
(* between them and the histories keep theirs.                             *)
THEOREM EndToEndTypeCorrect == Spec => []TypeOK
<1>1. EndsInv => TypeOK
  <2> SUFFICES ASSUME EndsInv PROVE TypeOK
    OBVIOUS
  <2>1. C!TypeOK /\ D!TypeOK
    <3>1. C!TransportInv /\ D!DeviceInv
      BY DEF EndsInv
    <3> QED BY <3>1 DEF C!TransportInv, D!DeviceInv
  <2>2. runs \in [Calls -> 0..MaxIds]
    <3>1. runs \in [Calls -> {0, 1}]
      BY DEF EndsInv, WorldTypes
    <3>2. \A c \in Calls : {0, 1} \subseteq 0..MaxIds
      BY EndToEndAssumption DEF Calls
    <3> QED BY <3>1, <3>2
  <2> QED BY <2>1, <2>2 DEF EndsInv, WorldTypes, TypeOK
<1> QED BY <1>1, EndsInvariant, PTL

(* Every behaviour of the two ends and what is between them is one of      *)
(* RemoteControl, for any number of connections, PINs and commands.        *)
THEOREM EndToEndImplementsRemoteControl == Spec => RemoteControl
<1>1. Init => Abstract!Init
  BY EndsInit
<1>2. EndsInv /\ [Next]_vars => [Abstract!Next]_(Abstract!vars)
  BY EndsStep DEF Refined
<1> QED BY <1>1, <1>2, EndsInvariant, PTL DEF Spec, RemoteControl, Abstract!Spec

===============================================================================
