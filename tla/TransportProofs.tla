---------------------------- MODULE TransportProofs ----------------------------
(***************************************************************************)
(* Proofs about Transport, for any number of connections, commands and     *)
(* keys of the other end.  Liveness stays with TLC.                        *)
(***************************************************************************)
EXTENDS Transport, TLAPS

(* Every counter was used by a command, so the bound on commands is one on *)
(* the counters too.                                                       *)
CountedInv == sendSeq <= Len(promise) /\ Len(promise) <= MaxIds

(* The key pair in use is the latest one drawn. *)
LatestInv == clientKeys \in {0, made}

(* What was sealed under the key pair in use had a counter no larger than  *)
(* the current one, and no later key pair was used.                        *)
SealedBelow ==
  \A i \in 1..Len(sealed) : /\ sealed[i][1].client <= made
                            /\ sealed[i][1].client = clientKeys => sealed[i][2] <= sendSeq

TransportInv ==
  /\ TypeOK /\ CountedInv /\ LatestInv /\ KeyOfThisConnection
  /\ SealedBelow /\ SealOnce

-------------------------------------------------------------------------------
LEMMA TransportInit == Init => TransportInv
<1> SUFFICES ASSUME Init PROVE TransportInv
  OBVIOUS
<1>1. TypeOK
  <2>1. /\ made \in 0..MaxConns /\ ws \in 0..made /\ clientKeys \in 0..made
        /\ sendSeq \in 0..MaxIds /\ recvSeq \in NoSeq..MaxSeq
    BY TransportAssumption DEF Init, NoSocket, NoSeq
  <2>2. timer \in BOOLEAN /\ attempts \in 0..MaxHellos
    <3>1. timer = FALSE /\ attempts = 0
      BY DEF Init
    <3>2. timer \in BOOLEAN
      BY <3>1, Zenon
    <3> QED BY <3>1, <3>2, TransportAssumption
  <2>3. /\ promise \in Seq({"pending", "resolved", "rejected"})
        /\ pendingRes \subseteq 1..Len(promise) /\ armed \subseteq 1..Len(promise)
        /\ \A id \in pendingRes : promise[id] = "pending"
        /\ sealed \in Seq(Keys \X Nat)
    BY DEF Init
  <2>4. spoilt \in BOOLEAN
    BY Zenon DEF Init
  <2> QED BY <2>1, <2>2, <2>3, <2>4 DEF Init, TypeOK, Modes, ConnectionStates
<1>2. CountedInv /\ LatestInv /\ KeyOfThisConnection
  BY TransportAssumption DEF Init, CountedInv, LatestInv, KeyOfThisConnection
<1>3. SealedBelow /\ SealOnce
  BY DEF Init, SealedBelow, SealOnce, IsInjective
<1> QED BY <1>1, <1>2, <1>3 DEF TransportInv

(* A new entry above all of its key keeps a log free of repetitions. *)
LEMMA AppendNew ==
  ASSUME NEW log \in Seq(Keys \X Nat), NEW key \in Keys, NEW n \in Nat,
         IsInjective(log),
         \A i \in 1..Len(log) : log[i][1] = key => log[i][2] < n
  PROVE  IsInjective(Append(log, <<key, n>>))
<1> DEFINE new == Append(log, <<key, n>>)
<1>1. DOMAIN log = 1..Len(log) /\ DOMAIN new = 1..(Len(log) + 1)
  OBVIOUS
<1>2. /\ \A i \in 1..Len(log) : new[i] = log[i]
      /\ new[Len(log) + 1] = <<key, n>>
  OBVIOUS
<1>3. \A i \in 1..Len(log) : log[i] # <<key, n>>
  OBVIOUS
<1>4. ASSUME NEW a \in DOMAIN new, NEW b \in DOMAIN new, new[a] = new[b] PROVE a = b
  <2>1. CASE a \in 1..Len(log) /\ b \in 1..Len(log)
    BY <1>1, <1>2, <1>4, <2>1 DEF IsInjective
  <2>2. CASE a = Len(log) + 1 \/ b = Len(log) + 1
    BY <1>1, <1>2, <1>3, <1>4, <2>2
  <2> QED BY <1>1, <2>1, <2>2
<1> QED BY <1>4 DEF IsInjective

LEMMA SocketsClosed ==
  ASSUME TypeOK
  PROVE  WsClosed \in [Conns -> [state : {"none", "connecting", "open", "closing", "closed"},
                                 mode : Modes]]
BY DEF TypeOK, WsClosed, NoSocket

-------------------------------------------------------------------------------
(* Types *)

(* All that the types take for granted of a frame of the other end.        *)
WellFormed(f) ==
  /\ f.type = "challenge" => f.salt \in Salts \cup {NoSalt}
  /\ f.type = "enc" => f.s \in NoSeq..MaxSeq \/ f.key = NoKey

Delivered == \E n \in Conns : \E f : WellFormed(f) /\ OnMessage(n, f)

LEMMA ServerFrameFields == \A f \in ServerFrames : WellFormed(f)
<1> SUFFICES ASSUME NEW f \in ServerFrames PROVE WellFormed(f)
  OBVIOUS
<1> USE DEF WellFormed
<1>1. CASE f \in {ChallengeFrame(s) : s \in Salts \cup {NoSalt}}
  BY <1>1 DEF ChallengeFrame
<1>2. CASE f \in {PinAckFrame(p) : p \in ServerPubs \cup {BadPub}}
             \cup {KeyxFrame(p) : p \in ServerPubs \cup {BadPub}}
  BY <1>2 DEF PinAckFrame, KeyxFrame
<1>3. CASE f \in {EncFrame(sessionKey, n, msg) :
                    n \in {NoSeq} \cup 1..MaxSeq,
                    msg \in {Response("ok", id) : id \in Ids} \cup {Event}}
  <2>1. PICK n \in {NoSeq} \cup 1..MaxSeq,
             msg \in {Response("ok", id) : id \in Ids} \cup {Event} :
               f = EncFrame(sessionKey, n, msg)
    BY <1>3
  <2>2. n \in NoSeq..MaxSeq
    BY TransportAssumption DEF NoSeq
  <2> QED BY <2>1, <2>2 DEF EncFrame
<1>4. CASE f \in {EncFrame(NoKey, MaxSeq, NotJson), PinNackFrame, ReadyFrame, ByeFrame}
             \cup {ErrorFrame(code) : code \in {"replay", "version"}}
  BY <1>4 DEF EncFrame, PinNackFrame, ReadyFrame, ByeFrame, ErrorFrame
<1> QED BY <1>1, <1>2, <1>3, <1>4 DEF ServerFrames

LEMMA RetryCleared ==
  ClearRelayHelloRetry => timer' \in BOOLEAN /\ attempts' \in 0..MaxHellos
<1> SUFFICES ASSUME ClearRelayHelloRetry PROVE timer' \in BOOLEAN /\ attempts' \in 0..MaxHellos
  OBVIOUS
<1>1. timer' = FALSE /\ attempts' = 0
  BY DEF ClearRelayHelloRetry
<1>2. timer' \in BOOLEAN
  BY <1>1, Zenon
<1> QED BY <1>1, <1>2, TransportAssumption

LEMMA TypeKept ==
  TypeOK /\ CountedInv /\ ([Next]_vars \/ Delivered) => TypeOK' /\ CountedInv'
<1> SUFFICES ASSUME TypeOK, CountedInv, [Next]_vars \/ Delivered PROVE TypeOK' /\ CountedInv'
  OBVIOUS
<1> USE TransportAssumption
<1>1. ASSUME DisconnectFirst
      PROVE  /\ serverPub' \in ServerPubs \cup {NoPub} /\ salt' \in Salts \cup {NoSalt}
             /\ pairingSecret' \in Secrets \cup {NoSecret}
             /\ sessionKey' \in Keys \cup {NoKey}
             /\ sendSeq' \in 0..MaxIds /\ recvSeq' \in NoSeq..MaxSeq
             /\ timer' \in BOOLEAN /\ attempts' \in 0..MaxHellos
             /\ promise' \in Seq({"pending", "resolved", "rejected"})
             /\ pendingRes' \subseteq 1..Len(promise') /\ armed' \subseteq 1..Len(promise')
             /\ \A id \in pendingRes' : promise'[id] = "pending"
             /\ sealed' \in Seq(Keys \X Nat) /\ spoilt' \in BOOLEAN
             /\ CountedInv'
  <2>1. /\ serverPub' = NoPub /\ salt' = NoSalt /\ pairingSecret' = NoSecret
        /\ sessionKey' = NoKey /\ sendSeq' = 0 /\ recvSeq' = 0 /\ pendingRes' = {}
        /\ promise' = promise /\ armed' = armed /\ sealed' = sealed /\ spoilt' = FALSE
    BY <1>1 DEF DisconnectFirst, ForgetKey
  <2>2. timer' \in BOOLEAN /\ attempts' \in 0..MaxHellos
    BY <1>1, RetryCleared DEF DisconnectFirst
  <2>3. spoilt' \in BOOLEAN
    BY <2>1, Zenon
  <2> QED BY <2>1, <2>2, <2>3 DEF TypeOK, CountedInv, NoSeq
<1>2. ASSUME NEW mode \in Modes, Connect(mode) PROVE TypeOK' /\ CountedInv'
  <2>1. made' \in 0..MaxConns /\ ws' \in 0..made' /\ clientKeys' \in 0..made'
    BY <1>2 DEF Connect, TypeOK, NoSocket
  <2>2. state' \in ConnectionStates
    BY <1>2 DEF Connect, ConnectionStates
  <2>3. sock' \in [Conns -> [state : {"none", "connecting", "open", "closing", "closed"},
                             mode : Modes]]
    BY <1>2, SocketsClosed DEF Connect
  <2> QED BY <1>1, <1>2, <2>1, <2>2, <2>3 DEF Connect, TypeOK
<1>3. ASSUME Disconnect PROVE TypeOK' /\ CountedInv'
  <2>1. made' = made /\ ws' = 0 /\ clientKeys' = 0 /\ state' \in ConnectionStates
    BY <1>3 DEF Disconnect, NoSocket, ConnectionStates
  <2> QED BY <1>1, <1>3, <2>1, SocketsClosed DEF Disconnect, TypeOK
<1>4. ASSUME NEW n \in Conns, OnOpen(n) PROVE TypeOK' /\ CountedInv'
  <2>1. timer' \in BOOLEAN /\ attempts' \in 0..MaxHellos
    <3>1. CASE sock[n].mode = "relay"
      <4>1. timer' = TRUE /\ attempts' = 1
        BY <1>4, <3>1 DEF OnOpen
      <4>2. timer' \in BOOLEAN
        BY <4>1, Zenon
      <4> QED BY <4>1, <4>2
    <3>2. CASE sock[n].mode # "relay"
      BY <1>4, <3>2 DEF OnOpen, TypeOK, hellos
    <3> QED BY <3>1, <3>2
  <2>2. sock' \in [Conns -> [state : {"none", "connecting", "open", "closing", "closed"},
                             mode : Modes]]
    BY <1>4 DEF OnOpen, TypeOK
  <2> QED BY <1>4, <2>1, <2>2 DEF OnOpen, TypeOK, CountedInv,
    handshake, counters, requests, history
<1>5. ASSUME NEW n \in Conns, OnClose(n) PROVE TypeOK' /\ CountedInv'
  <2>1. timer' \in BOOLEAN /\ attempts' \in 0..MaxHellos
    BY <1>5, RetryCleared DEF OnClose, TypeOK, hellos
  <2>2. sock' \in [Conns -> [state : {"none", "connecting", "open", "closing", "closed"},
                             mode : Modes]]
    BY <1>5 DEF OnClose, TypeOK
  <2> QED BY <1>5, <2>1, <2>2 DEF OnClose, ConnectionStates, NoSocket, TypeOK, CountedInv,
                                  handshake, counters, requests, history
<1>6. ASSUME HelloTimer PROVE TypeOK' /\ CountedInv'
  <2>1. timer' \in BOOLEAN /\ attempts' \in 0..MaxHellos
    <3>1. CASE ClearRelayHelloRetry
      BY <3>1, RetryCleared
    <3>2. CASE attempts < MaxHellos /\ attempts' = attempts + 1 /\ timer' = timer
      <4>1. timer' \in BOOLEAN
        BY <3>2, Zenon DEF TypeOK
      <4> QED BY <3>2, <4>1 DEF TypeOK
    <3> QED BY <1>6, <3>1, <3>2 DEF HelloTimer, NextAttempt
  <2>2. sock' \in {sock, WsClosed} /\ state' \in ConnectionStates
    BY <1>6 DEF HelloTimer, ConnectionStates, TypeOK
  <2> QED BY <1>6, <2>1, <2>2, SocketsClosed
          DEF HelloTimer, TypeOK, CountedInv, handshake, counters, requests, history
<1>7. ASSUME NEW n \in Conns, NEW f, WellFormed(f), OnMessage(n, f)
      PROVE  TypeOK' /\ CountedInv'
  <2>1. CASE f.type = "challenge" /\ HandleChallenge(f)
    <3>1. timer' \in BOOLEAN /\ attempts' \in 0..MaxHellos
      BY <2>1, RetryCleared DEF HandleChallenge
    <3>2. salt' \in Salts \cup {NoSalt} /\ state' \in ConnectionStates
      BY <1>7, <2>1 DEF WellFormed, HandleChallenge, ConnectionStates, TypeOK
    <3>3. spoilt' \in BOOLEAN
      <4>1. spoilt' = TRUE \/ spoilt' = spoilt
        BY <2>1 DEF HandleChallenge
      <4> QED BY <4>1, Zenon DEF TypeOK
    <3> QED BY <2>1, <3>1, <3>2, <3>3 DEF HandleChallenge, TypeOK, CountedInv, counters, requests
  <2>2. CASE HandlePinAck(f)
    BY <2>2 DEF HandlePinAck, ConnectionStates, TypeOK, CountedInv, counters, hellos,
                requests, history
  <2>3. CASE HandlePinNack
    BY <2>3 DEF HandlePinNack, ConnectionStates, TypeOK, CountedInv, counters, hellos,
                requests, history
  <2>4. CASE HandleKeyx(f)
    <3>1. sessionKey' \in Keys \cup {NoKey} /\ serverPub' \in ServerPubs \cup {NoPub}
      BY <2>4 DEF HandleKeyx, DeriveKey, Keys, Conns, TypeOK
    <3>2. state' \in ConnectionStates
      BY <2>4 DEF HandleKeyx, ConnectionStates, TypeOK
    <3> QED BY <2>4, <3>1, <3>2 DEF HandleKeyx, CountersAfterKeyx, TypeOK, CountedInv,
                                    counters, hellos, requests, history
  <2>5. CASE f.type = "enc" /\ HandleEncrypted(f)
    <3>1. CASE sessionKey # NoKey /\ InSequence(f) /\ f.key = sessionKey
      <4>1. recvSeq' = f.s /\ f.s \in NoSeq..MaxSeq
        BY <1>7, <2>5, <3>1 DEF WellFormed, HandleEncrypted
      <4>2. /\ promise' \in Seq({"pending", "resolved", "rejected"})
            /\ Len(promise') = Len(promise)
            /\ pendingRes' \subseteq pendingRes
            /\ \A id \in pendingRes' : promise'[id] = "pending"
        <5>1. CASE f.msg.type \in {"ok", "err"} /\ f.msg.id \in pendingRes
          <6>1. /\ pendingRes' = pendingRes \ {f.msg.id}
                /\ promise' = [promise EXCEPT ![f.msg.id] = "resolved"]
            BY <2>5, <3>1, <5>1 DEF HandleEncrypted, Unanswered
          <6>2. f.msg.id \in 1..Len(promise)
            BY <5>1 DEF TypeOK
          <6> QED BY <6>1, <6>2 DEF TypeOK
        <5>2. CASE ~(f.msg.type \in {"ok", "err"} /\ f.msg.id \in pendingRes)
          BY <2>5, <3>1, <5>2 DEF HandleEncrypted, TypeOK
        <5> QED BY <5>1, <5>2
      <4> QED BY <2>5, <4>1, <4>2 DEF HandleEncrypted, TypeOK, CountedInv, handshake, hellos, history
    <3>2. CASE ~(sessionKey # NoKey /\ InSequence(f) /\ f.key = sessionKey)
      BY <2>5, <3>2 DEF HandleEncrypted, TypeOK, CountedInv, handshake, hellos, history
    <3> QED BY <3>1, <3>2
  <2>6. CASE HandleOther(f)
    BY <2>6 DEF HandleOther, ConnectionStates, TypeOK, CountedInv, handshake, counters,
                hellos, requests, history
  <2> QED BY <1>3, <1>7, <2>1, <2>2, <2>3, <2>4, <2>5, <2>6 DEF OnMessage
<1>8. ASSUME NEW pin \in Pins, SubmitPin(pin) PROVE TypeOK' /\ CountedInv'
  <2>1. pairingSecret' \in Secrets
    BY <1>8 DEF SubmitPin, HashPin, Secrets, TypeOK
  <2> QED BY <1>8, <2>1 DEF SubmitPin, ConnectionStates, TypeOK, CountedInv, counters, hellos,
                            requests, history
<1>9. ASSUME SendCommand PROVE TypeOK' /\ CountedInv'
  <2> DEFINE id == Len(promise) + 1
  <2>1. CASE ~IsReady
    <3>1. promise' = Append(promise, "rejected") /\ Len(promise) < MaxIds
      BY <1>9, <2>1 DEF SendCommand
    <3>2. /\ promise' \in Seq({"pending", "resolved", "rejected"})
          /\ Len(promise') = Len(promise) + 1
          /\ \A i \in 1..Len(promise) : promise'[i] = promise[i]
      BY <3>1 DEF TypeOK
    <3>3. UNCHANGED <<sendSeq, pendingRes, armed, sealed>>
      BY <1>9, <2>1 DEF SendCommand
    <3> QED BY <1>9, <3>1, <3>2, <3>3 DEF SendCommand, TypeOK, CountedInv, handshake, hellos
  <2>2. CASE IsReady
    <3>1. sessionKey \in Keys
      BY <2>2 DEF IsReady, TypeOK
    <3>2. sealed' \in Seq(Keys \X Nat) /\ sendSeq' = sendSeq + 1
      <4>1. sealed' = Append(sealed, <<sessionKey, sendSeq + 1>>) /\ sendSeq' = sendSeq + 1
        BY <1>9, <2>2 DEF SendCommand
      <4>2. <<sessionKey, sendSeq + 1>> \in Keys \X Nat
        BY <3>1 DEF TypeOK
      <4> QED BY <4>1, <4>2 DEF TypeOK
    <3>3. /\ promise' = Append(promise, "pending") /\ Len(promise) < MaxIds
          /\ pendingRes' = pendingRes \cup {id} /\ armed' = armed \cup {id}
      BY <1>9, <2>2 DEF SendCommand, ArmTimeout
    <3>4. /\ promise' \in Seq({"pending", "resolved", "rejected"})
          /\ Len(promise') = Len(promise) + 1
          /\ \A i \in pendingRes' : promise'[i] = "pending"
      BY <3>3 DEF TypeOK
    <3>5. pendingRes' \subseteq 1..Len(promise') /\ armed' \subseteq 1..Len(promise')
      <4>1. /\ pendingRes \subseteq 1..Len(promise) /\ armed \subseteq 1..Len(promise)
            /\ Len(promise) \in Nat
        BY DEF TypeOK
      <4>2. 1..Len(promise) \subseteq 1..Len(promise') /\ id \in 1..Len(promise')
        BY <3>4, <4>1
      <4> QED BY <3>3, <4>1, <4>2
    <3>6. sendSeq' \in 0..MaxIds /\ CountedInv'
      BY <3>2, <3>3, <3>4 DEF TypeOK, CountedInv
    <3> QED BY <1>9, <3>2, <3>4, <3>5, <3>6 DEF SendCommand, TypeOK, handshake, hellos
  <2> QED BY <2>1, <2>2
<1>10. ASSUME NEW id \in Ids, CommandTimeout(id) PROVE TypeOK' /\ CountedInv'
  <2>1. /\ promise' \in Seq({"pending", "resolved", "rejected"})
        /\ Len(promise') = Len(promise)
        /\ \A i \in pendingRes' : promise'[i] = "pending"
    <3>1. CASE id \in pendingRes
      <4>1. promise' = [promise EXCEPT ![id] = "rejected"] /\ pendingRes' = pendingRes \ {id}
        BY <1>10, <3>1 DEF CommandTimeout
      <4>2. id \in 1..Len(promise)
        BY <3>1 DEF TypeOK
      <4> QED BY <4>1, <4>2 DEF TypeOK
    <3>2. CASE id \notin pendingRes
      BY <1>10, <3>2 DEF CommandTimeout, TypeOK
    <3> QED BY <3>1, <3>2
  <2>2. pendingRes' \subseteq 1..Len(promise') /\ armed' \subseteq 1..Len(promise')
    BY <1>10, <2>1 DEF CommandTimeout, TypeOK
  <2> QED BY <1>10, <2>1, <2>2
          DEF CommandTimeout, TypeOK, CountedInv, handshake, counters, hellos, history
<1>11. CASE UNCHANGED vars
  BY <1>11 DEF vars, TypeOK, CountedInv, handshake, counters, hellos, requests, history
<1> QED
  BY <1>2, <1>3, <1>4, <1>5, <1>6, <1>7, <1>8, <1>9, <1>10, <1>11, ServerFrameFields
  DEF Next, Delivered

-------------------------------------------------------------------------------
(* What a step may do to the keys and the counters of what is sealed *)

Anew    == /\ made' = made + 1 /\ clientKeys' = made + 1 /\ sessionKey' = NoKey
           /\ UNCHANGED sealed
Dropped == made' = made /\ clientKeys' = 0 /\ sessionKey' = NoKey /\ UNCHANGED sealed
Quiet   == UNCHANGED <<made, clientKeys, sessionKey, sendSeq, sealed>>
Derived == /\ clientKeys # 0 /\ sessionKey'.client = clientKeys
           /\ UNCHANGED <<made, clientKeys, sendSeq, sealed>>
SealedOne == /\ sessionKey # NoKey /\ sendSeq' = sendSeq + 1
             /\ sealed' = Append(sealed, <<sessionKey, sendSeq'>>)
             /\ UNCHANGED <<made, clientKeys, sessionKey>>

LEMMA MessageEffects ==
  ASSUME NEW n \in Conns, NEW f, OnMessage(n, f)
  PROVE  Dropped \/ Quiet \/ Derived
<1>1. CASE HandleChallenge(f) \/ HandlePinAck(f) \/ HandlePinNack \/ HandleOther(f)
  BY <1>1 DEF HandleChallenge, HandlePinAck, HandlePinNack, HandleOther, Quiet, counters,
              history, handshake
<1>2. CASE HandleKeyx(f)
  BY <1>2 DEF HandleKeyx, CountersAfterKeyx, DeriveKey, Quiet, Derived, counters, history
<1>3. CASE HandleEncrypted(f)
  BY <1>3 DEF HandleEncrypted, Quiet, handshake, history
<1>4. CASE Disconnect
  BY <1>4 DEF Disconnect, DisconnectFirst, ForgetKey, Dropped
<1> QED BY <1>1, <1>2, <1>3, <1>4 DEF OnMessage

LEMMA Effects ==
  [Next]_vars \/ Delivered
    => Anew \/ Dropped \/ Quiet \/ Derived \/ SealedOne
<1> SUFFICES ASSUME [Next]_vars \/ Delivered
             PROVE  Anew \/ Dropped \/ Quiet \/ Derived \/ SealedOne
  OBVIOUS
<1>1. ASSUME NEW mode \in Modes, Connect(mode) PROVE Anew
  BY <1>1 DEF Connect, DisconnectFirst, ForgetKey, Anew
<1>2. ASSUME Disconnect PROVE Dropped
  BY <1>2 DEF Disconnect, DisconnectFirst, ForgetKey, Dropped
<1>3. ASSUME NEW n \in Conns, OnOpen(n) \/ OnClose(n) PROVE Quiet
  BY <1>3 DEF OnOpen, OnClose, Quiet, handshake, counters, history
<1>4. ASSUME HelloTimer PROVE Quiet
  BY <1>4 DEF HelloTimer, Quiet, handshake, counters, history
<1>5. ASSUME NEW pin \in Pins, SubmitPin(pin) PROVE Quiet
  BY <1>5 DEF SubmitPin, Quiet, counters, history
<1>6. ASSUME SendCommand PROVE Quiet \/ SealedOne
  BY <1>6 DEF SendCommand, IsReady, Quiet, SealedOne, handshake
<1>7. ASSUME NEW id \in Ids, CommandTimeout(id) PROVE Quiet
  BY <1>7 DEF CommandTimeout, Quiet, handshake, counters, history
<1>8. CASE UNCHANGED vars
  BY <1>8 DEF vars, Quiet, handshake, counters, history
<1> QED BY <1>1, <1>2, <1>3, <1>4, <1>5, <1>6, <1>7, <1>8, MessageEffects
    DEF Next, Delivered

-------------------------------------------------------------------------------
(* The invariant *)

LEMMA ClientsDrawn ==
  ASSUME TypeOK, NEW i \in 1..Len(sealed)
  PROVE  /\ sealed[i][1].client \in 1..MaxConns
         /\ sealed[i][2] \in Nat /\ sealed[i][1] \in Keys
<1>1. sealed[i] \in Keys \X Nat
  BY DEF TypeOK
<1> QED BY <1>1 DEF Keys, Conns

LEMMA AppendBelow ==
  ASSUME TransportInv, SealedOne
  PROVE  SealOnce' /\ SealedBelow'
<1> USE TransportAssumption
<1>1. /\ sessionKey \in Keys /\ sessionKey.client = clientKeys /\ clientKeys <= made
      /\ sendSeq \in Nat /\ sendSeq' = sendSeq + 1 /\ sealed \in Seq(Keys \X Nat)
  BY DEF TransportInv, TypeOK, KeyOfThisConnection, SealedOne
<1>2. sealed' = Append(sealed, <<sessionKey, sendSeq'>>) /\ UNCHANGED <<made, clientKeys>>
  BY DEF SealedOne
<1>3. \A i \in 1..Len(sealed) : sealed[i][1] = sessionKey => sealed[i][2] < sendSeq'
  BY <1>1, ClientsDrawn DEF SealedBelow, TransportInv
<1>4. SealOnce'
  BY <1>1, <1>2, <1>3, AppendNew DEF SealOnce, TransportInv
<1>5. ASSUME NEW i \in 1..Len(sealed')
      PROVE  /\ sealed'[i][1].client <= made
             /\ sealed'[i][1].client = clientKeys => sealed'[i][2] <= sendSeq'
  <2>1. CASE i \in 1..Len(sealed)
    <3>1. sealed'[i] = sealed[i]
      BY <1>1, <1>2, <2>1
    <3> QED BY <1>1, <2>1, <3>1, ClientsDrawn DEF SealedBelow, TransportInv
  <2>2. CASE i = Len(sealed) + 1
    <3>1. sealed'[i] = <<sessionKey, sendSeq'>>
      BY <1>1, <1>2, <2>2
    <3> QED BY <1>1, <3>1
  <2>3. Len(sealed') = Len(sealed) + 1
    BY <1>1, <1>2
  <2> QED BY <2>1, <2>2, <2>3
<1> QED BY <1>2, <1>4, <1>5 DEF SealedBelow

LEMMA InvKept == TransportInv /\ ([Next]_vars \/ Delivered) => TransportInv'
<1> SUFFICES ASSUME TransportInv, [Next]_vars \/ Delivered PROVE TransportInv'
  OBVIOUS
<1>1. TypeOK /\ CountedInv /\ TypeOK' /\ CountedInv'
  BY TypeKept DEF TransportInv
<1>2. made \in Nat /\ clientKeys \in Nat
  BY <1>1, TransportAssumption DEF TypeOK
<1>3. CASE Quiet
  BY <1>1, <1>3 DEF Quiet, TransportInv, LatestInv, KeyOfThisConnection, SealedBelow, SealOnce
<1>4. CASE Anew \/ Dropped
  <2>1. LatestInv' /\ KeyOfThisConnection' /\ SealOnce'
    BY <1>4 DEF Anew, Dropped, TransportInv, LatestInv, KeyOfThisConnection, SealOnce
  <2>2. \A i \in 1..Len(sealed) : /\ sealed[i][1].client <= made'
                                  /\ sealed[i][1].client # clientKeys'
    <3>1. ASSUME NEW i \in 1..Len(sealed)
          PROVE  sealed[i][1].client \in 1..MaxConns /\ sealed[i][1].client <= made
      BY <1>1, ClientsDrawn DEF TransportInv, SealedBelow
    <3>2. made' \in {made, made + 1} /\ clientKeys' \in {0, made + 1}
      BY <1>4 DEF Anew, Dropped
    <3> QED BY <1>2, <3>1, <3>2, TransportAssumption
  <2>3. sealed' = sealed
    BY <1>4 DEF Anew, Dropped
  <2> QED BY <1>1, <2>1, <2>2, <2>3 DEF TransportInv, SealedBelow
<1>5. CASE Derived
  BY <1>1, <1>5 DEF Derived, TransportInv, LatestInv, KeyOfThisConnection, SealedBelow, SealOnce
<1>6. CASE SealedOne
  <2>1. LatestInv' /\ KeyOfThisConnection'
    BY <1>6 DEF SealedOne, TransportInv, LatestInv, KeyOfThisConnection
  <2> QED BY <1>1, <1>6, <2>1, AppendBelow DEF TransportInv
<1> QED BY <1>3, <1>4, <1>5, <1>6, Effects

-------------------------------------------------------------------------------
(* The inductive invariant: the types, and how the counters of what was    *)
(* sealed relate to the connection in use.                                 *)
THEOREM TransportInvariant == Spec => []TransportInv
<1>1. Init => TransportInv
  BY TransportInit
<1>2. TransportInv /\ [Next]_vars => TransportInv'
  BY InvKept
<1> QED BY <1>1, <1>2, PTL DEF Spec

(* The types of the Transport's fields, with every request of pendingRes   *)
(* one whose promise is still pending (transport.ts:61-74).                *)
THEOREM TransportTypeCorrect == Spec => []TypeOK
<1>1. TransportInv => TypeOK
  BY DEF TransportInv
<1> QED BY <1>1, TransportInvariant, PTL

(* No key survives into a later connection (transport.ts:158-176).         *)
THEOREM KeysStayWithTheirConnection == Spec => []KeyOfThisConnection
<1>1. TransportInv => KeyOfThisConnection
  BY DEF TransportInv
<1> QED BY <1>1, TransportInvariant, PTL

(* No counter is sealed twice under one key (transport.ts:363-365).        *)
THEOREM CountersSealedOnce == Spec => []SealOnce
<1>1. TransportInv => SealOnce
  BY DEF TransportInv
<1> QED BY <1>1, TransportInvariant, PTL

===============================================================================
