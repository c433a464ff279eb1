--------------------------- MODULE DeviceHostProofs ---------------------------
(***************************************************************************)
(* Proofs about DeviceHost, for any number of sessions, PINs and keys.     *)
(***************************************************************************)
EXTENDS DeviceHost, SequenceTheorems, TLAPS

-------------------------------------------------------------------------------
(* The inductive invariant.  Slots are numbered in the order they are      *)
(* displayed, so that "an older slot" is a smaller number.                 *)

(* The pending slot is the latest, and its attempts are the guesses the    *)
(* history counted; a slot not yet displayed has none.                     *)
SlotInv ==
  /\ \A n \in Salts : wrong[n] <= MaxAttempts
  /\ \A n \in Salts : n > minted => wrong[n] = 0
  /\ pending # NoSlot => /\ pending.salt = minted
                         /\ wrong[minted] = pending.attempts
                         /\ pending.attempts < MaxAttempts

(* Held secrets come from displayed slots, never from the pending one.     *)
HeldInv(s) ==
  \A n \in SlotsHeld(s) : n <= minted /\ (pending # NoSlot => n < minted)

DisjointInv ==
  \A s \in Sessions : \A r \in Sessions \ {s} :
    SlotsHeld(s) \cap SlotsHeld(r) = {}

HandshakeInv(s) ==
  hs[s] # NoHandshake => /\ hs[s].serverKeys <= keyed
                         /\ Paired(s) => hs[s].clientPub # NoPub

(* A session key is no younger than the handshake it stands beside, and    *)
(* one made from the handshake's own secret is the key of that handshake.  *)
KeyInv(s) ==
  sessionKey[s] # NoKey =>
    /\ hs[s] # NoHandshake
    /\ sessionKey[s].server <= hs[s].serverKeys
    /\ Paired(s) => sessionKey[s].secret.salt <= hs[s].pairingSecret.salt
    /\ Paired(s) /\ sessionKey[s].secret.salt = hs[s].pairingSecret.salt
         => sessionKey[s] = [server |-> hs[s].serverKeys,
                             client |-> hs[s].clientPub,
                             secret |-> hs[s].pairingSecret]

RunningInv(s) ==
  \A i \in 1..Len(running[s]) :
    /\ sessionKey[s] # NoKey
    /\ \/ running[s][i].key = sessionKey[s]
       \/ running[s][i].key.secret.salt < sessionKey[s].secret.salt

(* No later key pair than that of the current handshake was used; if this  *)
(* one was, it is in use, and no counter above recvSeq was opened under it *)
(* unless one was missing.                                                 *)
AcceptedInv(s) ==
  \A a \in accepted[s] :
    /\ hs[s] # NoHandshake
    /\ a[1].server <= hs[s].serverKeys
    /\ a[1].server = hs[s].serverKeys =>
         /\ sessionKey[s] # NoKey /\ sessionKey[s].server = hs[s].serverKeys
         /\ Counted(s) => a[2] <= hs[s].recvSeq

SessionInv(s) ==
  HeldInv(s) /\ HandshakeInv(s) /\ KeyInv(s) /\ RunningInv(s) /\ AcceptedInv(s)

DeviceInv ==
  TypeOK /\ SlotInv /\ DisjointInv /\ \A s \in Sessions : SessionInv(s)

-------------------------------------------------------------------------------
(* Helpers *)

(* RemoveAt(q, i) keeps the other elements, each at its index or one lower. *)
LEMMA RemoveAtElements ==
  ASSUME NEW S, NEW q \in Seq(S), NEW i \in 1..Len(q)
  PROVE  /\ RemoveAt(q, i) \in Seq(S)
         /\ Len(RemoveAt(q, i)) = Len(q) - 1
         /\ \A j \in 1..Len(RemoveAt(q, i)) :
              RemoveAt(q, i)[j] = q[j] \/ (j + 1 \in 1..Len(q) /\ RemoveAt(q, i)[j] = q[j + 1])
<1> DEFINE a == SubSeq(q, 1, i - 1)
           b == SubSeq(q, i + 1, Len(q))
<1>1. /\ a \in Seq(S) /\ Len(a) = i - 1
      /\ \A j \in 1..(i - 1) : a[j] = q[j]
  <2>1. \A j \in 1..(i - 1) : q[j] \in S
    OBVIOUS
  <2>2. i - 1 \in Int /\ 1 \in Int
    OBVIOUS
  <2> QED BY <2>1, <2>2, SubSeqProperties
<1>2. /\ b \in Seq(S) /\ Len(b) = Len(q) - i
      /\ \A j \in 1..(Len(q) - i) : b[j] = q[i + j]
  <2>1. \A j \in (i + 1)..Len(q) : q[j] \in S
    OBVIOUS
  <2>2. i + 1 \in Int /\ Len(q) \in Int
    OBVIOUS
  <2>3. /\ SubSeq(q, i + 1, Len(q)) \in Seq(S)
        /\ Len(SubSeq(q, i + 1, Len(q))) =
             IF i + 1 <= Len(q) THEN Len(q) - (i + 1) + 1 ELSE 0
        /\ \A j \in 1 .. Len(q) - (i + 1) + 1 :
             SubSeq(q, i + 1, Len(q))[j] = q[i + 1 + j - 1]
    BY <2>1, <2>2, SubSeqProperties
  <2> QED BY <2>3
<1> HIDE DEF a, b
<1>3. /\ a \o b \in Seq(S)
      /\ Len(a \o b) = Len(q) - 1
      /\ \A j \in 1..(Len(q) - 1) :
           (a \o b)[j] = IF j <= i - 1 THEN a[j] ELSE b[j - (i - 1)]
  <2>1. a \in Seq(S) /\ b \in Seq(S)
    BY <1>1, <1>2
  <2>2. /\ a \o b \in Seq(S)
        /\ Len(a \o b) = Len(a) + Len(b)
        /\ \A j \in 1..(Len(a) + Len(b)) :
             (a \o b)[j] = IF j <= Len(a) THEN a[j] ELSE b[j - Len(a)]
    BY <2>1, ConcatProperties
  <2>3. Len(a) = i - 1 /\ Len(a) + Len(b) = Len(q) - 1
    BY <1>1, <1>2
  <2> QED BY <2>2, <2>3
<1>4. \A j \in 1..(Len(q) - 1) : (a \o b)[j] = q[j] \/ (j + 1 \in 1..Len(q) /\ (a \o b)[j] = q[j + 1])
  BY <1>1, <1>2, <1>3
<1> QED BY <1>3, <1>4 DEF RemoveAt, a, b

(* All that the types of a session take for granted of a frame.  The       *)
(* frames of ClientFrames are Readable, and so are those an honest         *)
(* controller has sealed under a key the session may have forgotten.       *)
Readable(f) ==
  f.type = "enc" => f.s \in NoSeq..MaxSeq /\ (f.msg.type = "cmd" => f.msg.id \in Ids)

Served == \E s \in Sessions : \E f : Readable(f) /\ HandleFrame(s, f)

LEMMA ClientsReadable ==
  ASSUME NEW s \in Sessions, NEW f \in ClientFrames(s)
  PROVE  Readable(f)
<1> SUFFICES ASSUME f.type = "enc"
             PROVE  f.s \in NoSeq..MaxSeq /\ (f.msg.type = "cmd" => f.msg.id \in Ids)
  BY DEF Readable
<1>1. \/ \E n \in {NoSeq} \cup 1..MaxSeq, m \in {Cmd(id) : id \in Ids} \cup {NotJson} :
           f = EncFrame(sessionKey[s], n, m)
      \/ f = EncFrame(NoKey, MaxSeq, NotJson)
  BY DEF ClientFrames, HelloFrame, PinVerifyFrame, KeyxFrame, ByeFrame,
         UnknownFrame
<1> QED BY <1>1, DeviceAssumption DEF EncFrame, Cmd, NotJson, NoSeq

-------------------------------------------------------------------------------
(* Type correctness *)

LEMMA SlotTypes ==
  ASSUME TypeOK, pending # NoSlot
  PROVE  /\ pending \in Slots /\ pending.salt \in Salts
         /\ pending.secret \in Secrets /\ pending.attempts \in Nat
         /\ pending.expiresAt \in Nat
         /\ WrongAttempt(pending) \in Slots \cup {NoSlot}
<1>1. pending \in Slots
  BY DEF TypeOK, PairingTypeOK
<1>2. /\ pending.salt \in Salts /\ pending.secret \in Secrets
      /\ pending.attempts \in Nat /\ pending.expiresAt \in Nat
  BY <1>1 DEF Slots
<1>3. [pending EXCEPT !.attempts = @ + 1] \in Slots
  BY <1>1, <1>2 DEF Slots
<1> QED
  BY <1>1, <1>2, <1>3 DEF WrongAttempt

LEMMA HandshakeTypes ==
  ASSUME TypeOK, NEW s \in Sessions, hs[s] # NoHandshake
  PROVE  /\ hs[s] \in Handshakes
         /\ hs[s].serverKeys \in 1..MaxKeys
         /\ hs[s].clientPub \in ClientPubs \cup {NoPub}
         /\ hs[s].pairingSecret \in Secrets \cup {NoSecret}
         /\ hs[s].sendSeq \in 0..MaxSend
         /\ hs[s].recvSeq \in NoSeq..MaxSeq
BY DEF TypeOK, Handshakes

LEMMA TypeInit == Init => TypeOK
<1> SUFFICES ASSUME Init PROVE TypeOK
  OBVIOUS
<1>1. PairingTypeOK
  BY PairingAssumption DEF Init, PairingInit, PairingTypeOK
<1>2. running \in [Sessions -> Seq(Commands)]
  BY DEF Init
<1>3. keyed \in 0..MaxKeys
  BY DeviceAssumption DEF Init
<1> QED
  BY <1>1, <1>2, <1>3 DEF Init, TypeOK

(* One step per handler, and under it the conjuncts it can disturb. *)
LEMMA TypeStep == TypeOK /\ ([Next]_vars \/ Served) => TypeOK'
<1> SUFFICES ASSUME TypeOK, [Next]_vars \/ Served PROVE TypeOK'
  OBVIOUS
<1> USE PairingAssumption, DeviceAssumption
<1> DEFINE Rest == UNCHANGED <<pairingVars, link, sessionVars, history>>
<1>0. ASSUME Rest PROVE TypeOK'
  BY <1>0 DEF TypeOK, PairingTypeOK, pairingVars, sessionVars, history
<1>1. ASSUME NEW s \in Sessions, Connect(s) \/ CloseForPolicy(s) \/ Disconnect(s)
      PROVE  TypeOK'
  BY <1>1 DEF Connect, CloseForPolicy, Disconnect, TypeOK, PairingTypeOK,
              pairingVars, sessionVars, history
<1>2. ASSUME NEW s \in Sessions, NEW f, Readable(f), HandleFrame(s, f)
      PROVE  TypeOK'
  <2>1. ASSUME HandleHello(s, f) PROVE TypeOK'
    <3>1. keyed' \in 0..MaxKeys /\ hs' \in [Sessions -> Handshakes \cup {NoHandshake}]
      <4>1. keyed < MaxKeys => FreshHandshake(keyed + 1) \in Handshakes
        BY DeviceAssumption DEF TypeOK, FreshHandshake, Handshakes, NoSeq
      <4>2. CASE UNCHANGED <<hs, keyed>>
        BY <4>2 DEF TypeOK
      <4>3. CASE /\ keyed < MaxKeys /\ keyed' = keyed + 1
                 /\ hs' = [hs EXCEPT ![s] = FreshHandshake(keyed + 1)]
        BY <4>1, <4>3 DEF TypeOK
      <4> QED BY <2>1, <4>2, <4>3 DEF HandleHello
    <3> QED
      BY <2>1, <3>1 DEF HandleHello, TypeOK, PairingTypeOK, pairingVars, history
  <2>2. ASSUME PinBeforeHello(s, f) PROVE TypeOK'
    BY <1>0, <2>2 DEF PinBeforeHello
  <2>3. ASSUME PinRefused(s, f) PROVE TypeOK'
    <3>1. pending' \in Slots \cup {NoSlot}
      BY <2>3, SlotTypes DEF PinRefused, PinFails, TypeOK, PairingTypeOK
    <3>2. wrong' \in [Salts -> Nat]
      BY <2>3, SlotTypes DEF PinRefused, TypeOK
    <3> QED
      BY <2>3, <3>1, <3>2 DEF PinRefused, TypeOK, PairingTypeOK, sessionVars
  <2>4. ASSUME PinWithBadPub(s, f) PROVE TypeOK'
    BY <1>0, <2>4 DEF PinWithBadPub
  <2>5. ASSUME PinAccepted(s, f) PROVE TypeOK'
    <3>1. PairingTypeOK'
      BY <2>5 DEF PinAccepted, ConsumePending, AfterConsume, HashingTakesTime,
                  TypeOK, PairingTypeOK
    <3>2. hs' \in [Sessions -> Handshakes \cup {NoHandshake}]
      <4>1. pending.secret \in Secrets /\ hs[s] \in Handshakes
        BY <2>5, SlotTypes, HandshakeTypes DEF PinAccepted, PinMatches
      <4>2. [hs[s] EXCEPT !.pairingSecret = pending.secret, !.clientPub = f.pub]
              \in Handshakes
        BY <2>5, <4>1 DEF PinAccepted, Handshakes
      <4> QED
        BY <2>5, <4>1, <4>2 DEF PinAccepted, TypeOK
    <3> QED
      BY <2>5, <3>1, <3>2 DEF PinAccepted, TypeOK, history
  <2>6. ASSUME HandleKeyx(s, f) PROVE TypeOK'
    <3>1. CASE UNCHANGED <<hs, sessionKey>>
      BY <1>0, <2>6, <3>1 DEF HandleKeyx, sessionVars
    <3>2. CASE ~UNCHANGED <<hs, sessionKey>>
      <4>1. /\ hs[s] \in Handshakes /\ f.pub \in ClientPubs
            /\ hs[s].serverKeys \in 1..MaxKeys /\ hs[s].pairingSecret \in Secrets
        BY <2>6, <3>2, HandshakeTypes DEF HandleKeyx, Paired, SameClient
      <4>2. hs' \in [Sessions -> Handshakes \cup {NoHandshake}]
        <5>1. [hs[s] EXCEPT !.clientPub = f.pub] \in Handshakes
          BY <4>1 DEF Handshakes
        <5>2. hs' = [hs EXCEPT ![s] = [hs[s] EXCEPT !.clientPub = f.pub]]
          BY <2>6, <3>2 DEF HandleKeyx, DeriveKey
        <5> QED BY <5>1, <5>2 DEF TypeOK
      <4>3. sessionKey' \in [Sessions -> Keys \cup {NoKey}]
        <5> DEFINE new == [server |-> hs[s].serverKeys, client |-> f.pub,
                           secret |-> hs[s].pairingSecret]
        <5>1. new \in Keys
          BY <4>1 DEF Keys
        <5>2. sessionKey' = [sessionKey EXCEPT ![s] = new]
          BY <2>6, <3>2 DEF HandleKeyx, DeriveKey
        <5> QED BY <5>1, <5>2 DEF TypeOK
      <4> QED
        BY <2>6, <4>2, <4>3 DEF HandleKeyx, TypeOK, PairingTypeOK, pairingVars, history
    <3> QED BY <3>1, <3>2
  <2>7. ASSUME f.type = "enc", HandleEncrypted(s, f) PROVE TypeOK'
    <3>1. CASE PayloadRefused(s, f)
      BY <1>0, <3>1 DEF PayloadRefused
    <3>2. CASE PayloadOpened(s, f)
      <4>1. /\ f.s \in NoSeq..MaxSeq
            /\ f.msg.type = "cmd" => f.msg.id \in Ids
            /\ sessionKey[s] \in Keys /\ hs[s] \in Handshakes
        BY <1>2, <2>7, <3>2, HandshakeTypes DEF Readable, PayloadOpened, Ready, TypeOK
      <4>2. hs' \in [Sessions -> Handshakes \cup {NoHandshake}]
        BY <3>2, <4>1 DEF PayloadOpened, TypeOK, Handshakes
      <4>3. accepted' \in [Sessions -> SUBSET (Keys \X (NoSeq..MaxSeq))]
        BY <3>2, <4>1 DEF PayloadOpened, TypeOK
      <4>4. running' \in [Sessions -> Seq(Commands)]
        <5>1. CASE UNCHANGED running
          BY <5>1 DEF TypeOK
        <5>2. CASE f.msg.type = "cmd" /\ running' = [running EXCEPT ![s] =
                     Append(@, [id |-> f.msg.id, key |-> sessionKey[s]])]
          <6>1. [id |-> f.msg.id, key |-> sessionKey[s]] \in Commands
            BY <4>1, <5>2 DEF Commands
          <6> QED BY <5>2, <6>1 DEF TypeOK
        <5> QED BY <3>2, <5>1, <5>2 DEF PayloadOpened
      <4> QED
        BY <3>2, <4>2, <4>3, <4>4
        DEF PayloadOpened, TypeOK, PairingTypeOK, pairingVars
    <3> QED BY <2>7, <3>1, <3>2 DEF HandleEncrypted
  <2>8. ASSUME HandleOther(s, f) PROVE TypeOK'
    BY <1>0, <2>8 DEF HandleOther
  <2> QED
    BY <1>2, <2>1, <2>2, <2>3, <2>4, <2>5, <2>6, <2>7, <2>8
    DEF HandleFrame, HandlePinVerify
<1>3. ASSUME NEW s \in Sessions, NEW msg, SendEncrypted(s, msg)
      PROVE  hs' \in [Sessions -> Handshakes \cup {NoHandshake}]
  <2>1. CASE UNCHANGED hs
    BY <2>1 DEF TypeOK
  <2>2. CASE /\ Ready(s) /\ hs[s].sendSeq < MaxSend
             /\ hs' = [hs EXCEPT ![s].sendSeq = @ + 1]
    <3>1. hs[s] \in Handshakes /\ hs[s].sendSeq + 1 \in 0..MaxSend
      BY <2>2, HandshakeTypes DEF Ready
    <3>2. [hs[s] EXCEPT !.sendSeq = @ + 1] \in Handshakes
      BY <3>1 DEF Handshakes
    <3> QED BY <2>2, <3>2 DEF TypeOK
  <2> QED BY <1>3, <2>1, <2>2 DEF SendEncrypted
<1>4. ASSUME NEW s \in Sessions, NEW i \in 1..Len(running[s]), NEW outcome,
             Settle(s, i, outcome)
      PROVE  TypeOK'
  <2>1. running' \in [Sessions -> Seq(Commands)]
    BY <1>4, RemoveAtElements DEF Settle, TypeOK
  <2>2. hs' \in [Sessions -> Handshakes \cup {NoHandshake}]
    BY <1>3, <1>4 DEF Settle
  <2> QED
    BY <1>4, <2>1, <2>2 DEF Settle, TypeOK, PairingTypeOK, pairingVars, history
<1>5. ASSUME NEW s \in Sessions, SendEvent(s) PROVE TypeOK'
  <2>1. hs' \in [Sessions -> Handshakes \cup {NoHandshake}]
    BY <1>3, <1>5 DEF SendEvent
  <2> QED
    BY <1>5, <2>1 DEF SendEvent, TypeOK, PairingTypeOK, pairingVars, history
<1>6. ASSUME NewPin PROVE TypeOK'
  <2>1. PairingTypeOK'
    BY <1>6 DEF NewPin, BeginPairing, TypeOK, PairingTypeOK, Slots, Secrets, Salts, HashPin
  <2> QED BY <1>6, <2>1 DEF NewPin, Local, TypeOK, sessionVars, history
<1>7. ASSUME PinDropped \/ ClockTicks PROVE TypeOK'
  BY <1>7 DEF PinDropped, CancelPairing, ClockTicks, Tick, Local, TypeOK,
              PairingTypeOK, sessionVars, history
<1>8. CASE UNCHANGED vars
  BY <1>0, <1>8 DEF vars
<1> QED
  BY <1>1, <1>2, <1>4, <1>5, <1>6, <1>7, <1>8, ClientsReadable DEF Next, Served

(* Every variable keeps its type: the PIN slot, the handshakes, the keys   *)
(* and the commands under way are what the handlers take them for.         *)
THEOREM DeviceTypeCorrect == Spec => []TypeOK
BY TypeInit, TypeStep, PTL DEF Spec
-------------------------------------------------------------------------------
(* Safety *)

LEMMA DeviceInit == Init => DeviceInv
<1> SUFFICES ASSUME Init PROVE DeviceInv
  OBVIOUS
<1>1. TypeOK
  BY TypeInit
<1>2. SlotInv
  BY PairingAssumption DEF Init, PairingInit, SlotInv
<1>3. \A s \in Sessions : SlotsHeld(s) = {}
  BY DEF Init, SlotsHeld, Paired
<1>4. DisjointInv
  BY <1>3 DEF DisjointInv
<1>5. \A s \in Sessions : SessionInv(s)
  BY <1>3 DEF Init, SessionInv, HeldInv, HandshakeInv, KeyInv, RunningInv, AcceptedInv
<1> QED
  BY <1>1, <1>2, <1>4, <1>5 DEF DeviceInv

(* A step that keeps the PIN slot, its history and the keys of every       *)
(* session but one: only that session's part of the invariant is at stake. *)
LEMMA OneSessionMoves ==
  ASSUME DeviceInv, TypeOK', UNCHANGED <<pending, minted, wrong>>,
         keyed' \in {keyed, keyed + 1},
         NEW s \in Sessions,
         \A r \in Sessions \ {s} :
            /\ hs'[r] = hs[r] /\ sessionKey'[r] = sessionKey[r]
            /\ running'[r] = running[r] /\ accepted'[r] = accepted[r],
         SlotsHeld(s)' \subseteq SlotsHeld(s),
         HandshakeInv(s)', KeyInv(s)', RunningInv(s)', AcceptedInv(s)'
  PROVE  DeviceInv'
<1>1. \A r \in Sessions \ {s} : SlotsHeld(r)' = SlotsHeld(r)
  BY DEF SlotsHeld, Paired
<1>2. SlotInv'
  BY DEF DeviceInv, SlotInv
<1>3. DisjointInv'
  BY <1>1 DEF DeviceInv, DisjointInv
<1>4. \A r \in Sessions : HeldInv(r)'
  BY <1>1 DEF DeviceInv, SessionInv, HeldInv
<1>5. \A r \in Sessions \ {s} : HandshakeInv(r)'
  <2> TAKE r \in Sessions \ {s}
  <2>1. keyed \in Nat /\ (hs[r] # NoHandshake => hs[r].serverKeys \in Nat)
    BY HandshakeTypes DEF DeviceInv, TypeOK
  <2> QED BY <2>1 DEF DeviceInv, SessionInv, HandshakeInv, Paired
<1>6. \A r \in Sessions \ {s} : KeyInv(r)' /\ RunningInv(r)' /\ AcceptedInv(r)'
  <2> TAKE r \in Sessions \ {s}
  <2>1. KeyInv(r)' /\ RunningInv(r)'
    BY DEF DeviceInv, SessionInv, KeyInv, RunningInv, Paired
  <2>2. Counted(r)' => Counted(r)
    BY DEF Counted
  <2>3. AcceptedInv(r)'
    BY <2>2 DEF DeviceInv, SessionInv, AcceptedInv
  <2> QED BY <2>1, <2>3
<1> QED
  BY <1>2, <1>3, <1>4, <1>5, <1>6 DEF DeviceInv, SessionInv

(* A step that touches neither a session nor the PIN slot.                 *)
LEMMA SessionsIdle ==
  ASSUME DeviceInv, TypeOK', UNCHANGED <<pending, minted, sessionVars, history>>
  PROVE  DeviceInv'
<1>1. \A s \in Sessions : AcceptedInv(s)'
  <2> TAKE s \in Sessions
  <2>1. /\ hs'[s] = hs[s] /\ sessionKey'[s] = sessionKey[s] /\ accepted'[s] = accepted[s]
        /\ AcceptedInv(s)
    BY DEF DeviceInv, SessionInv, sessionVars, history
  <2>2. Counted(s)' => Counted(s)
    BY <2>1 DEF Counted
  <2> QED BY <2>1, <2>2 DEF AcceptedInv
<1>2. SlotInv' /\ DisjointInv'
  <2>1. SlotInv'
    BY DEF DeviceInv, SlotInv, history
  <2>2. \A s \in Sessions : SlotsHeld(s)' = SlotsHeld(s)
    BY DEF SlotsHeld, Paired, sessionVars
  <2> QED BY <2>1, <2>2 DEF DeviceInv, DisjointInv
<1>3. \A s \in Sessions : HeldInv(s)' /\ HandshakeInv(s)'
  BY DEF DeviceInv, SessionInv, HeldInv, HandshakeInv, SlotsHeld, Paired, sessionVars
<1>4. \A s \in Sessions : KeyInv(s)' /\ RunningInv(s)'
  BY DEF DeviceInv, SessionInv, KeyInv, RunningInv, Paired, sessionVars
<1> QED
  BY <1>1, <1>2, <1>3, <1>4 DEF DeviceInv, SessionInv

(* A step that touches the PIN slot alone, and leaves its number, if any,  *)
(* above every held one.                                                   *)
LEMMA SlotMoves ==
  ASSUME DeviceInv, TypeOK', UNCHANGED <<sessionVars, accepted>>,
         minted' \in {minted, minted + 1},
         pending' # NoSlot => pending # NoSlot \/ minted' = minted + 1,
         SlotInv'
  PROVE  DeviceInv'
<1>1. \A s \in Sessions : SlotsHeld(s)' = SlotsHeld(s)
  BY DEF SlotsHeld, Paired, sessionVars
<1>2. DisjointInv'
  BY <1>1 DEF DeviceInv, DisjointInv
<1>3. \A s \in Sessions : HeldInv(s)'
  <2> TAKE s \in Sessions
  <2>1. minted \in Nat /\ SlotsHeld(s) \subseteq Nat
    BY DEF DeviceInv, TypeOK, PairingTypeOK, SlotsHeld, Paired, Handshakes, Keys, Secrets, Salts
  <2> QED BY <1>1, <2>1 DEF DeviceInv, SessionInv, HeldInv
<1>4. \A s \in Sessions :
        HandshakeInv(s)' /\ KeyInv(s)' /\ RunningInv(s)' /\ AcceptedInv(s)'
  BY DEF DeviceInv, SessionInv, HandshakeInv, KeyInv, RunningInv, AcceptedInv, Counted, Paired,
         sessionVars
<1> QED
  BY <1>2, <1>3, <1>4 DEF DeviceInv, SessionInv

(* The numbers the invariant compares are numbers. *)
LEMMA SessionNumbers ==
  ASSUME TypeOK, NEW s \in Sessions
  PROVE  /\ keyed \in Nat /\ minted \in Nat
         /\ hs[s] # NoHandshake => hs[s].serverKeys \in Nat /\ hs[s].recvSeq \in Int
         /\ Paired(s) => hs[s].pairingSecret \in Secrets /\ hs[s].pairingSecret.salt \in Nat
         /\ sessionKey[s] # NoKey => /\ sessionKey[s] \in Keys
                                     /\ sessionKey[s].server \in Nat
                                     /\ sessionKey[s].secret.salt \in Nat
         /\ \A a \in accepted[s] : a[1] \in Keys /\ a[1].server \in Nat /\ a[2] \in Int
         /\ running[s] \in Seq(Commands)
         /\ \A i \in 1..Len(running[s]) : running[s][i].key \in Keys
<1>1. keyed \in Nat /\ minted \in Nat /\ running[s] \in Seq(Commands)
  BY DEF TypeOK, PairingTypeOK
<1>2. hs[s] # NoHandshake => hs[s].serverKeys \in Nat /\ hs[s].recvSeq \in Int
  BY HandshakeTypes DEF NoSeq
<1>3. Paired(s) => hs[s].pairingSecret \in Secrets /\ hs[s].pairingSecret.salt \in Nat
  BY HandshakeTypes DEF Paired, Secrets, Salts
<1>4. sessionKey[s] # NoKey => /\ sessionKey[s] \in Keys
                               /\ sessionKey[s].server \in Nat
                               /\ sessionKey[s].secret.salt \in Nat
  BY DEF TypeOK, Keys, Secrets, Salts
<1>5. \A a \in accepted[s] : a[1] \in Keys /\ a[1].server \in Nat /\ a[2] \in Int
  BY DEF TypeOK, Keys, NoSeq
<1>6. \A i \in 1..Len(running[s]) : running[s][i].key \in Keys
  <2> TAKE i \in 1..Len(running[s])
  <2>1. running[s][i] \in Commands
    BY <1>1, ElementOfSeq
  <2> QED BY <2>1 DEF Commands
<1> QED BY <1>1, <1>2, <1>3, <1>4, <1>5, <1>6

LEMMA HelloKeeps ==
  ASSUME DeviceInv, TypeOK', NEW s \in Sessions, NEW f, HandleHello(s, f)
  PROVE  DeviceInv'
<1> USE DEF DeviceInv
<1>1. CASE UNCHANGED <<hs, keyed>>
  BY <1>1, SessionsIdle DEF HandleHello, sessionVars, pairingVars
<1>2. CASE /\ keyed' = keyed + 1
           /\ hs' = [hs EXCEPT ![s] = FreshHandshake(keyed + 1)]
  <2>1. /\ UNCHANGED <<pending, minted, wrong, sessionKey, running, accepted>>
        /\ \A r \in Sessions \ {s} : hs'[r] = hs[r]
        /\ hs'[s] = FreshHandshake(keyed + 1)
        /\ hs'[s] # NoHandshake
    BY <1>2, DeviceAssumption
    DEF HandleHello, pairingVars, history, TypeOK, FreshHandshake, Handshakes, NoSeq
  <2>2. ~Paired(s)' /\ SlotsHeld(s)' \subseteq SlotsHeld(s)
    BY <2>1 DEF Paired, SlotsHeld, FreshHandshake
  <2>3. HandshakeInv(s)'
    <3>1. hs'[s].serverKeys = keyed' /\ keyed' \in Nat
      BY <1>2, <2>1, SessionNumbers DEF FreshHandshake
    <3> QED BY <2>2, <3>1 DEF HandshakeInv
  <2>4. KeyInv(s)' /\ AcceptedInv(s)'
    <3>1. /\ hs'[s].serverKeys = keyed + 1 /\ keyed \in Nat
          /\ hs[s] # NoHandshake => hs[s].serverKeys <= keyed /\ hs[s].serverKeys \in Nat
      BY <2>1, SessionNumbers DEF FreshHandshake, SessionInv, HandshakeInv
    <3>2. KeyInv(s)'
      <4>1. sessionKey[s] # NoKey =>
              /\ hs[s] # NoHandshake
              /\ sessionKey[s].server <= hs[s].serverKeys /\ sessionKey[s].server \in Nat
        BY SessionNumbers DEF SessionInv, KeyInv
      <4> QED BY <2>1, <2>2, <3>1, <4>1 DEF KeyInv
    <3>3. AcceptedInv(s)'
      <4>1. \A a \in accepted[s] :
              /\ hs[s] # NoHandshake
              /\ a[1].server <= hs[s].serverKeys /\ a[1].server \in Nat
        BY SessionNumbers DEF SessionInv, AcceptedInv
      <4> QED BY <2>1, <3>1, <4>1 DEF AcceptedInv
    <3> QED BY <3>2, <3>3
  <2>5. RunningInv(s)'
    BY <2>1 DEF SessionInv, RunningInv
  <2> QED
    BY <1>2, <2>1, <2>2, <2>3, <2>4, <2>5, OneSessionMoves
<1> QED BY <1>1, <1>2 DEF HandleHello

LEMMA PinRefusedKeeps ==
  ASSUME DeviceInv, TypeOK', NEW s \in Sessions, NEW f, PinRefused(s, f)
  PROVE  DeviceInv'
<1> USE DEF DeviceInv
<1>1. SlotInv'
  <2> USE DEF SlotInv
  <2>1. CASE pending = NoSlot \/ Expired(pending, now) \/ f.pin \notin Pins
    BY <2>1 DEF PinRefused, PinFails
  <2>2. CASE f.pin \in Pins /\ pending # NoSlot /\ ~Expired(pending, now)
    <3>1. /\ pending \in Slots /\ pending.salt \in Salts /\ pending.attempts \in Nat
          /\ wrong \in [Salts -> Nat] /\ MaxAttempts \in Nat
      BY <2>2, SlotTypes, PairingAssumption DEF TypeOK
    <3>2. /\ wrong' = [wrong EXCEPT ![pending.salt] = @ + 1]
          /\ pending' = WrongAttempt(pending) /\ minted' = minted
      BY <2>2 DEF PinRefused, PinFails
    <3>3. wrong'[minted] = pending.attempts + 1
      BY <2>2, <3>1, <3>2
    <3>4. pending' # NoSlot => /\ pending'.salt = pending.salt
                               /\ pending'.attempts = pending.attempts + 1
                               /\ pending'.attempts < MaxAttempts
      BY <3>1, <3>2 DEF WrongAttempt, Slots
    <3>5. \A n \in Salts : n # minted => wrong'[n] = wrong[n]
      BY <2>2, <3>1, <3>2
    <3>6. \A n \in Salts : wrong'[n] <= MaxAttempts
      <4> TAKE n \in Salts
      <4>1. CASE n = minted
        BY <2>2, <3>1, <3>3, <4>1
      <4>2. CASE n # minted
        BY <3>5, <4>2
      <4> QED BY <4>1, <4>2
    <3>7. \A n \in Salts : n > minted' => wrong'[n] = 0
      BY <3>2, <3>5, SessionNumbers DEF Salts
    <3> QED BY <2>2, <3>2, <3>3, <3>4, <3>6, <3>7
  <2> QED BY <2>1, <2>2
<1>2. pending' # NoSlot => pending # NoSlot
  BY DEF PinRefused, PinFails
<1> QED
  BY <1>1, <1>2, SlotMoves DEF PinRefused, sessionVars

LEMMA PinAcceptedKeeps ==
  ASSUME DeviceInv, TypeOK', NEW s \in Sessions, NEW f, PinAccepted(s, f)
  PROVE  DeviceInv'
<1> USE DEF DeviceInv
<1>1. SlotInv' /\ pending' = NoSlot
  BY DEF PinAccepted, ConsumePending, AfterConsume, SlotInv, history
<1>2. CASE UNCHANGED hs
  BY <1>1, <1>2, SlotMoves DEF PinAccepted, sessionVars, history
<1>3. CASE hs' = [hs EXCEPT ![s].pairingSecret = pending.secret,
                            ![s].clientPub = f.pub]
  <2>1. /\ pending # NoSlot /\ pending \in Slots
        /\ pending.secret \in Secrets /\ pending.salt = minted
        /\ hs[s] # NoHandshake /\ hs[s] \in Handshakes
        /\ f.pub \in ClientPubs
    BY SlotTypes, HandshakeTypes DEF PinAccepted, PinMatches, SlotInv
  <2>2. pending.secret.salt = minted
    BY <2>1 DEF PinAccepted, PinMatches, HashPin
  <2>3. /\ UNCHANGED <<minted, wrong, accepted, sessionKey, running, keyed>>
        /\ \A r \in Sessions \ {s} : hs'[r] = hs[r]
        /\ hs'[s].serverKeys = hs[s].serverKeys /\ hs'[s].recvSeq = hs[s].recvSeq
        /\ hs'[s].pairingSecret = pending.secret /\ hs'[s].clientPub = f.pub
        /\ hs'[s] # NoHandshake
    <3>1. hs'[s] = [hs[s] EXCEPT !.pairingSecret = pending.secret, !.clientPub = f.pub]
      BY <1>3 DEF TypeOK
    <3>2. hs'[s] \in Handshakes
      BY <2>1, <3>1 DEF Handshakes
    <3>3. /\ hs'[s].serverKeys = hs[s].serverKeys /\ hs'[s].recvSeq = hs[s].recvSeq
          /\ hs'[s].pairingSecret = pending.secret /\ hs'[s].clientPub = f.pub
          /\ hs'[s] # NoHandshake
      BY <2>1, <3>1, <3>2, DeviceAssumption DEF Handshakes
    <3>4. \A r \in Sessions \ {s} : hs'[r] = hs[r]
      BY <1>3 DEF TypeOK
    <3> QED
      BY <3>3, <3>4 DEF PinAccepted, history
  <2>4. Paired(s)'
    BY <2>1, <2>3, DeviceAssumption DEF Paired
  <2>5. /\ \A r \in Sessions \ {s} : SlotsHeld(r)' = SlotsHeld(r)
        /\ SlotsHeld(s)' \subseteq SlotsHeld(s) \cup {minted}
    BY <2>2, <2>3, <2>4 DEF SlotsHeld, Paired
  <2>6. DisjointInv'
    <3>1. \A r \in Sessions : minted \notin SlotsHeld(r)
      <4> TAKE r \in Sessions
      <4> QED BY <2>1, SessionNumbers DEF SessionInv, HeldInv
    <3> QED BY <2>5, <3>1 DEF DisjointInv
  <2>7. \A r \in Sessions : HeldInv(r)'
    BY <1>1, <2>3, <2>5, SessionNumbers DEF SessionInv, HeldInv
  <2>8. \A r \in Sessions \ {s} :
          HandshakeInv(r)' /\ KeyInv(r)' /\ RunningInv(r)' /\ AcceptedInv(r)'
    BY <2>3 DEF SessionInv, HandshakeInv, KeyInv, RunningInv, AcceptedInv, Counted, Paired
  <2>9. HandshakeInv(s)' /\ RunningInv(s)' /\ AcceptedInv(s)'
    BY <2>1, <2>3, DeviceAssumption DEF SessionInv, HandshakeInv, RunningInv, AcceptedInv, Counted
  <2>10. KeyInv(s)'
    <3>1. sessionKey[s] # NoKey => sessionKey[s].secret.salt < minted
      BY <2>1 DEF SessionInv, HeldInv, SlotsHeld
    <3>2. sessionKey[s] # NoKey => sessionKey[s].server <= hs[s].serverKeys
      BY DEF SessionInv, KeyInv
    <3>3. hs'[s].pairingSecret.salt = minted
      BY <2>2, <2>3
    <3>4. /\ minted \in Nat
          /\ sessionKey[s] # NoKey => sessionKey[s].secret.salt \in Nat
      BY SessionNumbers
    <3> QED
      BY <2>3, <3>1, <3>2, <3>3, <3>4 DEF KeyInv
  <2> QED BY <1>1, <2>6, <2>7, <2>8, <2>9, <2>10 DEF SessionInv
<1> QED BY <1>2, <1>3 DEF PinAccepted

LEMMA KeyxKeeps ==
  ASSUME DeviceInv, TypeOK', NEW s \in Sessions, NEW f, HandleKeyx(s, f)
  PROVE  DeviceInv'
<1> USE DEF DeviceInv
<1>1. CASE UNCHANGED <<hs, sessionKey>>
  BY <1>1, SessionsIdle DEF HandleKeyx, sessionVars, pairingVars
<1>2. CASE /\ Paired(s) /\ SameClient(s, f.pub)
           /\ hs' = [hs EXCEPT ![s].clientPub = f.pub]
           /\ sessionKey' = [sessionKey EXCEPT ![s] =
                               [server |-> hs[s].serverKeys, client |-> f.pub,
                                secret |-> hs[s].pairingSecret]]
  <2> DEFINE new == [server |-> hs[s].serverKeys, client |-> f.pub,
                     secret |-> hs[s].pairingSecret]
  <2>1. hs[s] # NoHandshake /\ hs[s] \in Handshakes /\ hs[s].clientPub = f.pub
    BY <1>2, HandshakeTypes DEF Paired, SameClient, SessionInv, HandshakeInv
  <2>2. hs' = hs
    BY <1>2, <2>1 DEF TypeOK, Handshakes
  <2>3. /\ UNCHANGED <<pending, minted, wrong, keyed, running, accepted>>
        /\ \A r \in Sessions \ {s} : sessionKey'[r] = sessionKey[r]
        /\ sessionKey'[s] = new
    BY <1>2 DEF HandleKeyx, DeriveKey, pairingVars, history, TypeOK
  <2>4. SlotsHeld(s)' \subseteq SlotsHeld(s)
    BY <1>2, <2>2, <2>3 DEF SlotsHeld, Paired
  <2>5. new \in Keys
    BY <1>2, <2>1 DEF Keys, SameClient, Paired, Handshakes
  <2>6. HandshakeInv(s)' /\ AcceptedInv(s)'
    <3>1. HandshakeInv(s)'
      BY <2>2, <2>3 DEF SessionInv, HandshakeInv, Paired
    <3>2. new # NoKey /\ new.server = hs[s].serverKeys
      BY <2>5, DeviceAssumption
    <3>3. Counted(s)' => Counted(s)
      BY <2>2, <2>3 DEF Counted
    <3> HIDE DEF new
    <3>4. AcceptedInv(s)'
      BY <2>2, <2>3, <3>2, <3>3 DEF SessionInv, AcceptedInv
    <3> QED BY <3>1, <3>4
  <2>7. KeyInv(s)'
    <3>1. /\ new.server <= hs[s].serverKeys
          /\ new.secret.salt <= hs[s].pairingSecret.salt
          /\ new = [server |-> hs[s].serverKeys, client |-> hs[s].clientPub,
                     secret |-> hs[s].pairingSecret]
      BY <1>2, <2>1, SessionNumbers
    <3> HIDE DEF new
    <3> QED BY <2>1, <2>2, <2>3, <3>1 DEF KeyInv
  <2>8. RunningInv(s)'
    <3>1. \A i \in 1..Len(running[s]) : sessionKey[s] # NoKey
      BY DEF SessionInv, RunningInv
    <3>2. ASSUME sessionKey[s] # NoKey
          PROVE  sessionKey[s] = new \/ sessionKey[s].secret.salt < new.secret.salt
      <4>1. /\ sessionKey[s].secret.salt <= hs[s].pairingSecret.salt
            /\ sessionKey[s].secret.salt = hs[s].pairingSecret.salt => sessionKey[s] = new
        BY <1>2, <2>1, <3>2 DEF SessionInv, KeyInv
      <4>2. /\ sessionKey[s].secret.salt \in Nat /\ hs[s].pairingSecret.salt \in Nat
            /\ new.secret.salt = hs[s].pairingSecret.salt
        BY <1>2, <3>2, SessionNumbers
      <4> HIDE DEF new
      <4> QED BY <4>1, <4>2
    <3>3. ASSUME NEW i \in 1..Len(running[s])
          PROVE  \/ running[s][i].key = new
                 \/ running[s][i].key.secret.salt < new.secret.salt
      <4>1. running[s][i].key \in Keys /\ sessionKey[s] \in Keys
        BY <3>1, <3>3, SessionNumbers
      <4>2. /\ running[s][i].key.secret.salt \in Nat
            /\ sessionKey[s].secret.salt \in Nat /\ new.secret.salt \in Nat
        BY <2>5, <4>1 DEF Keys, Secrets, Salts
      <4>3. \/ running[s][i].key = sessionKey[s]
            \/ running[s][i].key.secret.salt < sessionKey[s].secret.salt
        BY <3>3 DEF SessionInv, RunningInv
      <4> HIDE DEF new
      <4> QED BY <3>1, <3>2, <3>3, <4>2, <4>3
    <3>4. new # NoKey
      BY <2>5, DeviceAssumption
    <3> HIDE DEF new
    <3> QED BY <2>3, <3>3, <3>4 DEF RunningInv
  <2> QED BY <2>2, <2>3, <2>4, <2>6, <2>7, <2>8, OneSessionMoves
<1> QED BY <1>1, <1>2 DEF HandleKeyx, DeriveKey

LEMMA PayloadKeeps ==
  ASSUME DeviceInv, TypeOK', NEW s \in Sessions, NEW f, f.s \in Int, PayloadOpened(s, f)
  PROVE  DeviceInv'
<1> USE DEF DeviceInv
<1>1. /\ sessionKey[s] # NoKey /\ hs[s] # NoHandshake /\ hs[s] \in Handshakes
      /\ f.s = NoSeq \/ f.s > hs[s].recvSeq
  BY HandshakeTypes DEF PayloadOpened, Ready, InSequence, Stale, NoSeq
<1>2. /\ UNCHANGED <<pending, minted, wrong, keyed, sessionKey>>
      /\ \A r \in Sessions \ {s} : /\ hs'[r] = hs[r] /\ running'[r] = running[r]
                                   /\ accepted'[r] = accepted[r]
      /\ accepted'[s] = accepted[s] \cup {<<sessionKey[s], f.s>>}
  BY DEF PayloadOpened, pairingVars, TypeOK
<1>3. /\ hs'[s].serverKeys = hs[s].serverKeys /\ hs'[s].clientPub = hs[s].clientPub
      /\ hs'[s].pairingSecret = hs[s].pairingSecret /\ hs'[s].recvSeq = f.s
      /\ hs'[s] # NoHandshake
  <2>1. hs'[s] = [hs[s] EXCEPT !.recvSeq = f.s]
    BY DEF PayloadOpened, TypeOK
  <2>2. hs'[s] \in Handshakes \cup {NoHandshake}
    BY DEF TypeOK
  <2>3. /\ hs'[s].serverKeys = hs[s].serverKeys /\ hs'[s].clientPub = hs[s].clientPub
        /\ hs'[s].pairingSecret = hs[s].pairingSecret /\ hs'[s].recvSeq = f.s
        /\ hs'[s] = [serverKeys |-> hs[s].serverKeys, clientPub |-> hs[s].clientPub,
                     pairingSecret |-> hs[s].pairingSecret,
                     sendSeq |-> hs[s].sendSeq, recvSeq |-> f.s]
    BY <1>1, <2>1 DEF Handshakes
  <2>4. hs'[s] # NoHandshake
    <3>1. f.s \in NoSeq..MaxSeq => hs'[s] \in Handshakes
      BY <1>1, <2>3 DEF Handshakes
    <3>2. <<sessionKey[s], f.s>> \in Keys \X (NoSeq..MaxSeq)
      BY <1>2 DEF TypeOK
    <3> QED BY <3>1, <3>2, DeviceAssumption
  <2> QED BY <2>3, <2>4
<1>4. /\ Paired(s)' <=> Paired(s)
      /\ SlotsHeld(s)' \subseteq SlotsHeld(s)
  BY <1>1, <1>2, <1>3 DEF SlotsHeld, Paired
<1>5. HandshakeInv(s)' /\ KeyInv(s)'
  BY <1>1, <1>2, <1>3, <1>4 DEF SessionInv, HandshakeInv, KeyInv
<1>6. RunningInv(s)'
  <2>1. CASE UNCHANGED running
    BY <1>2, <2>1 DEF SessionInv, RunningInv
  <2>2. CASE running' = [running EXCEPT ![s] =
                           Append(@, [id |-> f.msg.id, key |-> sessionKey[s]])]
    <3> DEFINE cmd == [id |-> f.msg.id, key |-> sessionKey[s]]
    <3>1. running'[s] = Append(running[s], cmd) /\ running[s] \in Seq(Commands)
      BY <2>2, SessionNumbers DEF TypeOK
    <3>2. /\ Len(running'[s]) = Len(running[s]) + 1
          /\ \A i \in 1..Len(running'[s]) :
               running'[s][i] = IF i <= Len(running[s]) THEN running[s][i] ELSE cmd
      BY <3>1
    <3>3. cmd.key = sessionKey[s]
      OBVIOUS
    <3>4. Len(running[s]) \in Nat
      BY <3>1
    <3> HIDE DEF cmd
    <3> QED BY <1>1, <1>2, <3>2, <3>3, <3>4 DEF SessionInv, RunningInv
  <2> QED BY <2>1, <2>2 DEF PayloadOpened
<1>7. AcceptedInv(s)'
  <2>1. sessionKey[s].server \in Nat /\ sessionKey[s].server <= hs[s].serverKeys
    BY <1>1, SessionNumbers DEF SessionInv, KeyInv
  <2>2. ASSUME Counted(s)', sessionKey[s].server = hs[s].serverKeys
        PROVE  Counted(s) /\ f.s > hs[s].recvSeq
    <3>1. Counted(s)
      BY <1>2, <1>3, <2>2 DEF Counted
    <3>2. <<sessionKey[s], f.s>>[1].server = hs'[s].serverKeys
      BY <1>3, <2>2
    <3>3. <<sessionKey[s], f.s>> \in accepted'[s]
      BY <1>2
    <3>4. f.s # NoSeq
      BY <2>2, <3>2, <3>3, Zenon DEF Counted
    <3> QED BY <1>1, <3>1, <3>4
  <2>3. ASSUME NEW a \in accepted[s]
        PROVE  /\ a[1].server <= hs'[s].serverKeys
               /\ a[1].server = hs'[s].serverKeys =>
                    /\ sessionKey'[s] # NoKey /\ sessionKey'[s].server = hs'[s].serverKeys
                    /\ Counted(s)' => a[2] <= hs'[s].recvSeq
    BY <1>1, <1>2, <1>3, <2>2, <2>3, SessionNumbers DEF SessionInv, AcceptedInv
  <2> QED BY <1>1, <1>2, <1>3, <2>1, <2>3 DEF AcceptedInv
<1> QED BY <1>2, <1>4, <1>5, <1>6, <1>7, OneSessionMoves

LEMMA SendEncryptedKeeps ==
  ASSUME DeviceInv, TypeOK', NEW s \in Sessions, NEW msg, SendEncrypted(s, msg),
         UNCHANGED <<pairingVars, sessionKey, keyed, history>>,
         \A r \in Sessions \ {s} : running'[r] = running[r],
         RunningInv(s)'
  PROVE  DeviceInv'
<1> USE DEF DeviceInv
<1>1. CASE UNCHANGED hs
  <2>1. HandshakeInv(s)' /\ KeyInv(s)' /\ AcceptedInv(s)'
    BY <1>1 DEF SessionInv, HandshakeInv, KeyInv, AcceptedInv, Counted, Paired, history
  <2>2. /\ SlotsHeld(s)' \subseteq SlotsHeld(s)
        /\ \A r \in Sessions \ {s} : hs'[r] = hs[r]
    BY <1>1 DEF SlotsHeld, Paired
  <2> QED
    BY <2>1, <2>2, OneSessionMoves DEF pairingVars, history
<1>2. CASE Ready(s) /\ hs[s].sendSeq < MaxSend /\ hs' = [hs EXCEPT ![s].sendSeq = @ + 1]
  <2>1. hs[s] \in Handshakes /\ hs[s] # NoHandshake /\ hs[s].sendSeq + 1 \in 0..MaxSend
    BY <1>2, HandshakeTypes, DeviceAssumption DEF Ready
  <2>2. hs'[s] = [hs[s] EXCEPT !.sendSeq = @ + 1]
    BY <1>2 DEF TypeOK
  <2>3. hs'[s] \in Handshakes
    BY <2>1, <2>2 DEF Handshakes
  <2>4. /\ hs'[s].serverKeys = hs[s].serverKeys /\ hs'[s].clientPub = hs[s].clientPub
        /\ hs'[s].pairingSecret = hs[s].pairingSecret
        /\ hs'[s].recvSeq = hs[s].recvSeq /\ hs'[s] # NoHandshake
        /\ \A r \in Sessions \ {s} : hs'[r] = hs[r]
    <3>1. \A r \in Sessions \ {s} : hs'[r] = hs[r]
      BY <1>2 DEF TypeOK
    <3> QED
      BY <2>1, <2>2, <2>3, <3>1, DeviceAssumption DEF Handshakes
  <2>5. HandshakeInv(s)' /\ KeyInv(s)' /\ AcceptedInv(s)'
    BY <2>1, <2>4 DEF SessionInv, HandshakeInv, KeyInv, AcceptedInv, Counted, Paired, history
  <2>6. SlotsHeld(s)' \subseteq SlotsHeld(s)
    BY <2>1, <2>4 DEF SlotsHeld, Paired
  <2> QED
    BY <2>4, <2>5, <2>6, OneSessionMoves DEF pairingVars, history
<1> QED BY <1>1, <1>2 DEF SendEncrypted

LEMMA SettleKeeps ==
  ASSUME DeviceInv, TypeOK', NEW s \in Sessions, NEW i \in 1..Len(running[s]),
         NEW outcome, Settle(s, i, outcome)
  PROVE  DeviceInv'
<1>1. running[s] \in Seq(Commands) /\ Len(running[s]) \in Nat
  BY SessionNumbers DEF DeviceInv
<1>2. running'[s] = RemoveAt(running[s], i) /\ sessionKey' = sessionKey
  BY DEF Settle, DeviceInv, TypeOK
<1>3. \A r \in Sessions \ {s} : running'[r] = running[r]
  BY DEF Settle, DeviceInv, TypeOK
<1>4. RunningInv(s)'
  <2>1. \A j \in 1..Len(running'[s]) :
          \E k \in 1..Len(running[s]) : running'[s][j] = running[s][k]
    <3> DEFINE q == RemoveAt(running[s], i)
    <3>1. /\ Len(q) = Len(running[s]) - 1
          /\ \A j \in 1..Len(q) :
               q[j] = running[s][j] \/ (j + 1 \in 1..Len(running[s]) /\ q[j] = running[s][j + 1])
      BY <1>1, RemoveAtElements
    <3> HIDE DEF q
    <3>2. \A j \in 1..Len(q) : j \in 1..Len(running[s])
      BY <1>1, <3>1
    <3>3. \A j \in 1..Len(q) : \E k \in 1..Len(running[s]) : q[j] = running[s][k]
      BY <3>1, <3>2
    <3> QED BY <1>2, <3>3 DEF q
  <2> QED BY <1>2, <2>1 DEF DeviceInv, SessionInv, RunningInv
<1> QED
  BY <1>3, <1>4, SendEncryptedKeeps DEF Settle

LEMMA SendEventKeeps ==
  ASSUME DeviceInv, TypeOK', NEW s \in Sessions, SendEvent(s)
  PROVE  DeviceInv'
<1>1. RunningInv(s)'
  BY DEF SendEvent, DeviceInv, SessionInv, RunningInv
<1> QED
  BY <1>1, SendEncryptedKeeps DEF SendEvent

LEMMA DeviceStep == DeviceInv /\ ([Next]_vars \/ Served) => DeviceInv'
<1> SUFFICES ASSUME DeviceInv, [Next]_vars \/ Served PROVE DeviceInv'
  OBVIOUS
<1>0. TypeOK'
  BY TypeStep DEF DeviceInv
<1>1. ASSUME NEW s \in Sessions, Connect(s) \/ CloseForPolicy(s) \/ Disconnect(s)
      PROVE  DeviceInv'
  BY <1>0, <1>1, SessionsIdle DEF Connect, CloseForPolicy, Disconnect, pairingVars
<1>2. ASSUME NEW s \in Sessions, NEW f, Readable(f), HandleFrame(s, f)
      PROVE  DeviceInv'
  <2>1. CASE HandleHello(s, f)
    BY <1>0, <2>1, HelloKeeps
  <2>2. CASE PinBeforeHello(s, f) \/ PinWithBadPub(s, f) \/ HandleOther(s, f)
             \/ PayloadRefused(s, f)
    BY <1>0, <2>2, SessionsIdle
    DEF PinBeforeHello, PinWithBadPub, HandleOther, PayloadRefused, pairingVars
  <2>3. CASE PinRefused(s, f)
    BY <1>0, <2>3, PinRefusedKeeps
  <2>4. CASE PinAccepted(s, f)
    BY <1>0, <2>4, PinAcceptedKeeps
  <2>5. CASE HandleKeyx(s, f)
    BY <1>0, <2>5, KeyxKeeps
  <2>6. CASE f.type = "enc" /\ PayloadOpened(s, f)
    <3>1. f.s \in Int
      BY <1>2, <2>6 DEF Readable, NoSeq
    <3> QED BY <1>0, <2>6, <3>1, PayloadKeeps
  <2> QED
    BY <1>2, <2>1, <2>2, <2>3, <2>4, <2>5, <2>6
    DEF HandleFrame, HandlePinVerify, HandleEncrypted
<1>3. ASSUME NEW s \in Sessions, NEW i \in 1..Len(running[s]), NEW outcome,
             Settle(s, i, outcome)
      PROVE  DeviceInv'
  BY <1>0, <1>3, SettleKeeps
<1>4. ASSUME NEW s \in Sessions, SendEvent(s) PROVE DeviceInv'
  BY <1>0, <1>4, SendEventKeeps
<1>5. CASE NewPin
  <2>1. /\ minted' = minted + 1 /\ minted \in Nat /\ minted' \in Salts
        /\ pending'.salt = minted' /\ pending'.attempts = 0
        /\ UNCHANGED <<sessionVars, wrong, accepted>>
    BY <1>0, <1>5 DEF NewPin, BeginPairing, Local, history, DeviceInv, TypeOK,
                      PairingTypeOK, Salts
  <2>2. SlotInv'
    BY <2>1, PairingAssumption DEF DeviceInv, SlotInv, Salts
  <2> QED BY <1>0, <2>1, <2>2, SlotMoves
<1>6. CASE PinDropped
  <2>1. SlotInv'
    BY <1>6 DEF PinDropped, CancelPairing, Local, history, DeviceInv, SlotInv
  <2> QED
    BY <1>0, <1>6, <2>1, SlotMoves DEF PinDropped, CancelPairing, Local, history
<1>7. CASE ClockTicks
  BY <1>0, <1>7, SessionsIdle DEF ClockTicks, Tick, Local
<1>8. CASE UNCHANGED vars
  BY <1>0, <1>8, SessionsIdle DEF vars, pairingVars
<1> QED
  BY <1>1, <1>2, <1>3, <1>4, <1>5, <1>6, <1>7, <1>8, ClientsReadable DEF Next, Served

(* What is proved next follows from this: the inductive invariant holds in *)
(* every state the device can reach.                                       *)
THEOREM DeviceInvariant == Spec => []DeviceInv
BY DeviceInit, DeviceStep, PTL DEF Spec

(* One displayed PIN pairs at most one connection, whatever the sessions   *)
(* do with it at the same time.                                            *)
THEOREM OnePinOneSession == Spec => []OneSessionPerPin
<1>1. DeviceInv => OneSessionPerPin
  <2> SUFFICES ASSUME DeviceInv PROVE OneSessionPerPin
    OBVIOUS
  <2>1. \A s \in Sessions : pending # NoSlot => pending.salt \notin SlotsHeld(s)
    BY SessionNumbers DEF DeviceInv, SlotInv, SessionInv, HeldInv
  <2> QED BY <2>1 DEF DeviceInv, DisjointInv, OneSessionPerPin
<1> QED BY <1>1, DeviceInvariant, PTL

(* No PIN survives more than MaxAttempts wrong candidates, summed over all *)
(* the connections that tried it.                                          *)
THEOREM GuessesBounded == Spec => []GuessBudget
<1>1. DeviceInv => GuessBudget
  BY DEF DeviceInv, SlotInv, GuessBudget
<1> QED BY <1>1, DeviceInvariant, PTL

(* A reply is sealed under the key its request came under, or under that   *)
(* of a later PIN entered on the same connection.                          *)
THEOREM RepliesKeepTheirKey == Spec => []AwaitedKey
<1>1. DeviceInv => AwaitedKey
  BY DEF DeviceInv, SessionInv, RunningInv, AwaitedKey
<1> QED BY <1>1, DeviceInvariant, PTL

-------------------------------------------------------------------------------
(* Action properties *)

(* Only an accepted PIN gives a session a secret it did not hold, and only *)
(* an opened payload adds to the commands a session awaits.                *)
LEMMA WhoPairs ==
  ASSUME TypeOK, [Next]_vars, NEW s \in Sessions,
         Paired(s)', hs'[s].pairingSecret # hs[s].pairingSecret \/ ~Paired(s)
  PROVE  \E f : PinAccepted(s, f) /\ Consumable /\ hs'[s].pairingSecret = pending.secret
<1>1. CASE UNCHANGED hs
  BY <1>1 DEF Paired
<1>2. ASSUME NEW r \in Sessions, NEW f \in ClientFrames(r), HandleFrame(r, f),
             ~UNCHANGED hs
      PROVE  \E g : PinAccepted(s, g) /\ Consumable /\ hs'[s].pairingSecret = pending.secret
  <2>1. CASE HandleHello(r, f)
    <3>1. hs'[s] = hs[s] \/ hs'[s].pairingSecret = NoSecret
      BY <1>2, <2>1 DEF HandleHello, FreshHandshake, TypeOK
    <3> QED BY <3>1 DEF Paired
  <2>2. CASE PinAccepted(r, f)
    <3>1. hs' = [hs EXCEPT ![r].pairingSecret = pending.secret, ![r].clientPub = f.pub]
      BY <1>2, <2>2 DEF PinAccepted
    <3>2. s = r
      BY <3>1 DEF Paired, TypeOK
    <3>3. hs[r] \in Handshakes
      BY <2>2, HandshakeTypes DEF PinAccepted
    <3>4. hs'[s].pairingSecret = pending.secret
      BY <3>1, <3>2, <3>3 DEF TypeOK, Handshakes
    <3>5. Consumable
      BY <1>2, <2>2 DEF PinAccepted
    <3> QED BY <2>2, <3>2, <3>4, <3>5
  <2>3. CASE HandleKeyx(r, f)
    <3>1. Paired(r) /\ hs' = [hs EXCEPT ![r].clientPub = f.pub]
      BY <1>2, <2>3 DEF HandleKeyx
    <3>2. hs[r] \in Handshakes
      BY <3>1, HandshakeTypes DEF Paired
    <3>3. IF s = r THEN hs'[s].pairingSecret = hs[s].pairingSecret ELSE hs'[s] = hs[s]
      BY <3>1, <3>2 DEF TypeOK, Handshakes
    <3> QED BY <3>1, <3>3 DEF Paired
  <2>4. CASE PayloadOpened(r, f)
    <3>1. Ready(r) /\ hs' = [hs EXCEPT ![r].recvSeq = f.s]
      BY <2>4 DEF PayloadOpened
    <3>2. hs[r] \in Handshakes /\ hs[r] # NoHandshake
      BY <3>1, HandshakeTypes DEF Ready
    <3>3. IF s = r THEN hs'[s].pairingSecret = hs[s].pairingSecret ELSE hs'[s] = hs[s]
      BY <3>1, <3>2 DEF TypeOK, Handshakes
    <3> QED BY <3>2, <3>3 DEF Paired
  <2> QED
    BY <1>2, <2>1, <2>2, <2>3, <2>4
    DEF HandleFrame, HandlePinVerify, HandleEncrypted, PinBeforeHello, PinRefused,
        PinWithBadPub, PayloadRefused, HandleOther, sessionVars
<1>3. ASSUME NEW r \in Sessions, NEW msg, SendEncrypted(r, msg), ~UNCHANGED hs
      PROVE  FALSE
  <2>1. Ready(r) /\ hs' = [hs EXCEPT ![r].sendSeq = @ + 1]
    BY <1>3 DEF SendEncrypted
  <2>2. hs[r] \in Handshakes /\ hs[r] # NoHandshake
    BY <2>1, HandshakeTypes DEF Ready
  <2>3. IF s = r THEN hs'[s].pairingSecret = hs[s].pairingSecret ELSE hs'[s] = hs[s]
    BY <2>1, <2>2 DEF TypeOK, Handshakes
  <2> QED BY <2>2, <2>3 DEF Paired
<1> QED
  BY <1>1, <1>2, <1>3
  DEF Next, vars, sessionVars, Connect, CloseForPolicy, Disconnect, Settle, SendEvent,
      NewPin, PinDropped, ClockTicks, Local

(* A session is paired only by the PIN displayed last, while that PIN is   *)
(* still valid, and the PIN is gone with it.                               *)
THEOREM PairedByALivePin == Spec => LivePairing
<1> DEFINE Step(s) ==
      Paired(s)' /\ hs'[s].pairingSecret.salt \notin SlotsHeld(s)
        => /\ hs'[s].pairingSecret.salt = minted
           /\ now' <= pending.expiresAt
           /\ pending' = NoSlot
<1>1. DeviceInv /\ [Next]_vars => \A s \in Sessions : Step(s)
  <2> SUFFICES ASSUME DeviceInv, [Next]_vars, NEW s \in Sessions, Paired(s)',
                      hs'[s].pairingSecret.salt \notin SlotsHeld(s)
               PROVE  /\ hs'[s].pairingSecret.salt = minted
                      /\ now' <= pending.expiresAt
                      /\ pending' = NoSlot
    OBVIOUS
  <2>1. hs'[s].pairingSecret # hs[s].pairingSecret \/ ~Paired(s)
    BY DEF SlotsHeld
  <2>2. PICK f : PinAccepted(s, f) /\ Consumable /\ hs'[s].pairingSecret = pending.secret
    BY <2>1, WhoPairs DEF DeviceInv
  <2>3. pending # NoSlot /\ pending.salt = minted /\ pending.secret.salt = pending.salt
    BY <2>2 DEF PinAccepted, PinMatches, HashPin, DeviceInv, SlotInv
  <2>4. pending' = NoSlot
    BY <2>2 DEF PinAccepted, ConsumePending, AfterConsume
  <2>5. now' \in Nat /\ pending.expiresAt \in Nat
    <3>1. TypeOK'
      BY TypeStep DEF DeviceInv
    <3> QED BY <2>3, <3>1, SlotTypes DEF DeviceInv, TypeOK, PairingTypeOK
  <2>6. now' <= pending.expiresAt
    BY <2>2, <2>5 DEF Consumable, Expired
  <2> QED BY <2>2, <2>3, <2>4, <2>6
<1> QED
  BY <1>1, DeviceInvariant, PTL DEF Spec, LivePairing

LEMMA WhoRuns ==
  ASSUME TypeOK, [Next]_vars, NEW s \in Sessions, Len(running'[s]) > Len(running[s])
  PROVE  \E f : PayloadOpened(s, f)
<1>0. Len(running[s]) \in Nat
  BY SessionNumbers
<1>1. CASE UNCHANGED running
  BY <1>0, <1>1
<1>2. ASSUME NEW r \in Sessions, NEW f, PayloadOpened(r, f), ~UNCHANGED running
      PROVE  s = r
  BY <1>0, <1>2 DEF PayloadOpened, TypeOK
<1>3. ASSUME NEW r \in Sessions, NEW i \in 1..Len(running[r]), NEW outcome,
             Settle(r, i, outcome)
      PROVE  FALSE
  <2>1. CASE r # s
    BY <1>0, <1>3, <2>1 DEF Settle, TypeOK
  <2>2. CASE r = s
    <3>1. running[s] \in Seq(Commands) /\ running'[s] = RemoveAt(running[s], i)
      BY <1>3, <2>2, SessionNumbers DEF Settle, TypeOK
    <3>2. Len(running'[s]) = Len(running[s]) - 1
      BY <2>2, <3>1, RemoveAtElements
    <3> QED BY <1>0, <3>2
  <2> QED BY <2>1, <2>2
<1>4. ASSUME NEW r \in Sessions, NEW f, HandleFrame(r, f)
      PROVE  UNCHANGED running \/ PayloadOpened(r, f)
  BY <1>4 DEF HandleFrame, HandleHello, HandlePinVerify, PinBeforeHello, PinRefused,
              PinWithBadPub, PinAccepted, HandleKeyx, HandleEncrypted, PayloadRefused,
              HandleOther, sessionVars
<1>5. ASSUME NEW r \in Sessions,
             Connect(r) \/ CloseForPolicy(r) \/ Disconnect(r) \/ SendEvent(r)
      PROVE  UNCHANGED running
  BY <1>5 DEF Connect, CloseForPolicy, Disconnect, SendEvent, sessionVars
<1>6. NewPin \/ PinDropped \/ ClockTicks => UNCHANGED running
  BY DEF NewPin, PinDropped, ClockTicks, Local, sessionVars
<1>7. UNCHANGED vars => UNCHANGED running
  BY DEF vars, sessionVars
<1> QED
  BY <1>1, <1>2, <1>3, <1>4, <1>5, <1>6, <1>7 DEF Next

(* Of the payloads opened under a fresh key no two have the same counter,  *)
(* so a command that is delivered again as it was sent does not run again, *)
(* unless a payload without counter was opened in this handshake.          *)
THEOREM CountersTakenOnce == Spec => NoCounterTwice
<1> DEFINE Step(s) ==
      FreshKey(s) /\ Counted(s) /\ Len(running'[s]) > Len(running[s])
        => <<sessionKey[s], hs'[s].recvSeq>> \notin accepted[s]
<1>1. DeviceInv /\ [Next]_vars => \A s \in Sessions : Step(s)
  <2> SUFFICES ASSUME DeviceInv, [Next]_vars, NEW s \in Sessions, FreshKey(s), Counted(s),
                      Len(running'[s]) > Len(running[s]),
                      <<sessionKey[s], hs'[s].recvSeq>> \in accepted[s]
               PROVE  FALSE
    OBVIOUS
  <2>1. PICK f : PayloadOpened(s, f)
    BY WhoRuns DEF DeviceInv
  <2>2. hs'[s].recvSeq = f.s
    <3>1. hs[s] \in Handshakes
      BY <2>1, HandshakeTypes DEF PayloadOpened, Ready, DeviceInv
    <3> QED BY <2>1, <3>1 DEF PayloadOpened, DeviceInv, TypeOK, Handshakes
  <2>3. <<sessionKey[s], f.s>>[2] <= hs[s].recvSeq
    BY <2>2 DEF DeviceInv, SessionInv, AcceptedInv, FreshKey
  <2>4. f.s \in Int /\ hs[s].recvSeq \in Int
    <3>1. <<sessionKey[s], f.s>>[2] \in Int
      BY <2>2, SessionNumbers DEF DeviceInv
    <3>2. hs[s].recvSeq \in Int
      BY <2>1, SessionNumbers DEF DeviceInv, PayloadOpened, Ready
    <3> QED BY <3>1, <3>2
  <2>5. f.s # NoSeq
    BY <2>2 DEF Counted, FreshKey
  <2> QED BY <2>1, <2>3, <2>4, <2>5 DEF PayloadOpened, InSequence, Stale
<1> QED
  BY <1>1, DeviceInvariant, PTL DEF Spec, NoCounterTwice
===============================================================================
