------------------------------ MODULE DeviceHost ------------------------------
(***************************************************************************)
(* The controlled device: one Session of shared/src/session.ts for every   *)
(* connection, all of them sharing one PairingManager and one Platform.    *)
(* The connections are those of server/src/server.ts; the relay and the    *)
(* Android host run the same sessions.                                     *)
(*                                                                         *)
(* Key pairs are numbered in the order newKeyPair draws them.  The counter *)
(* of server.ts's rate limiter is left out: a connection may be closed for *)
(* the policy at any frame (CloseForPolicy).                               *)
(***************************************************************************)
EXTENDS PairingManager, SequencesExt

CONSTANTS
  Sessions,     \* Session objects, one per connection, never reused
  ClientPubs,   \* the 32-byte public keys clients send
  BadPub,       \* a `pub` that is not 32 bytes of base64
  NoPub,        \* the null of `clientPub`
  NoSecret,     \* the null of `pairingSecret`
  NoHandshake,  \* the null of `hs`
  NoKey,        \* the null of `sessionKey`; on a frame, any other key
  Ids,          \* command identifiers
  MaxKeys,      \* bound: server key pairs ever drawn
  MaxSeq,       \* bound: counters a client puts on encrypted frames
  MaxSend,      \* bound: encrypted frames a session sends per handshake
  MaxRunning    \* bound: commands one session awaits at once

Keys     == [server : 1..MaxKeys, client : ClientPubs, secret : Secrets]
Commands == [id : Ids, key : Keys]

Handshakes == [serverKeys    : 1..MaxKeys,
               clientPub     : ClientPubs \cup {NoPub},
               pairingSecret : Secrets \cup {NoSecret},
               sendSeq       : 0..MaxSend,
               recvSeq       : NoSeq..MaxSeq]

ASSUME DeviceAssumption ==
  /\ MaxKeys \in Nat /\ MaxSeq \in Nat /\ MaxSend \in Nat /\ MaxRunning \in Nat
  /\ BadPub \notin ClientPubs /\ NoPub \notin ClientPubs
  /\ NoSecret \notin Secrets
  /\ NoHandshake \notin Handshakes
  /\ NoKey \notin Keys

VARIABLES
  link,        \* link[s]: "new", "open", "closing" or "closed"
  hs,          \* hs[s]: Session.hs
  sessionKey,  \* sessionKey[s]: Session.sessionKey
  keyed,       \* how many server key pairs were drawn
  running,     \* running[s]: commands awaiting the platform, oldest first
  sent,        \* sent[s]: the frames the latest step put on the connection
  wrong,       \* history: wrong[n], wrong candidates judged against slot n
  accepted     \* history: accepted[s], <<key, counter>> of opened payloads

sessionVars == <<hs, sessionKey, keyed, running>>
history     == <<wrong, accepted>>
vars        == <<pairingVars, link, sessionVars, sent, history>>

Init ==
  /\ PairingInit
  /\ link = [s \in Sessions |-> "new"]
  /\ hs = [s \in Sessions |-> NoHandshake]
  /\ sessionKey = [s \in Sessions |-> NoKey]
  /\ keyed = 0
  /\ running = [s \in Sessions |-> <<>>]
  /\ sent = [s \in Sessions |-> <<>>]
  /\ wrong = [n \in Salts |-> 0]
  /\ accepted = [s \in Sessions |-> {}]

-------------------------------------------------------------------------------
(* Whatever a client may put on connection s.  Of the keys a payload may   *)
(* be sealed under, only the session's own opens it: NoKey is the others.  *)
(* A sealed text is known by its command, drawn at random for each, and    *)
(* may come with any counter or with none.                                 *)
ClientFrames(s) ==
  {HelloFrame(v) : v \in {Version, Version + 1}}
    \cup {PinVerifyFrame(pin, p) : pin \in Pins \cup {Malformed},
                                   p \in ClientPubs \cup {BadPub}}
    \cup {KeyxFrame(p) : p \in ClientPubs \cup {BadPub}}
    \cup {EncFrame(sessionKey[s], n, msg) :
             n \in {NoSeq} \cup 1..MaxSeq, msg \in {Cmd(id) : id \in Ids} \cup {NotJson}}
    \cup {EncFrame(NoKey, MaxSeq, NotJson), ByeFrame, UnknownFrame}

(* Session.send: a frame leaves only while the socket is OPEN. *)
Send(s, frames) ==
  sent' = [r \in Sessions |->
             IF r = s /\ link[s] = "open" THEN frames ELSE <<>>]
Silent == sent' = [r \in Sessions |-> <<>>]

Receiving(s) == link[s] \in {"open", "closing"}

-------------------------------------------------------------------------------
(* handleHello.  The session key of an earlier handshake stays in place.   *)
FreshHandshake_KeepsCounter(k) ==
  [serverKeys |-> k, clientPub |-> NoPub, pairingSecret |-> NoSecret, sendSeq |-> 0]
FreshHandshake(k) ==
  [serverKeys |-> k, clientPub |-> NoPub, pairingSecret |-> NoSecret,
   sendSeq |-> 0, recvSeq |-> 0]

HandleHello(s, f) ==
  /\ \/ /\ f.v # Version \/ pending = NoSlot
        /\ Send(s, <<ErrorFrame(IF f.v # Version THEN "version" ELSE "no_pairing")>>)
        /\ UNCHANGED <<hs, keyed>>
     \/ /\ f.v = Version
        /\ pending # NoSlot
        /\ keyed < MaxKeys
        /\ keyed' = keyed + 1
        /\ hs' = [hs EXCEPT ![s] = FreshHandshake(keyed + 1)]
        /\ Send(s, <<ChallengeFrame(pending.salt)>>)
  /\ UNCHANGED <<pairingVars, link, sessionKey, running, history>>

(* handlePinVerify, one action for each way out of it.                     *)
PinBeforeHello(s, f) ==
  /\ hs[s] = NoHandshake
  /\ Send(s, <<ErrorFrame("no_session")>>)
  /\ UNCHANGED <<pairingVars, link, sessionVars, history>>

PinRefused(s, f) ==
  /\ hs[s] # NoHandshake
  /\ IF f.pin \in Pins THEN PinFails(f.pin) ELSE UNCHANGED pending
  /\ wrong' = IF f.pin \in Pins /\ pending # NoSlot /\ ~Expired(pending, now)
              THEN [wrong EXCEPT ![pending.salt] = @ + 1] ELSE wrong
  /\ Send(s, <<PinNackFrame>>)
  /\ UNCHANGED <<minted, now, link, sessionVars, accepted>>

PinWithBadPub(s, f) ==
  /\ hs[s] # NoHandshake
  /\ PinMatches(f.pin)
  /\ f.pub \notin ClientPubs
  /\ Send(s, <<PinNackFrame>>)
  /\ UNCHANGED <<pairingVars, link, sessionVars, history>>

PinAccepted(s, f) ==
  /\ hs[s] # NoHandshake
  /\ PinMatches(f.pin)
  /\ f.pub \in ClientPubs
  /\ HashingTakesTime
  /\ ConsumePending
  /\ \/ /\ Consumable
        /\ hs' = [hs EXCEPT ![s].pairingSecret = pending.secret,
                            ![s].clientPub = f.pub]
        /\ Send(s, <<PinAckFrame(hs[s].serverKeys)>>)
     \/ /\ ~Consumable
        /\ Send(s, <<PinNackFrame>>)
        /\ UNCHANGED hs
  /\ UNCHANGED <<minted, link, sessionKey, keyed, running, history>>

HandlePinVerify(s, f) ==
  \/ PinBeforeHello(s, f)
  \/ PinRefused(s, f)
  \/ PinWithBadPub(s, f)
  \/ PinAccepted(s, f)

(* handleKeyx.  It may be repeated; the public key it names must be the    *)
(* one that came with the PIN.                                             *)
Paired(s) == hs[s] # NoHandshake /\ hs[s].pairingSecret # NoSecret

SameClient_Unchecked(s, pub) == pub \in ClientPubs
SameClient(s, pub) == pub \in ClientPubs /\ hs[s].clientPub \in {NoPub, pub}

HandleKeyx(s, f) ==
  /\ \/ /\ ~(Paired(s) /\ SameClient(s, f.pub))
        /\ Send(s, <<ErrorFrame(IF ~Paired(s) THEN "no_pairing"
                                ELSE IF f.pub \notin ClientPubs THEN "bad_keyx"
                                ELSE "key_switch")>>)
        /\ UNCHANGED <<hs, sessionKey>>
     \/ /\ Paired(s)
        /\ SameClient(s, f.pub)
        /\ hs' = [hs EXCEPT ![s].clientPub = f.pub]
        /\ sessionKey' = [sessionKey EXCEPT ![s] =
                            DeriveKey(hs[s].serverKeys, f.pub, hs[s].pairingSecret)]
        /\ Send(s, <<KeyxFrame(hs[s].serverKeys), ReadyFrame>>)
  /\ UNCHANGED <<pairingVars, link, keyed, running, history>>

(* handleEncrypted up to its await: a command joins `running`.             *)
Ready(s) == sessionKey[s] # NoKey /\ hs[s] # NoHandshake

InSequence_OrEqual(s, f) == ~Stale(f.s + 1, hs[s].recvSeq)
InSequence_FromTwo(s, f) == ~Stale(f.s, hs[s].recvSeq + 1)
InSequence(s, f) == ~Stale(f.s, hs[s].recvSeq)

Opens(s, f) == f.key = sessionKey[s]

PayloadRefused(s, f) ==
  /\ ~(Ready(s) /\ InSequence(s, f) /\ Opens(s, f))
  /\ Send(s, <<ErrorFrame(IF ~Ready(s) THEN "not_ready"
                          ELSE IF ~InSequence(s, f) THEN "replay" ELSE "decrypt")>>)
  /\ UNCHANGED <<pairingVars, link, sessionVars, history>>

PayloadOpened(s, f) ==
  /\ Ready(s) /\ InSequence(s, f) /\ Opens(s, f)
  /\ hs' = [hs EXCEPT ![s].recvSeq = f.s]
  /\ accepted' = [accepted EXCEPT ![s] = @ \cup {<<sessionKey[s], f.s>>}]
  /\ \/ /\ f.msg.type = "cmd"
        /\ Len(running[s]) < MaxRunning
        /\ running' = [running EXCEPT ![s] =
                         Append(@, [id |-> f.msg.id, key |-> sessionKey[s]])]
     \/ /\ f.msg.type # "cmd"
        /\ UNCHANGED running
  /\ Silent
  /\ UNCHANGED <<pairingVars, link, sessionKey, keyed, wrong>>

HandleEncrypted(s, f) == PayloadRefused(s, f) \/ PayloadOpened(s, f)

(* handleFrame, and the catch of server.ts for a frame that makes it throw *)
HandleOther(s, f) ==
  /\ IF f.type = "unknown" THEN Send(s, <<ErrorFrame("bad_frame")>>) ELSE Silent
  /\ UNCHANGED <<pairingVars, link, sessionVars, history>>

HandleFrame(s, f) ==
  /\ Receiving(s)
  /\ \/ f.type = "hello" /\ HandleHello(s, f)
     \/ f.type = "pin_verify" /\ HandlePinVerify(s, f)
     \/ f.type = "keyx" /\ HandleKeyx(s, f)
     \/ f.type = "enc" /\ HandleEncrypted(s, f)
     \/ f.type \in {"bye", "error", "unknown"} /\ HandleOther(s, f)

-------------------------------------------------------------------------------
(* sendEncrypted.  The key and the counter are those of the moment it      *)
(* runs, not those of the request.                                         *)
SendEncrypted(s, msg) ==
  \/ /\ Ready(s)
     /\ hs[s].sendSeq < MaxSend
     /\ hs' = [hs EXCEPT ![s].sendSeq = @ + 1]
     /\ Send(s, <<EncFrame(sessionKey[s], hs[s].sendSeq + 1, msg)>>)
  \/ /\ ~Ready(s)
     /\ Silent
     /\ UNCHANGED hs

(* The platform settles command i of session s, in any order, and          *)
(* handleEncrypted goes on after its await, whatever became of the socket. *)
Settle(s, i, outcome) ==
  /\ running' = [running EXCEPT ![s] = RemoveAt(@, i)]
  /\ SendEncrypted(s, Response(outcome, running[s][i].id))
  /\ UNCHANGED <<pairingVars, link, sessionKey, keyed, history>>

SendEvent(s) ==
  /\ SendEncrypted(s, Event)
  /\ UNCHANGED <<pairingVars, link, sessionKey, keyed, running, history>>

-------------------------------------------------------------------------------
(* The connection, and the device's own operations *)

Connect(s) ==
  /\ link[s] = "new"
  /\ link' = [link EXCEPT ![s] = "open"]
  /\ Silent
  /\ UNCHANGED <<pairingVars, sessionVars, history>>

(* A binary message, a text that is not JSON, or one frame too many.       *)
CloseForPolicy(s) ==
  /\ link[s] = "open"
  /\ link' = [link EXCEPT ![s] = "closing"]
  /\ Silent
  /\ UNCHANGED <<pairingVars, sessionVars, history>>

Disconnect(s) ==
  /\ Receiving(s)
  /\ link' = [link EXCEPT ![s] = "closed"]
  /\ Silent
  /\ UNCHANGED <<pairingVars, sessionVars, history>>

Local == Silent /\ UNCHANGED <<link, sessionVars, history>>

NewPin     == BeginPairing /\ Local
PinDropped == CancelPairing /\ Local
ClockTicks == Tick /\ Local

Next ==
  \/ \E s \in Sessions :
       \/ Connect(s) \/ CloseForPolicy(s) \/ Disconnect(s)
       \/ \E f \in ClientFrames(s) : HandleFrame(s, f)
       \/ \E i \in 1..Len(running[s]), outcome \in {"ok", "err"} :
            Settle(s, i, outcome)
       \/ SendEvent(s)
  \/ NewPin \/ PinDropped \/ ClockTicks

Spec == Init /\ [][Next]_vars

-------------------------------------------------------------------------------
(* What must hold of it *)

TypeOK ==
  /\ PairingTypeOK
  /\ link \in [Sessions -> {"new", "open", "closing", "closed"}]
  /\ hs \in [Sessions -> Handshakes \cup {NoHandshake}]
  /\ sessionKey \in [Sessions -> Keys \cup {NoKey}]
  /\ keyed \in 0..MaxKeys
  /\ running \in [Sessions -> Seq(Commands)]
  /\ wrong \in [Salts -> Nat]
  /\ accepted \in [Sessions -> SUBSET (Keys \X (NoSeq..MaxSeq))]

(* The PIN slots whose secret session s holds, in its handshake or its key. *)
SlotsHeld(s) ==
  (IF Paired(s) THEN {hs[s].pairingSecret.salt} ELSE {})
    \cup (IF sessionKey[s] # NoKey THEN {sessionKey[s].secret.salt} ELSE {})

(* One displayed PIN pairs one connection: no two sessions ever hold the   *)
(* secret of the same slot, and a slot that is still pending is held by    *)
(* none (consumePending, pairing.ts:104-113, against sessions that race).  *)
OneSessionPerPin ==
  \A s \in Sessions :
    /\ pending # NoSlot => pending.salt \notin SlotsHeld(s)
    /\ \A r \in Sessions \ {s} : SlotsHeld(s) \cap SlotsHeld(r) = {}

(* A PIN gets MaxAttempts wrong guesses, counted over every session and    *)
(* handshake, and it is gone with the last of them (pairing.ts:8-10).      *)
GuessBudget ==
  /\ \A n \in Salts : wrong[n] <= MaxAttempts
  /\ pending # NoSlot => wrong[pending.salt] < MaxAttempts

(* A session is paired only by the PIN displayed last, and only while that *)
(* PIN has not expired when the secret is handed out, however long the     *)
(* hashing between the two looks at the clock took.                        *)
LivePairing ==
  [][\A s \in Sessions :
       Paired(s)' /\ hs'[s].pairingSecret.salt \notin SlotsHeld(s)
         => /\ hs'[s].pairingSecret.salt = minted
            /\ now' <= pending.expiresAt
            /\ pending' = NoSlot]_vars

(* The key a reply will be sealed under, read after the await of           *)
(* handleEncrypted, is the key its request came under, unless a later PIN  *)
(* was entered on that same connection meanwhile (session.ts:189-198).     *)
AwaitedKey ==
  \A s \in Sessions : \A i \in 1..Len(running[s]) :
    \/ running[s][i].key = sessionKey[s]
    \/ running[s][i].key.secret.salt < sessionKey[s].secret.salt

(* The key in use belongs to the handshake in progress: no hello was       *)
(* answered since the key was derived.                                     *)
FreshKey(s) == Ready(s) /\ sessionKey[s].server = hs[s].serverKeys

(* Every payload opened since the hello, under a key of this handshake,    *)
(* came with a counter.                                                    *)
Counted(s) ==
  \A e \in accepted[s] : e[1].server = hs[s].serverKeys => e[2] # NoSeq

(* Of the payloads opened under one key no two have the same counter, so   *)
(* that a command which is delivered again as it was sent does not run     *)
(* again: across repeated keyx frames, new pairings of the connection and  *)
(* commands still running, as long as the key is fresh and no payload came *)
(* without a counter, which switches the check off (session.ts:170-177).   *)
(* It says nothing of a sealed text that comes with another counter.       *)
NoCounterTwice ==
  [][\A s \in Sessions :
       FreshKey(s) /\ Counted(s) /\ Len(running'[s]) > Len(running[s])
         => <<sessionKey[s], hs'[s].recvSeq>> \notin accepted[s]]_vars

(* "The sequence counter is included in plaintext on the wire so the       *)
(* receiver can reject replays before decryption; the counter is also      *)
(* authenticated via the tag" (crypto.ts:98-100).  So two commands that a  *)
(* session awaits under one key never come from one sealed text.  False of *)
(* the code: the tag covers the text alone.                                *)
ReplaysRejected ==
  \A s \in Sessions : \A i, j \in DOMAIN running[s] :
    i # j => running[s][i] # running[s][j]

===============================================================================
