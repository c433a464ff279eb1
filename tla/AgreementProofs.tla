---------------------------- MODULE AgreementProofs -----------------------------
(***************************************************************************)
(* Proofs that the two ends of EndToEnd agree on their keys and counters   *)
(* while the controller has one socket: SameKey and HonestIsHeard, for any *)
(* number of connections, PINs, keys and commands, direct or through the   *)
(* relay.                                                                  *)
(*                                                                         *)
(* What a handshake has come to is in four places: the queue to the device,*)
(* the session, the queue back and the controller.  The invariant says     *)
(* which frames can be under way at each stage, and in which order.        *)
(***************************************************************************)
EXTENDS EndToEndProofs

-------------------------------------------------------------------------------
(* Queues *)

Has(q, t)       == \E i \in 1..Len(q) : q[i].type = t
Once(q, t)      == \A i, j \in 1..Len(q) : q[i].type = t /\ q[j].type = t => i = j
Before(q, t, u) == \A i, j \in 1..Len(q) : q[i].type = t /\ q[j].type = u => i < j

Offering(q, p) == \A i \in 1..Len(q) : q[i].type = "challenge" => q[i].salt = p
Naming(q, k)   == \A i \in 1..Len(q) : q[i].type = "keyx" => q[i].pub = k

(* The last PIN under way is this one. *)
Typing(q, pin) ==
  \A i \in 1..Len(q) : q[i].type = "pin_verify" =>
    q[i].pin = pin \/ \E j \in 1..Len(q) : j > i /\ q[j].type = "pin_verify"

(* The commands under way are sealed under the key, their counters above   *)
(* low, increasing and at most high.                                       *)
Sealing(q, key, low, high) ==
  \A i \in 1..Len(q) : q[i].type = "enc" =>
    /\ q[i].key = key /\ low < q[i].s /\ q[i].s <= high
    /\ \A j \in 1..Len(q) : j > i /\ q[j].type = "enc" => q[i].s < q[j].s

-------------------------------------------------------------------------------
(* The inductive invariant *)

(* Nothing knows yet of a connection that was not opened.                  *)
Unopened(n) ==
  sock[n].state \in {"none", "connecting"} =>
    /\ up[n] = <<>>
    /\ \A s \in Sessions : peer[s] # n /\ (hs[s] # NoHandshake => hs[s].clientPub # n)
    /\ via = "direct" => /\ link[n] = "new" /\ down[n] = <<>>

DirectInv ==
  /\ timer = FALSE /\ \A n \in Conns : sock[n].mode = "direct"
  /\ \A s \in Sessions :
       /\ peer[s] \in {s, NoConn}
       /\ hs[s] # NoHandshake => hs[s].clientPub \in {s, NoPub}
       /\ deviceKey[s] # NoKey => deviceKey[s].client = s

(* The RelayHost draws one PIN, and nobody joins another session.          *)
RelayedInv ==
  /\ minted <= 1 /\ offered[Host] <= minted
  /\ \A s \in Sessions \ {Host} : peer[s] = NoConn

WorldInv ==
  /\ \A n \in Conns : Unopened(n) /\ (n > made => sock[n].state = "none")
  /\ \A s \in Sessions : link[s] = "new" => hs[s] = NoHandshake
  /\ via = "direct" => DirectInv
  /\ via = "relay" => RelayedInv

(* The key of the handshake session s is in. *)
Keyed(s) == [server |-> hs[s].serverKeys, client |-> hs[s].clientPub,
             secret |-> hs[s].pairingSecret]

(* Session s, and the connections N it may hear from: its PIN is accepted  *)
(* once, a key is derived after that, and no challenge follows.            *)
Order(s, N) ==
  /\ ~D!Paired(s) =>
       /\ deviceKey[s] = NoKey
       /\ ~Has(down[s], "pin_ack") /\ ~Has(down[s], "keyx") /\ ~Has(down[s], "ready")
       /\ \A n \in N : ~Has(up[n], "keyx")
  /\ deviceKey[s] # NoKey => deviceKey[s] = Keyed(s)
  /\ hs[s] # NoHandshake /\ deviceKey[s] = NoKey => hs[s].recvSeq = 0
  /\ Once(down[s], "pin_ack") /\ Before(down[s], "challenge", "pin_ack")
  /\ \/ Has(down[s], "keyx") \/ Has(down[s], "ready") \/ deviceKey[s] # NoKey
     \/ \E n \in N : Has(up[n], "keyx")
     => ~Has(down[s], "pin_ack") /\ ~Has(down[s], "challenge")
  /\ Offering(down[s], offered[s])

(* Direct, a handshake is in one place at a time: a hello, a PIN, the      *)
(* answer to one of them, the prompt of the user, or a paired session.     *)
Exclusive(n) ==
  /\ Has(up[n], "hello") => /\ ~Has(up[n], "pin_verify") /\ salt = NoSalt
                            /\ pairingSecret = NoSecret /\ clientKey = NoKey
  /\ Has(down[n], "challenge") => ~Has(down[n], "pin_nack")
  /\ Once(up[n], "hello") /\ Once(up[n], "pin_verify")
  /\ Once(down[n], "challenge") /\ Once(down[n], "pin_nack")
  /\ Has(up[n], "hello") \/ Has(up[n], "pin_verify") =>
       /\ ~Has(down[n], "challenge") /\ ~Has(down[n], "pin_nack")
       /\ state # "challenge" /\ ~D!Paired(n)
  /\ Has(down[n], "challenge") \/ Has(down[n], "pin_nack") \/ state = "challenge" =>
       ~D!Paired(n)
  /\ state = "challenge" => ~Has(down[n], "challenge") /\ ~Has(down[n], "pin_nack")

Agreed(s) == [server |-> hs[s].serverKeys, client |-> hs[s].clientPub,
              secret |-> [pin |-> hs[s].pairingSecret.pin, salt |-> offered[s]]]

Linked(n) == peer[SessionOf(n)] = n /\ C!IsOpen(n)

Beginning(n) ==
  sock[n].state = "connecting" =>
    /\ state = "connecting" /\ salt = NoSalt /\ pairingSecret = NoSecret
    /\ clientKey = NoKey

Salted(s) ==
  /\ salt # NoSalt => salt = offered[s]
  /\ pairingSecret # NoSecret => pairingSecret.salt = offered[s]
  /\ clientKey # NoKey => clientKey.secret.salt = offered[s]

Typed(n) ==
  Linked(n) /\ pairingSecret # NoSecret => Typing(up[n], pairingSecret.pin)

(* The controller holds the PIN the session accepted, or will be refused   *)
(* the one it holds.                                                       *)
SamePin(s) == pairingSecret = NoSecret \/ pairingSecret.pin = hs[s].pairingSecret.pin
Overtaken(n, s) == Has(up[n], "pin_verify") \/ ~D!Receiving(s)

AckComing(n, s) ==
  Linked(n) /\ Has(down[s], "pin_ack") /\ hs[s].clientPub = n =>
    SamePin(s) \/ Has(down[s], "pin_nack") \/ Overtaken(n, s)

(* After pin_ack: the keyx, then keyx and ready back, one of each.         *)
Answering(s) == Has(down[s], "keyx") \/ Has(down[s], "ready")

Acked(n, s) ==
  Linked(n) /\ state = "keyx_sent" =>
    /\ D!Paired(s) /\ ~Has(down[s], "pin_ack") /\ ~Has(down[s], "challenge")
    /\ Answering(s) => /\ hs[s].clientPub = n /\ deviceKey[s] # NoKey
                       /\ ~Has(up[n], "keyx") /\ ~Has(up[n], "pin_verify")
    /\ Once(up[n], "keyx") /\ Before(up[n], "pin_verify", "keyx")
    /\ Once(down[s], "keyx") /\ Before(down[s], "keyx", "ready")
    /\ Before(down[s], "pin_nack", "keyx")
    /\ Naming(down[s], hs[s].serverKeys)
    /\ hs[s].clientPub = n =>
         \/ SamePin(s) \/ Has(down[s], "pin_nack")
         \/ ~Answering(s) /\ Overtaken(n, s)
    /\ Has(down[s], "ready") =>
         Has(down[s], "keyx") \/ (clientKey = Agreed(s) /\ clientKey # NoKey)

IsAgreed(n, s) ==
  state = "ready" =>
    /\ D!Paired(s) /\ hs[s].clientPub = n /\ deviceKey[s] # NoKey
    /\ clientKey = Agreed(s) /\ clientKey # NoKey
    /\ ~Has(down[s], "keyx") /\ ~Has(up[n], "keyx")

Stays(n, s) == clientKey # NoKey => peer[s] \in {n, NoConn}

Heard(n, s) ==
  /\ Has(up[n], "enc") =>
       /\ D!Paired(s) /\ hs[s].clientPub = n /\ deviceKey[s] # NoKey
       /\ Sealing(up[n], Agreed(s), hs[s].recvSeq, sendSeq)
  /\ D!Paired(s) /\ hs[s].clientPub = n => hs[s].recvSeq <= sendSeq

Handshaking(n, s) ==
  /\ Beginning(n) /\ Salted(s) /\ Typed(n) /\ AckComing(n, s) /\ Acked(n, s)
  /\ IsAgreed(n, s) /\ Stays(n, s) /\ Heard(n, s)

Agreeing(n, s) ==
  /\ via = "direct" => Order(s, {n}) /\ Exclusive(n)
  /\ Handshaking(n, s)

(* Through the relay the order holds whatever sockets there are. *)
AgreementInv ==
  /\ WorldInv
  /\ via = "relay" => Order(Host, Conns)
  /\ \A n \in Conns, s \in Sessions :
       SoleSocket /\ ws = n /\ SessionOf(n) = s => Agreeing(n, s)

-------------------------------------------------------------------------------
(* What becomes of a queue *)

LEMMA Emptied ==
  /\ \A t : ~Has(<<>>, t) /\ Once(<<>>, t)
  /\ \A t, u : Before(<<>>, t, u)
  /\ \A p : Offering(<<>>, p) /\ Naming(<<>>, p) /\ Typing(<<>>, p)
BY DEF Has, Once, Before, Offering, Naming, Typing

LEMMA Popped ==
  ASSUME NEW S, NEW q \in Seq(S), q # <<>>
  PROVE  /\ \A t : Has(q, t) <=> Head(q).type = t \/ Has(Tail(q), t)
         /\ \A t : Once(q, t) => /\ Once(Tail(q), t)
                                 /\ Head(q).type = t => ~Has(Tail(q), t)
         /\ \A t, u : Before(q, t, u) => /\ Before(Tail(q), t, u)
                                         /\ Head(q).type = u => ~Has(q, t)
<1>1. /\ Len(q) \in Nat /\ Len(q) >= 1 /\ Len(Tail(q)) = Len(q) - 1 /\ Head(q) = q[1]
      /\ \A i \in 1..Len(Tail(q)) : i + 1 \in 1..Len(q) /\ Tail(q)[i] = q[i + 1]
  BY TailFacts
<1>2. \A i \in 1..Len(q) : i # 1 => i - 1 \in 1..Len(Tail(q)) /\ Tail(q)[i - 1] = q[i]
  BY <1>1
<1>3. ASSUME NEW t PROVE Has(q, t) <=> Head(q).type = t \/ Has(Tail(q), t)
  <2>1. ASSUME NEW i \in 1..Len(q), q[i].type = t PROVE q[1].type = t \/ Has(Tail(q), t)
    BY <1>2, <2>1 DEF Has
  <2>2. ASSUME NEW i \in 1..Len(Tail(q)), Tail(q)[i].type = t PROVE Has(q, t)
    BY <1>1, <2>2 DEF Has
  <2>3. q[1].type = t => Has(q, t)
    BY <1>1 DEF Has
  <2> QED BY <1>1, <2>1, <2>2, <2>3 DEF Has
<1>4. ASSUME NEW t, Once(q, t)
      PROVE  Once(Tail(q), t) /\ (Head(q).type = t => ~Has(Tail(q), t))
  <2>1. ASSUME NEW i \in 1..Len(Tail(q)), NEW j \in 1..Len(Tail(q)),
               Tail(q)[i].type = t, Tail(q)[j].type = t
        PROVE  i = j
    <3>1. i + 1 = j + 1
      BY <1>1, <1>4, <2>1 DEF Once
    <3> QED BY <3>1
  <2>2. ASSUME NEW i \in 1..Len(Tail(q)), Tail(q)[i].type = t PROVE q[1].type # t
    <3>1. 1 # i + 1 /\ 1 \in 1..Len(q) /\ i + 1 \in 1..Len(q) /\ q[i + 1].type = t
      BY <1>1, <2>2
    <3> QED BY <1>4, <3>1 DEF Once
  <2> QED BY <1>1, <2>1, <2>2 DEF Once, Has
<1>5. ASSUME NEW t, NEW u, Before(q, t, u)
      PROVE  Before(Tail(q), t, u) /\ (Head(q).type = u => ~Has(q, t))
  <2>1. ASSUME NEW i \in 1..Len(Tail(q)), NEW j \in 1..Len(Tail(q)),
               Tail(q)[i].type = t, Tail(q)[j].type = u
        PROVE  i < j
    <3>1. i + 1 < j + 1
      BY <1>1, <1>5, <2>1 DEF Before
    <3> QED BY <3>1
  <2>2. ASSUME NEW i \in 1..Len(q), q[i].type = t PROVE q[1].type # u
    BY <1>1, <1>5, <2>2 DEF Before
  <2> QED BY <1>1, <2>1, <2>2 DEF Before, Has
<1> QED BY <1>3, <1>4, <1>5

LEMMA PoppedFields ==
  ASSUME NEW S, NEW q \in Seq(S), q # <<>>
  PROVE  /\ \A p : Offering(q, p) => /\ Offering(Tail(q), p)
                                     /\ Head(q).type = "challenge" => Head(q).salt = p
         /\ \A k : Naming(q, k) => /\ Naming(Tail(q), k)
                                   /\ Head(q).type = "keyx" => Head(q).pub = k
         /\ \A pin : Typing(q, pin) =>
              /\ Typing(Tail(q), pin)
              /\ Head(q).type = "pin_verify" =>
                   Head(q).pin = pin \/ Has(Tail(q), "pin_verify")
<1>1. /\ Len(q) \in Nat /\ Len(q) >= 1 /\ Len(Tail(q)) = Len(q) - 1 /\ Head(q) = q[1]
      /\ 1 \in 1..Len(q)
      /\ \A i \in 1..Len(Tail(q)) : i + 1 \in 1..Len(q) /\ Tail(q)[i] = q[i + 1]
  BY TailFacts
<1>2. \A j \in 1..Len(q) : j # 1 => j - 1 \in 1..Len(Tail(q)) /\ Tail(q)[j - 1] = q[j]
  BY <1>1
<1>3. ASSUME NEW pin, Typing(q, pin), NEW i \in 1..Len(q), q[i].type = "pin_verify", q[i].pin # pin
      PROVE  \E j \in 1..Len(Tail(q)) : j > i - 1 /\ Tail(q)[j].type = "pin_verify"
  <2>1. PICK j \in 1..Len(q) : j > i /\ q[j].type = "pin_verify"
    BY <1>3 DEF Typing
  <2>2. j # 1 /\ j - 1 > i - 1
    BY <1>1, <2>1
  <2> QED BY <1>2, <2>1, <2>2
<1>4. ASSUME NEW pin, Typing(q, pin)
      PROVE  /\ Typing(Tail(q), pin)
             /\ q[1].type = "pin_verify" => q[1].pin = pin \/ Has(Tail(q), "pin_verify")
  <2>1. ASSUME NEW i \in 1..Len(Tail(q)), Tail(q)[i].type = "pin_verify", Tail(q)[i].pin # pin
        PROVE  \E j \in 1..Len(Tail(q)) : j > i /\ Tail(q)[j].type = "pin_verify"
    <3>1. i + 1 \in 1..Len(q) /\ q[i + 1].type = "pin_verify" /\ q[i + 1].pin # pin
      BY <1>1, <2>1
    <3>2. PICK j \in 1..Len(Tail(q)) : j > (i + 1) - 1 /\ Tail(q)[j].type = "pin_verify"
      BY <1>3, <1>4, <3>1
    <3> QED BY <3>2
  <2>2. q[1].type = "pin_verify" => q[1].pin = pin \/ Has(Tail(q), "pin_verify")
    BY <1>1, <1>3, <1>4 DEF Has
  <2> QED BY <2>1, <2>2 DEF Typing
<1> QED BY <1>1, <1>4 DEF Offering, Naming

LEMMA PoppedSealing ==
  ASSUME NEW S, NEW q \in Seq(S), q # <<>>, NEW key, NEW low \in Int, NEW high \in Int,
         \A f \in S : f.type = "enc" => f.s \in Int,
         Sealing(q, key, low, high)
  PROVE  /\ Sealing(Tail(q), key, low, high)
         /\ Head(q).type = "enc" =>
              /\ Head(q).key = key /\ low < Head(q).s /\ Head(q).s <= high
              /\ Sealing(Tail(q), key, Head(q).s, high)
<1>1. /\ Len(q) \in Nat /\ Len(q) >= 1 /\ Len(Tail(q)) = Len(q) - 1 /\ Head(q) = q[1]
      /\ 1 \in 1..Len(q)
      /\ \A i \in 1..Len(Tail(q)) : i + 1 \in 1..Len(q) /\ Tail(q)[i] = q[i + 1]
  BY TailFacts
<1>2. ASSUME NEW i \in 1..Len(Tail(q)), Tail(q)[i].type = "enc"
      PROVE  /\ Tail(q)[i].key = key /\ low < Tail(q)[i].s /\ Tail(q)[i].s <= high
             /\ \A j \in 1..Len(Tail(q)) :
                  j > i /\ Tail(q)[j].type = "enc" => Tail(q)[i].s < Tail(q)[j].s
             /\ q[1].type = "enc" => q[1].s < Tail(q)[i].s
  <2>1. i + 1 \in 1..Len(q) /\ Tail(q)[i] = q[i + 1] /\ i + 1 > 1
    BY <1>1
  <2>2. /\ q[i + 1].key = key /\ low < q[i + 1].s /\ q[i + 1].s <= high
        /\ \A j \in 1..Len(q) : j > i + 1 /\ q[j].type = "enc" => q[i + 1].s < q[j].s
    BY <1>2, <2>1 DEF Sealing
  <2>3. ASSUME NEW j \in 1..Len(Tail(q)), j > i, Tail(q)[j].type = "enc"
        PROVE  Tail(q)[i].s < Tail(q)[j].s
    <3>1. j + 1 \in 1..Len(q) /\ Tail(q)[j] = q[j + 1] /\ j + 1 > i + 1
      BY <1>1, <2>3
    <3> QED BY <2>1, <2>2, <2>3, <3>1
  <2>4. q[1].type = "enc" => q[1].s < q[i + 1].s
    BY <1>1, <1>2, <2>1 DEF Sealing
  <2> QED BY <2>1, <2>2, <2>3, <2>4
<1> QED BY <1>1, <1>2 DEF Sealing

LEMMA Appended ==
  ASSUME NEW S, NEW q \in Seq(S), NEW f
  PROVE  /\ \A t : Has(Append(q, f), t) <=> Has(q, t) \/ f.type = t
         /\ \A t : Once(q, t) /\ (f.type = t => ~Has(q, t)) => Once(Append(q, f), t)
         /\ \A t, u : Before(q, t, u) /\ t # u /\ (f.type = t => ~Has(q, u))
                        => Before(Append(q, f), t, u)
         /\ \A p : Offering(q, p) /\ (f.type = "challenge" => f.salt = p)
                     => Offering(Append(q, f), p)
         /\ \A k : Naming(q, k) /\ (f.type = "keyx" => f.pub = k)
                     => Naming(Append(q, f), k)
         /\ \A pin : f.type = "pin_verify" /\ f.pin = pin => Typing(Append(q, f), pin)
         /\ \A pin : f.type # "pin_verify" /\ Typing(q, pin) => Typing(Append(q, f), pin)
<1> DEFINE r == Append(q, f)
           n == Len(q) + 1
<1>1. /\ Len(q) \in Nat /\ Len(r) = n /\ r[n] = f /\ \A i \in 1..Len(q) : r[i] = q[i]
      /\ n \in 1..n /\ \A i \in 1..n : i = n \/ i \in 1..Len(q)
      /\ \A i \in 1..Len(q) : i \in 1..n /\ i < n
  <2>1. q \in Seq(S \cup {f}) /\ f \in S \cup {f}
    OBVIOUS
  <2> QED BY <2>1, AppendFacts
<1> HIDE DEF r, n
<1>2. ASSUME NEW t PROVE Has(r, t) <=> Has(q, t) \/ f.type = t
  BY <1>1 DEF Has
<1>3. ASSUME NEW t, Once(q, t), f.type = t => ~Has(q, t) PROVE Once(r, t)
  BY <1>1, <1>3 DEF Once, Has
<1>4. ASSUME NEW t, NEW u, Before(q, t, u), t # u, f.type = t => ~Has(q, u)
      PROVE  Before(r, t, u)
  BY <1>1, <1>4 DEF Before, Has
<1>5. ASSUME NEW pin, f.type = "pin_verify", f.pin = pin PROVE Typing(r, pin)
  BY <1>1, <1>5 DEF Typing
<1>6. ASSUME NEW pin, f.type # "pin_verify", Typing(q, pin) PROVE Typing(r, pin)
  BY <1>1, <1>6 DEF Typing
<1> QED BY <1>1, <1>2, <1>3, <1>4, <1>5, <1>6 DEF Offering, Naming, r

LEMMA AppendedSealing ==
  ASSUME NEW S, NEW q \in Seq(S), NEW f \in S, NEW key, NEW low \in Int, NEW high \in Int,
         \A g \in S : g.type = "enc" => g.s \in Int,
         Has(q, "enc") => Sealing(q, key, low, high)
  PROVE  /\ f.type # "enc" /\ Has(q, "enc") => Sealing(Append(q, f), key, low, high)
         /\ f.type = "enc" /\ f.key = key /\ f.s = high + 1 /\ low <= high
              => Sealing(Append(q, f), key, low, high + 1)
<1> DEFINE r == Append(q, f)
           n == Len(q) + 1
<1>1. /\ Len(q) \in Nat /\ Len(r) = n /\ r[n] = f /\ \A i \in 1..Len(q) : r[i] = q[i]
      /\ n \in 1..n /\ \A i \in 1..n : i = n \/ i \in 1..Len(q)
      /\ \A i \in 1..Len(q) : i \in 1..n /\ i < n /\ q[i] \in S
      /\ \A i \in 1..n : ~(i > n)
  BY AppendFacts
<1> HIDE DEF r, n
<1>2. \A i \in 1..Len(q) : q[i].type = "enc" =>
        /\ q[i].key = key /\ low < q[i].s /\ q[i].s <= high /\ q[i].s \in Int
        /\ \A j \in 1..Len(q) : j > i /\ q[j].type = "enc" => q[i].s < q[j].s
  BY <1>1 DEF Sealing, Has
<1>3. f.type # "enc" => Sealing(r, key, low, high)
  BY <1>1, <1>2 DEF Sealing
<1>4. ASSUME f.type = "enc", f.key = key, f.s = high + 1, low <= high
      PROVE  Sealing(r, key, low, high + 1)
  <2>1. ASSUME NEW i \in 1..n, r[i].type = "enc"
        PROVE  /\ r[i].key = key /\ low < r[i].s /\ r[i].s <= high + 1
               /\ \A j \in 1..n : j > i /\ r[j].type = "enc" => r[i].s < r[j].s
    <3>1. CASE i = n
      BY <1>1, <1>4, <3>1
    <3>2. CASE i \in 1..Len(q)
      BY <1>1, <1>2, <1>4, <2>1, <3>2
    <3> QED BY <1>1, <3>1, <3>2
  <2> QED BY <1>1, <2>1 DEF Sealing
<1> QED BY <1>3, <1>4 DEF r

-------------------------------------------------------------------------------
(* What a session makes of the frame it takes *)

SameHandshake(s) ==
  /\ hs'[s] # NoHandshake <=> hs[s] # NoHandshake
  /\ hs[s] # NoHandshake => /\ hs'[s].serverKeys = hs[s].serverKeys
                            /\ hs'[s].clientPub = hs[s].clientPub
                            /\ hs'[s].pairingSecret = hs[s].pairingSecret

SameCounter(s) == hs[s] # NoHandshake => hs'[s].recvSeq = hs[s].recvSeq

(* The frame f goes from connection n to session s, and nothing else moves.*)
Takes(n, s) ==
  /\ peer[s] = n /\ up[n] # <<>> /\ D!Receiving(s)
  /\ up' = [up EXCEPT ![n] = Tail(@)]
  /\ UNCHANGED <<controller, via, peer, link, minted>>
  /\ \A r \in Sessions \ {s} : /\ hs'[r] = hs[r] /\ deviceKey'[r] = deviceKey[r]
                               /\ offered'[r] = offered[r] /\ down'[r] = down[r]

Refuses(s, f) ==
  /\ SameHandshake(s) /\ SameCounter(s)
  /\ deviceKey'[s] = deviceKey[s] /\ offered'[s] = offered[s]
  /\ \/ /\ down'[s] = down[s]
        /\ f.type = "pin_verify" => hs[s] = NoHandshake
     \/ /\ \E g \in DownFrames : g.type = "error" /\ down'[s] = Append(down[s], g)
        /\ f.type = "pin_verify" => hs[s] = NoHandshake
     \/ f.type = "pin_verify" /\ down'[s] = Append(down[s], PinNackFrame)

Welcomes(s, f) ==
  /\ f.type = "hello" /\ pending # NoSlot
  /\ hs'[s] # NoHandshake /\ ~D!Paired(s)' /\ hs'[s].clientPub = NoPub
  /\ hs'[s].recvSeq = 0
  /\ deviceKey'[s] = deviceKey[s]
  /\ offered'[s] = minted
  /\ down'[s] = Append(down[s], ChallengeFrame(minted))

Accepts(n, s, f) ==
  /\ f.type = "pin_verify" /\ pending # NoSlot /\ hs[s] # NoHandshake
  /\ hs'[s] # NoHandshake /\ D!Paired(s)' /\ hs'[s].clientPub = n
  /\ hs'[s].pairingSecret.pin = f.pin
  /\ SameCounter(s)
  /\ deviceKey'[s] = deviceKey[s] /\ offered'[s] = offered[s]
  /\ \E k : down'[s] = Append(down[s], PinAckFrame(k)) /\ PinAckFrame(k) \in DownFrames

Derives(n, s, f) ==
  /\ f.type = "keyx" /\ D!Paired(s) /\ hs[s].clientPub = n
  /\ SameHandshake(s) /\ SameCounter(s)
  /\ deviceKey'[s] = Keyed(s) /\ deviceKey'[s] # NoKey /\ offered'[s] = offered[s]
  /\ down'[s] = Append(Append(down[s], KeyxFrame(hs[s].serverKeys)), ReadyFrame)
  /\ KeyxFrame(hs[s].serverKeys) \in DownFrames

Decrypts(s, f) ==
  /\ f.type = "enc" /\ D!Ready(s) /\ f.key = deviceKey[s] /\ hs[s].recvSeq < f.s
  /\ SameHandshake(s) /\ hs'[s].recvSeq = f.s
  /\ deviceKey'[s] = deviceKey[s] /\ offered'[s] = offered[s] /\ down'[s] = down[s]

LEMMA Replies ==
  ASSUME EndsInv, NEW s \in Sessions, D!Receiving(s), down' = Downward(s),
         offered' = Offered(s), NEW g \in DownFrames, D!Send(s, <<g>>)
  PROVE  /\ down'[s] = Append(down[s], g)
         /\ offered'[s] = IF g.type = "challenge" THEN g.salt ELSE offered[s]
         /\ \A r \in Sessions \ {s} : offered'[r] = offered[r] /\ down'[r] = down[r]
<1>1. link[s] = "open"
  BY DEF EndsInv, LinkInv, D!Receiving
<1>2. deviceSent'[s] = <<g>>
  BY <1>1 DEF D!Send
<1>3. /\ down \in [Sessions -> Seq(DownFrames)] /\ down[s] \in Seq(DownFrames)
      /\ offered \in [Sessions -> 0..MaxSlots]
  BY DEF EndsInv, WorldTypes
<1>4. down[s] \o <<g>> = Append(down[s], g)
  BY <1>3
<1>5. /\ offered'[s] = IF g.type = "challenge" THEN g.salt ELSE offered[s]
      /\ \A r \in Sessions \ {s} : offered'[r] = offered[r]
  BY <1>2, <1>3 DEF Offered, Says
<1> QED BY <1>2, <1>3, <1>4, <1>5 DEF Downward

LEMMA RepliesNothing ==
  ASSUME EndsInv, NEW s \in Sessions, down' = Downward(s), offered' = Offered(s), D!Silent
  PROVE  down' = down /\ offered' = offered
<1>1. deviceSent'[s] = <<>>
  BY DEF D!Silent
<1>2. down \in [Sessions -> Seq(DownFrames)] /\ down[s] \in Seq(DownFrames)
  BY DEF EndsInv, WorldTypes
<1>3. down[s] \o <<>> = down[s]
  BY <1>2
<1> QED BY <1>1, <1>2, <1>3 DEF Downward, Offered, Says

LEMMA Untouched ==
  ASSUME NEW s, hs' = hs
  PROVE  SameHandshake(s) /\ SameCounter(s)
BY DEF SameHandshake, SameCounter

LEMMA RefusedWith ==
  ASSUME EndsInv, NEW s \in Sessions, D!Receiving(s), down' = Downward(s),
         offered' = Offered(s), hs' = hs, deviceKey' = deviceKey, NEW f,
         \/ D!Silent /\ f.type # "pin_verify"
         \/ /\ \E e \in {"version", "no_pairing", "no_session", "bad_keyx", "key_switch",
                         "not_ready", "replay", "decrypt", "bad_frame"} :
                 D!Send(s, <<D!ErrorFrame(e)>>)
            /\ f.type = "pin_verify" => hs[s] = NoHandshake
         \/ D!Send(s, <<D!PinNackFrame>>) /\ f.type = "pin_verify"
  PROVE  /\ Refuses(s, f)
         /\ \A r \in Sessions \ {s} : offered'[r] = offered[r] /\ down'[r] = down[r]
<1>1. CASE D!Silent /\ f.type # "pin_verify"
  BY <1>1, RepliesNothing, Untouched DEF Refuses
<1>2. ASSUME NEW g \in DownFrames, g.type = "error", D!Send(s, <<g>>),
             f.type = "pin_verify" => hs[s] = NoHandshake
      PROVE  /\ Refuses(s, f)
             /\ \A r \in Sessions \ {s} : offered'[r] = offered[r] /\ down'[r] = down[r]
  BY <1>2, Replies, Untouched DEF Refuses
<1>3. CASE D!Send(s, <<D!PinNackFrame>>) /\ f.type = "pin_verify"
  <2>1. PinNackFrame \in DownFrames /\ PinNackFrame.type # "challenge"
    BY NackIsFrame, DeviceFrames
  <2> QED BY <1>3, <2>1, Replies, Untouched, DeviceFrames DEF Refuses
<1> QED BY <1>1, <1>2, <1>3, ErrorsAreFrames

LEMMA HelloTaken ==
  ASSUME EndsInv, NEW s \in Sessions, D!Receiving(s), down' = Downward(s),
         offered' = Offered(s), NEW f, f.type = "hello", D!HandleHello(s, f)
  PROVE  /\ Refuses(s, f) \/ Welcomes(s, f)
         /\ \A r \in Sessions \ {s} : /\ hs'[r] = hs[r] /\ deviceKey'[r] = deviceKey[r]
                                      /\ offered'[r] = offered[r] /\ down'[r] = down[r]
<1>1. deviceKey' = deviceKey /\ hs \in [Sessions -> D!Handshakes \cup {NoHandshake}]
  BY DEF D!HandleHello, EndsInv, D!DeviceInv, D!TypeOK
<1>2. CASE hs' = hs /\ \E e \in {"version", "no_pairing"} : D!Send(s, <<D!ErrorFrame(e)>>)
  BY <1>1, <1>2, RefusedWith
<1>3. CASE /\ pending # NoSlot /\ hs' = [hs EXCEPT ![s] = D!FreshHandshake(keyed + 1)]
           /\ D!Send(s, <<D!ChallengeFrame(pending.salt)>>) /\ keyed < MaxKeys
  <2>1. pending.salt = minted /\ minted \in 1..MaxSlots
    BY <1>3, PendingSalt
  <2>2. ChallengeFrame(minted) \in DownFrames /\ ChallengeFrame(minted).type = "challenge"
        /\ ChallengeFrame(minted).salt = minted
    BY <2>1 DEF DownFrames, ChallengeFrame
  <2>3. D!Send(s, <<ChallengeFrame(minted)>>)
    BY <1>3, <2>1, DeviceFrames
  <2>4. /\ down'[s] = Append(down[s], ChallengeFrame(minted)) /\ offered'[s] = minted
        /\ \A r \in Sessions \ {s} : offered'[r] = offered[r] /\ down'[r] = down[r]
    BY <2>2, <2>3, Replies
  <2>5. hs'[s] = D!FreshHandshake(keyed + 1) /\ \A r \in Sessions \ {s} : hs'[r] = hs[r]
    BY <1>1, <1>3
  <2>6. hs'[s] # NoHandshake
    <3>1. keyed + 1 \in 1..MaxKeys
      BY <1>3, EndToEndAssumption DEF EndsInv, D!DeviceInv, D!TypeOK
    <3>2. D!FreshHandshake(keyed + 1) \in D!Handshakes
      BY <3>1, EndToEndAssumption DEF D!FreshHandshake, D!Handshakes, D!NoSeq
    <3> QED BY <2>5, <3>2, EndToEndAssumption
  <2> QED BY <1>1, <1>3, <2>4, <2>5, <2>6 DEF Welcomes, D!Paired, D!FreshHandshake
<1> QED BY <1>2, <1>3 DEF D!HandleHello

LEMMA PinTaken ==
  ASSUME EndsInv, NEW s \in Sessions, D!Receiving(s), down' = Downward(s),
         offered' = Offered(s), NEW f, NEW n \in Conns,
         f.type = "pin_verify", f.pub = n, D!HandlePinVerify(s, f)
  PROVE  /\ Refuses(s, f) \/ Accepts(n, s, f)
         /\ \A r \in Sessions \ {s} : /\ hs'[r] = hs[r] /\ deviceKey'[r] = deviceKey[r]
                                      /\ offered'[r] = offered[r] /\ down'[r] = down[r]
<1>1. deviceKey' = deviceKey /\ hs \in [Sessions -> D!Handshakes \cup {NoHandshake}]
  BY DEF D!HandlePinVerify, D!PinBeforeHello, D!PinRefused, D!PinWithBadPub, D!PinAccepted,
         D!sessionVars, EndsInv, D!DeviceInv, D!TypeOK
<1>2. CASE hs' = hs /\ hs[s] = NoHandshake /\ D!Send(s, <<D!ErrorFrame("no_session")>>)
  BY <1>1, <1>2, RefusedWith
<1>3. CASE hs' = hs /\ D!Send(s, <<D!PinNackFrame>>)
  BY <1>1, <1>3, RefusedWith
<1>4. CASE D!PinAccepted(s, f) /\ D!Consumable
  <2>1. /\ pending # NoSlot /\ hs[s] # NoHandshake /\ pending.secret \in D!Secrets
        /\ pending.secret.pin = f.pin /\ hs[s] \in D!Handshakes
    BY <1>1, <1>4, PendingSalt DEF D!PinAccepted, D!PinMatches, D!HashPin
  <2>2. /\ \A r \in Sessions \ {s} : hs'[r] = hs[r]
        /\ hs'[s] \in D!Handshakes
        /\ hs'[s].pairingSecret = pending.secret /\ hs'[s].clientPub = n
        /\ hs'[s].recvSeq = hs[s].recvSeq
    <3>1. hs' = [hs EXCEPT ![s].pairingSecret = pending.secret, ![s].clientPub = f.pub]
      BY <1>4 DEF D!PinAccepted
    <3> QED BY <1>1, <2>1, <3>1 DEF D!Handshakes
  <2>3. hs'[s] # NoHandshake /\ D!Paired(s)'
    BY <2>1, <2>2, EndToEndAssumption DEF D!Paired
  <2>4. PinAckFrame(hs[s].serverKeys) \in DownFrames
    BY <2>1 DEF D!Handshakes, DownFrames
  <2>5. D!Send(s, <<PinAckFrame(hs[s].serverKeys)>>)
    BY <1>4, DeviceFrames DEF D!PinAccepted
  <2>6. /\ down'[s] = Append(down[s], PinAckFrame(hs[s].serverKeys)) /\ offered'[s] = offered[s]
        /\ \A r \in Sessions \ {s} : offered'[r] = offered[r] /\ down'[r] = down[r]
    <3>1. PinAckFrame(hs[s].serverKeys).type # "challenge"
      BY DEF PinAckFrame
    <3> QED BY <2>4, <2>5, <3>1, Replies
  <2> QED BY <1>1, <2>1, <2>2, <2>3, <2>4, <2>6 DEF Accepts, SameCounter
<1> QED
  BY <1>2, <1>3, <1>4 DEF D!HandlePinVerify, D!PinBeforeHello, D!PinRefused, D!PinWithBadPub,
                          D!PinAccepted, D!sessionVars

LEMMA KeyxTaken ==
  ASSUME EndsInv, NEW s \in Sessions, D!Receiving(s), down' = Downward(s),
         offered' = Offered(s), NEW f, NEW n \in Conns,
         f.type = "keyx", f.pub = n, D!HandleKeyx(s, f)
  PROVE  /\ Refuses(s, f) \/ Derives(n, s, f)
         /\ \A r \in Sessions \ {s} : /\ hs'[r] = hs[r] /\ deviceKey'[r] = deviceKey[r]
                                      /\ offered'[r] = offered[r] /\ down'[r] = down[r]
<1>1. CASE /\ hs' = hs /\ deviceKey' = deviceKey
           /\ \E e \in {"no_pairing", "bad_keyx", "key_switch"} : D!Send(s, <<D!ErrorFrame(e)>>)
  BY <1>1, RefusedWith
<1>2. CASE /\ D!Paired(s) /\ D!SameClient(s, f.pub)
           /\ hs' = [hs EXCEPT ![s].clientPub = f.pub]
           /\ deviceKey' = [deviceKey EXCEPT ![s] =
                              D!DeriveKey(hs[s].serverKeys, f.pub, hs[s].pairingSecret)]
           /\ D!Send(s, <<D!KeyxFrame(hs[s].serverKeys), D!ReadyFrame>>)
  <2>1. /\ hs \in [Sessions -> D!Handshakes \cup {NoHandshake}] /\ hs[s] # NoHandshake
        /\ hs[s] \in D!Handshakes /\ hs[s].pairingSecret \in D!Secrets
        /\ deviceKey \in [Sessions -> D!Keys \cup {NoKey}]
    BY <1>2 DEF D!Paired, EndsInv, D!DeviceInv, D!TypeOK, D!Handshakes
  <2>2. hs[s].clientPub = n
    <3>1. hs[s].clientPub # NoPub
      BY <1>2 DEF D!Paired, EndsInv, D!DeviceInv, D!SessionInv, D!HandshakeInv
    <3> QED BY <1>2, <3>1 DEF D!SameClient
  <2>3. /\ SameHandshake(s) /\ SameCounter(s) /\ hs'[s] = hs[s]
        /\ \A r \in Sessions \ {s} : hs'[r] = hs[r]
    <3>1. hs' = hs
      BY <1>2, <2>1, <2>2 DEF D!Handshakes
    <3> QED BY <3>1, Untouched
  <2>4. /\ deviceKey'[s] = Keyed(s) /\ deviceKey'[s] # NoKey
        /\ \A r \in Sessions \ {s} : deviceKey'[r] = deviceKey[r]
    <3>1. Keyed(s) \in D!Keys
      BY <2>1, <2>2 DEF Keyed, D!Keys, D!Handshakes
    <3> QED BY <1>2, <2>1, <2>2, <3>1, EndToEndAssumption DEF D!DeriveKey, Keyed
  <2> DEFINE k == KeyxFrame(hs[s].serverKeys)
  <2>5. k \in DownFrames /\ ReadyFrame \in DownFrames /\ k.type = "keyx"
    BY <2>1 DEF DownFrames, D!Handshakes, KeyxFrame
  <2>6. deviceSent'[s] = <<k, ReadyFrame>>
    <3>1. link[s] = "open"
      BY DEF EndsInv, LinkInv, D!Receiving
    <3> QED BY <1>2, <3>1, DeviceFrames DEF D!Send
  <2> HIDE DEF k
  <2>7. offered' = offered
    BY <2>5, <2>6 DEF Offered, Says
  <2>8. /\ down'[s] = Append(Append(down[s], k), ReadyFrame)
        /\ \A r \in Sessions \ {s} : down'[r] = down[r]
    <3>1. /\ down \in [Sessions -> Seq(DownFrames)] /\ down[s] \in Seq(DownFrames)
      BY DEF EndsInv, WorldTypes
    <3>2. down[s] \o <<k, ReadyFrame>> = Append(Append(down[s], k), ReadyFrame)
      BY <2>5, <3>1
    <3> QED BY <2>6, <3>1, <3>2 DEF Downward
  <2> QED BY <1>2, <2>2, <2>3, <2>4, <2>5, <2>7, <2>8 DEF Derives, k
<1> QED BY <1>1, <1>2 DEF D!HandleKeyx

LEMMA CounterTypes ==
  ASSUME EndsInv, NEW s \in Sessions
  PROVE  /\ sendSeq \in Nat
         /\ hs[s] # NoHandshake => hs[s].recvSeq \in Int
<1>1. hs[s] # NoHandshake => hs[s].recvSeq \in D!NoSeq..MaxIds
  BY DEF EndsInv, D!DeviceInv, D!TypeOK, D!Handshakes
<1> QED BY <1>1 DEF EndsInv, C!TransportInv, C!TypeOK, D!NoSeq

LEMMA PayloadTaken ==
  ASSUME EndsInv, NEW s \in Sessions, D!Receiving(s), down' = Downward(s),
         offered' = Offered(s), NEW f, f.type = "enc", f.s \in 0..MaxIds,
         D!HandleEncrypted(s, f)
  PROVE  /\ Refuses(s, f) \/ Decrypts(s, f)
         /\ \A r \in Sessions \ {s} : /\ hs'[r] = hs[r] /\ deviceKey'[r] = deviceKey[r]
                                      /\ offered'[r] = offered[r] /\ down'[r] = down[r]
<1>1. CASE D!PayloadRefused(s, f)
  <2>1. /\ hs' = hs /\ deviceKey' = deviceKey
        /\ \E e \in {"not_ready", "replay", "decrypt"} : D!Send(s, <<D!ErrorFrame(e)>>)
    BY <1>1 DEF D!PayloadRefused, D!sessionVars
  <2> QED BY <2>1, RefusedWith
<1>2. CASE D!PayloadOpened(s, f)
  <2>1. /\ hs \in [Sessions -> D!Handshakes \cup {NoHandshake}] /\ hs[s] # NoHandshake
        /\ hs[s] \in D!Handshakes /\ hs' = [hs EXCEPT ![s].recvSeq = f.s]
        /\ deviceKey' = deviceKey /\ D!Silent
    BY <1>2 DEF D!PayloadOpened, D!Ready, EndsInv, D!DeviceInv, D!TypeOK
  <2>2. /\ \A r \in Sessions \ {s} : hs'[r] = hs[r]
        /\ hs'[s] = [hs[s] EXCEPT !.recvSeq = f.s]
    BY <2>1
  <2>3. /\ hs'[s].recvSeq = f.s /\ hs'[s].serverKeys = hs[s].serverKeys
        /\ hs'[s].clientPub = hs[s].clientPub /\ hs'[s].pairingSecret = hs[s].pairingSecret
        /\ hs'[s] # NoHandshake
    BY <2>1, <2>2, EndToEndAssumption DEF D!Handshakes, D!NoSeq
  <2>4. hs[s].recvSeq < f.s
    <3>1. hs[s].recvSeq \in Int /\ f.s \in Nat
      BY <2>1, CounterTypes, EndToEndAssumption
    <3>2. ~D!Stale(f.s, hs[s].recvSeq)
      BY <1>2 DEF D!PayloadOpened, D!InSequence
    <3> QED BY <3>1, <3>2 DEF D!Stale, D!NoSeq
  <2> QED BY <1>2, <2>1, <2>2, <2>3, <2>4, RepliesNothing
          DEF Decrypts, SameHandshake, D!PayloadOpened, D!Opens
<1> QED BY <1>1, <1>2 DEF D!HandleEncrypted

LEMMA OtherTaken ==
  ASSUME EndsInv, NEW s \in Sessions, down' = Downward(s), offered' = Offered(s),
         NEW f, f.type = "bye", D!HandleOther(s, f)
  PROVE  /\ Refuses(s, f)
         /\ \A r \in Sessions \ {s} : /\ hs'[r] = hs[r] /\ deviceKey'[r] = deviceKey[r]
                                      /\ offered'[r] = offered[r] /\ down'[r] = down[r]
<1>1. hs' = hs /\ deviceKey' = deviceKey /\ D!Silent
  BY DEF D!HandleOther, D!sessionVars
<1> QED BY <1>1, RepliesNothing, Untouched DEF Refuses

Moves(n, s, f) ==
  \/ Refuses(s, f) \/ Welcomes(s, f) \/ Accepts(n, s, f) \/ Derives(n, s, f)
  \/ Decrypts(s, f)

LEMMA SessionOfIsSession == \A n \in Conns : SessionOf(n) \in Sessions
BY EndToEndAssumption DEF SessionOf, Sessions, Host, Conns

LEMMA FrameTypes ==
  \A f \in UpFrames :
    /\ f.type \in {"hello", "bye", "pin_verify", "keyx", "enc"}
    /\ f.type = "enc" => f.s \in 1..MaxIds
BY DEF UpFrames, HelloFrame, ByeFrame, PinVerifyFrame, KeyxFrame, EncFrame

LEMMA Handling ==
  ASSUME EndsInv, NEW n \in Conns, Handles(n)
  PROVE  Takes(n, SessionOf(n)) /\ Moves(n, SessionOf(n), Head(up[n]))
<1> DEFINE s == SessionOf(n)
           f == Head(up[n])
<1>1. /\ s \in Sessions /\ peer[s] = n /\ up[n] # <<>> /\ up[n] \in Seq(UpFrames)
      /\ D!HandleFrame(s, f) /\ D!Receiving(s)
      /\ up' = [up EXCEPT ![n] = Tail(@)] /\ down' = Downward(s) /\ offered' = Offered(s)
      /\ UNCHANGED <<controller, via, peer>>
  BY SessionOfIsSession
  DEF Handles, Joined, ControllerIdle, D!HandleFrame, EndsInv, WorldTypes
<1>2. f \in UpFrames /\ f = up[n][1] /\ 1 \in 1..Len(up[n])
  BY <1>1, TailFacts
<1>3. /\ f.type \in {"hello", "bye", "pin_verify", "keyx", "enc"}
      /\ f.type = "enc" => f.s \in 0..MaxIds
  BY <1>2, FrameTypes
<1>4. f.type \in {"pin_verify", "keyx"} => f.pub = n
  BY <1>2 DEF EndsInv, UpInv, OwnFrame
<1> HIDE DEF s, f
<1>5. link' = link /\ minted' = minted
  BY <1>1
  DEF D!HandleFrame, D!HandleHello, D!HandlePinVerify, D!PinBeforeHello, D!PinRefused,
      D!PinWithBadPub, D!PinAccepted, D!HandleKeyx, D!HandleEncrypted, D!PayloadRefused,
      D!PayloadOpened, D!HandleOther, D!pairingVars
<1>6. /\ Moves(n, s, f)
      /\ \A r \in Sessions \ {s} : /\ hs'[r] = hs[r] /\ deviceKey'[r] = deviceKey[r]
                                   /\ offered'[r] = offered[r] /\ down'[r] = down[r]
  <2>1. CASE f.type = "hello" /\ D!HandleHello(s, f)
    BY <1>1, <2>1, HelloTaken DEF Moves
  <2>2. CASE f.type = "pin_verify" /\ D!HandlePinVerify(s, f)
    BY <1>1, <1>4, <2>2, PinTaken DEF Moves
  <2>3. CASE f.type = "keyx" /\ D!HandleKeyx(s, f)
    BY <1>1, <1>4, <2>3, KeyxTaken DEF Moves
  <2>4. CASE f.type = "enc" /\ D!HandleEncrypted(s, f)
    BY <1>1, <1>3, <2>4, PayloadTaken DEF Moves
  <2>5. CASE f.type = "bye" /\ D!HandleOther(s, f)
    BY <1>1, <2>5, OtherTaken DEF Moves
  <2> QED BY <1>1, <1>3, <2>1, <2>2, <2>3, <2>4, <2>5 DEF D!HandleFrame
<1> QED BY <1>1, <1>5, <1>6 DEF Takes, s, f

-------------------------------------------------------------------------------
(* What the sockets do in a step of the controller *)

ControllerMoves ==
  \/ C!Connect(via) \/ C!Disconnect
  \/ \E n \in Conns : C!OnOpen(n) \/ C!OnClose(n)
  \/ C!HelloTimer \/ C!SendCommand
  \/ \E pin \in Pins : C!SubmitPin(pin)
  \/ \E c \in Calls : C!CommandTimeout(c)
  \/ \E n, f : C!OnMessage(n, f)

Early(x) == x.state \in {"none", "connecting"}

(* Opened stays opened, and a frame is only put on an open socket.         *)
SocketsAdvance ==
  /\ \A n \in Conns : Early(sock'[n]) => Early(sock[n])
  /\ \A n \in Conns : n > made' => sock'[n].state = "none"
  /\ clientSent' # <<>> => ws \in Conns /\ clientSent'[1] = ws /\ ~Early(sock'[ws])

LEMMA SocketTypes ==
  ASSUME EndsInv
  PROVE  /\ sock \in [Conns -> [state : {"none", "connecting", "open", "closing", "closed"},
                                mode : C!Modes]]
         /\ made \in 0..MaxConns /\ MaxConns \in Nat
         /\ ws = C!NoSocket \/ (ws \in Conns /\ ws = clientKeys /\ ws <= made)
         /\ C!NoSocket = 0 /\ 0 \notin Conns
<1>1. ws \in 0..made
  BY DEF EndsInv, C!TransportInv, C!TypeOK
<1> QED
  BY <1>1, Connected, EndToEndAssumption
  DEF EndsInv, C!TransportInv, C!TypeOK, C!Conns, Conns, C!NoSocket

LEMMA ClosingAdvances ==
  ASSUME EndsInv, \A n \in Conns : n > made => sock[n].state = "none", NEW g, C!Send(g),
         made' = made /\ sock' \in {sock, C!WsClosed}
  PROVE  SocketsAdvance
<1>1. \A n \in Conns : Early(sock'[n]) => Early(sock[n])
  BY SocketTypes DEF C!WsClosed, Early
<1>2. \A n \in Conns : sock[n].state = "none" => sock'[n].state = "none"
  BY SocketTypes DEF C!WsClosed
<1>3. clientSent' # <<>> =>
        ws \in Conns /\ clientSent' = <<ws, g>> /\ sock[ws].state = "open"
  BY SocketTypes DEF C!Send, C!IsOpen
<1>4. sock[ws].state = "open" => ~Early(sock[ws])
  BY DEF Early
<1> QED BY <1>1, <1>2, <1>3, <1>4 DEF SocketsAdvance

LEMMA SilenceAdvances ==
  ASSUME EndsInv, \A n \in Conns : n > made => sock[n].state = "none", C!Silent,
         made' = made /\ sock' \in {sock, C!WsClosed}
  PROVE  SocketsAdvance
<1>1. \A n \in Conns : Early(sock'[n]) => Early(sock[n])
  BY SocketTypes DEF C!WsClosed, Early
<1>2. \A n \in Conns : sock[n].state = "none" => sock'[n].state = "none"
  BY SocketTypes DEF C!WsClosed
<1> QED BY <1>1, <1>2 DEF SocketsAdvance, C!Silent

LEMMA SocketsMove ==
  ASSUME EndsInv, \A n \in Conns : n > made => sock[n].state = "none", ControllerMoves
  PROVE  SocketsAdvance
<1>1. CASE C!Connect(via)
  <2>1. /\ made < MaxConns /\ made' = made + 1 /\ C!Send(C!ByeFrame)
        /\ \/ sock' = [C!WsClosed EXCEPT ![made + 1] = [state |-> "connecting", mode |-> via]]
           \/ sock' = C!WsClosed
    BY <1>1 DEF C!Connect, C!DisconnectFirst
  <2>2. made + 1 \in Conns /\ sock[made + 1].state = "none" /\ made \in Nat
    BY <2>1, SocketTypes DEF Conns
  <2>3. \A n \in Conns : Early(sock'[n]) => Early(sock[n])
    <3>1. \A n \in Conns : Early(C!WsClosed[n]) => Early(sock[n])
      BY SocketTypes DEF C!WsClosed, Early
    <3>2. \A n \in Conns : sock'[n] = C!WsClosed[n] \/ n = made + 1
      BY <2>1, SocketTypes DEF C!WsClosed
    <3> QED BY <2>2, <3>1, <3>2 DEF Early
  <2>4. \A n \in Conns : n > made' => sock'[n].state = "none"
    <3>1. ASSUME NEW n \in Conns, n > made + 1 PROVE C!WsClosed[n].state = "none"
      <4>1. sock[n].state = "none"
        BY <2>2, <3>1 DEF Conns
      <4> QED BY <4>1, SocketTypes DEF C!WsClosed
    <3>2. ASSUME NEW n \in Conns, n > made + 1 PROVE sock'[n] = C!WsClosed[n]
      <4>1. n # made + 1
        BY <2>2, <3>2 DEF Conns
      <4> QED BY <2>1, <4>1, SocketTypes DEF C!WsClosed
    <3> QED BY <2>1, <3>1, <3>2
  <2>5. clientSent' # <<>> =>
          ws \in Conns /\ clientSent' = <<ws, C!ByeFrame>> /\ sock[ws].state = "open"
    BY <2>1, SocketTypes DEF C!Send, C!IsOpen
  <2>6. ws \in Conns /\ sock[ws].state = "open" => ~Early(sock'[ws])
    <3> SUFFICES ASSUME ws \in Conns, sock[ws].state = "open" PROVE ~Early(sock'[ws])
      OBVIOUS
    <3>1. ws # made + 1 /\ ws # 0
      BY <2>2, SocketTypes
    <3>2. C!WsClosed[ws].state = "closing"
      BY <3>1, SocketTypes DEF C!WsClosed
    <3>3. sock'[ws] = C!WsClosed[ws]
      BY <2>1, <2>2, <3>1, SocketTypes DEF C!WsClosed
    <3> QED BY <3>2, <3>3 DEF Early
  <2> QED BY <2>3, <2>4, <2>5, <2>6 DEF SocketsAdvance
<1>2. CASE C!Disconnect
  BY <1>2, ClosingAdvances DEF C!Disconnect, C!DisconnectFirst
<1>3. ASSUME NEW n \in Conns, C!OnOpen(n) PROVE SocketsAdvance
  <2>1. /\ sock[n].state = "connecting" /\ sock' = [sock EXCEPT ![n].state = "open"]
        /\ made' = made
        /\ clientSent' = IF clientKeys # 0 /\ ws # C!NoSocket /\ sock'[ws].state = "open"
                         THEN <<ws, C!HelloFrame(C!Version)>> ELSE <<>>
    BY <1>3 DEF C!OnOpen
  <2>2. \A m \in Conns : sock'[m] = sock[m] \/ (m = n /\ sock'[m].state = "open")
    BY <2>1, SocketTypes
  <2> QED BY <2>1, <2>2, SocketTypes DEF SocketsAdvance, Early
<1>4. ASSUME NEW n \in Conns, C!OnClose(n) PROVE SocketsAdvance
  <2>1. /\ sock[n].state # "none" /\ sock' = [sock EXCEPT ![n].state = "closed"]
        /\ made' = made /\ clientSent' = <<>>
    BY <1>4 DEF C!OnClose, C!Silent
  <2>2. \A m \in Conns : sock'[m] = sock[m] \/ (m = n /\ sock'[m].state = "closed")
    BY <2>1, SocketTypes
  <2> QED BY <2>1, <2>2 DEF SocketsAdvance, Early
<1>5. CASE C!HelloTimer
  <2>1. /\ made' = made /\ sock' \in {sock, C!WsClosed}
        /\ C!Silent \/ C!Send(C!HelloFrame(C!Version))
    BY <1>5 DEF C!HelloTimer, C!SendRelayHello
  <2> QED BY <2>1, ClosingAdvances, SilenceAdvances
<1>6. CASE C!SendCommand
  BY <1>6, ClosingAdvances, SilenceAdvances DEF C!SendCommand
<1>7. ASSUME NEW pin \in Pins, C!SubmitPin(pin) PROVE SocketsAdvance
  BY <1>7, ClosingAdvances DEF C!SubmitPin
<1>8. ASSUME NEW c \in Calls, C!CommandTimeout(c) PROVE SocketsAdvance
  BY <1>8, SilenceAdvances DEF C!CommandTimeout
<1>9. ASSUME NEW n, NEW f, C!OnMessage(n, f) PROVE SocketsAdvance
  <2>1. CASE C!HandlePinAck(f)
    BY <2>1, ClosingAdvances, SilenceAdvances DEF C!HandlePinAck
  <2>2. CASE C!HandleChallenge(f) \/ C!HandlePinNack \/ C!HandleKeyx(f) \/ C!HandleOther(f)
             \/ C!HandleEncrypted(f)
    BY <2>2, SilenceAdvances
    DEF C!HandleChallenge, C!HandlePinNack, C!HandleKeyx, C!HandleOther, C!HandleEncrypted
  <2> QED BY <1>2, <1>9, <2>1, <2>2 DEF C!OnMessage
<1> QED
  BY <1>1, <1>2, <1>3, <1>4, <1>5, <1>6, <1>7, <1>8, <1>9 DEF ControllerMoves

LEMMA SocketsAtRest ==
  ASSUME EndsInv, \A n \in Conns : n > made => sock[n].state = "none", ControllerIdle
  PROVE  SocketsAdvance
BY SilenceAdvances DEF ControllerIdle, controller

LEMMA TimerStays ==
  ASSUME EndsInv, via = "direct", timer = FALSE, \A n \in Conns : sock[n].mode = "direct",
         ControllerMoves \/ ControllerIdle
  PROVE  timer' = FALSE /\ \A n \in Conns : sock'[n].mode = "direct"
<1>1. ASSUME sock' \in {sock, C!WsClosed}, C!ClearRelayHelloRetry \/ timer' = timer
      PROVE  timer' = FALSE /\ \A n \in Conns : sock'[n].mode = "direct"
  BY <1>1, SocketTypes DEF C!WsClosed, C!ClearRelayHelloRetry
<1>2. CASE C!Connect(via)
  <2>1. timer' = FALSE
    BY <1>2 DEF C!Connect, C!DisconnectFirst, C!ClearRelayHelloRetry
  <2>2. \A n \in Conns : C!WsClosed[n].mode = "direct"
    BY SocketTypes DEF C!WsClosed
  <2>3. \/ sock' = [C!WsClosed EXCEPT ![made + 1] = [state |-> "connecting", mode |-> "direct"]]
        \/ sock' = C!WsClosed
    BY <1>2 DEF C!Connect
  <2> QED BY <2>1, <2>2, <2>3, SocketTypes DEF C!WsClosed
<1>3. ASSUME NEW n \in Conns, C!OnOpen(n) \/ C!OnClose(n)
      PROVE  timer' = FALSE /\ \A m \in Conns : sock'[m].mode = "direct"
  <2>1. timer' = FALSE
    BY <1>3 DEF C!OnOpen, C!OnClose, C!hellos
  <2>2. \E x : sock' = [sock EXCEPT ![n].state = x]
    BY <1>3 DEF C!OnOpen, C!OnClose
  <2> QED BY <2>1, <2>2, SocketTypes
<1>4. CASE C!Disconnect
  BY <1>1, <1>4 DEF C!Disconnect, C!DisconnectFirst
<1>5. ASSUME NEW n, NEW f, C!OnMessage(n, f), ~C!Disconnect
      PROVE  sock' \in {sock, C!WsClosed} /\ (C!ClearRelayHelloRetry \/ timer' = timer)
  BY <1>5 DEF C!OnMessage, C!HandleChallenge, C!HandlePinAck, C!HandlePinNack, C!HandleKeyx,
              C!HandleOther, C!HandleEncrypted, C!hellos
<1>6. CASE \/ C!HelloTimer \/ C!SendCommand
           \/ \E pin \in Pins : C!SubmitPin(pin)
           \/ \E c \in Calls : C!CommandTimeout(c)
  BY <1>1, <1>6 DEF C!HelloTimer, C!SendCommand, C!SubmitPin, C!CommandTimeout, C!hellos
<1>7. CASE ControllerIdle
  BY <1>1, <1>7 DEF ControllerIdle, controller
<1> QED BY <1>1, <1>2, <1>3, <1>4, <1>5, <1>6, <1>7 DEF ControllerMoves

(* The frames of the controller join the queue of its open socket.         *)
LEMMA Posted ==
  ASSUME EndsInv, SocketsAdvance, up' = Upward, NEW n \in Conns
  PROVE  up'[n] = up[n] \/ (n = ws /\ ~Early(sock'[n]))
<1>1. up \in [Conns -> Seq(UpFrames)]
  BY DEF EndsInv, WorldTypes
<1> QED BY <1>1 DEF Upward, SocketsAdvance

LEMMA MovingController ==
  ASSUME EndsInv, WorldInv, \/ \E n \in Conns : Opens(n) \/ Closes(n)
                            \/ Sends \/ ControllerAlone
                            \/ \E s \in Sessions : Receives(s)
  PROVE  ControllerMoves \/ ControllerIdle
BY DEF Opens, Closes, Sends, ControllerAlone, User, Receives, ControllerMoves

LEMMA ControllerWorld ==
  ASSUME EndsInv, WorldInv, \/ \E n \in Conns : Closes(n)
                            \/ Sends \/ ControllerAlone
                            \/ \E s \in Sessions : Receives(s)
  PROVE  WorldInv'
<1>1. ControllerMoves \/ ControllerIdle
  BY MovingController
<1>2. SocketsAdvance
  BY <1>1, SocketsMove, SocketsAtRest DEF WorldInv
<1>3. UNCHANGED <<via, peer, offered, hs, deviceKey, link, minted>>
  BY DEF Closes, Sends, ControllerAlone, Receives, DeviceIdle, device, history
<1>4. \A n \in Conns : Early(sock'[n]) => up'[n] = <<>>
  <2> SUFFICES ASSUME NEW n \in Conns, Early(sock'[n]) PROVE up'[n] = <<>>
    OBVIOUS
  <2>1. up[n] = <<>> /\ up \in [Conns -> Seq(UpFrames)]
    BY <1>2 DEF SocketsAdvance, Early, WorldInv, Unopened, EndsInv, WorldTypes
  <2>2. CASE up' = Upward
    BY <1>2, <2>1, <2>2, Posted
  <2>3. ASSUME NEW m \in Conns, up' \in {up, [up EXCEPT ![m] = <<>>]} PROVE up'[n] = <<>>
    BY <2>1, <2>3
  <2> QED BY <2>1, <2>2, <2>3 DEF Closes, Sends, ControllerAlone, Receives
<1>5. \A s \in Sessions : down[s] = <<>> => down'[s] = <<>>
  <2>1. down \in [Sessions -> Seq(DownFrames)]
    BY DEF EndsInv, WorldTypes
  <2>2. ASSUME NEW s \in Sessions, Receives(s), NEW r \in Sessions, down[r] = <<>>
        PROVE  down'[r] = <<>>
    BY <2>1, <2>2 DEF Receives
  <2> QED BY <2>2 DEF Closes, Sends, ControllerAlone
<1>6. \A n \in Conns : Unopened(n)' /\ (n > made' => sock'[n].state = "none")
  <2> SUFFICES ASSUME NEW n \in Conns PROVE Unopened(n)'
    BY <1>2 DEF SocketsAdvance
  <2> SUFFICES ASSUME Early(sock'[n]) PROVE Unopened(n)'
    BY DEF Unopened, Early
  <2>1. Early(sock[n])
    BY <1>2 DEF SocketsAdvance
  <2> QED BY <1>3, <1>4, <1>5, <2>1 DEF WorldInv, Unopened, Early, Sessions
<1>7. via = "direct" => DirectInv'
  BY <1>1, <1>3, TimerStays DEF WorldInv, DirectInv
<1>8. via = "relay" => RelayedInv'
  BY <1>3 DEF WorldInv, RelayedInv
<1> QED BY <1>3, <1>6, <1>7, <1>8 DEF WorldInv

LEMMA OpensWorld ==
  ASSUME EndsInv, WorldInv, NEW n \in Conns, Opens(n)
  PROVE  WorldInv'
<1>1. SocketsAdvance /\ (ControllerMoves \/ ControllerIdle)
  BY MovingController, SocketsMove, SocketsAtRest DEF WorldInv
<1>2. /\ UNCHANGED <<via, down, offered, hs, deviceKey, minted>> /\ up' = Upward
      /\ link' = link \/ (via = "direct" /\ link' = [link EXCEPT ![n] = "open"])
      /\ \/ peer' = peer
         \/ via = "direct" /\ peer' = [peer EXCEPT ![n] = n]
         \/ via = "relay" /\ peer' = [peer EXCEPT ![Host] = n]
  BY DEF Opens, DeviceIdle, device, history, D!Connect, D!pairingVars, D!sessionVars
<1>3. sock'[n].state = "open"
  BY SocketTypes DEF Opens, C!OnOpen
<1>4. /\ peer \in [Sessions -> Conns \cup {NoConn}]
      /\ link \in [Sessions -> {"new", "open", "closing", "closed"}]
  BY DEF EndsInv, WorldTypes, D!DeviceInv, D!TypeOK
<1>5. ASSUME NEW m \in Conns, Early(sock'[m]) PROVE Unopened(m)'
  <2>1. Early(sock[m]) /\ m # n
    BY <1>1, <1>3, <1>5 DEF SocketsAdvance, Early
  <2>2. up'[m] = <<>>
    BY <1>1, <1>2, <1>5, <2>1, Posted DEF WorldInv, Unopened, Early
  <2>3. \A s \in Sessions : peer'[s] # m
    BY <1>2, <1>4, <2>1 DEF WorldInv, Unopened, Early
  <2>4. link'[m] = link[m]
    BY <1>2, <1>4, <2>1 DEF Sessions
  <2> QED BY <1>2, <2>1, <2>2, <2>3, <2>4 DEF WorldInv, Unopened, Early
<1>6. \A m \in Conns : Unopened(m)' /\ (m > made' => sock'[m].state = "none")
  BY <1>1, <1>5 DEF SocketsAdvance, Unopened, Early
<1>7. \A s \in Sessions : link'[s] = "new" => hs'[s] = NoHandshake
  BY <1>2, <1>4 DEF WorldInv
<1>8. via = "direct" => DirectInv'
  <2>1. via = "direct" => timer' = FALSE /\ \A m \in Conns : sock'[m].mode = "direct"
    BY <1>1, TimerStays DEF WorldInv, DirectInv
  <2>2. via = "direct" => \A s \in Sessions : peer'[s] \in {s, NoConn}
    BY <1>2, <1>4 DEF WorldInv, DirectInv
  <2> QED BY <1>2, <2>1, <2>2 DEF WorldInv, DirectInv
<1>9. via = "relay" => RelayedInv'
  BY <1>2, <1>4 DEF WorldInv, RelayedInv
<1> QED BY <1>2, <1>6, <1>7, <1>8, <1>9 DEF WorldInv

(* The controller does nothing, and a step of the device or of the network *)
(* tells them nothing of a connection that was not opened.                 *)
LEMMA DeviceWorld ==
  ASSUME EndsInv, WorldInv, ControllerIdle, UNCHANGED via,
         \A n \in Conns : up[n] = <<>> => up'[n] = <<>>,
         \A s \in Sessions :
           /\ peer'[s] \in {peer[s], NoConn}
           /\ link'[s] = "new" => link[s] = "new" /\ hs'[s] = NoHandshake
           /\ hs'[s] # NoHandshake =>
                \/ hs'[s].clientPub = NoPub
                \/ hs[s] # NoHandshake /\ hs'[s].clientPub = hs[s].clientPub
                \/ hs'[s].clientPub = peer[s] /\ (via = "direct" => peer[s] = s),
         via = "direct" => \A s \in Sessions :
                             deviceKey'[s] = deviceKey[s] \/ deviceKey'[s].client = s,
         via = "direct" => \A n \in Conns : Unopened(n) /\ Early(sock[n]) =>
                              link'[n] = link[n] /\ down'[n] = down[n],
         via = "relay" => RelayedInv'
  PROVE  WorldInv'
<1>1. UNCHANGED <<sock, made, timer>>
  BY DEF ControllerIdle, controller
<1>2. NoConn \notin Conns /\ NoPub \notin Conns
  BY EndToEndAssumption DEF NoConn, Conns
<1>3. ASSUME NEW n \in Conns, Early(sock[n]) PROVE Unopened(n)'
  <2>1. Unopened(n) /\ up[n] = <<>>
    BY <1>3 DEF WorldInv, Unopened, Early
  <2>2. \A s \in Sessions : peer'[s] # n /\ (hs'[s] # NoHandshake => hs'[s].clientPub # n)
    <3> SUFFICES ASSUME NEW s \in Sessions
                 PROVE  peer'[s] # n /\ (hs'[s] # NoHandshake => hs'[s].clientPub # n)
      OBVIOUS
    <3>1. peer[s] # n /\ (hs[s] # NoHandshake => hs[s].clientPub # n)
      BY <1>3 DEF WorldInv, Unopened, Early
    <3> QED BY <1>2, <3>1
  <2>3. via = "direct" => link'[n] = "new" /\ down'[n] = <<>>
    BY <1>3, <2>1 DEF Unopened, Early
  <2> QED BY <1>3, <2>1, <2>2, <2>3 DEF Unopened
<1>4. \A n \in Conns : Unopened(n)' /\ (n > made' => sock'[n].state = "none")
  BY <1>1, <1>3 DEF WorldInv, Unopened, Early
<1>5. via = "direct" => DirectInv'
  <2> SUFFICES ASSUME via = "direct", NEW s \in Sessions
               PROVE  /\ peer'[s] \in {s, NoConn}
                      /\ hs'[s] # NoHandshake => hs'[s].clientPub \in {s, NoPub}
                      /\ deviceKey'[s] # NoKey => deviceKey'[s].client = s
    BY <1>1 DEF WorldInv, DirectInv
  <2>1. /\ peer[s] \in {s, NoConn} /\ (hs[s] # NoHandshake => hs[s].clientPub \in {s, NoPub})
        /\ deviceKey[s] # NoKey => deviceKey[s].client = s
    BY DEF WorldInv, DirectInv
  <2> QED BY <2>1
<1> QED BY <1>4, <1>5 DEF WorldInv

LEMMA HandlesWorld ==
  ASSUME EndsInv, WorldInv, NEW n \in Conns, Handles(n)
  PROVE  WorldInv'
<1> DEFINE s == SessionOf(n)
           f == Head(up[n])
<1>1. Takes(n, s) /\ Moves(n, s, f) /\ s \in Sessions
  BY Handling, SessionOfIsSession
<1> HIDE DEF f
<1>2. UNCHANGED <<via, link, peer, minted>> /\ ControllerIdle
  BY <1>1 DEF Takes, Handles
<1>3. \A m \in Conns : up[m] = <<>> => up'[m] = <<>>
  BY <1>1 DEF Takes, EndsInv, WorldTypes
<1>4. via = "direct" => s = n
  BY DEF SessionOf, WorldInv
<1>5. ASSUME NEW r \in Sessions
      PROVE  /\ link'[r] = "new" => hs'[r] = NoHandshake
             /\ hs'[r] # NoHandshake =>
                  \/ hs'[r].clientPub = NoPub
                  \/ hs[r] # NoHandshake /\ hs'[r].clientPub = hs[r].clientPub
                  \/ hs'[r].clientPub = peer[r] /\ (via = "direct" => peer[r] = r)
  <2>1. CASE r # s
    BY <1>1, <1>2, <2>1 DEF Takes, WorldInv
  <2>2. CASE r = s
    <3>1. link[s] # "new" /\ peer[s] = n
      BY <1>1 DEF Takes, D!Receiving
    <3>2. hs'[s] # NoHandshake =>
                  \/ hs'[s].clientPub = NoPub
                  \/ hs[s] # NoHandshake /\ hs'[s].clientPub = hs[s].clientPub
                  \/ hs'[s].clientPub = n
      BY <1>1 DEF Moves, Refuses, Welcomes, Accepts, Derives, Decrypts, SameHandshake
    <3> QED BY <1>2, <1>4, <2>2, <3>1, <3>2
  <2> QED BY <2>1, <2>2
<1>6. via = "direct" => \A m \in Conns : Unopened(m) /\ Early(sock[m]) => down'[m] = down[m]
  <2> SUFFICES ASSUME via = "direct", NEW m \in Conns, Unopened(m), Early(sock[m])
               PROVE  down'[m] = down[m]
    OBVIOUS
  <2>1. m # s /\ m \in Sessions
    BY <1>1, <1>4 DEF Unopened, Early, Takes, Sessions
  <2> QED BY <1>1, <2>1 DEF Takes
<1>7. via = "relay" => RelayedInv'
  <2> SUFFICES ASSUME via = "relay" PROVE RelayedInv'
    OBVIOUS
  <2>1. s = Host /\ RelayedInv
    BY DEF SessionOf, WorldInv
  <2>2. offered'[s] \in {offered[s], minted} /\ minted <= minted
    BY <1>1 DEF Moves, Refuses, Welcomes, Accepts, Derives, Decrypts, EndsInv, D!DeviceInv,
                D!TypeOK, D!PairingTypeOK
  <2> QED BY <1>2, <2>1, <2>2 DEF RelayedInv
<1>8. ASSUME via = "direct", NEW r \in Sessions
      PROVE  deviceKey'[r] = deviceKey[r] \/ deviceKey'[r].client = r
  <2>1. CASE r # s
    BY <1>1, <2>1 DEF Takes
  <2>2. CASE r = s
    BY <1>1, <1>4, <1>8, <2>2
    DEF Moves, Refuses, Welcomes, Accepts, Derives, Decrypts, Keyed
  <2> QED BY <2>1, <2>2
<1> QED BY <1>2, <1>3, <1>5, <1>6, <1>7, <1>8, DeviceWorld DEF WorldInv

(* The step of a session that answers a command. *)
LEMMA Settling ==
  ASSUME EndsInv, NEW s \in Sessions, Settles(s)
  PROVE  /\ ControllerIdle
         /\ UNCHANGED <<via, up, peer, offered, link, minted, deviceKey>>
         /\ \A r \in Sessions \ {s} : hs'[r] = hs[r] /\ down'[r] = down[r]
         /\ SameHandshake(s) /\ SameCounter(s)
         /\ \/ down'[s] = down[s]
            \/ /\ hs[s] # NoHandshake
               /\ \E g \in DownFrames : g.type = "enc" /\ down'[s] = Append(down[s], g)
<1>1. /\ ControllerIdle /\ down' = Downward(s)
      /\ UNCHANGED <<via, up, peer, offered>>
  BY DEF Settles, history
<1>2. PICK i \in 1..Len(running[s]) : D!Settle(s, i, "ok")
  BY DEF Settles
<1> DEFINE id == running[s][i].id
<1>3. id \in Calls
  <2>1. running[s][i] \in D!Commands
    BY RunningLength
  <2> QED BY <2>1 DEF D!Commands
<1>4. UNCHANGED <<link, minted, deviceKey>> /\ D!SendEncrypted(s, D!Response("ok", id))
  BY <1>2 DEF D!Settle, D!pairingVars
<1> HIDE DEF id
<1>5. down \in [Sessions -> Seq(DownFrames)] /\ down[s] \in Seq(DownFrames)
  BY DEF EndsInv, WorldTypes
<1>6. CASE D!Silent /\ hs' = hs
  <2>1. deviceSent'[s] = <<>> /\ down[s] \o <<>> = down[s]
    BY <1>5, <1>6 DEF D!Silent
  <2> QED BY <1>1, <1>4, <1>5, <1>6, <2>1, Untouched DEF Downward
<1>7. CASE /\ D!Ready(s) /\ hs[s].sendSeq < MaxIds
           /\ hs' = [hs EXCEPT ![s].sendSeq = @ + 1]
           /\ D!Send(s, <<D!EncFrame(deviceKey[s], hs[s].sendSeq + 1, D!Response("ok", id))>>)
  <2> DEFINE g == EncFrame(deviceKey[s], hs[s].sendSeq + 1, Response("ok", id))
  <2>1. /\ hs \in [Sessions -> D!Handshakes \cup {NoHandshake}] /\ hs[s] # NoHandshake
        /\ hs[s] \in D!Handshakes /\ deviceKey[s] \in D!Keys
    BY <1>7 DEF D!Ready, EndsInv, D!DeviceInv, D!TypeOK
  <2>2. hs[s].sendSeq + 1 \in 1..MaxIds
    BY <1>7, <2>1, EndToEndAssumption DEF D!Handshakes
  <2>3. g \in DownFrames /\ g.type = "enc"
    BY <1>3, <2>1, <2>2 DEF DownFrames, EncFrame
  <2>4. D!Send(s, <<g>>)
    BY <1>7, DeviceFrames
  <2> HIDE DEF g
  <2>5. deviceSent'[s] \in {<<>>, <<g>>}
    BY <2>4 DEF D!Send
  <2>6. down[s] \o <<>> = down[s] /\ down[s] \o <<g>> = Append(down[s], g)
    BY <1>5, <2>3
  <2>7. /\ \A r \in Sessions \ {s} : down'[r] = down[r]
        /\ down'[s] = down[s] \/ down'[s] = Append(down[s], g)
    BY <1>1, <1>5, <2>5, <2>6 DEF Downward
  <2>8. \A r \in Sessions \ {s} : hs'[r] = hs[r]
    BY <1>7, <2>1
  <2>9. /\ hs'[s].serverKeys = hs[s].serverKeys /\ hs'[s].clientPub = hs[s].clientPub
        /\ hs'[s].pairingSecret = hs[s].pairingSecret /\ hs'[s].recvSeq = hs[s].recvSeq
    BY <1>7, <2>1 DEF D!Handshakes
  <2>10. hs'[s] # NoHandshake
    <3>1. hs'[s] = [hs[s] EXCEPT !.sendSeq = hs[s].sendSeq + 1]
      BY <1>7, <2>1
    <3>2. hs'[s] \in D!Handshakes
      BY <2>1, <2>2, <3>1 DEF D!Handshakes
    <3> QED BY <3>2, EndToEndAssumption
  <2> QED BY <1>1, <1>4, <2>1, <2>3, <2>7, <2>8, <2>9, <2>10 DEF SameHandshake, SameCounter
<1> QED BY <1>4, <1>6, <1>7 DEF D!SendEncrypted

LEMMA SettlesWorld ==
  ASSUME EndsInv, WorldInv, NEW s \in Sessions, Settles(s)
  PROVE  WorldInv'
<1>1. /\ ControllerIdle
      /\ UNCHANGED <<via, up, peer, offered, link, minted, deviceKey>>
      /\ \A r \in Sessions \ {s} : hs'[r] = hs[r] /\ down'[r] = down[r]
      /\ SameHandshake(s) /\ (down'[s] = down[s] \/ hs[s] # NoHandshake)
  BY Settling
<1>2. ASSUME NEW r \in Sessions
      PROVE  /\ link'[r] = "new" => hs'[r] = NoHandshake
             /\ hs'[r] # NoHandshake =>
                  hs[r] # NoHandshake /\ hs'[r].clientPub = hs[r].clientPub
  BY <1>1 DEF SameHandshake, WorldInv
<1>3. via = "direct" => \A n \in Conns : Unopened(n) /\ Early(sock[n]) => down'[n] = down[n]
  BY <1>1 DEF Unopened, Early, WorldInv, Sessions
<1>4. via = "relay" => RelayedInv'
  BY <1>1 DEF WorldInv, RelayedInv
<1> QED BY <1>1, <1>2, <1>3, <1>4, DeviceWorld

LEMMA QuietWorld ==
  ASSUME EndsInv, WorldInv, DeviceAlone \/ \E n \in Conns : Leaves(n) \/ Lost(n)
  PROVE  WorldInv'
<1>1. /\ ControllerIdle
      /\ UNCHANGED <<via, down, offered, hs, deviceKey>>
  BY DEF DeviceAlone, Leaves, Lost, DeviceIdle, device, network, history, D!NewPin, D!ClockTicks,
         D!Local, D!Connect, D!Disconnect, D!sessionVars
<1>2. \A n \in Conns : up[n] = <<>> => up'[n] = <<>>
  <2>1. up \in [Conns -> Seq(UpFrames)]
    BY DEF EndsInv, WorldTypes
  <2>2. CASE up' = up
    BY <2>2
  <2>3. ASSUME NEW m \in Conns, up' = [up EXCEPT ![m] = Tail(@)], up[m] # <<>>
        PROVE  \A n \in Conns : up[n] = <<>> => up'[n] = <<>>
    BY <2>1, <2>3
  <2> QED BY <2>2, <2>3 DEF DeviceAlone, Leaves, Lost, network
<1>3. \A s \in Sessions : peer'[s] \in {peer[s], NoConn}
  BY DEF DeviceAlone, Leaves, Lost, network, EndsInv, WorldTypes
<1>4. link \in [Sessions -> {"new", "open", "closing", "closed"}]
  BY DEF EndsInv, D!DeviceInv, D!TypeOK
<1>5. \A s \in Sessions : link'[s] = "new" => link[s] = "new"
  BY <1>4 DEF DeviceAlone, Leaves, Lost, DeviceIdle, device, D!NewPin, D!ClockTicks, D!Local,
              D!Connect, D!Disconnect
<1>6. via = "direct" => \A n \in Conns : Unopened(n) /\ Early(sock[n]) => link'[n] = link[n]
  <2>1. ASSUME NEW m \in Conns, Leaves(m), via = "direct", NEW n \in Conns, Unopened(n),
               Early(sock[n])
        PROVE  link'[n] = link[n]
    <3>1. peer[m] = m /\ D!Disconnect(m)
      BY <2>1 DEF Leaves, Joined, SessionOf
    <3>2. n # m
      BY <2>1, <3>1 DEF Unopened, Early, Sessions
    <3> QED BY <1>4, <3>1, <3>2 DEF D!Disconnect, Sessions
  <2>2. via # "relay" \/ via # "direct"
    OBVIOUS
  <2> QED BY <2>1, <2>2 DEF DeviceAlone, Lost, DeviceIdle, device, D!NewPin, D!ClockTicks, D!Local
<1>7. via = "relay" => RelayedInv'
  <2>1. CASE minted' = minted
    BY <1>1, <1>3, <2>1 DEF WorldInv, RelayedInv
  <2>2. CASE D!NewPin /\ (via = "relay" => minted = 0)
    <3>1. via = "relay" => minted' = 1 /\ offered[Host] <= 0 /\ offered[Host] \in Nat
      BY <2>2, EndToEndAssumption
      DEF D!NewPin, D!BeginPairing, WorldInv, RelayedInv, EndsInv, WorldTypes, Host, Sessions,
          Conns
    <3> QED BY <1>1, <1>3, <3>1 DEF WorldInv, RelayedInv
  <2>3. DeviceAlone => minted' = minted \/ (D!NewPin /\ (via = "relay" => minted = 0))
    BY DEF DeviceAlone, D!ClockTicks, D!Tick, D!Connect, D!Disconnect, D!pairingVars
  <2>4. ASSUME NEW n \in Conns, Leaves(n) \/ Lost(n) PROVE minted' = minted
    BY <2>4 DEF Leaves, Lost, DeviceIdle, device, D!Disconnect, D!pairingVars
  <2> QED BY <2>1, <2>2, <2>3, <2>4
<1>8. \A s \in Sessions : /\ link'[s] = "new" => link[s] = "new" /\ hs'[s] = NoHandshake
                          /\ hs'[s] # NoHandshake =>
                               hs[s] # NoHandshake /\ hs'[s].clientPub = hs[s].clientPub
  BY <1>1, <1>5 DEF WorldInv
<1> QED BY <1>1, <1>2, <1>3, <1>6, <1>7, <1>8, DeviceWorld

LEMMA WorldStep == EndsInv /\ WorldInv /\ [Next]_vars => WorldInv'
<1> SUFFICES ASSUME EndsInv, WorldInv, [Next]_vars PROVE WorldInv'
  OBVIOUS
<1>1. CASE UNCHANGED vars
  BY <1>1 DEF vars, controller, device, network, history, WorldInv, Unopened, DirectInv,
              RelayedInv
<1> QED
  BY <1>1, OpensWorld, ControllerWorld, HandlesWorld, SettlesWorld, QuietWorld DEF Next

-------------------------------------------------------------------------------
(* The order of a handshake *)

Fewer(n) == \A t : Has(up'[n], t) => Has(up[n], t)

(* The queue of session s loses its head, or gains a frame that belongs to *)
(* no handshake.                                                           *)
DownQuiet(s) ==
  \/ down'[s] = down[s]
  \/ down[s] # <<>> /\ down'[s] = Tail(down[s])
  \/ \E g \in DownFrames : g.type \in {"error", "pin_nack", "enc"}
                           /\ down'[s] = Append(down[s], g)

LEMMA QueueTypes ==
  ASSUME EndsInv
  PROVE  /\ up \in [Conns -> Seq(UpFrames)] /\ \A n \in Conns : up[n] \in Seq(UpFrames)
         /\ down \in [Sessions -> Seq(DownFrames)]
         /\ \A s \in Sessions : down[s] \in Seq(DownFrames)
BY DEF EndsInv, WorldTypes

LEMMA ByLosing ==
  ASSUME EndsInv, NEW n \in Conns, up[n] # <<>>, up' = [up EXCEPT ![n] = Tail(@)]
  PROVE  /\ \A m \in Conns : Fewer(m)
         /\ Has(up[n], Head(up[n]).type)
         /\ up'[n] = Tail(up[n]) /\ \A m \in Conns \ {n} : up'[m] = up[m]
<1>1. up[n] \in Seq(UpFrames) /\ up \in [Conns -> Seq(UpFrames)]
  BY QueueTypes
<1>2. up'[n] = Tail(up[n]) /\ \A m \in Conns \ {n} : up'[m] = up[m]
  BY <1>1
<1>3. \A t : Has(up[n], t) <=> Head(up[n]).type = t \/ Has(Tail(up[n]), t)
  BY <1>1, Popped
<1> QED BY <1>2, <1>3 DEF Fewer

LEMMA QuietQueue ==
  ASSUME EndsInv, NEW s \in Sessions, DownQuiet(s)
  PROVE  /\ \A t \in {"challenge", "pin_ack", "keyx", "ready"} :
              Has(down'[s], t) => Has(down[s], t)
         /\ Once(down[s], "pin_ack") => Once(down'[s], "pin_ack")
         /\ Before(down[s], "challenge", "pin_ack") => Before(down'[s], "challenge", "pin_ack")
         /\ \A p : Offering(down[s], p) => Offering(down'[s], p)
<1>1. CASE down'[s] = down[s]
  BY <1>1
<1>2. CASE down[s] # <<>> /\ down'[s] = Tail(down[s])
  BY <1>2, QueueTypes, Popped, PoppedFields
<1>3. ASSUME NEW g \in DownFrames, g.type \in {"error", "pin_nack", "enc"},
             down'[s] = Append(down[s], g)
      PROVE  /\ \A t \in {"challenge", "pin_ack", "keyx", "ready"} :
                  Has(down'[s], t) => Has(down[s], t)
             /\ Once(down[s], "pin_ack") => Once(down'[s], "pin_ack")
             /\ Before(down[s], "challenge", "pin_ack")
                  => Before(down'[s], "challenge", "pin_ack")
             /\ \A p : Offering(down[s], p) => Offering(down'[s], p)
  BY <1>3, QueueTypes, Appended
<1> QED BY <1>1, <1>2, <1>3 DEF DownQuiet

LEMMA PairedSame ==
  ASSUME NEW s, SameHandshake(s)
  PROVE  D!Paired(s)' <=> D!Paired(s)
BY DEF SameHandshake, D!Paired

LEMMA OrderQuiet ==
  ASSUME EndsInv, NEW s \in Sessions, NEW N \in SUBSET Conns, Order(s, N),
         SameHandshake(s), SameCounter(s) \/ deviceKey[s] # NoKey,
         deviceKey'[s] = deviceKey[s], offered'[s] = offered[s], DownQuiet(s),
         \A n \in N : Has(up'[n], "keyx") => Has(up[n], "keyx")
  PROVE  Order(s, N)'
<1>1. /\ \A t \in {"challenge", "pin_ack", "keyx", "ready"} : Has(down'[s], t) => Has(down[s], t)
      /\ Once(down[s], "pin_ack") => Once(down'[s], "pin_ack")
      /\ Before(down[s], "challenge", "pin_ack") => Before(down'[s], "challenge", "pin_ack")
      /\ \A p : Offering(down[s], p) => Offering(down'[s], p)
  BY QuietQueue
<1>2. D!Paired(s)' <=> D!Paired(s)
  BY PairedSame
<1>3. deviceKey'[s] # NoKey => deviceKey'[s] = Keyed(s)'
  <2>1. deviceKey[s] # NoKey => hs[s] # NoHandshake /\ deviceKey[s] = Keyed(s)
    BY DEF Order, D!Paired
  <2> QED BY <2>1 DEF Keyed, SameHandshake
<1>4. hs'[s] # NoHandshake /\ deviceKey'[s] = NoKey => hs'[s].recvSeq = 0
  BY DEF Order, SameHandshake, SameCounter
<1>5. ~D!Paired(s)' =>
       /\ deviceKey'[s] = NoKey
       /\ ~Has(down'[s], "pin_ack") /\ ~Has(down'[s], "keyx") /\ ~Has(down'[s], "ready")
       /\ \A n \in N : ~Has(up'[n], "keyx")
  BY <1>1, <1>2 DEF Order
<1>6. \/ Has(down'[s], "keyx") \/ Has(down'[s], "ready") \/ deviceKey'[s] # NoKey
      \/ \E n \in N : Has(up'[n], "keyx")
      => ~Has(down'[s], "pin_ack") /\ ~Has(down'[s], "challenge")
  BY <1>1 DEF Order
<1>7. /\ Once(down'[s], "pin_ack") /\ Before(down'[s], "challenge", "pin_ack")
      /\ Offering(down'[s], offered'[s])
  BY <1>1 DEF Order
<1> QED BY <1>3, <1>4, <1>5, <1>6, <1>7 DEF Order

LEMMA AnswerTypes ==
  /\ \A k : KeyxFrame(k).type = "keyx" /\ KeyxFrame(k).pub = k
  /\ \A k : PinAckFrame(k).type = "pin_ack"
  /\ ReadyFrame \in DownFrames /\ ReadyFrame.type = "ready"
  /\ PinNackFrame \in DownFrames /\ PinNackFrame.type = "pin_nack"
BY DEF KeyxFrame, PinAckFrame, DownFrames, ReadyFrame, PinNackFrame

LEMMA OrderTaken ==
  ASSUME EndsInv, NEW s \in Sessions, NEW N \in SUBSET Conns, Order(s, N), NEW n \in N,
         Takes(n, s), Moves(n, s, Head(up[n])),
         pending # NoSlot /\ Head(up[n]).type \in {"hello", "pin_verify"} => ~D!Paired(s),
         pending # NoSlot /\ Head(up[n]).type = "hello" => Offering(down[s], minted)
  PROVE  Order(s, N)'
<1> DEFINE f == Head(up[n])
           g == KeyxFrame(hs[s].serverKeys)
<1>1. /\ \A m \in N : Has(up'[m], "keyx") => Has(up[m], "keyx")
      /\ Has(up[n], f.type)
  BY ByLosing DEF Takes, Fewer
<1> HIDE DEF f, g
<1>2. CASE Refuses(s, f)
  <2>1. DownQuiet(s)
    BY <1>2, NackIsFrame, DeviceFrames DEF Refuses, DownQuiet
  <2> QED BY <1>1, <1>2, <2>1, OrderQuiet DEF Refuses
<1>3. CASE Decrypts(s, f)
  <2>1. DownQuiet(s) /\ deviceKey[s] # NoKey
    BY <1>3 DEF Decrypts, DownQuiet, D!Ready
  <2> QED BY <1>1, <1>3, <2>1, OrderQuiet DEF Decrypts
<1>4. CASE Welcomes(s, f)
  <2>1. ~D!Paired(s) /\ Offering(down[s], minted)
    BY <1>4 DEF Welcomes, f
  <2>2. /\ deviceKey'[s] = NoKey /\ ~D!Paired(s)' /\ hs'[s].recvSeq = 0
        /\ offered'[s] = minted /\ down'[s] = Append(down[s], ChallengeFrame(minted))
    BY <1>4, <2>1 DEF Welcomes, Order
  <2>3. /\ ~Has(down[s], "pin_ack") /\ ~Has(down[s], "keyx") /\ ~Has(down[s], "ready")
        /\ \A m \in N : ~Has(up'[m], "keyx")
    BY <1>1, <2>1 DEF Order
  <2>4. ChallengeFrame(minted) \in DownFrames /\ ChallengeFrame(minted).type = "challenge"
        /\ ChallengeFrame(minted).salt = minted
    BY <1>4, PendingSalt DEF Welcomes, DownFrames, ChallengeFrame
  <2>5. /\ ~Has(down'[s], "pin_ack") /\ ~Has(down'[s], "keyx") /\ ~Has(down'[s], "ready")
        /\ Once(down'[s], "pin_ack") /\ Before(down'[s], "challenge", "pin_ack")
        /\ Offering(down'[s], minted)
    BY <2>1, <2>2, <2>3, <2>4, QueueTypes, Appended DEF Order
  <2> QED BY <2>2, <2>3, <2>5 DEF Order
<1>5. CASE Accepts(n, s, f)
  <2>1. ~D!Paired(s)
    BY <1>5 DEF Accepts, f
  <2>2. PICK k : down'[s] = Append(down[s], PinAckFrame(k)) /\ PinAckFrame(k) \in DownFrames
    BY <1>5 DEF Accepts
  <2>3. /\ deviceKey'[s] = NoKey /\ D!Paired(s)' /\ hs'[s].recvSeq = 0
        /\ offered'[s] = offered[s]
    BY <1>5, <2>1 DEF Accepts, SameCounter, Order
  <2>4. /\ ~Has(down[s], "pin_ack") /\ ~Has(down[s], "keyx") /\ ~Has(down[s], "ready")
        /\ \A m \in N : ~Has(up'[m], "keyx")
    BY <1>1, <2>1 DEF Order
  <2>5. PinAckFrame(k).type = "pin_ack"
    BY DEF PinAckFrame
  <2>6. /\ ~Has(down'[s], "keyx") /\ ~Has(down'[s], "ready")
        /\ Once(down'[s], "pin_ack") /\ Before(down'[s], "challenge", "pin_ack")
        /\ Offering(down'[s], offered[s])
    BY <2>2, <2>4, <2>5, QueueTypes, Appended DEF Order
  <2> QED BY <2>3, <2>4, <2>6 DEF Order
<1>6. CASE Derives(n, s, f)
  <2>1. Has(up[n], "keyx")
    BY <1>1, <1>6 DEF Derives
  <2>2. ~Has(down[s], "pin_ack") /\ ~Has(down[s], "challenge")
    BY <2>1 DEF Order
  <2>3. g \in DownFrames /\ ReadyFrame \in DownFrames /\ g.type = "keyx"
        /\ ReadyFrame.type = "ready" /\ down'[s] = Append(Append(down[s], g), ReadyFrame)
    BY <1>6, AnswerTypes DEF Derives, g
  <2> DEFINE q == Append(down[s], g)
  <2>4. q \in Seq(DownFrames) /\ down[s] \in Seq(DownFrames)
    BY <2>3, QueueTypes
  <2>5. /\ ~Has(q, "pin_ack") /\ ~Has(q, "challenge") /\ Once(q, "pin_ack")
        /\ Before(q, "challenge", "pin_ack") /\ Offering(q, offered[s])
    BY <2>2, <2>3, <2>4, Appended DEF Order
  <2>6. /\ ~Has(down'[s], "pin_ack") /\ ~Has(down'[s], "challenge")
        /\ Once(down'[s], "pin_ack") /\ Before(down'[s], "challenge", "pin_ack")
        /\ Offering(down'[s], offered[s])
    <3>1. down'[s] = Append(q, ReadyFrame)
      BY <2>3
    <3> HIDE DEF q
    <3> QED BY <2>3, <2>4, <2>5, <3>1, Appended
  <2>7. D!Paired(s) /\ SameHandshake(s)
    BY <1>6, Zenon DEF Derives
  <2>8. deviceKey'[s] = Keyed(s) /\ deviceKey'[s] # NoKey /\ offered'[s] = offered[s]
    BY <1>6 DEF Derives
  <2>9. D!Paired(s)' /\ hs[s] # NoHandshake
    BY <2>7, PairedSame DEF D!Paired
  <2>10. Keyed(s)' = Keyed(s)
    BY <2>7, <2>9 DEF SameHandshake, Keyed
  <2> QED BY <2>6, <2>8, <2>9, <2>10 DEF Order
<1> QED BY <1>2, <1>3, <1>4, <1>5, <1>6 DEF Moves, f

(* What the Transport puts on its socket joins the queue, if it is open.   *)
Posts(g) ==
  /\ \A n \in Conns \ {ws} : up'[n] = up[n]
  /\ ws \in Conns => up'[ws] = IF C!IsOpen(ws) THEN Append(up[ws], g) ELSE up[ws]

LEMMA Posting ==
  ASSUME EndsInv, up' = Upward, NEW g, C!Send(g)
  PROVE  Posts(g)
<1>1. up \in [Conns -> Seq(UpFrames)]
  BY QueueTypes
<1> QED BY <1>1, SocketTypes DEF Upward, C!Send, Posts, C!IsOpen

LEMMA PostingNothing ==
  ASSUME up' = Upward, C!Silent
  PROVE  up' = up
BY DEF Upward, C!Silent

(* The types of frames that cannot be more than they were. *)
NoMore(T) == \A n \in Conns : \A t \in T : Has(up'[n], t) => Has(up[n], t)

LEMMA PostsNoMore ==
  ASSUME EndsInv, NEW g, Posts(g), NEW T, g.type \notin T
  PROVE  NoMore(T)
<1> SUFFICES ASSUME NEW n \in Conns, NEW t \in T, Has(up'[n], t) PROVE Has(up[n], t)
  BY DEF NoMore
<1>1. CASE up'[n] = up[n]
  BY <1>1
<1>2. CASE n = ws /\ up'[n] = Append(up[n], g)
  BY <1>2, QueueTypes, Appended
<1> QED BY <1>1, <1>2 DEF Posts

LEMMA KeyxAnswersAck ==
  ASSUME EndsInv, up' = Upward,
         \/ C!Connect(via) \/ C!Disconnect
         \/ \E n \in Conns : C!OnOpen(n) \/ C!OnClose(n)
         \/ C!HelloTimer \/ C!SendCommand
         \/ \E pin \in Pins : C!SubmitPin(pin)
         \/ \E c \in Calls : C!CommandTimeout(c)
         \/ \E n, f : C!OnMessage(n, f) /\ f.type # "pin_ack"
  PROVE  NoMore({"keyx"})
<1>1. ASSUME C!Silent PROVE NoMore({"keyx"})
  BY <1>1, PostingNothing DEF NoMore
<1>2. ASSUME NEW g, C!Send(g), g.type # "keyx" PROVE NoMore({"keyx"})
  BY <1>2, Posting, PostsNoMore
<1>3. CASE C!Connect(via) \/ C!Disconnect
  <2>1. C!Send(C!ByeFrame) /\ C!ByeFrame.type # "keyx"
    BY <1>3 DEF C!Connect, C!Disconnect, C!DisconnectFirst, C!ByeFrame
  <2> QED BY <1>2, <2>1
<1>4. ASSUME NEW n \in Conns, C!OnOpen(n) PROVE NoMore({"keyx"})
  <2>1. clientSent' = <<>> \/ (ws # C!NoSocket /\ clientSent' = <<ws, HelloFrame(Version)>>)
    BY <1>4, ControllerFrames DEF C!OnOpen
  <2>2. CASE clientSent' = <<>>
    BY <2>2, <1>1 DEF C!Silent
  <2>3. CASE ws # C!NoSocket /\ clientSent' = <<ws, HelloFrame(Version)>>
    <3>1. /\ ws \in Conns /\ up' = [up EXCEPT ![ws] = Append(@, HelloFrame(Version))]
          /\ up \in [Conns -> Seq(UpFrames)] /\ HelloFrame(Version).type # "keyx"
      BY <2>3, QueueTypes, SocketTypes DEF Upward, HelloFrame
    <3>2. \A m \in Conns : \/ up'[m] = up[m]
                           \/ up'[m] = Append(up[m], HelloFrame(Version))
      BY <3>1
    <3>3. ASSUME NEW m \in Conns, up'[m] = Append(up[m], HelloFrame(Version)),
                 Has(up'[m], "keyx")
          PROVE  Has(up[m], "keyx")
      BY <3>1, <3>3, QueueTypes, Appended
    <3> QED BY <3>2, <3>3 DEF NoMore
  <2> QED BY <2>1, <2>2, <2>3
<1>5. ASSUME NEW n \in Conns, C!OnClose(n) PROVE NoMore({"keyx"})
  BY <1>1, <1>5 DEF C!OnClose
<1>6. CASE C!HelloTimer
  <2>1. C!Silent \/ C!Send(HelloFrame(Version))
    BY <1>6, ControllerFrames DEF C!HelloTimer, C!SendRelayHello
  <2> QED BY <1>1, <1>2, <2>1 DEF HelloFrame
<1>7. CASE C!SendCommand
  <2>1. C!Silent \/ C!Send(C!EncFrame(clientKey, sendSeq + 1, C!Cmd(Len(promise) + 1)))
    BY <1>7 DEF C!SendCommand
  <2> QED BY <1>1, <1>2, <2>1 DEF C!EncFrame
<1>8. ASSUME NEW pin \in Pins, C!SubmitPin(pin) PROVE NoMore({"keyx"})
  <2>1. C!Send(PinVerifyFrame(pin, clientKeys))
    BY <1>8, ControllerFrames DEF C!SubmitPin
  <2> QED BY <1>2, <2>1 DEF PinVerifyFrame
<1>9. ASSUME NEW c \in Calls, C!CommandTimeout(c) PROVE NoMore({"keyx"})
  BY <1>1, <1>9 DEF C!CommandTimeout
<1>10. ASSUME NEW n, NEW f, C!OnMessage(n, f), f.type # "pin_ack" PROVE NoMore({"keyx"})
  <2>1. CASE C!HandleChallenge(f) \/ C!HandlePinNack \/ C!HandleKeyx(f) \/ C!HandleOther(f)
             \/ C!HandleEncrypted(f)
    BY <1>1, <2>1
    DEF C!HandleChallenge, C!HandlePinNack, C!HandleKeyx, C!HandleOther, C!HandleEncrypted
  <2> QED BY <1>3, <1>10, <2>1 DEF C!OnMessage
<1> QED BY <1>3, <1>4, <1>5, <1>6, <1>7, <1>8, <1>9, <1>10

-------------------------------------------------------------------------------
(* The one PIN of the RelayHost *)

LEMMA SlotUsed ==
  ASSUME EndsInv, WorldInv, via = "relay", pending # NoSlot, Order(Host, Conns)
  PROVE  ~D!Paired(Host) /\ Offering(down[Host], minted)
<1>1. Host \in Sessions /\ minted \in 1..MaxSlots /\ pending.salt = minted
  BY PendingSalt, EndToEndAssumption DEF Host, Sessions, Conns
<1>2. minted = 1 /\ offered[Host] <= minted
  BY <1>1, EndToEndAssumption DEF WorldInv, RelayedInv
<1>3. ASSUME D!Paired(Host) PROVE FALSE
  <2>1. hs[Host].pairingSecret.salt \in 1..MaxSlots
    BY <1>1, <1>3 DEF D!Paired, EndsInv, D!DeviceInv, D!TypeOK, D!Handshakes, D!Secrets, D!Salts
  <2>2. hs[Host].pairingSecret.salt < minted
    BY <1>1, <1>3 DEF EndsInv, D!DeviceInv, D!SessionInv, D!HeldInv, D!SlotsHeld
  <2> QED BY <1>2, <2>1, <2>2, EndToEndAssumption
<1>4. ASSUME NEW i \in 1..Len(down[Host]), down[Host][i].type = "challenge"
      PROVE  down[Host][i].salt = minted
  <2>1. down[Host][i].salt = offered[Host]
    BY <1>4 DEF Order, Offering
  <2>2. down[Host][i] \in DownFrames
    BY <1>1 DEF EndsInv, WorldTypes
  <2>3. down[Host][i].salt \in 1..MaxSlots
    BY <1>4, <2>2 DEF DownFrames, ChallengeFrame, PinAckFrame, KeyxFrame, PinNackFrame,
                      ReadyFrame, ErrorFrame, EncFrame
  <2> QED BY <1>2, <2>1, <2>3, EndToEndAssumption
<1> QED BY <1>3, <1>4 DEF Offering

(* Whoever was challenged was challenged for it. *)
LEMMA OfferedOnce ==
  ASSUME EndsInv, WorldInv, via = "relay", Salted(Host),
         salt # NoSalt \/ pairingSecret # NoSecret \/ clientKey # NoKey
  PROVE  offered[Host] = minted
<1>1. /\ salt # NoSalt => salt \in 1..MaxSlots
      /\ pairingSecret # NoSecret => pairingSecret.salt \in 1..MaxSlots
      /\ clientKey # NoKey => clientKey.secret.salt \in 1..MaxSlots
  BY DEF EndsInv, C!TransportInv, C!TypeOK, C!Secrets, C!Keys
<1>2. offered[Host] \in 1..MaxSlots
  BY <1>1 DEF Salted
<1>3. minted \in 0..MaxSlots /\ minted <= 1 /\ offered[Host] <= minted
  BY DEF WorldInv, RelayedInv, EndsInv, D!DeviceInv, D!TypeOK, D!PairingTypeOK
<1> QED BY <1>2, <1>3, EndToEndAssumption

-------------------------------------------------------------------------------
(* The order is kept *)

(* The frames a controller step puts on the way, but for the keyx that     *)
(* answers a pin_ack.                                                      *)
LEMMA OrderReceived ==
  ASSUME EndsInv, NEW s \in Sessions, NEW N \in SUBSET Conns, Order(s, N), Receives(s)
  PROVE  Order(s, N)'
<1>1. /\ down[s] # <<>> /\ down' = [down EXCEPT ![s] = Tail(@)]
      /\ UNCHANGED <<hs, deviceKey, offered>>
  BY DEF Receives, DeviceIdle, device, history
<1>2. /\ down[s] \in Seq(DownFrames) /\ down'[s] = Tail(down[s]) /\ DownQuiet(s)
      /\ SameHandshake(s) /\ SameCounter(s)
  BY <1>1, QueueTypes, Untouched DEF DownQuiet
<1>3. ASSUME \A n \in N : Has(up'[n], "keyx") => Has(up[n], "keyx") PROVE Order(s, N)'
  BY <1>1, <1>2, <1>3, OrderQuiet
<1>4. CASE up' = up
  BY <1>3, <1>4
<1>5. CASE C!OnMessage(peer[s], Head(down[s])) /\ up' = Upward
  <2>1. CASE Head(down[s]).type # "pin_ack"
    <3>1. NoMore({"keyx"})
      BY <1>5, <2>1, KeyxAnswersAck
    <3> QED BY <1>3, <3>1 DEF NoMore
  <2>2. CASE Head(down[s]).type = "pin_ack"
    <3>1. /\ Has(down[s], "pin_ack")
          /\ ~Has(down'[s], "pin_ack") /\ ~Has(down'[s], "challenge")
      <4>1. Once(down[s], "pin_ack") /\ Before(down[s], "challenge", "pin_ack")
        BY DEF Order
      <4> QED BY <1>1, <1>2, <2>2, <4>1, Popped
    <3>2. D!Paired(s) /\ D!Paired(s)'
      BY <1>2, <3>1, PairedSame DEF Order
    <3>3. Offering(down'[s], offered'[s])
      BY <1>1, <1>2, PoppedFields DEF Order
    <3>4. Once(down'[s], "pin_ack") /\ Before(down'[s], "challenge", "pin_ack")
      BY <1>1, <1>2, Popped DEF Order
    <3>5. Keyed(s)' = Keyed(s) /\ deviceKey'[s] = deviceKey[s] /\ hs'[s] = hs[s]
      BY <1>1 DEF Keyed
    <3> QED BY <3>1, <3>2, <3>3, <3>4, <3>5 DEF Order
  <2> QED BY <2>1, <2>2
<1> QED BY <1>4, <1>5 DEF Receives

(* A step that leaves the session alone. *)
LEMMA OrderApart ==
  ASSUME EndsInv, NEW s \in Sessions, NEW N \in SUBSET Conns, Order(s, N),
         hs'[s] = hs[s], deviceKey'[s] = deviceKey[s], offered'[s] = offered[s],
         down'[s] = down[s],
         \A n \in N : Has(up'[n], "keyx") => Has(up[n], "keyx")
  PROVE  Order(s, N)'
BY OrderQuiet DEF SameHandshake, SameCounter, DownQuiet

LEMMA OrderStep ==
  ASSUME EndsInv, NEW s \in Sessions, NEW N \in SUBSET Conns, Order(s, N), [Next]_vars,
         \A n \in Conns : Handles(n) /\ SessionOf(n) = s =>
           /\ n \in N
           /\ pending # NoSlot /\ Head(up[n]).type \in {"hello", "pin_verify"}
                => ~D!Paired(s)
           /\ pending # NoSlot /\ Head(up[n]).type = "hello" => Offering(down[s], minted),
         \A r \in Sessions \ {s} : Receives(r) => up' = up
  PROVE  Order(s, N)'
<1>1. CASE UNCHANGED vars
  BY <1>1, OrderApart DEF vars, device, network, history
<1>2. ASSUME NEW n \in Conns, Handles(n) PROVE Order(s, N)'
  <2>1. Takes(n, SessionOf(n)) /\ Moves(n, SessionOf(n), Head(up[n]))
    BY <1>2, Handling
  <2>2. CASE SessionOf(n) = s
    BY <1>2, <2>1, <2>2, OrderTaken
  <2>3. CASE SessionOf(n) # s
    <3>1. \A m \in Conns : Fewer(m)
      BY <2>1, ByLosing DEF Takes
    <3> QED BY <2>1, <2>3, <3>1, OrderApart DEF Takes, Fewer
  <2> QED BY <2>2, <2>3
<1>3. ASSUME NEW r \in Sessions, Settles(r) PROVE Order(s, N)'
  <2>1. /\ UNCHANGED <<up, offered, deviceKey>>
        /\ \A q \in Sessions \ {r} : hs'[q] = hs[q] /\ down'[q] = down[q]
        /\ SameHandshake(r) /\ SameCounter(r) /\ DownQuiet(r)
    BY <1>3, Settling DEF DownQuiet
  <2> QED BY <2>1, OrderApart, OrderQuiet
<1>4. ASSUME NEW r \in Sessions, Receives(r) PROVE Order(s, N)'
  <2>1. CASE r = s
    BY <1>4, <2>1, OrderReceived
  <2>2. CASE r # s
    <3>1. /\ up' = up /\ UNCHANGED <<hs, deviceKey, offered>> /\ down'[s] = down[s]
      BY <1>4, <2>2, QueueTypes DEF Receives, DeviceIdle, device, history
    <3> QED BY <3>1, OrderApart
  <2> QED BY <2>1, <2>2
<1>5. ASSUME UNCHANGED <<hs, deviceKey, offered, down>>, \A n \in Conns : Fewer(n)
      PROVE  Order(s, N)'
  BY <1>5, OrderApart DEF Fewer
<1>6. CASE DeviceAlone
  BY <1>5, <1>6 DEF DeviceAlone, network, history, D!NewPin, D!ClockTicks, D!Local, D!Connect,
                    D!Disconnect, D!sessionVars, Fewer
<1>7. ASSUME NEW n \in Conns, Leaves(n) \/ Lost(n) \/ Closes(n) PROVE Order(s, N)'
  <2>1. UNCHANGED <<hs, deviceKey, offered, down>>
    BY <1>7 DEF Leaves, Lost, Closes, DeviceIdle, device, history, D!Disconnect, D!sessionVars
  <2>2. \A m \in Conns : Fewer(m)
    <3>1. CASE up' = up
      BY <3>1 DEF Fewer
    <3>2. CASE up[n] # <<>> /\ up' = [up EXCEPT ![n] = Tail(@)]
      BY <3>2, ByLosing
    <3>3. CASE up' = [up EXCEPT ![n] = <<>>]
      BY <3>3, Emptied, QueueTypes DEF Fewer
    <3> QED BY <1>7, <3>1, <3>2, <3>3 DEF Leaves, Lost, Closes
  <2> QED BY <1>5, <2>1, <2>2
<1>8. CASE Sends \/ ControllerAlone \/ \E n \in Conns : Opens(n)
  <2>1. UNCHANGED <<hs, deviceKey, offered, down>> /\ up' = Upward
    BY <1>8 DEF Opens, Sends, ControllerAlone, DeviceIdle, device, history, D!Connect,
                D!sessionVars
  <2>2. NoMore({"keyx"})
    BY <1>8, <2>1, KeyxAnswersAck DEF Opens, Sends, ControllerAlone, User
  <2> QED BY <2>1, <2>2, OrderApart DEF NoMore
<1> QED BY <1>1, <1>2, <1>3, <1>4, <1>6, <1>7, <1>8 DEF Next

-------------------------------------------------------------------------------
(* A step that adds nothing to the handshake of connection n with session s*)

LEMMA WithoutIt ==
  ASSUME NEW q
  PROVE  \A t : ~Has(q, t) =>
           /\ Once(q, t) /\ \A u : Before(q, t, u) /\ Before(q, u, t)
           /\ t = "keyx" => \A k : Naming(q, k)
           /\ t = "pin_verify" => \A pin : Typing(q, pin)
BY DEF Has, Once, Before, Naming, Typing

UpCalm(n) ==
  /\ \A t \in {"keyx", "enc", "pin_verify"} : Has(up'[n], t) => Has(up[n], t)
  /\ Once(up[n], "keyx") => Once(up'[n], "keyx")
  /\ Before(up[n], "pin_verify", "keyx") => Before(up'[n], "pin_verify", "keyx")
  /\ \A pin : Typing(up[n], pin) => Typing(up'[n], pin)
  /\ \A key : \A low, high \in Int :
       Has(up'[n], "enc") /\ Sealing(up[n], key, low, high) => Sealing(up'[n], key, low, high)

DownCalm(s) ==
  /\ \A t \in {"challenge", "pin_ack", "keyx", "ready"} : Has(down'[s], t) => Has(down[s], t)
  /\ Once(down[s], "keyx") => Once(down'[s], "keyx")
  /\ Before(down[s], "keyx", "ready") => Before(down'[s], "keyx", "ready")
  /\ \A k : Naming(down[s], k) => Naming(down'[s], k)

LEMMA Counters == \A f \in UpFrames : f.type = "enc" => f.s \in Int
BY FrameTypes

LEMMA CalmUp ==
  ASSUME EndsInv, NEW n \in Conns,
         \/ up'[n] = up[n]
         \/ up[n] # <<>> /\ up'[n] = Tail(up[n])
         \/ \E g \in UpFrames : g.type \in {"hello", "bye"} /\ up'[n] = Append(up[n], g)
  PROVE  UpCalm(n)
<1>1. up[n] \in Seq(UpFrames)
  BY QueueTypes
<1>2. CASE up'[n] = up[n]
  BY <1>2 DEF UpCalm
<1>3. CASE up[n] # <<>> /\ up'[n] = Tail(up[n])
  <2>1. \A key : \A low, high \in Int :
          Sealing(up[n], key, low, high) => Sealing(up'[n], key, low, high)
    BY <1>1, <1>3, Counters, PoppedSealing
  <2>2. \A t : Has(up'[n], t) => Has(up[n], t)
    BY <1>1, <1>3, Popped
  <2>3. /\ Once(up[n], "keyx") => Once(up'[n], "keyx")
        /\ Before(up[n], "pin_verify", "keyx") => Before(up'[n], "pin_verify", "keyx")
    BY <1>1, <1>3, Popped
  <2>4. \A pin : Typing(up[n], pin) => Typing(up'[n], pin)
    BY <1>1, <1>3, PoppedFields
  <2> QED BY <2>1, <2>2, <2>3, <2>4 DEF UpCalm
<1>4. ASSUME NEW g \in UpFrames, g.type \in {"hello", "bye"}, up'[n] = Append(up[n], g)
      PROVE  UpCalm(n)
  <2>1. ASSUME NEW key, NEW low \in Int, NEW high \in Int, Has(up'[n], "enc"),
               Sealing(up[n], key, low, high)
        PROVE  Sealing(up'[n], key, low, high)
    <3>1. Has(up[n], "enc")
      BY <1>1, <1>4, <2>1, Appended
    <3> QED BY <1>1, <1>4, <2>1, <3>1, Counters, AppendedSealing
  <2>2. \A t \in {"keyx", "enc", "pin_verify"} : Has(up'[n], t) => Has(up[n], t)
    BY <1>1, <1>4, Appended
  <2>3. /\ Once(up[n], "keyx") => Once(up'[n], "keyx")
        /\ Before(up[n], "pin_verify", "keyx") => Before(up'[n], "pin_verify", "keyx")
    BY <1>1, <1>4, Appended
  <2>4. \A pin : Typing(up[n], pin) => Typing(up'[n], pin)
    BY <1>1, <1>4, Appended
  <2> QED BY <2>1, <2>2, <2>3, <2>4 DEF UpCalm
<1> QED BY <1>2, <1>3, <1>4

LEMMA CalmDown ==
  ASSUME EndsInv, NEW s \in Sessions, DownQuiet(s)
  PROVE  DownCalm(s)
<1>1. down[s] \in Seq(DownFrames)
  BY QueueTypes
<1>2. CASE down'[s] = down[s]
  BY <1>2 DEF DownCalm
<1>3. CASE down[s] # <<>> /\ down'[s] = Tail(down[s])
  BY <1>1, <1>3, Popped, PoppedFields DEF DownCalm
<1>4. ASSUME NEW g \in DownFrames, g.type \in {"error", "pin_nack", "enc"},
             down'[s] = Append(down[s], g)
      PROVE  DownCalm(s)
  BY <1>1, <1>4, Appended DEF DownCalm
<1> QED BY <1>2, <1>3, <1>4 DEF DownQuiet

(* What is awaited from the other end is still to come. *)
StillComing(n, s) ==
  Linked(n)' =>
    /\ \A t \in {"pin_nack", "keyx"} : Has(down[s], t) => Has(down'[s], t)
    /\ D!Paired(s) /\ Overtaken(n, s) => Overtaken(n, s)' \/ Has(down'[s], "pin_nack")
    /\ /\ Before(down[s], "pin_nack", "keyx")
       /\ Has(up[n], "pin_verify") => ~Has(down[s], "keyx")
       => Before(down'[s], "pin_nack", "keyx")

CalmController(n) ==
  /\ state' \in {state, "error"} /\ UNCHANGED <<ws, salt, pairingSecret, clientKey, sendSeq>>
  /\ sock'[n].state = "connecting" => sock[n].state = "connecting" /\ state' = state
  /\ Linked(n)' => Linked(n)

LEMMA Calmed ==
  ASSUME EndsInv, NEW n \in Conns, NEW s \in Sessions, s = SessionOf(n),
         NEW N \in SUBSET Conns, Order(s, N), Handshaking(n, s), CalmController(n),
         SameHandshake(s), deviceKey'[s] = deviceKey[s], offered'[s] = offered[s],
         peer'[s] \in {peer[s], NoConn},
         UpCalm(n), DownCalm(s), StillComing(n, s),
         SameCounter(s) \/ Heard(n, s)'
  PROVE  Handshaking(n, s)'
<1>1. D!Paired(s)' <=> D!Paired(s)
  BY PairedSame
<1>2. D!Paired(s) => /\ hs'[s].clientPub = hs[s].clientPub
                     /\ hs'[s].serverKeys = hs[s].serverKeys
                     /\ Agreed(s)' = Agreed(s) /\ (SamePin(s)' <=> SamePin(s))
  BY DEF SameHandshake, D!Paired, CalmController, Agreed, SamePin
<1>3. Beginning(n)' /\ Salted(s)' /\ Stays(n, s)'
  BY DEF Handshaking, Beginning, Salted, Stays, CalmController
<1>4. Typed(n)'
  BY DEF Handshaking, Typed, CalmController, UpCalm
<1>5. AckComing(n, s)'
  <2> SUFFICES ASSUME Linked(n)', Has(down'[s], "pin_ack"), hs'[s].clientPub = n
               PROVE  SamePin(s)' \/ Has(down'[s], "pin_nack") \/ Overtaken(n, s)'
    BY DEF AckComing
  <2>1. Has(down[s], "pin_ack") /\ D!Paired(s) /\ Linked(n)
    BY DEF DownCalm, Order, CalmController
  <2>2. SamePin(s) \/ Has(down[s], "pin_nack") \/ Overtaken(n, s)
    BY <1>2, <2>1 DEF Handshaking, AckComing
  <2> QED BY <1>2, <2>1, <2>2 DEF StillComing
<1>6. Acked(n, s)'
  <2> SUFFICES ASSUME Linked(n)', state' = "keyx_sent" PROVE Acked(n, s)'
    BY DEF Acked
  <2>1. Linked(n) /\ state = "keyx_sent" /\ UNCHANGED <<clientKey, pairingSecret>>
    BY DEF CalmController
  <2>2. D!Paired(s) /\ D!Paired(s)'
    BY <1>1, <2>1 DEF Handshaking, Acked
  <2>3. Answering(s)' => Answering(s)
    BY DEF Answering, DownCalm
  <2>4. /\ ~Has(down'[s], "pin_ack") /\ ~Has(down'[s], "challenge")
        /\ Answering(s)' => /\ hs'[s].clientPub = n /\ deviceKey'[s] # NoKey
                            /\ ~Has(up'[n], "keyx") /\ ~Has(up'[n], "pin_verify")
        /\ Once(up'[n], "keyx") /\ Before(up'[n], "pin_verify", "keyx")
        /\ Once(down'[s], "keyx") /\ Before(down'[s], "keyx", "ready")
        /\ Naming(down'[s], hs'[s].serverKeys)
    BY <1>2, <2>1, <2>2, <2>3 DEF Handshaking, Acked, DownCalm, UpCalm
  <2>5. Before(down'[s], "pin_nack", "keyx")
    BY <2>1 DEF Handshaking, Acked, StillComing, Answering
  <2>6. hs'[s].clientPub = n =>
          \/ SamePin(s)' \/ Has(down'[s], "pin_nack")
          \/ ~Answering(s)' /\ Overtaken(n, s)'
    <3>1. hs'[s].clientPub = n =>
            SamePin(s) \/ Has(down[s], "pin_nack") \/ (~Answering(s) /\ Overtaken(n, s))
      BY <1>2, <2>1, <2>2 DEF Handshaking, Acked
    <3> QED BY <1>2, <2>2, <2>3, <3>1 DEF StillComing
  <2>7. Has(down'[s], "ready") =>
          Has(down'[s], "keyx") \/ (clientKey' = Agreed(s)' /\ clientKey' # NoKey)
    <3>1. Has(down'[s], "ready") =>
            Has(down[s], "keyx") \/ (clientKey = Agreed(s) /\ clientKey # NoKey)
      BY <2>1 DEF Handshaking, Acked, DownCalm
    <3> QED BY <1>2, <2>1, <2>2, <3>1 DEF StillComing
  <2> QED BY <2>2, <2>4, <2>5, <2>6, <2>7 DEF Acked
<1>7. IsAgreed(n, s)'
  BY <1>1, <1>2 DEF Handshaking, IsAgreed, CalmController, UpCalm, DownCalm
<1>8. Heard(n, s)'
  <2> SUFFICES ASSUME SameCounter(s) PROVE Heard(n, s)'
    OBVIOUS
  <2>1. D!Paired(s) => /\ hs'[s].recvSeq = hs[s].recvSeq /\ hs[s].recvSeq \in Int
                       /\ sendSeq \in Int
    BY DEF SameCounter, D!Paired, EndsInv, D!DeviceInv, D!TypeOK, D!Handshakes,
           C!TransportInv, C!TypeOK
  <2>2. UNCHANGED sendSeq
    BY DEF CalmController
  <2>3. ASSUME Has(up'[n], "enc") PROVE Heard(n, s)'
    <3>1. /\ D!Paired(s) /\ hs[s].clientPub = n /\ deviceKey[s] # NoKey
          /\ Sealing(up[n], Agreed(s), hs[s].recvSeq, sendSeq)
      BY <2>3 DEF UpCalm, Handshaking, Heard
    <3>2. Sealing(up'[n], Agreed(s), hs[s].recvSeq, sendSeq)
      BY <2>1, <2>3, <3>1 DEF UpCalm
    <3> QED BY <1>1, <1>2, <2>1, <2>2, <3>1, <3>2 DEF Handshaking, Heard
  <2>4. ASSUME ~Has(up'[n], "enc") PROVE Heard(n, s)'
    BY <1>1, <1>2, <2>1, <2>2, <2>4 DEF Handshaking, Heard
  <2> QED BY <2>3, <2>4
<1> QED BY <1>3, <1>4, <1>5, <1>6, <1>7, <1>8 DEF Handshaking

-------------------------------------------------------------------------------
(* The session takes a frame of the connection *)

LEMMA StillController ==
  ASSUME ControllerIdle, NEW n, UNCHANGED <<via, peer>>
  PROVE  /\ CalmController(n) /\ (Linked(n)' <=> Linked(n))
         /\ UNCHANGED <<sock, clientKeys>>
BY DEF ControllerIdle, controller, CalmController, Linked, SessionOf, C!IsOpen

LEMMA RefusalTaken ==
  ASSUME EndsInv, NEW n \in Conns, NEW s \in Sessions, s = SessionOf(n),
         NEW N \in SUBSET Conns, Order(s, N), Handshaking(n, s), ControllerIdle,
         Takes(n, s), Refuses(s, Head(up[n]))
  PROVE  Handshaking(n, s)'
<1> DEFINE f == Head(up[n])
<1>1. /\ up[n] # <<>> /\ up'[n] = Tail(up[n]) /\ UNCHANGED <<via, peer, link>>
      /\ D!Receiving(s) /\ D!Receiving(s)'
  BY QueueTypes DEF Takes, D!Receiving
<1>2. CalmController(n) /\ UpCalm(n)
  BY <1>1, StillController, CalmUp
<1>3. DownQuiet(s) /\ DownCalm(s)
  <2>1. DownQuiet(s)
    BY AnswerTypes DEF Refuses, DownQuiet
  <2> QED BY <2>1, CalmDown
<1>4. Has(up[n], "pin_verify") => f.type = "pin_verify" \/ Has(up'[n], "pin_verify")
  BY <1>1, QueueTypes, Popped
<1>5. f.type = "pin_verify" => Has(up[n], "pin_verify")
  BY <1>1, QueueTypes, Popped
<1> HIDE DEF f
<1>6. /\ \A t : Has(down[s], t) => Has(down'[s], t)
      /\ f.type = "pin_verify" /\ D!Paired(s) => Has(down'[s], "pin_nack")
      /\ /\ Before(down[s], "pin_nack", "keyx")
         /\ f.type = "pin_verify" => ~Has(down[s], "keyx")
         => Before(down'[s], "pin_nack", "keyx")
  <2>1. CASE down'[s] = down[s] /\ (f.type = "pin_verify" => hs[s] = NoHandshake)
    BY <2>1 DEF D!Paired
  <2>2. ASSUME NEW g \in DownFrames, g.type = "error", down'[s] = Append(down[s], g),
               f.type = "pin_verify" => hs[s] = NoHandshake
        PROVE  /\ \A t : Has(down[s], t) => Has(down'[s], t)
               /\ f.type = "pin_verify" /\ D!Paired(s) => Has(down'[s], "pin_nack")
               /\ /\ Before(down[s], "pin_nack", "keyx")
                  /\ f.type = "pin_verify" => ~Has(down[s], "keyx")
                  => Before(down'[s], "pin_nack", "keyx")
    <3>1. \A t : Has(down[s], t) => Has(down'[s], t)
      BY <2>2, QueueTypes, Appended
    <3>2. Before(down[s], "pin_nack", "keyx") => Before(down'[s], "pin_nack", "keyx")
      BY <2>2, QueueTypes, Appended
    <3> QED BY <2>2, <3>1, <3>2 DEF D!Paired
  <2>3. CASE f.type = "pin_verify" /\ down'[s] = Append(down[s], PinNackFrame)
    BY <2>3, QueueTypes, Appended, AnswerTypes
  <2> QED BY <2>1, <2>2, <2>3 DEF Refuses, f
<1>7. StillComing(n, s)
  BY <1>1, <1>4, <1>5, <1>6 DEF StillComing, Overtaken
<1> QED BY <1>1, <1>2, <1>3, <1>7, Calmed DEF Refuses

(* Before the PIN is accepted the controller awaits no key. *)
LEMMA NotPaired ==
  ASSUME NEW n, NEW s, NEW N, Order(s, N), Handshaking(n, s), ~D!Paired(s)
  PROVE  /\ Linked(n) => state # "keyx_sent"
         /\ state # "ready" /\ ~Has(up[n], "enc") /\ ~Has(down[s], "pin_ack")
         /\ deviceKey[s] = NoKey
BY DEF Handshaking, Acked, IsAgreed, Heard, Order

LEMMA HelloWelcomed ==
  ASSUME EndsInv, NEW n \in Conns, NEW s \in Sessions, s = SessionOf(n),
         NEW N \in SUBSET Conns, Order(s, N), Handshaking(n, s), ControllerIdle,
         Takes(n, s), Welcomes(s, Head(up[n])), ~D!Paired(s),
         salt # NoSalt \/ pairingSecret # NoSecret \/ clientKey # NoKey => offered[s] = minted
  PROVE  Handshaking(n, s)'
<1>1. /\ up[n] # <<>> /\ up'[n] = Tail(up[n]) /\ UNCHANGED <<via, peer, controller>>
      /\ offered'[s] = minted /\ ~D!Paired(s)'
      /\ down'[s] = Append(down[s], ChallengeFrame(minted))
  BY QueueTypes DEF Takes, Welcomes
<1>2. UNCHANGED <<state, salt, pairingSecret, clientKey, sendSeq>>
  BY <1>1 DEF controller
<1>3. Linked(n)' <=> Linked(n)
  BY <1>1, StillController
<1>4. UpCalm(n)
  BY <1>1, CalmUp
<1>5. ~Has(down'[s], "pin_ack")
  <2>1. ChallengeFrame(minted).type # "pin_ack" /\ ~Has(down[s], "pin_ack")
    BY NotPaired DEF ChallengeFrame
  <2> QED BY <1>1, <2>1, QueueTypes, Appended
<1>6. Beginning(n)' /\ Salted(s)' /\ Stays(n, s)'
  BY <1>1, <1>2 DEF Handshaking, Beginning, Salted, Stays, controller
<1>7. Typed(n)' /\ AckComing(n, s)'
  BY <1>2, <1>3, <1>4, <1>5 DEF Handshaking, Typed, AckComing, UpCalm
<1>8. Acked(n, s)' /\ IsAgreed(n, s)'
  BY <1>2, <1>3, NotPaired DEF Acked, IsAgreed
<1>9. Heard(n, s)'
  BY <1>1, <1>4, NotPaired DEF Heard, UpCalm
<1> QED BY <1>6, <1>7, <1>8, <1>9 DEF Handshaking

LEMMA PinAccepted ==
  ASSUME EndsInv, NEW n \in Conns, NEW s \in Sessions, s = SessionOf(n),
         NEW N \in SUBSET Conns, Order(s, N), Handshaking(n, s), ControllerIdle,
         Takes(n, s), Accepts(n, s, Head(up[n])), ~D!Paired(s)
  PROVE  Handshaking(n, s)'
<1> DEFINE f == Head(up[n])
<1>1. /\ up[n] # <<>> /\ up'[n] = Tail(up[n]) /\ UNCHANGED <<via, peer, controller>>
      /\ offered'[s] = offered[s]
  BY QueueTypes DEF Takes, Accepts
<1>2. UNCHANGED <<state, salt, pairingSecret, clientKey, sendSeq>>
  BY <1>1 DEF controller
<1>3. Linked(n)' <=> Linked(n)
  BY <1>1, StillController
<1>4. UpCalm(n)
  BY <1>1, CalmUp
<1>5. Beginning(n)' /\ Salted(s)' /\ Stays(n, s)'
  BY <1>1, <1>2 DEF Handshaking, Beginning, Salted, Stays, controller
<1>6. Typed(n)'
  BY <1>2, <1>3, <1>4 DEF Handshaking, Typed, UpCalm
<1>7. AckComing(n, s)'
  <2> SUFFICES ASSUME Linked(n), pairingSecret # NoSecret
               PROVE  pairingSecret.pin = hs'[s].pairingSecret.pin
                        \/ Has(up'[n], "pin_verify")
    BY <1>2, <1>3 DEF AckComing, SamePin, Overtaken
  <2>1. Typing(up[n], pairingSecret.pin)
    BY DEF Handshaking, Typed
  <2>2. f.type = "pin_verify" /\ hs'[s].pairingSecret.pin = f.pin
    BY DEF Accepts
  <2> HIDE DEF f
  <2>3. f.type = "pin_verify" => f.pin = pairingSecret.pin \/ Has(Tail(up[n]), "pin_verify")
    BY <1>1, <2>1, QueueTypes, PoppedFields DEF f
  <2> QED BY <1>1, <2>2, <2>3
<1>8. Acked(n, s)' /\ IsAgreed(n, s)'
  BY <1>2, <1>3, NotPaired DEF Acked, IsAgreed
<1>9. Heard(n, s)'
  <2>1. ~Has(up'[n], "enc")
    BY <1>4, NotPaired DEF UpCalm
  <2>2. hs[s] # NoHandshake /\ hs'[s].recvSeq = hs[s].recvSeq
    BY DEF Accepts, SameCounter
  <2>3. hs[s].recvSeq = 0 /\ sendSeq >= 0
    BY <2>2, NotPaired, CounterTypes DEF Order
  <2> QED BY <1>2, <2>1, <2>2, <2>3 DEF Heard
<1> QED BY <1>5, <1>6, <1>7, <1>8, <1>9 DEF Handshaking

LEMMA PayloadDecrypted ==
  ASSUME EndsInv, NEW n \in Conns, NEW s \in Sessions, s = SessionOf(n),
         NEW N \in SUBSET Conns, Order(s, N), Handshaking(n, s), ControllerIdle,
         Takes(n, s), Decrypts(s, Head(up[n]))
  PROVE  Handshaking(n, s)'
<1> DEFINE f == Head(up[n])
<1>1. /\ up[n] # <<>> /\ up'[n] = Tail(up[n]) /\ UNCHANGED <<via, peer, link, controller>>
      /\ D!Receiving(s) /\ D!Receiving(s)' /\ down'[s] = down[s]
  BY QueueTypes DEF Takes, Decrypts, D!Receiving
<1>2. CalmController(n) /\ UpCalm(n) /\ DownCalm(s) /\ UNCHANGED sendSeq
  BY <1>1, StillController, CalmUp, CalmDown DEF DownQuiet, controller
<1>3. f.type = "enc" /\ SameHandshake(s) /\ hs'[s].recvSeq = f.s
  BY DEF Decrypts
<1> HIDE DEF f
<1>4. /\ Has(up[n], "pin_verify") <=> f.type = "pin_verify" \/ Has(up'[n], "pin_verify")
      /\ Has(up[n], "enc") <=> f.type = "enc" \/ Has(up'[n], "enc")
  BY <1>1, QueueTypes, Popped DEF f
<1>5. StillComing(n, s)
  BY <1>1, <1>3, <1>4 DEF StillComing, Overtaken
<1>6. Heard(n, s)'
  <2>1. /\ D!Paired(s) /\ hs[s].clientPub = n /\ deviceKey[s] # NoKey
        /\ Sealing(up[n], Agreed(s), hs[s].recvSeq, sendSeq)
    BY <1>3, <1>4 DEF Handshaking, Heard
  <2>2. hs[s].recvSeq \in Int /\ sendSeq \in Int
    BY <2>1, CounterTypes DEF D!Paired
  <2>3. Sealing(Tail(up[n]), Agreed(s), f.s, sendSeq) /\ f.s <= sendSeq
    BY <1>1, <1>3, <2>1, <2>2, QueueTypes, Counters, PoppedSealing DEF f
  <2>4. D!Paired(s)' /\ hs'[s].clientPub = n
    BY <1>3, <2>1, PairedSame DEF SameHandshake, D!Paired
  <2>5. Agreed(s)' = Agreed(s)
    BY <1>3, <2>1 DEF Decrypts, SameHandshake, D!Paired, Agreed
  <2> QED BY <1>1, <1>2, <1>3, <2>1, <2>3, <2>4, <2>5 DEF Heard, Decrypts
<1> QED BY <1>1, <1>2, <1>3, <1>5, <1>6, Calmed DEF Decrypts

LEMMA KeyDerived ==
  ASSUME EndsInv, NEW n \in Conns, NEW s \in Sessions, s = SessionOf(n),
         NEW N \in SUBSET Conns, n \in N, Order(s, N), Handshaking(n, s), ControllerIdle,
         Takes(n, s), Derives(n, s, Head(up[n]))
  PROVE  Handshaking(n, s)'
<1> DEFINE f == Head(up[n])
           g == KeyxFrame(hs[s].serverKeys)
           q == Append(down[s], g)
<1>1. /\ up[n] # <<>> /\ up'[n] = Tail(up[n]) /\ UNCHANGED <<via, peer, link, controller>>
      /\ D!Receiving(s) /\ f.type = "keyx" /\ up[n] \in Seq(UpFrames)
  BY QueueTypes DEF Takes, Derives
<1>2. UNCHANGED <<state, salt, pairingSecret, clientKey, sendSeq>>
  BY <1>1 DEF controller
<1>3. (Linked(n)' <=> Linked(n)) /\ UpCalm(n)
  BY <1>1, StillController, CalmUp
<1>4. D!Paired(s) /\ SameHandshake(s)
  BY Zenon DEF Derives
<1>5. /\ D!Paired(s)' /\ hs[s].clientPub = n /\ hs'[s].clientPub = n
      /\ hs'[s].serverKeys = hs[s].serverKeys /\ hs'[s].recvSeq = hs[s].recvSeq
      /\ SamePin(s)' <=> SamePin(s)
  BY <1>2, <1>4, PairedSame DEF Derives, SameHandshake, SameCounter, D!Paired, SamePin
<1>6. /\ deviceKey'[s] # NoKey /\ offered'[s] = offered[s]
      /\ Agreed(s)' = Agreed(s)
  BY <1>4 DEF Derives, SameHandshake, D!Paired, Agreed
<1>7. /\ down[s] \in Seq(DownFrames) /\ q \in Seq(DownFrames) /\ g \in DownFrames
      /\ g.type = "keyx" /\ g.pub = hs[s].serverKeys /\ ReadyFrame.type = "ready"
      /\ down'[s] = Append(q, ReadyFrame)
  BY QueueTypes, AnswerTypes DEF Derives
<1> HIDE DEF f, g, q
<1>8. Has(up[n], "keyx") /\ ~Has(down[s], "pin_ack") /\ ~Has(down[s], "challenge")
  <2>1. Has(up[n], "keyx")
    BY <1>1, Popped DEF f
  <2> QED BY <2>1 DEF Order
<1>9. /\ ~Has(down'[s], "pin_ack") /\ ~Has(down'[s], "challenge") /\ Has(down'[s], "keyx")
      /\ Has(down[s], "pin_nack") => Has(down'[s], "pin_nack")
  <2>1. \A t : Has(q, t) <=> Has(down[s], t) \/ g.type = t
    BY <1>7, Appended DEF q
  <2>2. \A t : Has(down'[s], t) <=> Has(q, t) \/ ReadyFrame.type = t
    BY <1>7, Appended
  <2> QED BY <1>7, <1>8, <2>1, <2>2
<1>10. Beginning(n)' /\ Salted(s)' /\ Stays(n, s)' /\ Typed(n)' /\ AckComing(n, s)'
  <2>1. Beginning(n)' /\ Salted(s)' /\ Stays(n, s)'
    BY <1>1, <1>2, <1>6 DEF Handshaking, Beginning, Salted, Stays, controller
  <2> QED BY <1>2, <1>3, <1>9, <2>1 DEF Handshaking, Typed, AckComing, UpCalm
<1>11. Acked(n, s)'
  <2> SUFFICES ASSUME Linked(n), state = "keyx_sent" PROVE Acked(n, s)'
    BY <1>2, <1>3 DEF Acked
  <2>1. /\ ~Answering(s) /\ Once(up[n], "keyx") /\ Before(up[n], "pin_verify", "keyx")
        /\ SamePin(s) \/ Has(down[s], "pin_nack")
               \/ (~Answering(s) /\ Overtaken(n, s))
    BY <1>5, <1>8 DEF Handshaking, Acked
  <2>2. ~Has(up'[n], "keyx") /\ ~Has(up[n], "pin_verify") /\ ~Has(up'[n], "pin_verify")
    BY <1>1, <2>1, Popped DEF f
  <2>3. Once(up'[n], "keyx") /\ Before(up'[n], "pin_verify", "keyx")
    BY <2>2, WithoutIt
  <2>4. ~Has(down[s], "keyx") /\ ~Has(down[s], "ready")
    BY <2>1 DEF Answering
  <2>5. /\ Once(q, "keyx") /\ Before(q, "keyx", "ready") /\ Before(q, "pin_nack", "keyx")
        /\ Naming(q, hs[s].serverKeys)
    <3>1. /\ Once(down[s], "keyx") /\ Before(down[s], "keyx", "ready")
          /\ Before(down[s], "pin_nack", "keyx") /\ Naming(down[s], hs[s].serverKeys)
      BY <2>4, WithoutIt
    <3> QED BY <1>7, <2>4, <3>1, Appended DEF q
  <2>6. /\ Once(down'[s], "keyx") /\ Before(down'[s], "keyx", "ready")
        /\ Before(down'[s], "pin_nack", "keyx") /\ Naming(down'[s], hs[s].serverKeys)
    BY <1>7, <2>5, Appended
  <2>7. SamePin(s)' \/ Has(down'[s], "pin_nack")
    BY <1>1, <1>5, <1>9, <2>1, <2>2 DEF Overtaken
  <2> QED BY <1>5, <1>6, <1>9, <2>2, <2>3, <2>6, <2>7 DEF Acked
<1>12. IsAgreed(n, s)'
  BY <1>2, <1>8 DEF Handshaking, IsAgreed
<1>13. Heard(n, s)'
  <2>1. hs[s].recvSeq \in Int /\ sendSeq \in Int
    BY <1>4, CounterTypes DEF D!Paired
  <2>2. ASSUME Has(up'[n], "enc")
        PROVE  Sealing(up'[n], Agreed(s), hs[s].recvSeq, sendSeq)
    <3>1. Has(up[n], "enc")
      BY <1>3, <2>2 DEF UpCalm
    <3>2. Sealing(up[n], Agreed(s), hs[s].recvSeq, sendSeq)
      BY <3>1 DEF Handshaking, Heard
    <3> QED BY <1>3, <2>1, <2>2, <3>2 DEF UpCalm
  <2>3. hs[s].recvSeq <= sendSeq
    BY <1>4, <1>5 DEF Handshaking, Heard
  <2> QED BY <1>2, <1>5, <1>6, <2>2, <2>3 DEF Heard
<1> QED BY <1>10, <1>11, <1>12, <1>13 DEF Handshaking

(* Another guest is joined to the session. *)
LEMMA OtherGuest ==
  ASSUME EndsInv, NEW n \in Conns, NEW s \in Sessions, s = SessionOf(n),
         NEW N \in SUBSET Conns, Order(s, N), Handshaking(n, s), ControllerIdle,
         NEW m \in Conns, m # n, Takes(m, s), Moves(m, s, Head(up[m])),
         pending # NoSlot /\ Head(up[m]).type \in {"hello", "pin_verify"} => ~D!Paired(s),
         salt # NoSalt \/ pairingSecret # NoSecret \/ clientKey # NoKey => offered[s] = minted
  PROVE  Handshaking(n, s)'
<1> DEFINE f == Head(up[m])
<1>1. /\ up[m] # <<>> /\ UNCHANGED <<via, peer, controller>> /\ peer[s] = m
      /\ up'[n] = up[n]
  BY QueueTypes DEF Takes
<1>2. UNCHANGED <<state, salt, pairingSecret, clientKey, sendSeq>>
  BY <1>1 DEF controller
<1>3. ~Linked(n) /\ ~Linked(n)'
  BY <1>1, StillController DEF Linked
<1>4. clientKey = NoKey /\ state # "ready"
  <2>1. clientKey = NoKey
    BY <1>1 DEF Handshaking, Stays, NoConn, Conns
  <2> QED BY <2>1 DEF Handshaking, IsAgreed
<1>5. offered'[s] \in {offered[s], minted}
  BY DEF Moves, Refuses, Welcomes, Accepts, Derives, Decrypts
<1>6. Beginning(n)' /\ Salted(s)' /\ Stays(n, s)'
  BY <1>1, <1>2, <1>5 DEF Handshaking, Beginning, Salted, Stays, controller
<1>7. Typed(n)' /\ AckComing(n, s)' /\ Acked(n, s)' /\ IsAgreed(n, s)'
  BY <1>2, <1>3, <1>4 DEF Typed, AckComing, Acked, IsAgreed
<1>8. f.type = "enc" => f.key.client = m
  <2>1. f = up[m][1] /\ 1 \in 1..Len(up[m])
    BY <1>1, QueueTypes, TailFacts
  <2> QED BY <2>1 DEF EndsInv, UpInv, OwnFrame
<1> HIDE DEF f
<1>9. Heard(n, s)'
  <2>1. CASE Refuses(s, f)
    <3>1. D!Paired(s)' <=> D!Paired(s)
      BY <2>1, PairedSame DEF Refuses
    <3>2. D!Paired(s) => /\ hs'[s].clientPub = hs[s].clientPub
                         /\ hs'[s].recvSeq = hs[s].recvSeq
                         /\ Agreed(s)' = Agreed(s)
      BY <2>1 DEF Refuses, SameHandshake, SameCounter, D!Paired, Agreed
    <3>3. deviceKey'[s] = deviceKey[s]
      BY <2>1 DEF Refuses
    <3> QED BY <1>1, <1>2, <3>1, <3>2, <3>3 DEF Handshaking, Heard
  <2>2. CASE Welcomes(s, f) \/ Accepts(m, s, f)
    <3>1. ~Has(up'[n], "enc")
      BY <1>1, <2>2, NotPaired DEF Welcomes, Accepts, f
    <3> QED BY <2>2, <3>1 DEF Heard, Welcomes, Accepts
  <2>3. CASE Derives(m, s, f)
    <3>1. D!Paired(s) /\ hs[s].clientPub = m /\ SameHandshake(s)
      BY <2>3, Zenon DEF Derives
    <3>2. hs'[s].clientPub = m
      BY <3>1 DEF SameHandshake, D!Paired
    <3> QED BY <1>1, <3>1, <3>2 DEF Handshaking, Heard
  <2>4. CASE Decrypts(s, f)
    <3>1. deviceKey[s] = Keyed(s) /\ deviceKey[s].client = m /\ hs[s] # NoHandshake
      BY <1>8, <2>4 DEF Decrypts, D!Ready, Order
    <3>2. hs[s].clientPub = m /\ hs'[s].clientPub = m
      BY <2>4, <3>1 DEF Keyed, Decrypts, SameHandshake
    <3> QED BY <1>1, <3>2 DEF Handshaking, Heard
  <2> QED BY <2>1, <2>2, <2>3, <2>4 DEF Moves, f
<1> QED BY <1>6, <1>7, <1>9 DEF Handshaking

(* What is given when session s takes a frame, and what follows.           *)
LEMMA HandlesKeeps ==
  ASSUME EndsInv, WorldInv, NEW n \in Conns, NEW s \in Sessions, s = SessionOf(n),
         NEW N \in SUBSET Conns, n \in N, Order(s, N), Handshaking(n, s),
         NEW m \in Conns, Handles(m), SessionOf(m) = s,
         pending # NoSlot /\ Head(up[m]).type \in {"hello", "pin_verify"} => ~D!Paired(s),
         pending # NoSlot /\ Head(up[m]).type = "hello"
           /\ (salt # NoSalt \/ pairingSecret # NoSecret \/ clientKey # NoKey)
           => offered[s] = minted,
         m # n /\ (salt # NoSalt \/ pairingSecret # NoSecret \/ clientKey # NoKey)
           => offered[s] = minted
  PROVE  Handshaking(n, s)'
<1>1. Takes(m, s) /\ Moves(m, s, Head(up[m])) /\ ControllerIdle
  BY Handling DEF Handles
<1>2. CASE m # n
  BY <1>1, <1>2, OtherGuest
<1>3. CASE m = n
  <2>1. CASE Refuses(s, Head(up[n]))
    BY <1>1, <1>3, <2>1, RefusalTaken
  <2>2. CASE Welcomes(s, Head(up[n]))
    BY <1>1, <1>3, <2>2, HelloWelcomed DEF Welcomes
  <2>3. CASE Accepts(n, s, Head(up[n]))
    BY <1>1, <1>3, <2>3, PinAccepted DEF Accepts
  <2>4. CASE Derives(n, s, Head(up[n]))
    BY <1>1, <1>3, <2>4, KeyDerived
  <2>5. CASE Decrypts(s, Head(up[n]))
    BY <1>1, <1>3, <2>5, PayloadDecrypted
  <2> QED BY <1>1, <1>3, <2>1, <2>2, <2>3, <2>4, <2>5 DEF Moves
<1> QED BY <1>2, <1>3

-------------------------------------------------------------------------------
(* The controller takes a frame of the session *)

LEMMA DownTypes ==
  \A f \in DownFrames :
    /\ f.type \in {"challenge", "pin_ack", "pin_nack", "keyx", "ready", "error", "enc"}
BY DEF DownFrames, ChallengeFrame, PinAckFrame, KeyxFrame, PinNackFrame, ReadyFrame,
       ErrorFrame, EncFrame

Delivers(n, s) ==
  /\ down[s] # <<>> /\ down'[s] = Tail(down[s])
  /\ UNCHANGED <<via, peer, link, hs, deviceKey, offered, sock, ws, clientKeys, sendSeq>>
  /\ ws = n /\ clientKeys = n /\ sock[n].state = "open" /\ Linked(n) /\ Linked(n)'
  /\ up' = Upward

Hears(f) ==
  \/ f.type = "challenge" /\ C!HandleChallenge(f)
  \/ f.type = "pin_ack" /\ C!HandlePinAck(f)
  \/ f.type = "pin_nack" /\ C!HandlePinNack
  \/ f.type = "keyx" /\ C!HandleKeyx(f)
  \/ f.type = "enc" /\ C!HandleEncrypted(f)
  \/ f.type \in {"ready", "error"} /\ C!HandleOther(f)

LEMMA Delivering ==
  ASSUME EndsInv, NEW n \in Conns, NEW s \in Sessions, s = SessionOf(n), Linked(n), ws = n,
         Receives(s)
  PROVE  Delivers(n, s) /\ Hears(Head(down[s]))
<1> DEFINE f == Head(down[s])
<1>1. /\ down[s] # <<>> /\ down' = [down EXCEPT ![s] = Tail(@)]
      /\ UNCHANGED <<via, peer, link, hs, deviceKey, offered>>
      /\ peer[s] = n /\ sock[n].state = "open" /\ C!OnMessage(n, f) /\ up' = Upward
  BY EndToEndAssumption
  DEF Receives, DeviceIdle, device, history, Linked, C!IsOpen, C!NoSocket, NoConn, Conns
<1>2. down'[s] = Tail(down[s]) /\ f.type # "bye"
  <2>1. f \in DownFrames
    BY <1>1, QueueTypes, TailFacts
  <2> QED BY <1>1, <2>1, QueueTypes, DownTypes
<1> HIDE DEF f
<1>3. Hears(f)
  BY <1>1, <1>2 DEF C!OnMessage, Hears
<1>4. UNCHANGED <<sock, ws, clientKeys, sendSeq>>
  BY <1>3
  DEF Hears, C!HandleChallenge, C!HandlePinAck, C!HandlePinNack, C!HandleKeyx, C!HandleOther,
      C!HandleEncrypted, C!handshake, C!counters, C!CountersAfterKeyx
<1>5. clientKeys = n
  BY Connected, SocketTypes
<1>6. Linked(n)'
  BY <1>1, <1>4 DEF Linked, SessionOf, C!IsOpen
<1> QED BY <1>1, <1>2, <1>3, <1>4, <1>5, <1>6 DEF Delivers, f

(* Frames that tell the controller nothing new about the handshake. *)
LEMMA PlainHeard ==
  ASSUME EndsInv, NEW n \in Conns, NEW s \in Sessions, s = SessionOf(n),
         NEW N \in SUBSET Conns, Order(s, N), Handshaking(n, s), Delivers(n, s),
         \/ Head(down[s]).type = "enc" /\ C!HandleEncrypted(Head(down[s]))
         \/ /\ Head(down[s]).type \in {"ready", "error"} /\ C!HandleOther(Head(down[s]))
            /\ ~(Head(down[s]).type = "ready" /\ state = "keyx_sent")
  PROVE  Handshaking(n, s)'
<1> DEFINE f == Head(down[s])
<1>1. /\ down[s] # <<>> /\ down'[s] = Tail(down[s]) /\ down[s] \in Seq(DownFrames)
      /\ UNCHANGED <<via, peer, link, hs, deviceKey, offered, sock, ws, sendSeq>>
      /\ sock[n].state = "open" /\ Linked(n) /\ Linked(n)' /\ up' = Upward
      /\ f.type \in {"enc", "ready", "error"}
  BY QueueTypes DEF Delivers
<1>2. /\ state' \in {state, "error"} /\ C!Silent
      /\ UNCHANGED <<salt, pairingSecret, clientKey>>
  BY DEF C!HandleEncrypted, C!HandleOther, C!handshake
<1> HIDE DEF f
<1>3. CalmController(n)
  BY <1>1, <1>2 DEF CalmController
<1>4. up' = up /\ UpCalm(n)
  BY <1>1, <1>2, PostingNothing, CalmUp
<1>5. DownCalm(s)
  BY <1>1, CalmDown DEF DownQuiet
<1>6. StillComing(n, s)
  <2>1. \A t : Has(down[s], t) => f.type = t \/ Has(down'[s], t)
    BY <1>1, Popped DEF f
  <2>2. Before(down[s], "pin_nack", "keyx") => Before(down'[s], "pin_nack", "keyx")
    BY <1>1, Popped
  <2> QED BY <1>1, <1>4, <2>1, <2>2 DEF StillComing, Overtaken, D!Receiving
<1> QED BY <1>1, <1>3, <1>4, <1>5, <1>6, Calmed, Untouched DEF Delivers

LEMMA ChallengeHeard ==
  ASSUME EndsInv, NEW n \in Conns, NEW s \in Sessions, s = SessionOf(n),
         NEW N \in SUBSET Conns, Order(s, N), Handshaking(n, s), Delivers(n, s),
         Head(down[s]).type = "challenge", C!HandleChallenge(Head(down[s]))
  PROVE  Handshaking(n, s)'
<1> DEFINE f == Head(down[s])
<1>1. /\ down[s] # <<>> /\ down'[s] = Tail(down[s]) /\ down[s] \in Seq(DownFrames)
      /\ UNCHANGED <<via, peer, link, hs, deviceKey, offered, sock, ws, sendSeq>>
      /\ sock[n].state = "open" /\ Linked(n) /\ Linked(n)' /\ up' = Upward
      /\ f.type = "challenge"
  BY QueueTypes DEF Delivers
<1>2. /\ state' = "challenge" /\ salt' = f.salt /\ C!Silent
      /\ UNCHANGED <<pairingSecret, clientKey>>
  <2>1. f \in DownFrames
    BY <1>1, TailFacts
  <2>2. f.salt # NoSalt
    BY <1>1, <2>1, EndToEndAssumption
    DEF DownFrames, ChallengeFrame, PinAckFrame, KeyxFrame, PinNackFrame, ReadyFrame,
        ErrorFrame, EncFrame
  <2> QED BY <2>2 DEF C!HandleChallenge
<1> HIDE DEF f
<1>3. up' = up
  BY <1>1, <1>2, PostingNothing
<1>4. f.salt = offered[s]
  BY <1>1, PoppedFields DEF Order, f
<1>5. \A t : Has(down[s], t) <=> f.type = t \/ Has(down'[s], t)
  BY <1>1, Popped DEF f
<1>6. Salted(s)' /\ Beginning(n)' /\ Stays(n, s)'
  BY <1>1, <1>2, <1>4 DEF Handshaking, Salted, Beginning, Stays
<1>7. Typed(n)' /\ AckComing(n, s)'
  BY <1>1, <1>2, <1>3, <1>5
  DEF Handshaking, Typed, AckComing, SamePin, Overtaken, D!Receiving
<1>8. Acked(n, s)' /\ IsAgreed(n, s)'
  BY <1>2 DEF Acked, IsAgreed
<1>9. Heard(n, s)'
  BY <1>1, <1>3 DEF Handshaking, Heard, D!Paired, Agreed
<1> QED BY <1>6, <1>7, <1>8, <1>9 DEF Handshaking

LEMMA NackHeard ==
  ASSUME EndsInv, NEW n \in Conns, NEW s \in Sessions, s = SessionOf(n),
         Handshaking(n, s), Delivers(n, s), C!HandlePinNack
  PROVE  Handshaking(n, s)'
<1>1. /\ UNCHANGED <<via, peer, link, hs, deviceKey, offered, sock, ws, sendSeq>>
      /\ sock[n].state = "open" /\ up' = Upward
  BY DEF Delivers
<1>2. /\ state' = "challenge" /\ pairingSecret' = NoSecret /\ C!Silent
      /\ UNCHANGED <<salt, clientKey>>
  BY DEF C!HandlePinNack
<1>3. up' = up
  BY <1>1, <1>2, PostingNothing
<1>4. Salted(s)' /\ Beginning(n)' /\ Stays(n, s)'
  BY <1>1, <1>2 DEF Handshaking, Salted, Beginning, Stays
<1>5. Typed(n)' /\ AckComing(n, s)' /\ Acked(n, s)' /\ IsAgreed(n, s)'
  BY <1>2 DEF Typed, AckComing, SamePin, Acked, IsAgreed
<1>6. Heard(n, s)'
  BY <1>1, <1>3 DEF Handshaking, Heard, D!Paired, Agreed
<1> QED BY <1>4, <1>5, <1>6 DEF Handshaking

LEMMA AckHeard ==
  ASSUME EndsInv, NEW n \in Conns, NEW s \in Sessions, s = SessionOf(n),
         NEW N \in SUBSET Conns, n \in N, Order(s, N), Handshaking(n, s), Delivers(n, s),
         Head(down[s]).type = "pin_ack", C!HandlePinAck(Head(down[s]))
  PROVE  Handshaking(n, s)'
<1> DEFINE f == Head(down[s])
<1>1. /\ down[s] # <<>> /\ down'[s] = Tail(down[s]) /\ down[s] \in Seq(DownFrames)
      /\ UNCHANGED <<via, peer, link, hs, deviceKey, offered, sock, ws, sendSeq>>
      /\ sock[n].state = "open" /\ Linked(n) /\ Linked(n)' /\ up' = Upward
      /\ f.type = "pin_ack" /\ ws = n /\ clientKeys = n
  BY QueueTypes DEF Delivers
<1>2. /\ UNCHANGED <<salt, pairingSecret, clientKey>>
      /\ \/ state' = "error" /\ C!Silent
         \/ state' = "keyx_sent" /\ C!Send(KeyxFrame(n))
  BY <1>1, ControllerFrames DEF C!HandlePinAck, Conns
<1> HIDE DEF f
<1>3. \A t : Has(down[s], t) <=> f.type = t \/ Has(down'[s], t)
  BY <1>1, Popped DEF f
<1>4. Has(down[s], "pin_ack") /\ ~Has(down'[s], "pin_ack") /\ ~Has(down'[s], "challenge")
  <2>1. Once(down[s], "pin_ack") /\ Before(down[s], "challenge", "pin_ack")
    BY DEF Order
  <2> QED BY <1>1, <1>3, <2>1, Popped DEF f
<1>5. /\ D!Paired(s) /\ D!Paired(s)' /\ deviceKey[s] = NoKey
      /\ ~Has(down[s], "keyx") /\ ~Has(down[s], "ready") /\ ~Has(up[n], "keyx")
  BY <1>1, <1>4 DEF Order, D!Paired
<1>6. up[n] \in Seq(UpFrames) /\ KeyxFrame(n).type = "keyx"
      /\ \/ state' = "error" /\ up'[n] = up[n]
         \/ state' = "keyx_sent" /\ up'[n] = Append(up[n], KeyxFrame(n))
  <2>1. CASE state' = "error" /\ C!Silent
    BY <1>1, <2>1, PostingNothing, QueueTypes, AnswerTypes
  <2>2. CASE state' = "keyx_sent" /\ C!Send(KeyxFrame(n))
    <3>1. Posts(KeyxFrame(n))
      BY <1>1, <2>2, Posting
    <3>2. C!IsOpen(ws)
      BY <1>1 DEF Linked
    <3> QED BY <1>1, <2>2, <3>1, <3>2, QueueTypes, AnswerTypes DEF Posts
  <2> QED BY <1>2, <2>1, <2>2
<1>7. Salted(s)' /\ Beginning(n)' /\ Stays(n, s)'
  BY <1>1, <1>2 DEF Handshaking, Salted, Beginning, Stays
<1>8. Typed(n)'
  <2>1. ASSUME NEW pin, Typing(up[n], pin) PROVE Typing(up'[n], pin)
    <3>1. CASE up'[n] = up[n]
      BY <2>1, <3>1
    <3>2. CASE up'[n] = Append(up[n], KeyxFrame(n))
      <4>1. KeyxFrame(n).type # "pin_verify"
        BY <1>6
      <4> QED BY <1>6, <2>1, <3>2, <4>1, Appended
    <3> QED BY <1>6, <3>1, <3>2
  <2> QED BY <1>1, <1>2, <2>1 DEF Handshaking, Typed
<1>9. AckComing(n, s)' /\ IsAgreed(n, s)'
  <2>1. state' # "ready"
    BY <1>2
  <2> QED BY <1>4, <2>1 DEF AckComing, IsAgreed
<1>10. Acked(n, s)'
  <2> SUFFICES ASSUME state' = "keyx_sent", up'[n] = Append(up[n], KeyxFrame(n))
               PROVE  Acked(n, s)'
    BY <1>6 DEF Acked
  <2>1. ~Has(down'[s], "keyx") /\ ~Has(down'[s], "ready")
    BY <1>3, <1>5
  <2>2. /\ Once(down'[s], "keyx") /\ Before(down'[s], "keyx", "ready")
        /\ Before(down'[s], "pin_nack", "keyx") /\ Naming(down'[s], hs'[s].serverKeys)
    BY <2>1, WithoutIt
  <2>3. Once(up'[n], "keyx")
    <3>1. Once(up[n], "keyx")
      BY <1>5, WithoutIt
    <3> QED BY <1>5, <1>6, <3>1, Appended
  <2>4. Before(up'[n], "pin_verify", "keyx")
    <3>1. Before(up[n], "pin_verify", "keyx")
      BY <1>5, WithoutIt
    <3> QED BY <1>6, <3>1, Appended
  <2>5. hs'[s].clientPub = n =>
          SamePin(s)' \/ Has(down'[s], "pin_nack") \/ Overtaken(n, s)'
    <3>1. hs[s].clientPub = n =>
            SamePin(s) \/ Has(down[s], "pin_nack") \/ Overtaken(n, s)
      BY <1>1, <1>4 DEF Handshaking, AckComing
    <3>2. Has(up[n], "pin_verify") => Has(up'[n], "pin_verify")
      BY <1>6, Appended
    <3> QED BY <1>1, <1>2, <1>3, <3>1, <3>2 DEF SamePin, Overtaken, D!Receiving
  <2> QED BY <1>4, <1>5, <2>1, <2>2, <2>3, <2>4, <2>5 DEF Acked, Answering
<1>11. Heard(n, s)'
  <2>1. ~Has(up[n], "enc")
    BY <1>5 DEF Handshaking, Heard
  <2>2. ~Has(up'[n], "enc")
    BY <1>6, <2>1, Appended
  <2> QED BY <1>1, <2>2 DEF Handshaking, Heard, D!Paired
<1> QED BY <1>7, <1>8, <1>9, <1>10, <1>11 DEF Handshaking

LEMMA ReadyHeard ==
  ASSUME EndsInv, NEW n \in Conns, NEW s \in Sessions, s = SessionOf(n),
         Handshaking(n, s), Delivers(n, s), state = "keyx_sent",
         Head(down[s]).type = "ready", C!HandleOther(Head(down[s]))
  PROVE  Handshaking(n, s)'
<1> DEFINE f == Head(down[s])
<1>1. /\ down[s] # <<>> /\ down'[s] = Tail(down[s]) /\ down[s] \in Seq(DownFrames)
      /\ UNCHANGED <<via, peer, link, hs, deviceKey, offered, sock, ws, sendSeq>>
      /\ sock[n].state = "open" /\ Linked(n) /\ Linked(n)' /\ up' = Upward
      /\ f.type = "ready"
  BY QueueTypes DEF Delivers
<1>2. /\ state' = "ready" /\ C!Silent
      /\ UNCHANGED <<salt, pairingSecret, clientKey>>
  BY DEF C!HandleOther, C!handshake
<1> HIDE DEF f
<1>3. up' = up
  BY <1>1, <1>2, PostingNothing
<1>4. \A t : Has(down[s], t) <=> f.type = t \/ Has(down'[s], t)
  BY <1>1, Popped DEF f
<1>5. /\ D!Paired(s) /\ ~Has(down[s], "pin_ack") /\ Has(down[s], "ready")
      /\ hs[s].clientPub = n /\ deviceKey[s] # NoKey /\ ~Has(up[n], "keyx")
      /\ Before(down[s], "keyx", "ready")
  BY <1>1, <1>4 DEF Handshaking, Acked, Answering
<1>6. ~Has(down[s], "keyx") /\ clientKey = Agreed(s) /\ clientKey # NoKey
  <2>1. ~Has(down[s], "keyx")
    BY <1>1, <1>5, Popped DEF f
  <2> QED BY <1>1, <1>5, <2>1 DEF Handshaking, Acked
<1>7. Salted(s)' /\ Beginning(n)' /\ Stays(n, s)' /\ Typed(n)'
  BY <1>1, <1>2, <1>3 DEF Handshaking, Salted, Beginning, Stays, Typed
<1>8. AckComing(n, s)' /\ Acked(n, s)'
  BY <1>2, <1>4, <1>5 DEF AckComing, Acked
<1>9. IsAgreed(n, s)'
  BY <1>1, <1>2, <1>3, <1>4, <1>5, <1>6 DEF IsAgreed, D!Paired, Agreed
<1>10. Heard(n, s)'
  BY <1>1, <1>3 DEF Handshaking, Heard, D!Paired, Agreed
<1> QED BY <1>7, <1>8, <1>9, <1>10 DEF Handshaking

LEMMA KeyxHeard ==
  ASSUME EndsInv, NEW n \in Conns, NEW s \in Sessions, s = SessionOf(n),
         NEW N \in SUBSET Conns, Order(s, N), Handshaking(n, s), Delivers(n, s),
         Head(down[s]).type = "keyx", C!HandleKeyx(Head(down[s]))
  PROVE  Handshaking(n, s)'
<1> DEFINE f == Head(down[s])
<1>1. /\ down[s] # <<>> /\ down'[s] = Tail(down[s]) /\ down[s] \in Seq(DownFrames)
      /\ UNCHANGED <<via, peer, link, hs, deviceKey, offered, sock, ws, sendSeq>>
      /\ sock[n].state = "open" /\ peer[s] = n /\ Linked(n) /\ Linked(n)' /\ up' = Upward
      /\ f.type = "keyx" /\ ws = n /\ clientKeys = n
  BY QueueTypes DEF Delivers, Linked
<1>2. /\ UNCHANGED <<salt, pairingSecret>> /\ C!Silent
      /\ \/ state' = "error" /\ clientKey' = clientKey
         \/ /\ state' = state /\ pairingSecret # NoSecret
            /\ f.pub \in 1..MaxKeys
            /\ clientKey' = C!DeriveKey(f.pub, n, pairingSecret)
  BY <1>1 DEF C!HandleKeyx
<1> HIDE DEF f
<1>3. up' = up
  BY <1>1, <1>2, PostingNothing
<1>4. \A t : Has(down[s], t) <=> f.type = t \/ Has(down'[s], t)
  BY <1>1, Popped DEF f
<1>5. ~Has(down[s], "pin_ack")
  BY <1>1, <1>4 DEF Order
<1>6. Typed(n)' /\ Beginning(n)' /\ AckComing(n, s)'
  BY <1>1, <1>2, <1>3, <1>4, <1>5 DEF Handshaking, Typed, Beginning, AckComing
<1>7. Heard(n, s)'
  BY <1>1, <1>3 DEF Handshaking, Heard, D!Paired, Agreed
<1>8. CASE state' = "error" /\ clientKey' = clientKey
  <2>1. Salted(s)' /\ Stays(n, s)' /\ Acked(n, s)' /\ IsAgreed(n, s)'
    BY <1>1, <1>2, <1>8 DEF Handshaking, Salted, Stays, Acked, IsAgreed
  <2> QED BY <1>6, <1>7, <2>1 DEF Handshaking
<1>9. CASE /\ state' = state /\ pairingSecret # NoSecret /\ f.pub \in 1..MaxKeys
           /\ clientKey' = C!DeriveKey(f.pub, n, pairingSecret)
  <2>1. /\ clientKey' = [server |-> f.pub, client |-> n, secret |-> pairingSecret]
        /\ pairingSecret \in D!Secrets /\ pairingSecret.salt = offered[s]
        /\ pairingSecret = [pin |-> pairingSecret.pin, salt |-> offered[s]]
        /\ clientKey'.secret = pairingSecret
    BY <1>9 DEF C!DeriveKey, EndsInv, C!TransportInv, C!TypeOK, C!Secrets, D!Secrets, D!Salts,
                Handshaking, Salted
  <2>2. clientKey' # NoKey
    <3>1. clientKey' \in D!Keys
      BY <1>9, <2>1 DEF D!Keys
    <3> QED BY <3>1, EndToEndAssumption
  <2>3. Salted(s)' /\ Stays(n, s)'
    BY <1>1, <1>2, <2>1 DEF Handshaking, Salted, Stays
  <2>4. IsAgreed(n, s)'
    BY <1>1, <1>4, <1>9 DEF Handshaking, IsAgreed
  <2>5. Acked(n, s)'
    <3> SUFFICES ASSUME state = "keyx_sent" PROVE Acked(n, s)'
      BY <1>9 DEF Acked
    <3>1. /\ D!Paired(s) /\ ~Has(down[s], "pin_ack") /\ ~Has(down[s], "challenge")
          /\ Answering(s) /\ hs[s].clientPub = n /\ deviceKey[s] # NoKey
          /\ ~Has(up[n], "keyx") /\ ~Has(up[n], "pin_verify")
          /\ Once(up[n], "keyx") /\ Before(up[n], "pin_verify", "keyx")
          /\ Once(down[s], "keyx") /\ Before(down[s], "keyx", "ready")
          /\ Before(down[s], "pin_nack", "keyx") /\ Naming(down[s], hs[s].serverKeys)
          /\ SamePin(s) \/ Has(down[s], "pin_nack")
      BY <1>1, <1>4 DEF Handshaking, Acked, Answering
    <3>2. f.pub = hs[s].serverKeys /\ Naming(down'[s], hs[s].serverKeys)
      BY <1>1, <3>1, PoppedFields DEF f
    <3>3. /\ Once(down'[s], "keyx") /\ Before(down'[s], "keyx", "ready")
          /\ Before(down'[s], "pin_nack", "keyx") /\ ~Has(down[s], "pin_nack")
      BY <1>1, <3>1, Popped DEF f
    <3>4. pairingSecret.pin = hs[s].pairingSecret.pin
      BY <1>9, <3>1, <3>3 DEF SamePin
    <3>5. clientKey' = Agreed(s)'
      BY <1>1, <2>1, <3>1, <3>2, <3>4 DEF Agreed
    <3>6. SamePin(s)' /\ D!Paired(s)'
      BY <1>1, <1>2, <3>1, <3>4 DEF SamePin, D!Paired
    <3> QED BY <1>1, <1>3, <1>4, <2>2, <3>1, <3>2, <3>3, <3>5, <3>6 DEF Acked
  <2> QED BY <1>6, <1>7, <2>3, <2>4, <2>5 DEF Handshaking
<1> QED BY <1>2, <1>8, <1>9

LEMMA HeardKeeps ==
  ASSUME EndsInv, NEW n \in Conns, NEW s \in Sessions, s = SessionOf(n),
         NEW N \in SUBSET Conns, n \in N, Order(s, N), Handshaking(n, s),
         Delivers(n, s), Hears(Head(down[s]))
  PROVE  Handshaking(n, s)'
<1>1. CASE Head(down[s]).type = "challenge" /\ C!HandleChallenge(Head(down[s]))
  BY <1>1, ChallengeHeard
<1>2. CASE Head(down[s]).type = "pin_ack" /\ C!HandlePinAck(Head(down[s]))
  BY <1>2, AckHeard
<1>3. CASE Head(down[s]).type = "pin_nack" /\ C!HandlePinNack
  BY <1>3, NackHeard
<1>4. CASE Head(down[s]).type = "keyx" /\ C!HandleKeyx(Head(down[s]))
  BY <1>4, KeyxHeard
<1>5. CASE Head(down[s]).type = "enc" /\ C!HandleEncrypted(Head(down[s]))
  BY <1>5, PlainHeard
<1>6. CASE Head(down[s]).type \in {"ready", "error"} /\ C!HandleOther(Head(down[s]))
  BY <1>6, PlainHeard, ReadyHeard
<1> QED BY <1>1, <1>2, <1>3, <1>4, <1>5, <1>6 DEF Hears

-------------------------------------------------------------------------------
(* The controller acts by itself *)

(* Nothing moves but the controller. *)
Alone == UNCHANGED <<via, peer, link, hs, deviceKey, offered, down>> /\ up' = Upward

(* A step that leaves the queue back and the session alone. *)
LEMMA CalmAlone ==
  ASSUME EndsInv, NEW n \in Conns, NEW s \in Sessions, s = SessionOf(n),
         NEW N \in SUBSET Conns, Order(s, N), Handshaking(n, s), CalmController(n), Alone,
         \/ up'[n] = up[n]
         \/ \E g \in UpFrames : g.type \in {"hello", "bye"} /\ up'[n] = Append(up[n], g)
  PROVE  Handshaking(n, s)'
<1>1. UpCalm(n) /\ DownCalm(s) /\ SameHandshake(s) /\ SameCounter(s)
  BY CalmUp, CalmDown, Untouched DEF Alone, DownQuiet
<1>2. Has(up[n], "pin_verify") => Has(up'[n], "pin_verify")
  <2>1. CASE up'[n] = up[n]
    BY <2>1
  <2>2. ASSUME NEW g \in UpFrames, up'[n] = Append(up[n], g)
        PROVE  Has(up[n], "pin_verify") => Has(up'[n], "pin_verify")
    BY <2>2, QueueTypes, Appended
  <2> QED BY <2>1, <2>2
<1>3. StillComing(n, s)
  BY <1>2 DEF StillComing, Alone, Overtaken, D!Receiving
<1> QED BY <1>1, <1>3, Calmed DEF Alone

LEMMA TimeoutKeeps ==
  ASSUME EndsInv, NEW n \in Conns, NEW s \in Sessions, s = SessionOf(n),
         NEW N \in SUBSET Conns, Order(s, N), Handshaking(n, s), Alone,
         NEW c, C!CommandTimeout(c)
  PROVE  Handshaking(n, s)'
<1>1. /\ UNCHANGED <<sock, ws, state, salt, pairingSecret, clientKey, sendSeq>> /\ up' = up
  BY PostingNothing DEF C!CommandTimeout, C!handshake, C!counters, Alone
<1>2. Linked(n)' => Linked(n)
  BY <1>1 DEF Linked, SessionOf, Alone, C!IsOpen
<1> QED BY <1>1, <1>2, CalmAlone DEF CalmController

LEMMA HelloKeeps ==
  ASSUME EndsInv, NEW n \in Conns, NEW s \in Sessions, s = SessionOf(n),
         NEW N \in SUBSET Conns, Order(s, N), Handshaking(n, s), Alone, ws = n,
         C!HelloTimer
  PROVE  Handshaking(n, s)'
<1>1. /\ UNCHANGED <<ws, salt, pairingSecret, clientKey, sendSeq>>
      /\ \/ sock' = sock /\ state' = state
         \/ sock' = C!WsClosed /\ state' = "error" /\ sock[n].state = "open"
      /\ C!Silent \/ C!Send(HelloFrame(Version))
  <2>1. UNCHANGED <<ws, salt, pairingSecret, clientKey, sendSeq>>
    BY DEF C!HelloTimer, C!handshake, C!counters
  <2>2. \/ sock' = sock /\ state' = state
        \/ sock' = C!WsClosed /\ state' = "error" /\ sock[n].state = "open"
    BY DEF C!HelloTimer, C!IsOpen
  <2>3. C!Silent \/ C!Send(HelloFrame(Version))
    BY ControllerFrames DEF C!HelloTimer, C!SendRelayHello
  <2> QED BY <2>1, <2>2, <2>3
<1>2. sock'[n].state = "open" => sock[n].state = "open"
  BY <1>1
<1>3. sock'[n].state = "connecting" => sock[n].state = "connecting" /\ state' = state
  BY <1>1, SocketTypes DEF C!WsClosed
<1>4. Linked(n)' => Linked(n)
  BY <1>2 DEF Linked, SessionOf, Alone, C!IsOpen
<1>5. CalmController(n)
  BY <1>1, <1>3, <1>4 DEF CalmController
<1>6. HelloFrame(Version) \in UpFrames /\ HelloFrame(Version).type = "hello"
  BY DEF UpFrames, HelloFrame
<1>7. up'[n] = up[n] \/ up'[n] = Append(up[n], HelloFrame(Version))
  <2>1. CASE C!Silent
    BY <2>1, PostingNothing DEF Alone
  <2>2. CASE C!Send(HelloFrame(Version))
    BY <2>2, Posting DEF Alone, Posts
  <2> QED BY <1>1, <2>1, <2>2
<1> QED BY <1>5, <1>6, <1>7, CalmAlone

LEMMA PinKeeps ==
  ASSUME EndsInv, NEW n \in Conns, NEW s \in Sessions, s = SessionOf(n),
         NEW N \in SUBSET Conns, Order(s, N), Handshaking(n, s), Alone, ws = n,
         state = "challenge", NEW pin \in Pins, C!SubmitPin(pin)
  PROVE  Handshaking(n, s)'
<1> DEFINE g == PinVerifyFrame(pin, n)
<1>1. /\ clientKeys = n /\ salt # NoSalt
      /\ pairingSecret' = [pin |-> pin, salt |-> salt] /\ state' = "pin_sent"
      /\ UNCHANGED <<sock, ws, salt, clientKey, sendSeq>> /\ C!Send(g)
  BY Connected, SocketTypes, ControllerFrames DEF C!SubmitPin, C!HashPin, C!counters
<1>2. g \in UpFrames /\ g.type = "pin_verify" /\ g.pin = pin
  BY DEF UpFrames, PinVerifyFrame
<1>3. Posts(g)
  BY <1>1, Posting DEF Alone
<1> HIDE DEF g
<1>4. /\ up[n] \in Seq(UpFrames) /\ up'[n] \in {up[n], Append(up[n], g)}
      /\ C!IsOpen(n) => up'[n] = Append(up[n], g)
  BY <1>3, QueueTypes DEF Posts
<1>5. Linked(n)' => up'[n] = Append(up[n], g)
  BY <1>1, <1>4 DEF Linked, C!IsOpen
<1>6. Beginning(n)' /\ Salted(s)' /\ Stays(n, s)'
  <2>1. sock[n].state # "connecting"
    BY DEF Handshaking, Beginning
  <2>2. pairingSecret'.salt = offered'[s]
    BY <1>1 DEF Handshaking, Salted, Alone
  <2> QED BY <1>1, <2>1, <2>2 DEF Handshaking, Beginning, Salted, Stays, Alone
<1>7. Typed(n)'
  <2>1. Typing(Append(up[n], g), pin)
    BY <1>2, <1>4, Appended
  <2> QED BY <1>1, <1>5, <2>1 DEF Typed
<1>8. AckComing(n, s)'
  <2>1. Has(Append(up[n], g), "pin_verify")
    BY <1>2, <1>4, Appended
  <2> QED BY <1>5, <2>1 DEF AckComing, Overtaken
<1>9. Acked(n, s)' /\ IsAgreed(n, s)'
  BY <1>1 DEF Acked, IsAgreed
<1>10. Heard(n, s)'
  <2>1. Has(up'[n], "enc") <=> Has(up[n], "enc")
    <3>1. Has(Append(up[n], g), "enc") <=> Has(up[n], "enc")
      BY <1>2, <1>4, Appended
    <3> QED BY <1>4, <3>1
  <2>2. ASSUME Has(up[n], "enc") PROVE Sealing(up'[n], Agreed(s), hs[s].recvSeq, sendSeq)
    <3>1. D!Paired(s) /\ Sealing(up[n], Agreed(s), hs[s].recvSeq, sendSeq)
      BY <2>2 DEF Handshaking, Heard
    <3>2. hs[s].recvSeq \in Int /\ sendSeq \in Int
      BY <3>1, CounterTypes DEF D!Paired
    <3>3. Sealing(Append(up[n], g), Agreed(s), hs[s].recvSeq, sendSeq)
      BY <1>2, <1>4, <2>2, <3>1, <3>2, Counters, AppendedSealing
    <3> QED BY <1>4, <3>1, <3>3
  <2>3. UNCHANGED <<hs, deviceKey, offered, sendSeq>>
    BY <1>1 DEF Alone
  <2>4. (D!Paired(s)' <=> D!Paired(s)) /\ Agreed(s)' = Agreed(s)
    BY <2>3 DEF D!Paired, Agreed
  <2> QED BY <2>1, <2>2, <2>3, <2>4 DEF Handshaking, Heard
<1> QED BY <1>6, <1>7, <1>8, <1>9, <1>10 DEF Handshaking

LEMMA SealingLonger ==
  ASSUME NEW S, NEW q \in Seq(S), NEW key, NEW low \in Int, NEW high \in Int,
         \A f \in S : f.type = "enc" => f.s \in Int, Sealing(q, key, low, high)
  PROVE  Sealing(q, key, low, high + 1)
<1>1. \A i \in 1..Len(q) : q[i].type = "enc" => q[i].s \in Int
  OBVIOUS
<1> QED BY <1>1 DEF Sealing

LEMMA SendKeeps ==
  ASSUME EndsInv, NEW n \in Conns, NEW s \in Sessions, s = SessionOf(n),
         NEW N \in SUBSET Conns, Order(s, N), Handshaking(n, s), Alone, ws = n,
         state = "ready", C!SendCommand
  PROVE  Handshaking(n, s)'
<1> DEFINE g == EncFrame(clientKey, sendSeq + 1, Cmd(Len(promise) + 1))
<1>1. /\ D!Paired(s) /\ hs[s].clientPub = n /\ deviceKey[s] # NoKey
      /\ clientKey = Agreed(s) /\ clientKey # NoKey /\ ~Has(down[s], "keyx")
      /\ ~Has(up[n], "keyx")
  BY DEF Handshaking, IsAgreed
<1>2. /\ UNCHANGED <<sock, ws, state, salt, pairingSecret, clientKey>>
      /\ sendSeq' = sendSeq + 1 /\ C!Send(g) /\ Len(promise) < MaxIds
  BY <1>1, ControllerFrames DEF C!SendCommand, C!IsReady, C!handshake
<1>3. sendSeq \in Int /\ hs[s].recvSeq \in Int /\ hs[s].recvSeq <= sendSeq
      /\ sendSeq + 1 \in 1..MaxIds /\ Len(promise) + 1 \in Calls
  <2>1. /\ sendSeq \in Nat /\ sendSeq <= Len(promise) /\ Len(promise) \in Nat
    BY DEF EndsInv, C!TransportInv, C!TypeOK, C!CountedInv
  <2>2. hs[s].recvSeq \in Int /\ hs[s].recvSeq <= sendSeq
    BY <1>1, CounterTypes DEF Handshaking, Heard, D!Paired
  <2> QED BY <1>2, <2>1, <2>2, EndToEndAssumption DEF Calls
<1>4. g \in UpFrames /\ g.type = "enc" /\ g.key = Agreed(s) /\ g.s = sendSeq + 1
  <2>1. clientKey \in D!Keys
    BY <1>1 DEF EndsInv, C!TransportInv, C!TypeOK, C!Keys, D!Keys, C!Conns, Conns, C!Secrets,
                D!Secrets, D!Salts
  <2> QED BY <1>1, <1>3, <2>1 DEF UpFrames, EncFrame
<1>5. Posts(g) /\ up[n] \in Seq(UpFrames)
  BY <1>2, Posting, QueueTypes DEF Alone
<1> HIDE DEF g
<1>6. up'[n] = Append(up[n], g) \/ (up'[n] = up[n] /\ ~C!IsOpen(n))
  BY <1>5 DEF Posts
<1>7. Linked(n)' <=> Linked(n)
  BY <1>2 DEF Linked, SessionOf, Alone, C!IsOpen
<1>8. /\ UNCHANGED <<hs, deviceKey, offered, link, down, peer>>
      /\ D!Paired(s)' /\ Agreed(s)' = Agreed(s)
  BY <1>1 DEF Alone, D!Paired, Agreed
<1>9. \A t \in {"keyx", "pin_verify"} : Has(up'[n], t) <=> Has(up[n], t)
  <2>1. \A t \in {"keyx", "pin_verify"} : Has(Append(up[n], g), t) <=> Has(up[n], t)
    BY <1>4, <1>5, Appended
  <2> QED BY <1>6, <2>1
<1>10. Beginning(n)' /\ Salted(s)' /\ Stays(n, s)'
  BY <1>2, <1>8 DEF Handshaking, Beginning, Salted, Stays
<1>11. Typed(n)'
  <2>1. \A pin : Typing(up[n], pin) => Typing(Append(up[n], g), pin)
    BY <1>4, <1>5, Appended
  <2> QED BY <1>2, <1>6, <1>7, <2>1 DEF Handshaking, Typed
<1>12. AckComing(n, s)'
  BY <1>2, <1>7, <1>8, <1>9 DEF Handshaking, AckComing, SamePin, Overtaken, D!Receiving
<1>13. Acked(n, s)' /\ IsAgreed(n, s)'
  BY <1>1, <1>2, <1>8, <1>9 DEF Acked, IsAgreed
<1>14. Heard(n, s)'
  <2>1. Has(up[n], "enc") => Sealing(up[n], Agreed(s), hs[s].recvSeq, sendSeq)
    BY DEF Handshaking, Heard
  <2>2. Sealing(Append(up[n], g), Agreed(s), hs[s].recvSeq, sendSeq + 1)
    BY <1>3, <1>4, <1>5, <2>1, Counters, AppendedSealing
  <2>3. Has(up[n], "enc") => Sealing(up[n], Agreed(s), hs[s].recvSeq, sendSeq + 1)
    BY <1>3, <1>5, <2>1, Counters, SealingLonger
  <2>4. Has(up'[n], "enc") => Sealing(up'[n], Agreed(s), hs[s].recvSeq, sendSeq + 1)
    BY <1>6, <2>2, <2>3
  <2> QED BY <1>1, <1>2, <1>3, <1>8, <2>4 DEF Heard
<1> QED BY <1>10, <1>11, <1>12, <1>13, <1>14 DEF Handshaking

(* The current socket opens, on a connection nothing knows of.             *)
LEMMA OpenKeeps ==
  ASSUME EndsInv, WorldInv, NEW n \in Conns, NEW s \in Sessions, s = SessionOf(n),
         Handshaking(n, s), ws = n, Opens(n)
  PROVE  Handshaking(n, s)'
<1>1. /\ sock[n].state = "connecting" /\ sock'[n].state = "open"
      /\ UNCHANGED <<ws, state, salt, pairingSecret, clientKey, sendSeq>>
      /\ up' = Upward
      /\ clientSent' = <<>> \/ (ws # C!NoSocket /\ clientSent' = <<ws, HelloFrame(Version)>>)
  <2>1. C!OnOpen(n) /\ up' = Upward
    BY DEF Opens
  <2>2. sock[n].state = "connecting" /\ sock'[n].state = "open"
    BY <2>1, SocketTypes DEF C!OnOpen
  <2>3. UNCHANGED <<ws, state, salt, pairingSecret, clientKey, sendSeq>>
    BY <2>1 DEF C!OnOpen, C!handshake, C!counters
  <2>4. clientSent' = <<>> \/ (ws # C!NoSocket /\ clientSent' = <<ws, HelloFrame(Version)>>)
    BY <2>1, ControllerFrames DEF C!OnOpen
  <2> QED BY <2>1, <2>2, <2>3, <2>4
<1>2. UNCHANGED <<hs, deviceKey, offered, down, via>>
  BY DEF Opens, DeviceIdle, device, history, D!Connect, D!sessionVars
<1>3. /\ state = "connecting" /\ salt = NoSalt /\ pairingSecret = NoSecret
      /\ clientKey = NoKey
  BY <1>1 DEF Handshaking, Beginning
<1>4. up[n] = <<>> /\ (hs[s] # NoHandshake => hs[s].clientPub # n)
  BY <1>1 DEF WorldInv, Unopened
<1>5. ~Has(up'[n], "enc")
  <2>1. up[n] \in Seq(UpFrames) /\ up \in [Conns -> Seq(UpFrames)] /\ ~Has(up[n], "enc")
    BY <1>4, QueueTypes, Emptied
  <2>2. HelloFrame(Version).type # "enc"
    BY DEF HelloFrame
  <2>3. ~Has(Append(up[n], HelloFrame(Version)), "enc")
    BY <2>1, <2>2, Appended
  <2>4. up'[n] \in {up[n], Append(up[n], HelloFrame(Version))}
    BY <1>1, <2>1 DEF Upward
  <2> QED BY <2>1, <2>3, <2>4
<1>6. Beginning(n)' /\ Salted(s)' /\ Stays(n, s)'
  BY <1>1, <1>3 DEF Beginning, Salted, Stays
<1>7. Typed(n)' /\ AckComing(n, s)' /\ Acked(n, s)' /\ IsAgreed(n, s)'
  BY <1>1, <1>3 DEF Typed, AckComing, SamePin, Acked, IsAgreed
<1>8. Heard(n, s)'
  BY <1>2, <1>4, <1>5 DEF Heard, D!Paired
<1> QED BY <1>6, <1>7, <1>8 DEF Handshaking

-------------------------------------------------------------------------------
(* The device, the network, and steps of others *)

LEMMA QuietController ==
  ASSUME ControllerIdle, NEW n \in Conns, UNCHANGED via,
         peer'[SessionOf(n)] \in {peer[SessionOf(n)], NoConn}
  PROVE  CalmController(n) /\ (Linked(n)' => Linked(n) /\ peer'[SessionOf(n)] = peer[SessionOf(n)])
BY EndToEndAssumption
DEF ControllerIdle, controller, CalmController, Linked, SessionOf, C!IsOpen, NoConn, Conns

LEMMA SettleKeeps ==
  ASSUME EndsInv, NEW n \in Conns, NEW s \in Sessions, s = SessionOf(n),
         NEW N \in SUBSET Conns, Order(s, N), Handshaking(n, s), NEW r \in Sessions, Settles(r)
  PROVE  Handshaking(n, s)'
<1>1. /\ ControllerIdle /\ UNCHANGED <<via, up, peer, offered, link, deviceKey>>
      /\ SameHandshake(s) /\ SameCounter(s)
      /\ \/ down'[s] = down[s]
         \/ \E g \in DownFrames : g.type = "enc" /\ down'[s] = Append(down[s], g)
  <2>1. /\ ControllerIdle /\ UNCHANGED <<via, up, peer, offered, link, deviceKey>>
        /\ \A q \in Sessions \ {r} : hs'[q] = hs[q] /\ down'[q] = down[q]
        /\ SameHandshake(r) /\ SameCounter(r)
        /\ \/ down'[r] = down[r]
           \/ \E g \in DownFrames : g.type = "enc" /\ down'[r] = Append(down[r], g)
    BY Settling
  <2>2. CASE r = s
    BY <2>1, <2>2
  <2>3. CASE r # s
    BY <2>1, <2>3 DEF SameHandshake, SameCounter
  <2> QED BY <2>2, <2>3
<1>2. CalmController(n) /\ UpCalm(n) /\ DownCalm(s)
  BY <1>1, QuietController, CalmUp, CalmDown DEF DownQuiet
<1>3. /\ \A t : Has(down[s], t) => Has(down'[s], t)
      /\ Before(down[s], "pin_nack", "keyx") => Before(down'[s], "pin_nack", "keyx")
  <2>1. ASSUME NEW g \in DownFrames, g.type = "enc", down'[s] = Append(down[s], g)
        PROVE  \A t : Has(down[s], t) => Has(down'[s], t)
    BY <2>1, QueueTypes, Appended
  <2>2. ASSUME NEW g \in DownFrames, g.type = "enc", down'[s] = Append(down[s], g)
        PROVE  Before(down[s], "pin_nack", "keyx") => Before(down'[s], "pin_nack", "keyx")
    BY <2>2, QueueTypes, Appended
  <2> QED BY <1>1, <2>1, <2>2
<1>4. StillComing(n, s)
  BY <1>1, <1>3 DEF StillComing, Overtaken, D!Receiving
<1> QED BY <1>1, <1>2, <1>4, Calmed

(* The session keeps its handshake and its queue. *)
LEMMA ApartKeeps ==
  ASSUME EndsInv, NEW n \in Conns, NEW s \in Sessions, s = SessionOf(n),
         NEW N \in SUBSET Conns, Order(s, N), Handshaking(n, s), ControllerIdle,
         UNCHANGED via, peer'[s] \in {peer[s], NoConn},
         hs'[s] = hs[s], deviceKey'[s] = deviceKey[s], offered'[s] = offered[s],
         down'[s] = down[s],
         \/ up'[n] = up[n]
         \/ up[n] # <<>> /\ up'[n] = Tail(up[n]) /\ (Linked(n) => ~D!Receiving(s)),
         D!Paired(s) /\ ~D!Receiving(s) /\ Linked(n)' => ~D!Receiving(s)'
  PROVE  Handshaking(n, s)'
<1>1. CalmController(n) /\ UpCalm(n) /\ DownCalm(s) /\ (Linked(n)' => Linked(n))
  BY QuietController, CalmUp, CalmDown DEF DownQuiet
<1>2. SameHandshake(s) /\ SameCounter(s)
  BY DEF SameHandshake, SameCounter
<1>3. StillComing(n, s)
  BY <1>1 DEF StillComing, Overtaken
<1> QED BY <1>1, <1>2, <1>3, Calmed

LEMMA NetworkKeeps ==
  ASSUME EndsInv, WorldInv, NEW n \in Conns, NEW s \in Sessions, s = SessionOf(n),
         NEW N \in SUBSET Conns, Order(s, N), Handshaking(n, s),
         NEW m \in Conns, Leaves(m) \/ Lost(m)
  PROVE  Handshaking(n, s)'
<1>1. /\ ControllerIdle /\ UNCHANGED <<via, hs, deviceKey, offered, down>>
      /\ peer'[s] \in {peer[s], NoConn}
  BY DEF Leaves, Lost, DeviceIdle, device, history, D!Disconnect, D!sessionVars, EndsInv,
         WorldTypes
<1>2. CASE Leaves(m)
  <2>1. up' = up /\ peer' = [peer EXCEPT ![SessionOf(m)] = NoConn] /\ peer[SessionOf(m)] = m
    BY <1>2 DEF Leaves, Joined
  <2>2. Linked(n)' => link'[s] = link[s]
    <3>1. CASE SessionOf(m) = s
      BY <1>1, <2>1, <3>1 DEF Linked, SessionOf, NoConn, Conns, EndsInv, WorldTypes
    <3>2. CASE SessionOf(m) # s
      BY <1>2, <3>2
      DEF Leaves, D!Disconnect, DeviceIdle, device, SessionOf, EndsInv, D!DeviceInv, D!TypeOK
    <3> QED BY <3>1, <3>2
  <2> QED BY <1>1, <2>1, <2>2, ApartKeeps DEF D!Receiving
<1>3. CASE Lost(m)
  <2>1. link' = link /\ up[m] # <<>> /\ up' = [up EXCEPT ![m] = Tail(@)]
        /\ ~(Joined(m) /\ D!Receiving(SessionOf(m)))
    BY <1>3 DEF Lost, DeviceIdle, device
  <2>2. \/ up'[n] = up[n]
        \/ up[n] # <<>> /\ up'[n] = Tail(up[n]) /\ (Linked(n) => ~D!Receiving(s))
    BY <2>1, QueueTypes DEF Joined, Linked
  <2> QED BY <1>1, <2>1, <2>2, ApartKeeps DEF D!Receiving
<1> QED BY <1>2, <1>3

LEMMA AloneKeeps ==
  ASSUME EndsInv, WorldInv, NEW n \in Conns, NEW s \in Sessions, s = SessionOf(n),
         NEW N \in SUBSET Conns, Order(s, N), Handshaking(n, s), DeviceAlone
  PROVE  Handshaking(n, s)'
<1>1. /\ ControllerIdle /\ UNCHANGED <<via, up, peer, hs, deviceKey, offered, down>>
  BY DEF DeviceAlone, network, history, D!NewPin, D!ClockTicks, D!Local, D!Connect,
         D!Disconnect, D!sessionVars
<1>2. D!Paired(s) /\ ~D!Receiving(s) => ~D!Receiving(s)'
  <2>1. link \in [Sessions -> {"new", "open", "closing", "closed"}]
    BY DEF EndsInv, D!DeviceInv, D!TypeOK
  <2>2. D!Paired(s) => link[s] # "new"
    BY DEF WorldInv, D!Paired
  <2>3. link' = link \/ (link[Host] = "new" /\ link' = [link EXCEPT ![Host] = "open"])
        \/ link' = [link EXCEPT ![Host] = "closed"]
    BY DEF DeviceAlone, D!NewPin, D!ClockTicks, D!Local, D!Connect, D!Disconnect
  <2> QED BY <2>1, <2>2, <2>3 DEF D!Receiving
<1> QED BY <1>1, <1>2, ApartKeeps

-------------------------------------------------------------------------------
(* The one socket stays the one it was, but for connect *)

LEMMA SoleMoves ==
  ASSUME EndsInv, ControllerMoves \/ ControllerIdle, ~C!Connect(via), ws' # C!NoSocket
  PROVE  ws' = ws /\ \A n \in Conns \ {ws} : C!IsOpen(n) => C!IsOpen(n)'
<1>1. ASSUME ws' = ws, sock' \in {sock, C!WsClosed}
      PROVE  ws' = ws /\ \A n \in Conns \ {ws} : C!IsOpen(n) => C!IsOpen(n)'
  BY <1>1, SocketTypes DEF C!WsClosed, C!IsOpen
<1>2. CASE C!Disconnect
  BY <1>2 DEF C!Disconnect
<1>3. ASSUME NEW n \in Conns, C!OnClose(n) PROVE FALSE
  BY <1>3 DEF C!OnClose
<1>4. ASSUME NEW m \in Conns, C!OnOpen(m)
      PROVE  ws' = ws /\ \A n \in Conns \ {ws} : C!IsOpen(n) => C!IsOpen(n)'
  <2>1. ws' = ws /\ sock' = [sock EXCEPT ![m].state = "open"]
    BY <1>4 DEF C!OnOpen
  <2>2. \A n \in Conns : sock[n].state = "open" => sock'[n].state = "open"
    BY <2>1, SocketTypes
  <2> QED BY <2>1, <2>2 DEF C!IsOpen
<1>5. ASSUME NEW m, NEW f, C!OnMessage(m, f), ~C!Disconnect
      PROVE  ws' = ws /\ sock' = sock
  BY <1>5 DEF C!OnMessage, C!HandleChallenge, C!HandlePinAck, C!HandlePinNack, C!HandleKeyx,
              C!HandleOther, C!HandleEncrypted
<1>6. CASE \/ C!HelloTimer \/ C!SendCommand
           \/ \E pin \in Pins : C!SubmitPin(pin)
           \/ \E c \in Calls : C!CommandTimeout(c)
  <2>1. ws' = ws /\ sock' \in {sock, C!WsClosed}
    BY <1>6 DEF C!HelloTimer, C!SendCommand, C!SubmitPin, C!CommandTimeout
  <2> QED BY <1>1, <2>1
<1>7. CASE ControllerIdle
  BY <1>1, <1>7 DEF ControllerIdle, controller
<1> QED BY <1>1, <1>2, <1>3, <1>4, <1>5, <1>6, <1>7 DEF ControllerMoves

LEMMA StepOfController ==
  ASSUME EndsInv, WorldInv, [Next]_vars
  PROVE  ControllerMoves \/ ControllerIdle \/ UNCHANGED vars
BY MovingController DEF Next, Leaves, Lost, Handles, Settles, DeviceAlone

LEMMA SoleKept ==
  ASSUME EndsInv, WorldInv, [Next]_vars, ~C!Connect(via), SoleSocket'
  PROVE  SoleSocket /\ ws' = ws /\ ws \in Conns
<1>1. ws' # C!NoSocket /\ \A n \in Conns : C!IsOpen(n)' => n = ws'
  BY DEF SoleSocket, C!NoSocket
<1>2. ws' = ws /\ \A n \in Conns \ {ws} : C!IsOpen(n) => C!IsOpen(n)'
  <2>1. CASE UNCHANGED vars
    BY <2>1 DEF vars, controller, C!IsOpen
  <2>2. CASE ControllerMoves \/ ControllerIdle
    BY <1>1, <2>2, SoleMoves
  <2> QED BY <2>1, <2>2, StepOfController
<1> QED BY <1>1, <1>2, SocketTypes DEF SoleSocket

LEMMA HandshakingStep ==
  ASSUME EndsInv, WorldInv, [Next]_vars, ~C!Connect(via), SoleSocket, SoleSocket', ws' = ws,
         NEW n \in Conns, ws = n, NEW s \in Sessions, s = SessionOf(n),
         NEW N \in SUBSET Conns, n \in N, Order(s, N), Handshaking(n, s),
         \A m \in Conns : Handles(m) /\ SessionOf(m) = s =>
           /\ pending # NoSlot /\ Head(up[m]).type \in {"hello", "pin_verify"}
                => ~D!Paired(s)
           /\ (pending # NoSlot /\ Head(up[m]).type = "hello") \/ m # n =>
                (salt # NoSalt \/ pairingSecret # NoSecret \/ clientKey # NoKey
                   => offered[s] = minted)
  PROVE  Handshaking(n, s)'
<1>1. CASE UNCHANGED vars
  <2>1. UNCHANGED <<sock, ws, state, salt, pairingSecret, clientKey, sendSeq, via, peer, hs,
                    deviceKey, offered, up, down, link>>
    BY <1>1 DEF vars, controller, device, network, history
  <2> QED
    BY <2>1 DEF Handshaking, Beginning, Salted, Typed, AckComing, Acked, IsAgreed, Stays, Heard,
                Linked, SessionOf, C!IsOpen, SamePin, Overtaken, Answering, Agreed, D!Paired,
                D!Receiving
<1>2. ASSUME NEW m \in Conns, Opens(m) PROVE Handshaking(n, s)'
  <2>1. sock'[m].state = "open" /\ m # C!NoSocket
    BY <1>2, SocketTypes DEF Opens, C!OnOpen
  <2>2. m = n
    BY <2>1 DEF SoleSocket, C!IsOpen, C!NoSocket
  <2> QED BY <1>2, <2>2, OpenKeeps
<1>3. ASSUME NEW m \in Conns, Closes(m) PROVE FALSE
  BY <1>3, SocketTypes DEF Closes, C!OnClose
<1>4. ASSUME NEW m \in Conns, Leaves(m) \/ Lost(m) PROVE Handshaking(n, s)'
  BY <1>4, NetworkKeeps
<1>5. ASSUME NEW m \in Conns, Handles(m) PROVE Handshaking(n, s)'
  <2>1. CASE SessionOf(m) = s
    BY <1>5, <2>1, HandlesKeeps
  <2>2. CASE SessionOf(m) # s
    <3>1. Takes(m, SessionOf(m)) /\ ControllerIdle /\ m # n
      BY <1>5, <2>2, Handling DEF Handles
    <3>2. /\ UNCHANGED <<via, peer, link>> /\ up'[n] = up[n]
          /\ hs'[s] = hs[s] /\ deviceKey'[s] = deviceKey[s] /\ offered'[s] = offered[s]
          /\ down'[s] = down[s]
      BY <2>2, <3>1, QueueTypes DEF Takes
    <3> QED BY <3>1, <3>2, ApartKeeps DEF D!Receiving
  <2> QED BY <2>1, <2>2
<1>6. ASSUME NEW r \in Sessions, Settles(r) PROVE Handshaking(n, s)'
  BY <1>6, SettleKeeps
<1>7. CASE DeviceAlone
  BY <1>7, AloneKeeps
<1>8. ASSUME NEW r \in Sessions, Receives(r) PROVE Handshaking(n, s)'
  <2>1. CASE r = s /\ Linked(n)
    BY <1>8, <2>1, Delivering, HeardKeeps
  <2>2. CASE ~(r = s /\ Linked(n))
    <3>1. peer[r] # NoConn => peer[r] \in Conns /\ (C!IsOpen(peer[r]) => peer[r] = n)
      BY DEF EndsInv, WorldTypes, SoleSocket
    <3>2. peer[r] = n => r = s
      BY DEF WorldInv, DirectInv, RelayedInv, SessionOf, EndsInv, WorldTypes, C!Modes, NoConn, Conns
    <3>3. ControllerIdle /\ up' = up
      BY <1>8, <2>2, <3>1, <3>2 DEF Receives, Linked
    <3>4. /\ UNCHANGED <<via, peer, link, hs, deviceKey, offered>>
          /\ down[r] # <<>> /\ down' = [down EXCEPT ![r] = Tail(@)]
      BY <1>8 DEF Receives, DeviceIdle, device, history
    <3>5. CASE r # s
      BY <3>3, <3>4, <3>5, QueueTypes, ApartKeeps DEF D!Receiving
    <3>6. CASE r = s
      <4>1. down'[s] = Tail(down[s]) /\ down[s] # <<>>
        BY <3>4, <3>6, QueueTypes
      <4>2. CalmController(n) /\ UpCalm(n) /\ DownCalm(s) /\ ~Linked(n)'
        BY <2>2, <3>3, <3>4, <3>6, <4>1, QuietController, CalmUp, CalmDown DEF DownQuiet
      <4>3. SameHandshake(s) /\ SameCounter(s) /\ StillComing(n, s)
        BY <3>4, <4>2, Untouched DEF StillComing
      <4> QED BY <3>4, <4>2, <4>3, Calmed
    <3> QED BY <3>5, <3>6
  <2> QED BY <2>1, <2>2
<1>9. CASE Sends
  <2>1. Alone /\ state = "ready" /\ C!SendCommand
    BY <1>9 DEF Sends, Alone, DeviceIdle, device
  <2> QED BY <2>1, SendKeeps
<1>10. CASE ControllerAlone
  <2>1. Alone
    BY <1>10 DEF ControllerAlone, Alone, DeviceIdle, device, history
  <2>2. ~C!Disconnect
    BY SocketTypes DEF C!Disconnect
  <2> QED BY <1>10, <2>1, <2>2, PinKeeps, HelloKeeps, TimeoutKeeps DEF ControllerAlone, User
<1> QED BY <1>1, <1>2, <1>3, <1>4, <1>5, <1>6, <1>7, <1>8, <1>9, <1>10 DEF Next

-------------------------------------------------------------------------------
(* A direct handshake stays in one place                                   *)

(* Queue r has no frame of these types that q had not, and none twice that *)
(* q had once.                                                             *)
Sparing(r, q, T) ==
  \A t \in T : (Has(r, t) => Has(q, t)) /\ (Once(q, t) => Once(r, t))

LEMMA SparingFacts ==
  ASSUME NEW S, NEW q \in Seq(S), NEW T, NEW r,
         \/ r \in {q, <<>>}
         \/ q # <<>> /\ r = Tail(q)
         \/ \E g \in S : g.type \notin T /\ r = Append(q, g)
  PROVE  Sparing(r, q, T)
<1>1. CASE r \in {q, <<>>}
  BY <1>1, Emptied DEF Sparing
<1>2. CASE q # <<>> /\ r = Tail(q)
  BY <1>2, Popped DEF Sparing
<1>3. ASSUME NEW g \in S, g.type \notin T, r = Append(q, g) PROVE Sparing(r, q, T)
  BY <1>3, Appended DEF Sparing
<1> QED BY <1>1, <1>2, <1>3

Asking   == {"hello", "pin_verify"}
Replying == {"challenge", "pin_nack"}

LEMMA ExclusiveQuiet ==
  ASSUME NEW n, Exclusive(n), D!Paired(n)' => D!Paired(n),
         Sparing(up'[n], up[n], Asking), Sparing(down'[n], down[n], Replying),
         state' = "challenge" => state = "challenge",
         Has(up[n], "hello") => UNCHANGED <<salt, pairingSecret, clientKey>>
  PROVE  Exclusive(n)'
BY DEF Exclusive, Sparing, Asking, Replying

(* The session takes the one hello or PIN there is. *)
LEMMA Asked ==
  ASSUME EndsInv, NEW n \in Conns, Exclusive(n), up[n] # <<>>, Head(up[n]).type \in Asking
  PROVE  /\ \A t \in Asking : ~Has(Tail(up[n]), t)
         /\ \A t \in Replying : ~Has(down[n], t)
         /\ state # "challenge" /\ ~D!Paired(n)
<1>1. \A t : /\ Has(up[n], t) <=> Head(up[n]).type = t \/ Has(Tail(up[n]), t)
             /\ Once(up[n], t) => (Head(up[n]).type = t => ~Has(Tail(up[n]), t))
  BY QueueTypes, Popped
<1> QED BY <1>1 DEF Exclusive, Asking, Replying

LEMMA ExclusiveTaken ==
  ASSUME EndsInv, NEW n \in Sessions, Exclusive(n), Takes(n, n), Moves(n, n, Head(up[n]))
  PROVE  Exclusive(n)'
<1> DEFINE f == Head(up[n])
<1>1. /\ n \in Conns /\ up[n] # <<>> /\ up'[n] = Tail(up[n])
      /\ up[n] \in Seq(UpFrames) /\ down[n] \in Seq(DownFrames)
      /\ UNCHANGED <<state, salt, pairingSecret, clientKey>>
      /\ state' = "challenge" => state = "challenge"
  BY QueueTypes DEF Takes, Sessions, controller
<1>2. Sparing(up'[n], up[n], Asking)
  BY <1>1, SparingFacts
<1>3. ASSUME D!Paired(n)' => D!Paired(n), Sparing(down'[n], down[n], Replying)
      PROVE  Exclusive(n)'
  BY <1>1, <1>2, <1>3, ExclusiveQuiet
<1> HIDE DEF f
<1>4. ASSUME f.type \in Asking
      PROVE  /\ \A t \in Asking : ~Has(up'[n], t) /\ Once(up'[n], t)
             /\ \A t \in Replying : ~Has(down[n], t)
             /\ state' # "challenge" /\ ~D!Paired(n)
  <2>1. /\ \A t \in Asking : ~Has(Tail(up[n]), t)
        /\ \A t \in Replying : ~Has(down[n], t)
        /\ state # "challenge" /\ ~D!Paired(n)
    BY <1>1, <1>4, Asked DEF f
  <2> QED BY <1>1, <2>1, WithoutIt
<1>5. ASSUME f.type \in Asking, ~D!Paired(n)', NEW g \in DownFrames, g.type \in Replying,
             down'[n] = Append(down[n], g)
      PROVE  Exclusive(n)'
  <2>1. \A t \in Replying : Has(down'[n], t) => t = g.type
    BY <1>1, <1>4, <1>5, Appended
  <2>2. \A t \in Replying : Once(down'[n], t)
    <3>1. \A t \in Replying : ~Has(down[n], t) /\ Once(down[n], t)
      BY <1>4, <1>5, WithoutIt
    <3> QED BY <1>1, <1>5, <3>1, Appended
  <2> QED BY <1>4, <1>5, <2>1, <2>2 DEF Exclusive, Asking, Replying
<1>6. CASE Refuses(n, f)
  <2>1. D!Paired(n)' <=> D!Paired(n)
    BY <1>6, PairedSame DEF Refuses
  <2>2. CASE down'[n] = down[n]
    BY <1>1, <1>3, <2>1, <2>2, SparingFacts
  <2>3. CASE \E g \in DownFrames : g.type = "error" /\ down'[n] = Append(down[n], g)
    BY <1>1, <1>3, <2>1, <2>3, SparingFacts DEF Replying
  <2>4. CASE f.type = "pin_verify" /\ down'[n] = Append(down[n], PinNackFrame)
    BY <1>4, <1>5, <2>1, <2>4, AnswerTypes DEF Asking, Replying
  <2> QED BY <1>6, <2>2, <2>3, <2>4 DEF Refuses
<1>7. CASE Welcomes(n, f)
  <2>1. /\ f.type \in Asking /\ ~D!Paired(n)'
        /\ down'[n] = Append(down[n], ChallengeFrame(minted)) /\ pending # NoSlot
    BY <1>7 DEF Welcomes, Asking
  <2>2. ChallengeFrame(minted) \in DownFrames /\ ChallengeFrame(minted).type \in Replying
    BY <2>1, PendingSalt DEF DownFrames, ChallengeFrame, Replying
  <2> QED BY <1>5, <2>1, <2>2
<1>8. CASE Accepts(n, n, f)
  <2>1. f.type \in Asking
    BY <1>8 DEF Accepts, Asking
  <2>2. PICK k : down'[n] = Append(down[n], PinAckFrame(k))
    BY <1>8 DEF Accepts
  <2>3. \A t \in Replying : ~Has(down'[n], t) /\ Once(down'[n], t)
    <3>1. \A t \in Replying : ~Has(down'[n], t)
      BY <1>1, <1>4, <2>1, <2>2, AnswerTypes, Appended DEF Replying
    <3> QED BY <3>1, WithoutIt
  <2> QED BY <1>4, <2>1, <2>3 DEF Exclusive, Asking, Replying
<1>9. CASE Derives(n, n, f)
  <2>1. D!Paired(n)' <=> D!Paired(n)
    BY <1>9, PairedSame DEF Derives
  <2> DEFINE k == KeyxFrame(hs[n].serverKeys)
  <2>2. k \in DownFrames /\ k.type = "keyx"
        /\ down'[n] = Append(Append(down[n], k), ReadyFrame)
    BY <1>9, AnswerTypes DEF Derives
  <2> HIDE DEF k
  <2>3. Append(down[n], k) \in Seq(DownFrames) /\ Sparing(Append(down[n], k), down[n], Replying)
    BY <1>1, <2>2, SparingFacts, AppendFacts DEF Replying
  <2>4. Sparing(down'[n], Append(down[n], k), Replying)
    BY <2>2, <2>3, SparingFacts, AnswerTypes DEF Replying
  <2> QED BY <1>3, <2>1, <2>3, <2>4 DEF Sparing
<1>10. CASE Decrypts(n, f)
  BY <1>1, <1>3, <1>10, PairedSame, SparingFacts DEF Decrypts
<1> QED BY <1>6, <1>7, <1>8, <1>9, <1>10 DEF Moves, f

LEMMA ExclusiveHeard ==
  ASSUME EndsInv, NEW n \in Sessions, Exclusive(n), Delivers(n, n), Hears(Head(down[n]))
  PROVE  Exclusive(n)'
<1> DEFINE f == Head(down[n])
<1>1. /\ n \in Conns /\ down[n] # <<>> /\ down'[n] = Tail(down[n]) /\ up' = Upward
      /\ up[n] \in Seq(UpFrames) /\ down[n] \in Seq(DownFrames)
      /\ UNCHANGED hs /\ clientKeys = n
  BY QueueTypes DEF Delivers, Sessions
<1>2. (D!Paired(n)' <=> D!Paired(n)) /\ Sparing(down'[n], down[n], Replying)
  BY <1>1, SparingFacts DEF D!Paired
<1> HIDE DEF f
<1>3. \A t \in Replying : /\ Has(down[n], t) <=> f.type = t \/ Has(down'[n], t)
                          /\ f.type = t => ~Has(down'[n], t)
  BY <1>1, Popped DEF f, Exclusive, Replying
<1>4. CASE f.type \in Replying /\ C!Silent
  <2>1. up' = up
    BY <1>1, <1>4, PostingNothing
  <2>2. /\ \A t \in Replying : ~Has(down'[n], t) /\ Once(down'[n], t)
        /\ \A t \in Asking : ~Has(up[n], t)
    <3>1. \A t \in Asking : ~Has(up[n], t)
      BY <1>3, <1>4 DEF Exclusive, Asking, Replying
    <3>2. \A t \in Replying : ~Has(down'[n], t)
      BY <1>3, <1>4 DEF Exclusive, Replying
    <3> QED BY <3>1, <3>2, WithoutIt
  <2>3. ~D!Paired(n)
    BY <1>3, <1>4 DEF Exclusive, Replying
  <2>4. Once(up[n], "hello") /\ Once(up[n], "pin_verify")
    BY DEF Exclusive
  <2> QED BY <1>2, <2>1, <2>2, <2>3, <2>4 DEF Exclusive, Asking, Replying
<1>5. ASSUME C!Silent \/ C!Send(KeyxFrame(n)), state' = "challenge" => state = "challenge",
             Has(up[n], "hello") => UNCHANGED <<salt, pairingSecret, clientKey>>
      PROVE  Exclusive(n)'
  <2>1. CASE C!Silent
    BY <1>1, <1>2, <1>5, <2>1, PostingNothing, SparingFacts, ExclusiveQuiet
  <2>2. CASE C!Send(KeyxFrame(n))
    <3>1. up'[n] = up[n] \/ up'[n] = Append(up[n], KeyxFrame(n))
      BY <1>1, <2>2, Posting DEF Posts
    <3>2. KeyxFrame(n) \in UpFrames /\ KeyxFrame(n).type \notin Asking
      BY <1>1, AnswerTypes DEF UpFrames, Asking
    <3>3. Sparing(up'[n], up[n], Asking)
      BY <1>1, <3>1, <3>2, SparingFacts
    <3> QED BY <1>2, <1>5, <3>3, ExclusiveQuiet
  <2> QED BY <1>5, <2>1, <2>2
<1>6. CASE f.type = "challenge" /\ C!HandleChallenge(f)
  BY <1>4, <1>6 DEF C!HandleChallenge, Replying
<1>7. CASE f.type = "pin_nack" /\ C!HandlePinNack
  BY <1>4, <1>7 DEF C!HandlePinNack, Replying
<1>8. CASE f.type = "pin_ack" /\ C!HandlePinAck(f)
  BY <1>1, <1>5, <1>8, ControllerFrames DEF C!HandlePinAck
<1>9. CASE f.type = "keyx" /\ C!HandleKeyx(f)
  <2>1. Has(up[n], "hello") => UNCHANGED <<salt, pairingSecret, clientKey>>
    BY <1>9 DEF C!HandleKeyx, Exclusive
  <2> QED BY <1>5, <1>9, <2>1 DEF C!HandleKeyx
<1>10. CASE f.type = "enc" /\ C!HandleEncrypted(f)
  BY <1>5, <1>10 DEF C!HandleEncrypted, C!handshake
<1>11. CASE f.type \in {"ready", "error"} /\ C!HandleOther(f)
  BY <1>5, <1>11 DEF C!HandleOther, C!handshake
<1> QED BY <1>6, <1>7, <1>8, <1>9, <1>10, <1>11 DEF Hears, f

LEMMA ExclusiveOpens ==
  ASSUME EndsInv, WorldInv, via = "direct", NEW n \in Sessions, ws = n, Beginning(n), Opens(n)
  PROVE  Exclusive(n)'
<1>1. /\ sock[n].state = "connecting" /\ n \in Conns
      /\ UNCHANGED <<state, salt, pairingSecret, clientKey, hs, down>> /\ up' = Upward
      /\ clientSent' = <<>> \/ clientSent' = <<n, HelloFrame(Version)>>
  <2>1. C!OnOpen(n) /\ up' = Upward /\ n \in Conns
    BY DEF Opens, Sessions
  <2>2. UNCHANGED <<hs, down>>
    BY DEF Opens, DeviceIdle, device, D!Connect, D!sessionVars
  <2>3. sock[n].state = "connecting" /\ UNCHANGED <<state, salt, pairingSecret, clientKey>>
    BY <2>1 DEF C!OnOpen, C!handshake
  <2>4. clientSent' = <<>> \/ clientSent' = <<n, HelloFrame(Version)>>
    BY <2>1, ControllerFrames DEF C!OnOpen
  <2> QED BY <2>1, <2>2, <2>3, <2>4
<1>2. up[n] = <<>> /\ down[n] = <<>> /\ ~D!Paired(n)
  BY <1>1 DEF WorldInv, Unopened, Sessions, D!Paired
<1>3. /\ state = "connecting" /\ salt = NoSalt /\ pairingSecret = NoSecret
      /\ clientKey = NoKey
  BY <1>1 DEF Beginning
<1>4. HelloFrame(Version) \in UpFrames /\ HelloFrame(Version).type = "hello"
  BY DEF UpFrames, HelloFrame
<1>5. up'[n] = up[n] \/ up'[n] = Append(up[n], HelloFrame(Version))
  BY <1>1, QueueTypes DEF Upward
<1>6. ~Has(up'[n], "pin_verify") /\ Once(up'[n], "hello") /\ Once(up'[n], "pin_verify")
  <2>1. \A t : ~Has(up[n], t) /\ Once(up[n], t)
    BY <1>2, Emptied
  <2>2. /\ ~Has(Append(up[n], HelloFrame(Version)), "pin_verify")
        /\ \A t : Once(Append(up[n], HelloFrame(Version)), t)
    BY <1>1, <1>4, <2>1, QueueTypes, Appended
  <2> QED BY <1>5, <2>1, <2>2
<1>7. \A t : ~Has(down'[n], t) /\ Once(down'[n], t)
  BY <1>1, <1>2, Emptied
<1> QED BY <1>1, <1>2, <1>3, <1>6, <1>7 DEF Exclusive, D!Paired

LEMMA ExclusivePin ==
  ASSUME EndsInv, NEW n \in Sessions, ws = n, Exclusive(n), Alone, state = "challenge",
         NEW pin \in Pins, C!SubmitPin(pin)
  PROVE  Exclusive(n)'
<1> DEFINE g == PinVerifyFrame(pin, clientKeys)
<1>1. n \in Conns /\ state' = "pin_sent" /\ UNCHANGED <<hs, down>> /\ C!Send(g)
  BY ControllerFrames DEF C!SubmitPin, Alone, Sessions
<1>2. g.type = "pin_verify" /\ Posts(g)
  BY <1>1, Posting DEF Alone, PinVerifyFrame
<1> HIDE DEF g
<1>3. up'[n] = up[n] \/ up'[n] = Append(up[n], g)
  BY <1>1, <1>2 DEF Posts
<1>4. /\ \A t \in Asking : ~Has(up[n], t) /\ Once(up[n], t)
      /\ \A t \in Replying : ~Has(down[n], t) /\ Once(down[n], t)
      /\ ~D!Paired(n)
  BY WithoutIt DEF Exclusive, Asking, Replying
<1>5. ~Has(up'[n], "hello") /\ Once(up'[n], "hello") /\ Once(up'[n], "pin_verify")
  <2>1. /\ ~Has(Append(up[n], g), "hello") /\ Once(Append(up[n], g), "hello")
        /\ Once(Append(up[n], g), "pin_verify")
    BY <1>1, <1>2, <1>4, QueueTypes, Appended DEF Asking
  <2> QED BY <1>3, <1>4, <2>1 DEF Asking
<1> QED BY <1>1, <1>4, <1>5 DEF Exclusive, Replying, D!Paired

(* Steps that add nothing to it. *)
LEMMA ExclusiveApart ==
  ASSUME NEW n, Exclusive(n), SameHandshake(n),
         UNCHANGED <<state, salt, pairingSecret, clientKey>>,
         Sparing(up'[n], up[n], Asking), Sparing(down'[n], down[n], Replying)
  PROVE  Exclusive(n)'
BY ExclusiveQuiet DEF D!Paired, SameHandshake

LEMMA ExclusiveNetwork ==
  ASSUME EndsInv, NEW n \in Sessions, Exclusive(n),
         DeviceAlone \/ \E m \in Conns : Leaves(m) \/ Lost(m)
  PROVE  Exclusive(n)'
<1>1. UNCHANGED <<state, salt, pairingSecret, clientKey>> /\ UNCHANGED <<hs, down>>
  BY DEF DeviceAlone, network, Leaves, Lost, DeviceIdle, device, D!Disconnect, D!Connect,
         D!NewPin, D!ClockTicks, D!Local, D!sessionVars, ControllerIdle, controller
<1>2. up'[n] = up[n] \/ (up[n] # <<>> /\ up'[n] = Tail(up[n]))
  BY QueueTypes DEF DeviceAlone, network, Leaves, Lost, Sessions
<1>3. Sparing(up'[n], up[n], Asking) /\ Sparing(down'[n], down[n], Replying)
  BY <1>1, <1>2, QueueTypes, SparingFacts DEF Sessions
<1> QED BY <1>1, <1>3, ExclusiveApart, Untouched

LEMMA ExclusiveSettles ==
  ASSUME EndsInv, NEW n \in Sessions, Exclusive(n), NEW r \in Sessions, Settles(r)
  PROVE  Exclusive(n)'
<1>1. /\ UNCHANGED <<state, salt, pairingSecret, clientKey, up>>
      /\ \A q \in Sessions \ {r} : hs'[q] = hs[q] /\ down'[q] = down[q]
      /\ SameHandshake(r)
      /\ \/ down'[r] = down[r]
         \/ \E g \in DownFrames : g.type = "enc" /\ down'[r] = Append(down[r], g)
  BY Settling DEF ControllerIdle, controller
<1>2. SameHandshake(n)
  BY <1>1 DEF SameHandshake
<1>3. Sparing(down'[n], down[n], Replying)
  <2>1. \/ down'[n] = down[n]
        \/ \E g \in DownFrames : g.type \notin Replying /\ down'[n] = Append(down[n], g)
    BY <1>1 DEF Replying
  <2> QED BY <2>1, QueueTypes, SparingFacts
<1>4. Sparing(up'[n], up[n], Asking)
  BY <1>1, QueueTypes, SparingFacts DEF Sessions
<1> QED BY <1>1, <1>2, <1>3, <1>4, ExclusiveApart

LEMMA CommandPosted ==
  ASSUME EndsInv, C!SendCommand
  PROVE  C!Silent \/ \E g \in UpFrames : g.type = "enc" /\ C!Send(g)
<1> DEFINE g == EncFrame(clientKey, sendSeq + 1, Cmd(Len(promise) + 1))
<1>1. CASE C!IsReady
  <2>1. C!Send(g) /\ clientKey # NoKey /\ Len(promise) < MaxIds
    BY <1>1, ControllerFrames DEF C!SendCommand, C!IsReady
  <2>2. clientKey \in D!Keys
    BY <2>1 DEF EndsInv, C!TransportInv, C!TypeOK, C!Keys, D!Keys, C!Conns, Conns, C!Secrets,
                D!Secrets, D!Salts
  <2>3. sendSeq + 1 \in 1..MaxIds /\ Len(promise) + 1 \in Calls
    <3>1. /\ sendSeq \in Nat /\ sendSeq <= Len(promise) /\ Len(promise) \in Nat
      BY DEF EndsInv, C!TransportInv, C!TypeOK, C!CountedInv
    <3> QED BY <2>1, <3>1, EndToEndAssumption DEF Calls
  <2>4. g \in UpFrames /\ g.type = "enc"
    BY <2>2, <2>3 DEF UpFrames, EncFrame
  <2> QED BY <2>1, <2>4
<1>2. CASE ~C!IsReady
  BY <1>2 DEF C!SendCommand
<1> QED BY <1>1, <1>2

LEMMA ExclusiveStep ==
  ASSUME EndsInv, WorldInv, [Next]_vars, ~C!Connect(via), SoleSocket, SoleSocket', ws' = ws,
         via = "direct", NEW n \in Sessions, ws = n, Exclusive(n), Beginning(n)
  PROVE  Exclusive(n)'
<1>0. n \in Conns /\ \A m \in Conns : SessionOf(m) = m
  BY DEF Sessions, SessionOf
<1>1. CASE UNCHANGED vars
  <2>1. UNCHANGED <<state, salt, pairingSecret, clientKey, hs, up, down>>
    BY <1>1 DEF vars, controller, device, network
  <2> QED BY <2>1 DEF Exclusive, D!Paired
<1>2. ASSUME NEW m \in Conns, Opens(m) PROVE Exclusive(n)'
  <2>1. sock'[m].state = "open" /\ m # C!NoSocket
    BY <1>2, SocketTypes DEF Opens, C!OnOpen
  <2>2. m = n
    BY <2>1 DEF SoleSocket, C!IsOpen, C!NoSocket
  <2> QED BY <1>2, <2>2, ExclusiveOpens
<1>3. ASSUME NEW m \in Conns, Closes(m) PROVE FALSE
  <2>1. ws' = 0
    BY <1>3, SocketTypes DEF Closes, C!OnClose
  <2> QED BY <1>0, <2>1, SocketTypes
<1>4. ASSUME NEW m \in Conns, Handles(m) PROVE Exclusive(n)'
  <2>1. Takes(m, m) /\ Moves(m, m, Head(up[m]))
    BY <1>0, <1>4, Handling
  <2>2. CASE m = n
    BY <2>1, <2>2, ExclusiveTaken
  <2>3. CASE m # n
    <3>1. /\ UNCHANGED <<state, salt, pairingSecret, clientKey>>
          /\ up'[n] = up[n] /\ hs'[n] = hs[n] /\ down'[n] = down[n]
      BY <1>0, <2>1, <2>3, QueueTypes DEF Takes, controller
    <3>2. Sparing(up'[n], up[n], Asking) /\ Sparing(down'[n], down[n], Replying)
      BY <1>0, <3>1, QueueTypes, SparingFacts
    <3>3. SameHandshake(n)
      BY <3>1 DEF SameHandshake
    <3> QED BY <3>1, <3>2, <3>3, ExclusiveApart
  <2> QED BY <2>2, <2>3
<1>5. ASSUME NEW r \in Sessions, Receives(r) PROVE Exclusive(n)'
  <2>1. CASE r = n /\ Linked(n)
    BY <1>0, <1>5, <2>1, Delivering, ExclusiveHeard
  <2>2. CASE ~(r = n /\ Linked(n))
    <3>1. peer[r] \in {r, NoConn} /\ (C!IsOpen(r) => r = n)
      BY DEF WorldInv, DirectInv, SoleSocket, Sessions
    <3>2. ControllerIdle /\ up' = up
      BY <1>0, <1>5, <2>2, <3>1 DEF Receives, Linked
    <3>3. /\ UNCHANGED hs /\ down[r] # <<>> /\ down' = [down EXCEPT ![r] = Tail(@)]
      BY <1>5 DEF Receives, DeviceIdle, device
    <3>4. down'[n] = down[n] \/ (down[n] # <<>> /\ down'[n] = Tail(down[n]))
      BY <3>3, QueueTypes
    <3>5. Sparing(up'[n], up[n], Asking) /\ Sparing(down'[n], down[n], Replying)
      BY <1>0, <3>2, <3>4, QueueTypes, SparingFacts
    <3> QED BY <3>2, <3>3, <3>5, ExclusiveApart, Untouched DEF ControllerIdle, controller
  <2> QED BY <2>1, <2>2
<1>6. ASSUME Alone, UNCHANGED <<salt, pairingSecret, clientKey>>,
             state' = "challenge" => state = "challenge",
             C!Silent \/ \E g \in UpFrames : g.type = "enc" /\ C!Send(g)
      PROVE  Exclusive(n)'
  <2>1. up'[n] = up[n] \/ \E g \in UpFrames : g.type \notin Asking /\ up'[n] = Append(up[n], g)
    <3>1. CASE C!Silent
      BY <1>6, <3>1, PostingNothing DEF Alone
    <3>2. ASSUME NEW g \in UpFrames, g.type = "enc", C!Send(g)
          PROVE  up'[n] = up[n] \/ up'[n] = Append(up[n], g)
      BY <1>0, <1>6, <3>2, Posting DEF Alone, Posts
    <3> QED BY <1>6, <3>1, <3>2 DEF Asking
  <2>2. Sparing(up'[n], up[n], Asking) /\ Sparing(down'[n], down[n], Replying)
    BY <1>0, <1>6, <2>1, QueueTypes, SparingFacts DEF Alone
  <2> QED BY <1>6, <2>2, ExclusiveQuiet DEF Alone, D!Paired
<1>7. CASE Sends
  <2>1. Alone /\ C!SendCommand
    BY <1>7 DEF Sends, Alone, DeviceIdle, device
  <2>2. UNCHANGED <<salt, pairingSecret, clientKey, state>>
    BY <2>1 DEF C!SendCommand, C!handshake
  <2>3. C!Silent \/ \E g \in UpFrames : g.type = "enc" /\ C!Send(g)
    BY <1>7, <2>1, CommandPosted
  <2> QED BY <1>6, <2>1, <2>2, <2>3
<1>8. CASE ControllerAlone
  <2>1. Alone
    BY <1>8 DEF ControllerAlone, Alone, DeviceIdle, device, history
  <2>2. ~C!Disconnect /\ ~C!HelloTimer
    <3>1. ws' # 0
      BY <1>0, SocketTypes
    <3>2. ~C!Disconnect
      BY <3>1, SocketTypes DEF C!Disconnect
    <3>3. ~C!HelloTimer
      BY DEF C!HelloTimer, WorldInv, DirectInv
    <3> QED BY <3>2, <3>3
  <2>3. ASSUME NEW c, C!CommandTimeout(c) PROVE Exclusive(n)'
    BY <1>6, <2>1, <2>3 DEF C!CommandTimeout, C!handshake
  <2> QED BY <1>8, <2>1, <2>2, <2>3, ExclusivePin DEF ControllerAlone, User
<1> QED
  BY <1>1, <1>2, <1>3, <1>4, <1>5, <1>7, <1>8, ExclusiveNetwork, ExclusiveSettles DEF Next

-------------------------------------------------------------------------------
(* A new connection, and every other step                                  *)

LEMMA ConnectStarts ==
  ASSUME EndsInv, WorldInv', Alone, C!Connect(via), NEW n \in Conns, ws' = n,
         NEW s \in Sessions, s = SessionOf(n)
  PROVE  Agreeing(n, s)'
<1>1. /\ sock'[n].state = "connecting" /\ state' = "connecting"
      /\ salt' = NoSalt /\ pairingSecret' = NoSecret /\ clientKey' = NoKey
  <2>1. /\ salt' = NoSalt /\ pairingSecret' = NoSecret /\ clientKey' = NoKey
        /\ n # C!NoSocket
    BY SocketTypes DEF C!Connect, C!DisconnectFirst, C!ForgetKey
  <2>2. /\ n = made + 1 /\ state' = "connecting"
        /\ sock' = [C!WsClosed EXCEPT ![n] = [state |-> "connecting", mode |-> via]]
    BY <2>1 DEF C!Connect
  <2>3. C!WsClosed \in [Conns -> [state : {"none", "connecting", "open", "closing", "closed"},
                                  mode : C!Modes]]
    BY SocketTypes DEF C!WsClosed
  <2> QED BY <2>1, <2>2, <2>3
<1>2. /\ up'[n] = <<>> /\ (hs'[s] # NoHandshake => hs'[s].clientPub # n)
      /\ via = "direct" => /\ down'[n] = <<>> /\ hs'[n] = NoHandshake /\ s = n
                           /\ n \in Sessions
  <2>1. Unopened(n)' /\ via' = via /\ n \in Sessions
    BY DEF WorldInv, Alone, Sessions
  <2> QED BY <1>1, <2>1 DEF WorldInv, Unopened, SessionOf
<1>3. \A t : ~Has(up'[n], t) /\ Once(up'[n], t)
  BY <1>2, Emptied
<1>4. Beginning(n)' /\ Salted(s)' /\ Stays(n, s)'
  BY <1>1 DEF Beginning, Salted, Stays
<1>5. Typed(n)' /\ AckComing(n, s)' /\ Acked(n, s)' /\ IsAgreed(n, s)'
  BY <1>1 DEF Typed, AckComing, SamePin, Acked, IsAgreed
<1>6. Heard(n, s)'
  <2>1. ~Has(up'[n], "enc")
    BY <1>3
  <2>2. ~(D!Paired(s)' /\ hs'[s].clientPub = n)
    BY <1>2 DEF D!Paired
  <2> QED BY <2>1, <2>2 DEF Heard
<1>7. ASSUME via = "direct" PROVE Order(n, {n})' /\ Exclusive(n)'
  <2>1. \A t : ~Has(down'[n], t) /\ Once(down'[n], t)
    BY <1>2, <1>7, Emptied
  <2>2. \A t, u : Before(down'[n], t, u)
    BY <1>2, <1>7, Emptied
  <2>3. Offering(down'[n], offered'[n])
    BY <1>2, <1>7, Emptied
  <2>4. deviceKey'[n] = NoKey /\ ~D!Paired(n)'
    <3>1. deviceKey[n] # NoKey => hs[n] # NoHandshake
      BY <1>2, <1>7 DEF EndsInv, D!DeviceInv, D!SessionInv, D!KeyInv
    <3> QED BY <1>2, <1>7, <3>1 DEF Alone, D!Paired
  <2>5. Order(n, {n})'
    BY <1>2, <1>3, <1>7, <2>1, <2>2, <2>3, <2>4 DEF Order
  <2>6. Exclusive(n)'
    BY <1>1, <1>3, <2>1, <2>4 DEF Exclusive
  <2> QED BY <2>5, <2>6
<1>8. via' = via
  BY DEF Alone
<1>9. Handshaking(n, s)'
  BY <1>4, <1>5, <1>6 DEF Handshaking
<1> QED BY <1>2, <1>7, <1>8, <1>9 DEF Agreeing

LEMMA ConnectAlone ==
  ASSUME EndsInv, [Next]_vars, C!Connect(via)
  PROVE  Alone
<1>1. made' # made
  BY SocketTypes DEF C!Connect
<1>2. ~(UNCHANGED vars) /\ ~ControllerIdle
  BY <1>1 DEF vars, controller, ControllerIdle
<1>3. ASSUME NEW n \in Conns, C!OnOpen(n) \/ C!OnClose(n) PROVE FALSE
  BY <1>1, <1>3 DEF C!OnOpen, C!OnClose
<1>4. ASSUME NEW n, NEW f, C!OnMessage(n, f) PROVE FALSE
  BY <1>1, <1>4
  DEF C!OnMessage, C!HandleChallenge, C!HandlePinAck, C!HandlePinNack, C!HandleKeyx,
      C!HandleOther, C!HandleEncrypted, C!Disconnect
<1>5. ~C!SendCommand
  BY <1>1 DEF C!SendCommand
<1>6. ControllerAlone
  BY <1>2, <1>3, <1>4, <1>5
  DEF Next, Opens, Closes, Leaves, Lost, Handles, Settles, Receives, DeviceAlone, Sends
<1> QED BY <1>6 DEF ControllerAlone, Alone, DeviceIdle, device, history

LEMMA RelayOrderStep ==
  ASSUME EndsInv, WorldInv, [Next]_vars, via = "relay", Order(Host, Conns)
  PROVE  Order(Host, Conns)'
<1>1. Host \in Sessions /\ Conns \in SUBSET Conns
  BY EndToEndAssumption DEF Host, Sessions, Conns
<1>2. ASSUME NEW r \in Sessions \ {Host}, Receives(r) PROVE up' = up
  BY <1>2 DEF WorldInv, RelayedInv, Receives
<1>3. pending # NoSlot => ~D!Paired(Host) /\ Offering(down[Host], minted)
  BY SlotUsed
<1> QED BY <1>1, <1>2, <1>3, OrderStep

LEMMA DirectOrderStep ==
  ASSUME EndsInv, WorldInv, [Next]_vars, via = "direct", SoleSocket, NEW n \in Conns, ws = n,
         NEW s \in Sessions, s = SessionOf(n), Order(s, {n}), Exclusive(n)
  PROVE  Order(s, {n})'
<1>1. s = n /\ {n} \in SUBSET Conns /\ \A m \in Conns : SessionOf(m) = m
  BY DEF SessionOf
<1>2. ASSUME NEW r \in Sessions \ {s}, Receives(r) PROVE up' = up
  <2>1. peer[r] \in {r, NoConn} /\ ~C!IsOpen(r)
    BY <1>1 DEF WorldInv, DirectInv, SoleSocket, Sessions
  <2> QED BY <1>2, <2>1 DEF Receives
<1>3. ASSUME NEW m \in Conns, Handles(m), SessionOf(m) = s,
             Head(up[m]).type \in {"hello", "pin_verify"}
      PROVE  ~D!Paired(s) /\ Offering(down[s], minted)
  <2>1. m = n /\ up[n] # <<>>
    BY <1>1, <1>3 DEF Handles
  <2>2. ~Has(down[n], "challenge") /\ ~D!Paired(n)
    BY <1>3, <2>1, Asked DEF Asking, Replying
  <2> QED BY <1>1, <2>2 DEF Offering, Has
<1> QED BY <1>1, <1>2, <1>3, OrderStep

LEMMA AgreeingStep ==
  ASSUME EndsInv, WorldInv, [Next]_vars, ~C!Connect(via), SoleSocket, SoleSocket', ws' = ws,
         NEW n \in Conns, ws = n, NEW s \in Sessions, s = SessionOf(n), Agreeing(n, s),
         via = "relay" => Order(Host, Conns)
  PROVE  Agreeing(n, s)'
<1>1. via' = via
  BY DEF Next, vars, network, Opens, Closes, Leaves, Lost, Handles, Settles, Receives,
         DeviceAlone, Sends, ControllerAlone
<1>2. CASE via = "relay"
  <2>1. s = Host /\ Order(s, Conns) /\ Handshaking(n, s) /\ Conns \in SUBSET Conns
    BY <1>2 DEF SessionOf, Agreeing
  <2>2. pending # NoSlot => ~D!Paired(s)
    BY <1>2, <2>1, SlotUsed
  <2>3. salt # NoSalt \/ pairingSecret # NoSecret \/ clientKey # NoKey => offered[s] = minted
    BY <1>2, <2>1, OfferedOnce DEF Handshaking
  <2>4. Handshaking(n, s)'
    BY <2>1, <2>2, <2>3, HandshakingStep
  <2> QED BY <1>1, <1>2, <2>4 DEF Agreeing
<1>3. CASE via = "direct"
  <2>1. /\ s = n /\ n \in Sessions /\ Order(s, {n}) /\ Exclusive(n) /\ Handshaking(n, s)
        /\ {n} \in SUBSET Conns /\ \A m \in Conns : SessionOf(m) = m
    BY <1>3 DEF SessionOf, Agreeing, Sessions
  <2>2. ASSUME NEW m \in Conns, Handles(m), SessionOf(m) = s
        PROVE  /\ m = n
               /\ Head(up[m]).type \in {"hello", "pin_verify"} => ~D!Paired(s)
               /\ Head(up[m]).type = "hello" =>
                    salt = NoSalt /\ pairingSecret = NoSecret /\ clientKey = NoKey
    <3>1. m = n /\ up[n] # <<>>
      BY <2>1, <2>2 DEF Handles
    <3>2. Has(up[n], Head(up[n]).type)
      BY <3>1, QueueTypes, Popped
    <3> QED BY <2>1, <3>1, <3>2 DEF Exclusive
  <2>3. Handshaking(n, s)'
    BY <2>1, <2>2, HandshakingStep
  <2>4. Order(s, {n})'
    BY <1>3, <2>1, DirectOrderStep
  <2>5. Exclusive(n)'
    BY <1>3, <2>1, ExclusiveStep DEF Handshaking
  <2> QED BY <2>3, <2>4, <2>5 DEF Agreeing
<1> QED BY <1>2, <1>3 DEF EndsInv, WorldTypes, C!Modes

LEMMA AgreementStep == EndsInv /\ AgreementInv /\ [Next]_vars => AgreementInv'
<1> SUFFICES ASSUME EndsInv, AgreementInv, [Next]_vars PROVE AgreementInv'
  OBVIOUS
<1>1. WorldInv /\ WorldInv' /\ (via = "relay" => Order(Host, Conns))
  BY WorldStep DEF AgreementInv
<1>2. via' = via
  BY DEF Next, vars, network, Opens, Closes, Leaves, Lost, Handles, Settles, Receives,
         DeviceAlone, Sends, ControllerAlone
<1>3. via = "relay" => Order(Host, Conns)'
  BY <1>1, RelayOrderStep
<1>4. ASSUME NEW n \in Conns, NEW s \in Sessions, SoleSocket', ws' = n, SessionOf(n)' = s
      PROVE  Agreeing(n, s)'
  <2>1. SessionOf(n) = s
    BY <1>2, <1>4 DEF SessionOf
  <2>2. CASE C!Connect(via)
    BY <1>1, <1>4, <2>1, <2>2, ConnectAlone, ConnectStarts
  <2>3. CASE ~C!Connect(via)
    <3>1. SoleSocket /\ ws' = ws /\ ws = n
      BY <1>1, <1>4, <2>3, SoleKept
    <3>2. Agreeing(n, s)
      BY <2>1, <3>1 DEF AgreementInv
    <3> QED BY <1>1, <1>4, <2>1, <2>3, <3>1, <3>2, AgreeingStep
  <2> QED BY <2>2, <2>3
<1> QED BY <1>1, <1>2, <1>3, <1>4 DEF AgreementInv

LEMMA AgreementInit == Init => AgreementInv
<1> SUFFICES ASSUME Init PROVE AgreementInv
  OBVIOUS
<1>1. /\ \A n \in Conns : sock[n].state = "none" /\ sock[n].mode = "direct" /\ up[n] = <<>>
      /\ made = 0 /\ ws = C!NoSocket /\ timer = FALSE /\ salt = NoSalt
      /\ \A s \in Sessions : /\ peer[s] = NoConn /\ down[s] = <<>> /\ offered[s] = 0
                             /\ hs[s] = NoHandshake /\ deviceKey[s] = NoKey
                             /\ link[s] = "new"
      /\ minted = 0 /\ Host \in Sessions
  BY EndToEndAssumption
  DEF Init, C!Init, D!Init, D!PairingInit, C!Conns, Conns, Sessions, Host
<1>2. WorldInv
  <2>1. \A n \in Conns : Unopened(n)
    BY <1>1 DEF Unopened, Sessions, NoConn, Conns
  <2>2. DirectInv /\ RelayedInv
    BY <1>1 DEF DirectInv, RelayedInv
  <2> QED BY <1>1, <2>1, <2>2 DEF WorldInv
<1>3. Order(Host, Conns)
  <2>1. /\ \A t : ~Has(down[Host], t) /\ Once(down[Host], t)
        /\ \A t, u : Before(down[Host], t, u)
        /\ \A p : Offering(down[Host], p)
        /\ \A n \in Conns : ~Has(up[n], "keyx")
    BY <1>1, Emptied
  <2>2. deviceKey[Host] = NoKey /\ hs[Host] = NoHandshake
    BY <1>1
  <2> QED BY <2>1, <2>2 DEF Order
<1>4. ~SoleSocket
  BY <1>1 DEF SoleSocket
<1> QED BY <1>2, <1>3, <1>4 DEF AgreementInv

(* The two ends agree on their handshake: AgreementInv holds of EndToEnd.  *)
THEOREM AgreementInvariant == Spec => [](EndsInv /\ AgreementInv)
<1>1. Init => AgreementInv
  BY AgreementInit
<1>2. EndsInv /\ AgreementInv /\ [Next]_vars => AgreementInv'
  BY AgreementStep
<1>3. Spec => []EndsInv
  BY EndsInvariant
<1> QED BY <1>1, <1>2, <1>3, PTL DEF Spec

-------------------------------------------------------------------------------
(* What the ends agree on *)

LEMMA SoleAgreeing ==
  ASSUME EndsInv, AgreementInv, SoleSocket
  PROVE  /\ ws \in Conns /\ ws = clientKeys /\ SessionOf(ws) \in Sessions
         /\ Handshaking(ws, SessionOf(ws))
         /\ \E N \in SUBSET Conns : Order(SessionOf(ws), N)
         /\ WorldInv
<1>1. ws \in Conns /\ ws = clientKeys
  BY SocketTypes DEF SoleSocket
<1>2. PICK n \in Conns : n = ws
  BY <1>1
<1>3. PICK s \in Sessions : s = SessionOf(n)
  BY SessionOfIsSession
<1>4. Agreeing(n, s) /\ WorldInv /\ (via = "relay" => Order(Host, Conns))
  BY <1>2, <1>3 DEF AgreementInv
<1>5. \E N \in SUBSET Conns : Order(s, N)
  <2>1. CASE via = "direct"
    BY <1>4, <2>1 DEF Agreeing
  <2>2. CASE via = "relay"
    BY <1>3, <1>4, <2>2 DEF SessionOf
  <2> QED BY <2>1, <2>2 DEF EndsInv, WorldTypes, C!Modes
<1> QED BY <1>1, <1>2, <1>3, <1>4, <1>5 DEF Agreeing

(* The session is paired, and its key is that of its handshake, salted     *)
(* with the PIN it accepted.                                               *)
LEMMA KeyOfHandshake ==
  ASSUME EndsInv, NEW s \in Sessions, NEW N, Order(s, N), deviceKey[s] # NoKey
  PROVE  /\ D!Paired(s) /\ deviceKey[s] = Keyed(s)
         /\ hs[s].pairingSecret = [pin  |-> hs[s].pairingSecret.pin,
                                   salt |-> hs[s].pairingSecret.salt]
<1>1. D!Paired(s) /\ deviceKey[s] = Keyed(s)
  BY DEF Order
<1>2. hs[s].pairingSecret \in D!Secrets
  BY <1>1 DEF EndsInv, D!DeviceInv, D!TypeOK, D!Handshakes, D!Paired
<1> QED BY <1>1, <1>2 DEF D!Secrets

(* When the controller is ready and has no other socket open, the session  *)
(* has its key, but for the salt if a later PIN was used (Transport's      *)
(* handleKeyx and handleReady, Session's handleKeyx).                      *)
THEOREM BothEndsHaveOneKey == Spec => []SameKey
<1>1. ASSUME EndsInv, AgreementInv PROVE SameKey
  <2> SUFFICES ASSUME C!IsReady, SoleSocket
               PROVE  LET key == deviceKey[SessionOf(clientKeys)] IN
                      /\ key # NoKey
                      /\ key = [clientKey EXCEPT !.secret.salt = key.secret.salt]
                      /\ \/ key = clientKey
                         \/ key.secret.salt # offered[SessionOf(clientKeys)]
    BY DEF SameKey
  <2>1. PICK s \in Sessions : s = SessionOf(clientKeys)
    BY <1>1, SoleAgreeing
  <2>2. /\ deviceKey[s] # NoKey /\ clientKey = Agreed(s)
    BY <1>1, <2>1, SoleAgreeing DEF Handshaking, IsAgreed, C!IsReady
  <2>3. /\ deviceKey[s] = Keyed(s)
        /\ hs[s].pairingSecret = [pin  |-> hs[s].pairingSecret.pin,
                                  salt |-> hs[s].pairingSecret.salt]
    BY <1>1, <2>1, <2>2, SoleAgreeing, KeyOfHandshake
  <2>4. deviceKey[s] = [clientKey EXCEPT !.secret.salt = deviceKey[s].secret.salt]
    BY <2>2, <2>3 DEF Agreed, Keyed
  <2>5. deviceKey[s].secret.salt = offered[s] => deviceKey[s] = clientKey
    BY <2>2, <2>3 DEF Agreed, Keyed
  <2> QED BY <2>1, <2>2, <2>4, <2>5
<1>2. EndsInv /\ AgreementInv => SameKey
  BY <1>1
<1> QED BY <1>2, AgreementInvariant, PTL

(* A session that refuses a command refused one of its connection.         *)
Refusals == {"not_ready", "replay", "decrypt"}

LEMMA WhoRefuses ==
  ASSUME EndsInv, Next, NEW s \in Sessions, Says(s, "error"),
         Head(deviceSent'[s]).code \in Refusals
  PROVE  \E n \in Conns : /\ Handles(n) /\ SessionOf(n) = s /\ Head(up[n]).type = "enc"
                          /\ D!PayloadRefused(s, Head(up[n]))
<1>1. ~D!Silent
  BY DEF Says, D!Silent
<1>2. ASSUME NEW n \in Conns, Handles(n)
      PROVE  /\ SessionOf(n) = s /\ Head(up[n]).type = "enc"
             /\ D!PayloadRefused(s, Head(up[n]))
  <2> DEFINE f == Head(up[n])
             r == SessionOf(n)
  <2>1. D!HandleFrame(r, f)
    BY <1>2 DEF Handles
  <2> HIDE DEF f, r
  <2>2. ASSUME NEW g, D!Send(r, <<g>>) PROVE r = s /\ g.type = "error" /\ g.code \in Refusals
    BY <2>2 DEF Says, D!Send
  <2>3. ASSUME NEW g, NEW h, D!Send(r, <<g, h>>) PROVE g.type = "error"
    BY <2>3 DEF Says, D!Send
  <2>4. ~D!HandleHello(r, f)
    BY <2>2 DEF D!HandleHello, D!ErrorFrame, D!ChallengeFrame, Refusals
  <2>5. ~D!HandlePinVerify(r, f)
    BY <2>2
    DEF D!HandlePinVerify, D!PinBeforeHello, D!PinRefused, D!PinWithBadPub, D!PinAccepted,
        D!ErrorFrame, D!PinNackFrame, D!PinAckFrame, Refusals
  <2>6. ~D!HandleKeyx(r, f)
    BY <2>2, <2>3 DEF D!HandleKeyx, D!ErrorFrame, D!KeyxFrame, Refusals
  <2>7. ~D!HandleOther(r, f)
    BY <1>1, <2>2 DEF D!HandleOther, D!ErrorFrame, Refusals
  <2>8. ~D!PayloadOpened(r, f)
    BY <1>1 DEF D!PayloadOpened
  <2>9. f.type = "enc" /\ D!PayloadRefused(r, f)
    BY <2>1, <2>4, <2>5, <2>6, <2>7, <2>8 DEF D!HandleFrame, D!HandleEncrypted
  <2>10. r = s
    BY <2>2, <2>9 DEF D!PayloadRefused
  <2> QED BY <2>9, <2>10 DEF f, r
<1>3. ASSUME NEW r \in Sessions, Settles(r) PROVE FALSE
  <2>1. PICK i \in 1..Len(running[r]) : D!Settle(r, i, "ok")
    BY <1>3 DEF Settles
  <2>2. PICK g : g.type = "enc" /\ D!Send(r, <<g>>)
    BY <1>1, <2>1 DEF D!Settle, D!SendEncrypted, D!EncFrame
  <2> QED BY <2>2 DEF Says, D!Send
<1>4. ASSUME NEW n \in Conns, Opens(n) \/ Closes(n) \/ Leaves(n) \/ Lost(n) PROVE FALSE
  BY <1>1, <1>4 DEF Opens, Closes, Leaves, Lost, DeviceIdle, D!Connect, D!Disconnect
<1>5. CASE DeviceAlone
  BY <1>1, <1>5 DEF DeviceAlone, D!NewPin, D!ClockTicks, D!Local, D!Connect, D!Disconnect
<1>6. ~Sends /\ ~ControllerAlone /\ \A r \in Sessions : ~Receives(r)
  BY <1>1 DEF Sends, ControllerAlone, Receives, DeviceIdle
<1> QED BY <1>2, <1>3, <1>4, <1>5, <1>6 DEF Next

(* Its own command opens under the key the session has. *)
LEMMA OwnCommandOpens ==
  ASSUME EndsInv, AgreementInv, SoleSocket, NEW n \in Conns, NEW s \in Sessions,
         s = SessionOf(n), Joined(n), clientKey # NoKey, deviceKey[s] = clientKey,
         up[n] # <<>>, Head(up[n]).type = "enc"
  PROVE  D!Ready(s) /\ D!InSequence(s, Head(up[n])) /\ D!Opens(s, Head(up[n]))
<1>1. n = ws
  <2>1. SoleSocket /\ ws = clientKeys /\ ws \in Conns /\ WorldInv
        /\ Handshaking(ws, SessionOf(ws))
    BY SoleAgreeing
  <2>2. CASE via = "relay"
    <3>1. SessionOf(ws) = s /\ peer[s] = n /\ n # NoConn
      BY <2>2 DEF SessionOf, Joined, NoConn, Conns
    <3> QED BY <2>1, <3>1 DEF Handshaking, Stays
  <2>3. CASE via = "direct"
    <3>1. s = n /\ deviceKey[s].client = s
      BY <2>1, <2>3, EndToEndAssumption DEF SessionOf, WorldInv, DirectInv
    <3>2. clientKey.client = clientKeys
      BY DEF EndsInv, C!TransportInv, C!KeyOfThisConnection
    <3> QED BY <2>1, <3>1, <3>2
  <2> QED BY <2>2, <2>3 DEF EndsInv, WorldTypes, C!Modes
<1>2. Handshaking(n, s)
  BY <1>1, SoleAgreeing
<1>3. /\ D!Paired(s) /\ deviceKey[s] = Keyed(s)
      /\ hs[s].pairingSecret = [pin  |-> hs[s].pairingSecret.pin,
                                salt |-> hs[s].pairingSecret.salt]
  BY <1>1, SoleAgreeing, KeyOfHandshake
<1>4. Keyed(s) = Agreed(s)
  <2>1. deviceKey[s].secret.salt = offered[s]
    BY <1>2 DEF Handshaking, Salted
  <2> QED BY <1>3, <2>1 DEF Keyed, Agreed
<1>5. Head(up[n]).key = Agreed(s) /\ hs[s].recvSeq < Head(up[n]).s
  <2>1. Has(up[n], "enc") /\ Head(up[n]) = up[n][1] /\ 1 \in 1..Len(up[n])
    BY QueueTypes, Popped, TailFacts
  <2>2. Sealing(up[n], Agreed(s), hs[s].recvSeq, sendSeq)
    BY <1>2, <2>1 DEF Handshaking, Heard
  <2> QED BY <2>1, <2>2 DEF Sealing
<1>6. hs[s].recvSeq \in Int /\ Head(up[n]).s \in Int
  <2>1. Head(up[n]) \in UpFrames
    BY QueueTypes, TailFacts
  <2> QED BY <1>3, <2>1, CounterTypes, Counters DEF D!Paired
<1>7. ~D!Stale(Head(up[n]).s, hs[s].recvSeq)
  BY <1>5, <1>6 DEF D!Stale
<1> QED BY <1>3, <1>4, <1>5, <1>7 DEF D!Ready, D!InSequence, D!Opens, D!Paired

(* While both ends have one key, and the controller one socket, the device *)
(* refuses none of its commands: repeated hellos and keyx frames, earlier  *)
(* connections and other guests of the relay leave the counters in step    *)
(* (Session's handleEncrypted).                                            *)
THEOREM HonestCommandsAreHeard == Spec => HonestIsHeard
<1> DEFINE Step ==
      \A s \in Sessions :
        SoleSocket /\ clientKey # NoKey /\ deviceKey[s] = clientKey /\ Says(s, "error")
          => Head(deviceSent'[s]).code \notin {"not_ready", "replay", "decrypt"}
<1>1. ASSUME EndsInv, AgreementInv, Next PROVE Step
  <2> SUFFICES ASSUME NEW s \in Sessions, SoleSocket, clientKey # NoKey,
                      deviceKey[s] = clientKey, Says(s, "error"),
                      Head(deviceSent'[s]).code \in Refusals
               PROVE  FALSE
    BY DEF Refusals
  <2>1. PICK n \in Conns : /\ Handles(n) /\ SessionOf(n) = s /\ Head(up[n]).type = "enc"
                           /\ D!PayloadRefused(s, Head(up[n]))
    BY <1>1, WhoRefuses
  <2>2. Joined(n) /\ up[n] # <<>>
    BY <2>1 DEF Handles
  <2> QED BY <1>1, <2>1, <2>2, OwnCommandOpens DEF D!PayloadRefused
<1>2. EndsInv /\ AgreementInv /\ [Next]_vars => [Step]_vars
  BY <1>1
<1> QED BY <1>2, AgreementInvariant, PTL DEF Spec, HonestIsHeard
===============================================================================
