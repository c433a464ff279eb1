-------------------------------- MODULE Relay ---------------------------------
(***************************************************************************)
(* The public relay, relay/src/index.ts: a Map from PINs to rooms, a room  *)
(* being an object with one host and one guest socket, and text frames     *)
(* carried between the two.                                                *)
(*                                                                         *)
(* A room object outlives its entry in the Map: the handlers of a socket   *)
(* keep `myRoom`.  Objects are therefore numbered in the order they are    *)
(* created, and `rooms` holds numbers.  The ws library makes a socket      *)
(* CLOSED and runs its close handler in one go, so the two are one action. *)
(* What a frame says is not modelled, nor is the counter of the rate       *)
(* limiter: a socket may be closed for the policy at any of its frames.    *)
(***************************************************************************)
EXTENDS Integers

CONSTANTS
  Socks,     \* WebSocket objects, never reused
  Pins,      \* what /^\d{6}$/ accepts in the query string
  NoSock,    \* the null of a room's slot
  NoPin,     \* a query string the relay refuses
  Ttl,       \* ROOM_TTL_MS, in ticks
  MaxRooms,  \* bound: room objects ever created
  MaxTime    \* bound: last instant of the clock

NoRoom  == 0
RoomIds == 1..MaxRooms
Roles   == {"host", "guest"}
States  == {"idle", "open", "closing", "closed"}

ASSUME RelayAssumption ==
  /\ NoSock \notin Socks
  /\ NoPin \notin Pins
  /\ Ttl \in Nat /\ MaxRooms \in Nat /\ MaxTime \in Nat

VARIABLES
  sock,       \* sock[w]: readyState, and the pin, role and room of its handlers
  rooms,      \* the Map: rooms[pin] is a room object or NoRoom
  room,       \* room[n]: the two slots of the n-th room object
  createdAt,  \* createdAt[n]: when it was created
  made,       \* how many room objects were created
  now,        \* Date.now()
  forwarded,  \* the frame carried by the latest step, <<from, to>>, or <<>>
  swept       \* history: the PINs whose room the sweep has taken away

vars == <<sock, rooms, room, createdAt, made, now, forwarded, swept>>

Sockets == [state : States, role : Roles, pin : Pins \cup {NoPin}, room : 0..MaxRooms]

Other(role) == IF role = "host" THEN "guest" ELSE "host"

EmptyRoom == [role \in Roles |-> NoSock]

Init ==
  /\ sock = [w \in Socks |-> [state |-> "idle", role |-> "host", pin |-> NoPin,
                              room |-> NoRoom]]
  /\ rooms = [pin \in Pins |-> NoRoom]
  /\ room = [n \in RoomIds |-> EmptyRoom]
  /\ createdAt = [n \in RoomIds |-> 0]
  /\ made = 0
  /\ now = 0
  /\ forwarded = <<>>
  /\ swept = {}

-------------------------------------------------------------------------------
(* on("connection") *)

Accepted(w) == sock[w].room # NoRoom
Open(w)     == Accepted(w) /\ sock[w].state = "open"

Refuse(w) ==
  /\ sock' = [sock EXCEPT ![w].state = "closing"]
  /\ UNCHANGED <<rooms, room, createdAt, made>>

Enter(w, pin, role, n) ==
  sock' = [sock EXCEPT ![w] = [state |-> "open", role |-> role, pin |-> pin, room |-> n]]

(* A slot is free unless its socket is still OPEN or CLOSING. *)
SlotFree_NotOpen(n, role) ==
  \A w \in Socks : room[n][role] = w => sock[w].state # "open"
SlotFree(n, role) ==
  \A w \in Socks : room[n][role] = w => sock[w].state = "closed"

CreationTime_Deadline == now + Ttl
CreationTime == now

Connect(w, pin, role) ==
  /\ sock[w].state = "idle"
  /\ \/ /\ pin = NoPin
        /\ Refuse(w)
     \/ /\ pin \in Pins /\ rooms[pin] = NoRoom
        /\ made < MaxRooms
        /\ made' = made + 1
        /\ rooms' = [rooms EXCEPT ![pin] = made + 1]
        /\ room' = [room EXCEPT ![made + 1] = [EmptyRoom EXCEPT ![role] = w]]
        /\ createdAt' = [createdAt EXCEPT ![made + 1] = CreationTime]
        /\ Enter(w, pin, role, made + 1)
     \/ /\ pin \in Pins /\ rooms[pin] # NoRoom
        /\ SlotFree(rooms[pin], role)
        /\ room' = [room EXCEPT ![rooms[pin]][role] = w]
        /\ Enter(w, pin, role, rooms[pin])
        /\ UNCHANGED <<rooms, createdAt, made>>
     \/ /\ pin \in Pins /\ rooms[pin] # NoRoom
        /\ ~SlotFree(rooms[pin], role)
        /\ Refuse(w)
  /\ forwarded' = <<>>
  /\ UNCHANGED <<now, swept>>

(* on("message"): the peer is looked up in the room the socket entered.    *)
(* The handler also runs while the sender's own socket is CLOSING.         *)
Peer_InMap(w) ==
  IF rooms[sock[w].pin] = NoRoom THEN NoSock
  ELSE room[rooms[sock[w].pin]][Other(sock[w].role)]
Peer(w) == room[sock[w].room][Other(sock[w].role)]

Forward(w) ==
  /\ Accepted(w) /\ sock[w].state \in {"open", "closing"}
  /\ forwarded' = IF Peer(w) # NoSock /\ sock[Peer(w)].state = "open"
                  THEN <<w, Peer(w)>> ELSE <<>>
  /\ UNCHANGED <<sock, rooms, room, createdAt, made, now, swept>>

(* A binary message, or one frame too many. *)
CloseForPolicy(w) ==
  /\ Open(w)
  /\ sock' = [sock EXCEPT ![w].state = "closing"]
  /\ forwarded' = <<>>
  /\ UNCHANGED <<rooms, room, createdAt, made, now, swept>>

(* on("close").  The entry of the PIN is deleted when the socket's own     *)
(* room is left empty, whichever room the entry leads to.                  *)
LeftEmpty_AskedFirst(n, role) == \A r \in Roles : room[n][r] = NoSock
LeftEmpty(n, role) == room[n][Other(role)] = NoSock

Close(w) ==
  /\ sock[w].state \in {"open", "closing"}
  /\ sock' = [sock EXCEPT ![w].state = "closed"]
  /\ IF Accepted(w)
     THEN /\ room' = [room EXCEPT ![sock[w].room][sock[w].role] = NoSock]
          /\ rooms' = IF LeftEmpty(sock[w].room, sock[w].role)
                      THEN [rooms EXCEPT ![sock[w].pin] = NoRoom] ELSE rooms
     ELSE UNCHANGED <<room, rooms>>
  /\ forwarded' = <<>>
  /\ UNCHANGED <<createdAt, made, now, swept>>

-------------------------------------------------------------------------------
(* sweep, every 30 seconds: the rooms older than the TTL lose their entry, *)
(* and their OPEN sockets are told to close.                               *)
Stale(n) == now - createdAt[n] > Ttl

Sweep ==
  LET old == {pin \in Pins : rooms[pin] # NoRoom /\ Stale(rooms[pin])}
  IN  /\ old # {}
      /\ sock' = [w \in Socks |->
                    IF sock[w].state = "open"
                         /\ \E pin \in old, role \in Roles : room[rooms[pin]][role] = w
                    THEN [sock[w] EXCEPT !.state = "closing"] ELSE sock[w]]
      /\ rooms' = [pin \in Pins |-> IF pin \in old THEN NoRoom ELSE rooms[pin]]
      /\ swept' = swept \cup old
      /\ forwarded' = <<>>
      /\ UNCHANGED <<room, createdAt, made, now>>

Tick ==
  /\ now < MaxTime
  /\ now' = now + 1
  /\ forwarded' = <<>>
  /\ UNCHANGED <<sock, rooms, room, createdAt, made, swept>>

Next ==
  \/ \E w \in Socks :
       \/ \E pin \in Pins \cup {NoPin}, role \in Roles : Connect(w, pin, role)
       \/ Forward(w) \/ CloseForPolicy(w) \/ Close(w)
  \/ Sweep
  \/ Tick

Spec == Init /\ [][Next]_vars

-------------------------------------------------------------------------------
(* What must hold of it *)

TypeOK ==
  /\ sock \in [Socks -> Sockets]
  /\ rooms \in [Pins -> 0..MaxRooms]
  /\ room \in [RoomIds -> [Roles -> Socks \cup {NoSock}]]
  /\ createdAt \in [RoomIds -> 0..MaxTime]
  /\ \A n \in RoomIds : createdAt[n] <= now
  /\ made \in 0..MaxRooms
  /\ now \in 0..MaxTime
  /\ forwarded \in {<<>>} \cup (Socks \X Socks)
  /\ swept \subseteq Pins

(* A socket keeps its slot for as long as it is connected: no newcomer     *)
(* takes it over, and no close handler of an earlier occupant clears it    *)
(* (index.ts:92-104 against 124-126).                                      *)
HoldsItsSlot ==
  \A w \in Socks :
    Accepted(w) /\ sock[w].state \in {"open", "closing"}
      => room[sock[w].room][sock[w].role] = w

(* The Map leads to no empty room: whatever the order of joins, closes and *)
(* sweeps, a PIN nobody is connected under is free (index.ts:127-129).     *)
(* It is not forgotten before: index.ts:10-11 says the room goes "as soon  *)
(* as either party disconnects", the code keeps it for the one that stays. *)
NoEmptyRoom ==
  \A pin \in Pins :
    rooms[pin] # NoRoom =>
      \E w \in Socks : /\ sock[w].room = rooms[pin] /\ sock[w].pin = pin
                       /\ sock[w].state \in {"open", "closing"}

(* Two open sockets of one PIN are the host and the guest of one room.     *)
(* Stated by the documentation of every PIN.                               *)
PairedByPin ==
  \A w, v \in Socks :
    Open(w) /\ Open(v) /\ w # v /\ sock[w].pin = sock[v].pin
      => sock[w].room = sock[v].room /\ sock[w].role # sock[v].role

(* The same, of a PIN the sweep has not touched yet: the room of a party   *)
(* that stayed is kept (index.ts:127, against what 10-11 say of it), and   *)
(* whoever comes next under the PIN joins it.                              *)
PairedUnlessSwept ==
  \A w, v \in Socks :
    Open(w) /\ Open(v) /\ w # v /\ sock[w].pin = sock[v].pin
      => \/ sock[w].room = sock[v].room /\ sock[w].role # sock[v].role
         \/ sock[w].pin \in swept

(* A frame goes to the other side of the room its sender entered, even     *)
(* when that room has lost its entry and another one has the PIN now       *)
(* (index.ts:118-121).                                                     *)
ForwardsInRoom ==
  [][\A w \in Socks : \A v \in Socks :
       forwarded' = <<w, v>> => /\ sock[w].room = sock[v].room
                                /\ sock[w].role # sock[v].role]_vars

===============================================================================
