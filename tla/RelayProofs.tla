------------------------------ MODULE RelayProofs -----------------------------
(***************************************************************************)
(* Proofs about Relay, for any number of sockets, PINs and rooms.          *)
(***************************************************************************)
EXTENDS Relay, TLAPS

Connected(w) == Accepted(w) /\ sock[w].state \in {"open", "closing"}

(* The occupant of a slot is a connected socket that entered there.        *)
SlotsFilled ==
  \A n \in RoomIds, role \in Roles, w \in Socks :
    room[n][role] = w => Connected(w) /\ sock[w].room = n /\ sock[w].role = role

(* Room objects are numbered as they are created, and a socket that has    *)
(* not connected is in none.                                               *)
Numbered ==
  /\ \A pin \in Pins : rooms[pin] <= made
  /\ \A w \in Socks : /\ sock[w].room <= made
                      /\ sock[w].state = "idle" => ~Accepted(w)

(* Whoever entered a room did so under the PIN that leads to it.           *)
PinsAgree ==
  \A w \in Socks :
    Accepted(w) => /\ sock[w].pin \in Pins
                   /\ \A pin \in Pins : rooms[pin] = sock[w].room => sock[w].pin = pin

Occupied ==
  \A pin \in Pins :
    rooms[pin] # NoRoom => \E role \in Roles : room[rooms[pin]][role] # NoSock

(* As long as the sweep has not come by, a connected socket's room is the  *)
(* one its PIN leads to.                                                   *)
Registered ==
  \A w \in Socks :
    Connected(w) /\ sock[w].pin \notin swept => rooms[sock[w].pin] = sock[w].room

RelayInv ==
  /\ TypeOK /\ HoldsItsSlot /\ SlotsFilled
  /\ Numbered /\ PinsAgree /\ Occupied /\ Registered

-------------------------------------------------------------------------------
LEMMA RelayInit == Init => RelayInv
BY RelayAssumption
DEF Init, RelayInv, TypeOK, HoldsItsSlot, SlotsFilled, Numbered, PinsAgree, Occupied,
    Registered, Connected, Accepted, Sockets, States, Roles, RoomIds, NoRoom, EmptyRoom

LEMMA SocketTypes ==
  ASSUME TypeOK, NEW w \in Socks
  PROVE  /\ sock[w] \in Sockets /\ sock[w].state \in States /\ sock[w].role \in Roles
         /\ sock[w].pin \in Pins \cup {NoPin} /\ sock[w].room \in 0..MaxRooms
         /\ Accepted(w) => sock[w].room \in RoomIds
         /\ made \in Nat /\ now \in Nat
BY RelayAssumption DEF TypeOK, Sockets, Accepted, NoRoom, RoomIds

(* A step that only tells open sockets to close, and is silent otherwise.  *)
LEMMA ClosingKeeps ==
  ASSUME RelayInv, NEW W \in SUBSET Socks,
         \A w \in W : sock[w].state \in {"open", "closing"} \/ ~Accepted(w),
         \A w \in W : sock'[w] = [sock[w] EXCEPT !.state = "closing"],
         \A w \in Socks \ W : sock'[w] = sock[w],
         sock' \in [Socks -> Sockets],
         forwarded' \in {<<>>} \cup (Socks \X Socks),
         UNCHANGED <<rooms, room, createdAt, made, now, swept>>
  PROVE  RelayInv'
<1> USE DEF RelayInv
<1>1. \A w \in Socks : /\ sock'[w].room = sock[w].room /\ sock'[w].role = sock[w].role
                       /\ sock'[w].pin = sock[w].pin
                       /\ IF w \in W THEN sock'[w].state = "closing"
                                     ELSE sock'[w].state = sock[w].state
  <2> TAKE w \in Socks
  <2>1. sock[w] \in Sockets
    BY DEF TypeOK
  <2> QED BY <2>1 DEF Sockets
<1>2. \A w \in Socks : (Accepted(w)' <=> Accepted(w)) /\ (Connected(w)' <=> Connected(w))
  BY <1>1 DEF Accepted, Connected
<1>3. TypeOK'
  BY DEF TypeOK
<1>4. HoldsItsSlot' /\ SlotsFilled' /\ Registered'
  BY <1>1, <1>2 DEF HoldsItsSlot, SlotsFilled, Registered, Connected
<1>5. Numbered' /\ PinsAgree' /\ Occupied'
  BY <1>1, <1>2 DEF Numbered, PinsAgree, Occupied
<1> QED BY <1>3, <1>4, <1>5

LEMMA RefuseKeeps ==
  ASSUME RelayInv, NEW w \in Socks, sock[w].state = "idle", Refuse(w),
         forwarded' = <<>>, UNCHANGED <<now, swept>>
  PROVE  RelayInv'
<1>1. ~Accepted(w)
  BY DEF RelayInv, Numbered
<1>2. sock[w] \in Sockets
  BY DEF RelayInv, TypeOK
<1>3. sock'[w] = [sock[w] EXCEPT !.state = "closing"]
  BY DEF Refuse, RelayInv, TypeOK
<1>4. \A v \in Socks \ {w} : sock'[v] = sock[v]
  BY DEF Refuse, RelayInv, TypeOK
<1>5. sock' \in [Socks -> Sockets]
  <2>1. [sock[w] EXCEPT !.state = "closing"] \in Sockets
    BY <1>2 DEF Sockets, States
  <2> QED BY <2>1 DEF Refuse, RelayInv, TypeOK
<1> QED
  <2>1. /\ {w} \in SUBSET Socks
        /\ \A v \in {w} : sock[v].state \in {"open", "closing"} \/ ~Accepted(v)
        /\ \A v \in {w} : sock'[v] = [sock[v] EXCEPT !.state = "closing"]
        /\ \A v \in Socks \ {w} : sock'[v] = sock[v]
    BY <1>1, <1>3, <1>4
  <2> QED BY <1>5, <2>1, ClosingKeeps DEF Refuse

(* A socket enters slot `role` of room n, which it finds free. *)
LEMMA EnterKeeps ==
  ASSUME RelayInv, NEW w \in Socks, NEW pin \in Pins, NEW role \in Roles,
         NEW n \in RoomIds, sock[w].state = "idle", Enter(w, pin, role, n),
         room' = [room EXCEPT ![n][role] = w], SlotFree(n, role),
         rooms' = [rooms EXCEPT ![pin] = n],
         rooms[pin] = n \/ (rooms[pin] = NoRoom /\ n = made + 1),
         made' \in {made, made + 1}, n <= made',
         createdAt' \in [RoomIds -> 0..MaxTime], \A m \in RoomIds : createdAt'[m] <= now,
         forwarded' = <<>>, UNCHANGED <<now, swept>>, made' \in 0..MaxRooms
  PROVE  RelayInv'
<1> USE DEF RelayInv
<1> DEFINE entered == [state |-> "open", role |-> role, pin |-> pin, room |-> n]
<1>1. /\ sock' = [sock EXCEPT ![w] = entered] /\ sock'[w] = entered
      /\ \A v \in Socks \ {w} : sock'[v] = sock[v]
  BY DEF Enter, TypeOK
<1>2. /\ n \in Nat /\ made \in Nat /\ made' \in Nat /\ n # NoRoom /\ made <= made'
      /\ \A v \in Socks : sock[v].room \in Nat
      /\ \A p \in Pins : rooms[p] \in Nat
  <2>1. TypeOK
    OBVIOUS
  <2>2. MaxRooms \in Nat /\ n \in 1..MaxRooms
    BY RelayAssumption DEF RoomIds
  <2>3. made \in 0..MaxRooms /\ rooms \in [Pins -> 0..MaxRooms]
    BY <2>1 DEF TypeOK
  <2>4. \A v \in Socks : sock[v].room \in 0..MaxRooms
    BY <2>1, SocketTypes
  <2>5. n \in Nat /\ made \in Nat /\ n # NoRoom
    BY <2>2, <2>3 DEF NoRoom
  <2>6. made' \in Nat /\ made <= made'
    BY <2>5
  <2>7. /\ \A v \in Socks : sock[v].room \in Nat
        /\ \A p \in Pins : rooms[p] \in Nat
    BY <2>2, <2>3, <2>4
  <2> QED BY <2>5, <2>6, <2>7
<1>3. Connected(w)' /\ Accepted(w)' /\ ~Accepted(w)
  BY <1>1, <1>2 DEF Connected, Accepted, Numbered
<1>4. \A v \in Socks \ {w} : (Accepted(v)' <=> Accepted(v)) /\ (Connected(v)' <=> Connected(v))
  BY <1>1 DEF Connected, Accepted
<1>5. \A m \in RoomIds, r \in Roles :
        room'[m][r] = IF m = n /\ r = role THEN w ELSE room[m][r]
  BY DEF TypeOK
<1>6. \A v \in Socks : room[n][role] # v
  BY DEF SlotFree, SlotsFilled, Connected
<1>7. \A p \in Pins : rooms'[p] = IF p = pin THEN n ELSE rooms[p]
  BY DEF TypeOK
<1>8. TypeOK'
  <2>1. entered \in Sockets
    BY DEF Sockets, States, RoomIds
  <2>2. sock' \in [Socks -> Sockets]
    BY <1>1, <2>1 DEF TypeOK
  <2>3. room' \in [RoomIds -> [Roles -> Socks \cup {NoSock}]]
    BY DEF TypeOK
  <2>4. rooms' \in [Pins -> 0..MaxRooms]
    BY DEF TypeOK, RoomIds
  <2> QED BY <2>2, <2>3, <2>4 DEF TypeOK
<1>9. HoldsItsSlot'
  <2> SUFFICES ASSUME NEW v \in Socks, Connected(v)'
               PROVE  room'[sock'[v].room][sock'[v].role] = v
    BY DEF HoldsItsSlot, Connected
  <2>1. CASE v = w
    BY <1>1, <1>5, <2>1
  <2>2. CASE v # w
    <3>1. /\ Connected(v) /\ room[sock[v].room][sock[v].role] = v
          /\ sock[v].room \in RoomIds /\ sock[v].role \in Roles
      BY <1>4, <2>2, SocketTypes DEF HoldsItsSlot, Connected
    <3> QED BY <1>1, <1>5, <1>6, <2>2, <3>1
  <2> QED BY <2>1, <2>2
<1>10. SlotsFilled'
  BY <1>1, <1>3, <1>4, <1>5 DEF SlotsFilled, Accepted, Connected
<1>11. Numbered'
  BY <1>1, <1>2, <1>4, <1>7 DEF Numbered
<1>12. PinsAgree'
  <2>1. \A p \in Pins : rooms[p] = n => p = pin
    <3>1. n = made + 1 => \A p \in Pins : rooms[p] # n
      BY <1>2 DEF Numbered
    <3>2. rooms[pin] = n => \A p \in Pins : rooms[p] = n => p = pin
      BY <1>2 DEF Occupied, SlotsFilled, PinsAgree, TypeOK, Connected
    <3> QED BY <3>1, <3>2
  <2>2. \A v \in Socks \ {w} : Accepted(v) /\ sock[v].room = n => sock[v].pin = pin
    BY <1>2 DEF PinsAgree, Numbered
  <2> QED BY <1>1, <1>4, <1>7, <2>1, <2>2 DEF PinsAgree
<1>13. Occupied'
  <2> SUFFICES ASSUME NEW p \in Pins, rooms'[p] # NoRoom
               PROVE  \E r \in Roles : room'[rooms'[p]][r] # NoSock
    BY DEF Occupied
  <2>1. w # NoSock
    BY RelayAssumption
  <2>2. CASE p = pin
    BY <1>5, <1>7, <2>1, <2>2
  <2>3. CASE p # pin
    <3>1. rooms[p] \in RoomIds /\ rooms'[p] = rooms[p]
      BY <1>7, <2>3 DEF TypeOK, RoomIds, NoRoom
    <3>2. PICK r \in Roles : room[rooms[p]][r] # NoSock
      BY <1>7, <2>3 DEF Occupied
    <3> QED BY <1>5, <2>1, <3>1, <3>2
  <2> QED BY <2>2, <2>3
<1>14. Registered'
  <2> SUFFICES ASSUME NEW v \in Socks, Connected(v)', sock'[v].pin \notin swept
               PROVE  rooms'[sock'[v].pin] = sock'[v].room
    BY DEF Registered
  <2>1. CASE v = w
    BY <1>1, <1>7, <2>1
  <2>2. CASE v # w
    <3>1. /\ Connected(v) /\ rooms[sock[v].pin] = sock[v].room
          /\ sock[v].pin \in Pins /\ sock[v].room # NoRoom
      BY <1>1, <1>4, <2>2 DEF Registered, PinsAgree, Connected, Accepted
    <3> QED BY <1>1, <1>7, <2>2, <3>1
  <2> QED BY <2>1, <2>2
<1> QED BY <1>8, <1>9, <1>10, <1>11, <1>12, <1>13, <1>14

LEMMA ConnectKeeps ==
  ASSUME RelayInv, NEW w \in Socks, NEW pin \in Pins \cup {NoPin}, NEW role \in Roles,
         Connect(w, pin, role)
  PROVE  RelayInv'
<1>1. sock[w].state = "idle" /\ forwarded' = <<>> /\ UNCHANGED <<now, swept>>
  BY DEF Connect
<1>2. CASE Refuse(w)
  BY <1>1, <1>2, RefuseKeeps
<1>3. CASE /\ pin \in Pins /\ rooms[pin] = NoRoom /\ made < MaxRooms
           /\ made' = made + 1
           /\ rooms' = [rooms EXCEPT ![pin] = made + 1]
           /\ room' = [room EXCEPT ![made + 1] = [EmptyRoom EXCEPT ![role] = w]]
           /\ createdAt' = [createdAt EXCEPT ![made + 1] = CreationTime]
           /\ Enter(w, pin, role, made + 1)
  <2>1. made + 1 \in RoomIds /\ made' \in 0..MaxRooms /\ made + 1 <= made'
    BY <1>3, RelayAssumption DEF RelayInv, TypeOK, RoomIds
  <2>2. \A r \in Roles : room[made + 1][r] = NoSock
    <3> SUFFICES ASSUME NEW r \in Roles, NEW v \in Socks, room[made + 1][r] = v
                 PROVE  FALSE
      BY <2>1 DEF RelayInv, TypeOK
    <3>1. sock[v].room = made + 1
      BY <2>1 DEF RelayInv, SlotsFilled
    <3> QED BY <2>1, <3>1, SocketTypes DEF RelayInv, Numbered
  <2>3. room[made + 1] = EmptyRoom
    BY <2>1, <2>2 DEF EmptyRoom, RelayInv, TypeOK
  <2>4. /\ SlotFree(made + 1, role)
        /\ room' = [room EXCEPT ![made + 1][role] = w]
    BY <1>3, <2>1, <2>2, <2>3, RelayAssumption DEF SlotFree, RelayInv, TypeOK
  <2>5. /\ createdAt' \in [RoomIds -> 0..MaxTime]
        /\ \A m \in RoomIds : createdAt'[m] <= now
    BY <1>3, <2>1 DEF CreationTime, RelayInv, TypeOK
  <2> QED BY <1>1, <1>3, <2>1, <2>4, <2>5, EnterKeeps
<1>4. CASE /\ pin \in Pins /\ rooms[pin] # NoRoom /\ SlotFree(rooms[pin], role)
           /\ room' = [room EXCEPT ![rooms[pin]][role] = w]
           /\ Enter(w, pin, role, rooms[pin])
           /\ UNCHANGED <<rooms, createdAt, made>>
  <2>1. rooms[pin] \in RoomIds /\ rooms' = [rooms EXCEPT ![pin] = rooms[pin]]
    BY <1>4 DEF RelayInv, TypeOK, RoomIds, NoRoom
  <2>2. made' \in 0..MaxRooms /\ made' \in {made, made + 1} /\ rooms[pin] <= made'
    BY <1>4 DEF RelayInv, TypeOK, Numbered
  <2>3. /\ createdAt' \in [RoomIds -> 0..MaxTime]
        /\ \A m \in RoomIds : createdAt'[m] <= now
    BY <1>4 DEF RelayInv, TypeOK
  <2> QED BY <1>1, <1>4, <2>1, <2>2, <2>3, EnterKeeps
<1> QED BY <1>2, <1>3, <1>4 DEF Connect

LEMMA CloseKeeps ==
  ASSUME RelayInv, NEW w \in Socks, Close(w)
  PROVE  RelayInv'
<1> USE DEF RelayInv
<1>1. /\ \A v \in Socks \ {w} : sock'[v] = sock[v]
      /\ sock'[w].state = "closed" /\ sock'[w].room = sock[w].room
      /\ sock'[w].role = sock[w].role /\ sock'[w].pin = sock[w].pin
      /\ sock' \in [Socks -> Sockets]
      /\ UNCHANGED <<createdAt, made, now, swept>> /\ forwarded' = <<>>
  <2>1. sock[w] \in Sockets /\ sock'[w] = [sock[w] EXCEPT !.state = "closed"]
    BY DEF Close, TypeOK
  <2>2. [sock[w] EXCEPT !.state = "closed"] \in Sockets
    BY <2>1 DEF Sockets, States
  <2> QED BY <2>1, <2>2 DEF Close, TypeOK, Sockets
<1>2. /\ ~Connected(w)'
      /\ \A v \in Socks : Accepted(v)' <=> Accepted(v)
      /\ \A v \in Socks \ {w} : Connected(v)' <=> Connected(v)
  BY <1>1 DEF Connected, Accepted
<1>3. CASE ~Accepted(w)
  <2>1. UNCHANGED <<room, rooms>>
    BY <1>3 DEF Close
  <2>2. TypeOK' /\ Numbered' /\ Occupied'
    BY <1>1, <1>2, <2>1 DEF TypeOK, Numbered, Occupied
  <2>3. HoldsItsSlot' /\ SlotsFilled' /\ PinsAgree' /\ Registered'
    BY <1>1, <1>2, <1>3, <2>1
    DEF HoldsItsSlot, SlotsFilled, PinsAgree, Registered, Connected
  <2> QED BY <2>2, <2>3
<1>4. CASE Accepted(w)
  <2> DEFINE n == sock[w].room
             role == sock[w].role
  <2>1. /\ n \in RoomIds /\ role \in Roles /\ sock[w].pin \in Pins /\ Connected(w)
        /\ room[n][role] = w
    BY <1>4, SocketTypes DEF PinsAgree, Close, Connected, HoldsItsSlot
  <2>2. /\ \A m \in RoomIds, r \in Roles :
             room'[m][r] = IF m = n /\ r = role THEN NoSock ELSE room[m][r]
        /\ room' \in [RoomIds -> [Roles -> Socks \cup {NoSock}]]
    <3>1. room' = [room EXCEPT ![n][role] = NoSock]
      BY <1>4 DEF Close
    <3> HIDE DEF n, role
    <3> QED BY <2>1, <3>1 DEF TypeOK
  <2>3. /\ rooms' \in [Pins -> 0..MaxRooms]
        /\ \A p \in Pins : rooms'[p] = IF p = sock[w].pin /\ LeftEmpty(n, role)
                                       THEN NoRoom ELSE rooms[p]
    <3>1. rooms' = IF LeftEmpty(n, role) THEN [rooms EXCEPT ![sock[w].pin] = NoRoom]
                   ELSE rooms
      BY <1>4 DEF Close
    <3>2. NoRoom \in 0..MaxRooms
      BY RelayAssumption DEF NoRoom
    <3> HIDE DEF n, role
    <3> QED BY <2>1, <3>1, <3>2 DEF TypeOK
  <2> HIDE DEF n, role
  <2>4. TypeOK'
    BY <1>1, <2>2, <2>3 DEF TypeOK
  <2>5. HoldsItsSlot'
    <3> SUFFICES ASSUME NEW v \in Socks, Connected(v)'
                 PROVE  room'[sock'[v].room][sock'[v].role] = v
      BY DEF HoldsItsSlot, Connected
    <3>1. /\ v # w /\ Connected(v) /\ room[sock[v].room][sock[v].role] = v
          /\ sock[v].room \in RoomIds /\ sock[v].role \in Roles
      BY <1>2, SocketTypes DEF HoldsItsSlot, Connected
    <3> QED BY <1>1, <2>1, <2>2, <3>1
  <2>6. SlotsFilled'
    <3> SUFFICES ASSUME NEW m \in RoomIds, NEW r \in Roles, NEW v \in Socks, room'[m][r] = v
                 PROVE  Connected(v)' /\ sock'[v].room = m /\ sock'[v].role = r
      BY DEF SlotsFilled
    <3>1. room[m][r] = v /\ ~(m = n /\ r = role)
      BY <2>2, RelayAssumption
    <3>2. Connected(v) /\ sock[v].room = m /\ sock[v].role = r
      BY <3>1 DEF SlotsFilled
    <3>3. v # w
      BY <3>1, <3>2 DEF n, role
    <3> QED BY <1>1, <1>2, <3>2, <3>3
  <2>7. Numbered'
    BY <1>1, <1>2, <2>3, SocketTypes DEF Numbered, NoRoom
  <2>8. PinsAgree'
    BY <1>1, <1>2, <2>3 DEF PinsAgree, Accepted
  <2>9. Occupied'
    <3> SUFFICES ASSUME NEW p \in Pins, rooms'[p] # NoRoom
                 PROVE  \E r \in Roles : room'[rooms'[p]][r] # NoSock
      BY DEF Occupied
    <3>1. rooms'[p] = rooms[p] /\ rooms[p] \in RoomIds
      BY <2>3 DEF TypeOK, RoomIds, NoRoom
    <3>2. CASE rooms[p] = n
      <4>1. p = sock[w].pin
        BY <1>4, <3>2 DEF PinsAgree, n
      <4>2. ~LeftEmpty(n, role)
        BY <2>3, <4>1
      <4>3. Other(role) \in Roles /\ Other(role) # role
        BY <2>1 DEF Other, Roles
      <4> QED BY <2>1, <2>2, <3>1, <3>2, <4>2, <4>3 DEF LeftEmpty
    <3>3. CASE rooms[p] # n
      <4>1. PICK r \in Roles : room[rooms[p]][r] # NoSock
        BY <3>1 DEF Occupied
      <4> QED BY <2>2, <3>1, <3>3, <4>1
    <3> QED BY <3>2, <3>3
  <2>10. Registered'
    <3> SUFFICES ASSUME NEW v \in Socks, Connected(v)', sock'[v].pin \notin swept
                 PROVE  rooms'[sock'[v].pin] = sock'[v].room
      BY <1>1 DEF Registered
    <3>1. /\ v # w /\ Connected(v) /\ sock'[v] = sock[v]
          /\ rooms[sock[v].pin] = sock[v].room /\ sock[v].pin \in Pins
      BY <1>1, <1>2 DEF Registered, Connected, PinsAgree
    <3>2. ASSUME sock[v].pin = sock[w].pin, LeftEmpty(n, role) PROVE FALSE
      <4>1. sock[v].room = n
        BY <1>1, <2>1, <3>1, <3>2 DEF Registered, n
      <4>2. room[n][sock[v].role] = v /\ sock[v].role \in Roles
        BY <3>1, <4>1, SocketTypes DEF HoldsItsSlot, Connected
      <4>3. sock[v].role = Other(role)
        BY <2>1, <3>1, <4>2 DEF Other, Roles
      <4> QED BY <3>2, <4>2, <4>3, RelayAssumption DEF LeftEmpty
    <3> QED BY <2>3, <3>1, <3>2
  <2> QED BY <2>4, <2>5, <2>6, <2>7, <2>8, <2>9, <2>10
<1> QED BY <1>3, <1>4

LEMMA SweepKeeps == RelayInv /\ Sweep => RelayInv'
<1> SUFFICES ASSUME RelayInv, Sweep PROVE RelayInv'
  OBVIOUS
<1> USE DEF RelayInv
<1> DEFINE old == {pin \in Pins : rooms[pin] # NoRoom /\ Stale(rooms[pin])}
<1>1. /\ UNCHANGED <<room, createdAt, made, now>> /\ forwarded' = <<>>
      /\ swept' = swept \cup old
      /\ rooms' = [pin \in Pins |-> IF pin \in old THEN NoRoom ELSE rooms[pin]]
  BY DEF Sweep
<1>2. /\ sock' \in [Socks -> Sockets]
      /\ \A w \in Socks :
           /\ sock'[w].room = sock[w].room /\ sock'[w].role = sock[w].role
           /\ sock'[w].pin = sock[w].pin
           /\ sock'[w].state = sock[w].state
                \/ (sock[w].state = "open" /\ sock'[w].state = "closing")
  <2>1. \A w \in Socks : /\ sock[w] \in Sockets
                         /\ [sock[w] EXCEPT !.state = "closing"] \in Sockets
    BY DEF TypeOK, Sockets, States
  <2>2. \A w \in Socks :
          \/ sock'[w] = sock[w]
          \/ sock[w].state = "open" /\ sock'[w] = [sock[w] EXCEPT !.state = "closing"]
    BY DEF Sweep
  <2>3. sock' = [w \in Socks |-> sock'[w]]
    BY DEF Sweep
  <2> QED BY <2>1, <2>2, <2>3 DEF Sockets
<1> HIDE DEF old
<1>3. \A w \in Socks : (Accepted(w)' <=> Accepted(w)) /\ (Connected(w)' <=> Connected(w))
  BY <1>2 DEF Accepted, Connected
<1>4. TypeOK'
  <2>1. NoRoom \in 0..MaxRooms /\ old \subseteq Pins
    BY RelayAssumption DEF NoRoom, old
  <2> QED BY <1>1, <1>2, <2>1 DEF TypeOK
<1>5. HoldsItsSlot' /\ SlotsFilled'
  BY <1>1, <1>2, <1>3 DEF HoldsItsSlot, SlotsFilled, Connected
<1>6. Numbered'
  <2>1. NoRoom <= made
    BY DEF TypeOK, NoRoom
  <2>2. \A w \in Socks : sock'[w].state = "idle" => sock[w].state = "idle"
    BY <1>2
  <2> QED BY <1>1, <1>2, <1>3, <2>1, <2>2 DEF Numbered
<1>7. PinsAgree'
  BY <1>1, <1>2, <1>3 DEF PinsAgree, Accepted
<1>8. Occupied'
  BY <1>1 DEF Occupied
<1>9. Registered'
  BY <1>1, <1>2, <1>3 DEF Registered, PinsAgree, Connected
<1> QED BY <1>4, <1>5, <1>6, <1>7, <1>8, <1>9

LEMMA RelayStep == RelayInv /\ [Next]_vars => RelayInv'
<1> SUFFICES ASSUME RelayInv, [Next]_vars PROVE RelayInv'
  OBVIOUS
<1> DEFINE Still == UNCHANGED <<sock, rooms, room, createdAt, made, swept>>
<1>1. ASSUME Still, now' \in 0..MaxTime, now' >= now,
             forwarded' \in {<<>>} \cup (Socks \X Socks)
      PROVE  RelayInv'
  <2>1. TypeOK'
    BY <1>1 DEF RelayInv, TypeOK
  <2> QED
    BY <1>1, <2>1 DEF RelayInv, HoldsItsSlot, SlotsFilled, Numbered, PinsAgree, Occupied,
                      Registered, Connected, Accepted
<1>2. ASSUME NEW w \in Socks, NEW pin \in Pins \cup {NoPin}, NEW role \in Roles,
             Connect(w, pin, role)
      PROVE  RelayInv'
  BY <1>2, ConnectKeeps
<1>3. ASSUME NEW w \in Socks, Forward(w) PROVE RelayInv'
  <2>1. Peer(w) # NoSock => Peer(w) \in Socks
    <3>1. sock[w].room \in RoomIds /\ Other(sock[w].role) \in Roles
      BY <1>3, SocketTypes DEF Forward, RelayInv, Other, Roles
    <3> QED BY <3>1 DEF Peer, RelayInv, TypeOK
  <2>2. forwarded' \in {<<>>} \cup (Socks \X Socks)
    BY <1>3, <2>1 DEF Forward
  <2>3. now' \in 0..MaxTime /\ now' >= now
    BY <1>3 DEF Forward, RelayInv, TypeOK
  <2> QED BY <1>1, <1>3, <2>2, <2>3 DEF Forward
<1>4. ASSUME NEW w \in Socks, CloseForPolicy(w) PROVE RelayInv'
  <2>1. sock[w] \in Sockets /\ [sock[w] EXCEPT !.state = "closing"] \in Sockets
    BY DEF RelayInv, TypeOK, Sockets, States
  <2>2. /\ {w} \in SUBSET Socks
        /\ \A v \in {w} : sock[v].state \in {"open", "closing"} \/ ~Accepted(v)
        /\ \A v \in {w} : sock'[v] = [sock[v] EXCEPT !.state = "closing"]
        /\ \A v \in Socks \ {w} : sock'[v] = sock[v]
        /\ sock' \in [Socks -> Sockets]
    BY <1>4, <2>1 DEF CloseForPolicy, Open, RelayInv, TypeOK
  <2> QED BY <1>4, <2>2, ClosingKeeps DEF CloseForPolicy
<1>5. ASSUME NEW w \in Socks, Close(w) PROVE RelayInv'
  BY <1>5, CloseKeeps
<1>6. CASE Sweep
  BY <1>6, SweepKeeps
<1>7. CASE Tick
  BY <1>1, <1>7, RelayAssumption DEF Tick, RelayInv, TypeOK
<1>8. CASE UNCHANGED vars
  BY <1>1, <1>8 DEF vars, RelayInv, TypeOK
<1> QED
  BY <1>2, <1>3, <1>4, <1>5, <1>6, <1>7, <1>8 DEF Next

LEMMA RelayInvariant == Spec => []RelayInv
BY RelayInit, RelayStep, PTL DEF Spec

(* Every variable of the relay keeps its type. *)
THEOREM RelayTypeCorrect == Spec => []TypeOK
<1>1. RelayInv => TypeOK
  BY DEF RelayInv
<1> QED BY <1>1, RelayInvariant, PTL

(* A connected socket is never pushed out of its slot, nor cleared from it *)
(* by the close handler of another.                                        *)
THEOREM SlotsAreKept == Spec => []HoldsItsSlot
<1>1. RelayInv => HoldsItsSlot
  BY DEF RelayInv
<1> QED BY <1>1, RelayInvariant, PTL

(* A PIN that leads to a room leads to one where somebody is connected.    *)
THEOREM NoRoomLeaks == Spec => []NoEmptyRoom
<1>1. RelayInv => NoEmptyRoom
  <2> SUFFICES ASSUME RelayInv, NEW pin \in Pins, rooms[pin] # NoRoom
               PROVE  \E w \in Socks : /\ sock[w].room = rooms[pin] /\ sock[w].pin = pin
                                       /\ sock[w].state \in {"open", "closing"}
    BY DEF NoEmptyRoom
  <2>1. rooms[pin] \in RoomIds
    BY DEF RelayInv, TypeOK, RoomIds, NoRoom
  <2>2. PICK role \in Roles : room[rooms[pin]][role] # NoSock
    BY DEF RelayInv, Occupied
  <2>3. PICK w \in Socks : room[rooms[pin]][role] = w
    BY <2>1, <2>2 DEF RelayInv, TypeOK
  <2>4. Connected(w) /\ sock[w].room = rooms[pin]
    BY <2>1, <2>3 DEF RelayInv, SlotsFilled
  <2> QED BY <2>4 DEF RelayInv, PinsAgree, Connected
<1> QED BY <1>1, RelayInvariant, PTL

(* Until the sweep comes by, whoever is connected under one PIN is in one  *)
(* room, one as host and one as guest.                                     *)
THEOREM PairedUntilSwept == Spec => []PairedUnlessSwept
<1>1. RelayInv => PairedUnlessSwept
  <2> SUFFICES ASSUME RelayInv, NEW w \in Socks, NEW v \in Socks, Open(w), Open(v), w # v,
                      sock[w].pin = sock[v].pin, sock[w].pin \notin swept
               PROVE  sock[w].room = sock[v].room /\ sock[w].role # sock[v].role
    BY DEF PairedUnlessSwept
  <2>1. Connected(w) /\ Connected(v)
    BY DEF Open, Connected
  <2>2. sock[w].room = sock[v].room
    BY <2>1 DEF RelayInv, Registered
  <2>3. /\ room[sock[w].room][sock[w].role] = w
        /\ room[sock[v].room][sock[v].role] = v
    BY <2>1 DEF RelayInv, HoldsItsSlot, Connected
  <2> QED BY <2>2, <2>3
<1> QED BY <1>1, RelayInvariant, PTL

(* A frame crosses its sender's own room and nothing else. *)
THEOREM FramesStayInTheirRoom == Spec => ForwardsInRoom
<1> DEFINE Across ==
      \A w \in Socks : \A v \in Socks :
        forwarded' = <<w, v>> => /\ sock[w].room = sock[v].room
                                 /\ sock[w].role # sock[v].role
<1>1. RelayInv /\ [Next]_vars => Across \/ UNCHANGED vars
  <2> SUFFICES ASSUME RelayInv, Next, NEW w \in Socks, NEW v \in Socks,
                      forwarded' = <<w, v>>
               PROVE  sock[w].room = sock[v].room /\ sock[w].role # sock[v].role
    OBVIOUS
  <2>1. Forward(w) /\ v = Peer(w)
    BY DEF Next, Connect, Forward, CloseForPolicy, Close, Sweep, Tick
  <2>2. sock[w].room \in RoomIds /\ sock[w].role \in Roles
    BY <2>1, SocketTypes DEF Forward, RelayInv
  <2>3. sock[v].room = sock[w].room /\ sock[v].role = Other(sock[w].role)
    BY <2>1, <2>2 DEF Peer, Other, Roles, RelayInv, SlotsFilled
  <2> QED BY <2>2, <2>3 DEF Other, Roles
<1> QED
  BY <1>1, RelayInvariant, PTL DEF Spec, ForwardsInRoom
===============================================================================
