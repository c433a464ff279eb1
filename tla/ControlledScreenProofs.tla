------------------------- MODULE ControlledScreenProofs -------------------------
(***************************************************************************)
(* Theorems about ControlledScreen, for any number of RelayHosts, with and *)
(* without StrictMode.                                                     *)
(***************************************************************************)
EXTENDS ControlledScreen, TLAPS

States == {"none", "connecting", "open", "closing", "closed"}

(* Effects wait where a mount or an unmount has left them. *)
DueInv ==
  /\ due = "setup" => view.role = "controlled" /\ view.durum = "basliyor"
  /\ due = "cleanup" => view.role = "menu"

(* In the menu no screen exists, and the next one is as good as new. *)
MenuInv ==
  view.role = "menu" => view = Menu /\ next.durum = "basliyor" /\ next.host = NoHost

(* Every mount finds numbers for the hosts of its effects. *)
RoomInv ==
  /\ (next.role = "controlled" /\ view.role = "menu") \/ due = "setup"
       => made + 2 <= MaxHosts
  /\ mount <= made \/ (due = "setup" /\ mount <= made + 1)

(* The effects not cleaned up are those of the mounted screen. *)
EffectsLive ==
  \A h \in Hosts : starter[h] = "effect" /\ h \notin iptal =>
    mountOf[h] = mount /\ (view.role = "controlled" \/ due = "cleanup")

(* No host of an effect that was cleaned up serves. *)
CancelledStop == \A h \in iptal : ~Serving(h)

(* Only hosts that were started have a starter. *)
StartedInv == \A h \in Hosts : starter[h] # "none" => h <= made

(* The hosts that will serve if their connection comes up *)
Coming(h) == ws[h] = "connecting" /\ h \notin iptal

(* Of presses that wait for the rendering of the one before: a start is    *)
(* known to the screen, which then shows no other host; one start is under *)
(* way at a time, and none when effects are to begin; nothing serves once  *)
(* the menu was asked for.                                                 *)
ComingInv ==
  ~hasty => \A h \in Hosts : Coming(h) =>
    /\ mountOf[h] = mount /\ due # "setup"
    /\ view.role = "controlled" /\ next.role = "controlled"
    /\ next.durum = "basliyor" /\ next.host = NoHost

OneComing == ~hasty => \A g, h \in Hosts : Coming(g) /\ Coming(h) => g = h

SetupInv ==
  ~hasty /\ due = "setup" =>
    next.role = "controlled" /\ next.durum = "basliyor" /\ next.host = NoHost

MenuServes == ~hasty /\ next.role = "menu" => \A h \in Hosts : ~Serving(h)

(* The inductive invariant: what holds of all presses, and what holds of   *)
(* those that are not hasty.                                               *)
AnyPress ==
  /\ TypeOK /\ DueInv /\ MenuInv /\ RoomInv
  /\ EffectsLive /\ CancelledStop /\ StartedInv /\ ReadyUnlessLost
Unhurried == ComingInv /\ OneComing /\ SetupInv /\ MenuServes /\ OnlyThisPin
ScreenInv == AnyPress /\ Unhurried

-------------------------------------------------------------------------------
(* What the operators of the model return *)

SocketMaps == [Hosts -> States]

LEMMA HostNumbers == NoHost \notin Hosts /\ Hosts \subseteq Nat
BY ScreenAssumption DEF NoHost, Hosts

(* stop changes the socket of an open host, and no other. *)
LEMMA StoppedSockets ==
  ASSUME TypeOK, NEW g \in Hosts \cup {NoHost}
  PROVE  /\ Stopped(g) \in SocketMaps
         /\ \A h \in Hosts : \/ Stopped(g)[h] = ws[h]
                             \/ h = g /\ Serving(h) /\ Stopped(g)[h] = "closing"
         /\ g \in Hosts => Stopped(g)[g] # "open"
BY HostNumbers DEF TypeOK, Stopped, Serving, SocketMaps, States

(* Setters change durum and host only, in a screen still mounted. *)
LEMMA ShowsFields ==
  ASSUME TypeOK, NEW h \in Hosts, NEW g \in Hosts \cup {NoHost},
         NEW durum \in {"calisiyor", "hata"}, Shows(h, durum, g),
         durum = "calisiyor" => g # NoHost
  PROVE  /\ next' \in Views /\ next'.role = next.role
         /\ next'.durum = "calisiyor" => next'.host # NoHost
         /\ view.role = "controlled" /\ mountOf[h] = mount =>
              next'.durum = durum /\ next'.host = g
         /\ ~(view.role = "controlled" /\ mountOf[h] = mount) => next' = next
BY DEF TypeOK, Shows, Views

LEMMA StartFields ==
  ASSUME TypeOK, RoomInv, NEW n \in 1..2, made + n <= MaxHosts,
         NEW by \in {"effect", "yeniPin"}, NEW s \in SocketMaps,
         \A h \in Hosts : s[h] = "none" <=> h > made,
         Start(n, by, s)
  PROVE  /\ made' = made + n /\ made' \in 0..MaxHosts
         /\ ws' \in SocketMaps
         /\ \A h \in Hosts : ws'[h] = "none" <=> h > made'
         /\ starter' \in [Hosts -> {"none", "effect", "yeniPin"}]
         /\ mountOf' \in [Hosts -> 0..mount]
         /\ \A h \in Hosts : h \in made + 1 .. made + n =>
              ws'[h] = "connecting" /\ starter'[h] = by /\ mountOf'[h] = mount
         /\ \A h \in Hosts : h \notin made + 1 .. made + n =>
              ws'[h] = s[h] /\ starter'[h] = starter[h] /\ mountOf'[h] = mountOf[h]
<1> USE ScreenAssumption
<1> DEFINE new == made + 1 .. made + n
<1>1. made' = made + n /\ made' \in 0..MaxHosts
  BY DEF Start, TypeOK
<1>2. /\ \A h \in Hosts : h \in new =>
           ws'[h] = "connecting" /\ starter'[h] = by /\ mountOf'[h] = mount
      /\ \A h \in Hosts : h \notin new =>
           ws'[h] = s[h] /\ starter'[h] = starter[h] /\ mountOf'[h] = mountOf[h]
  BY DEF Start
<1>3. ws' \in SocketMaps
  BY DEF Start, SocketMaps, States
<1>4. /\ starter' \in [Hosts -> {"none", "effect", "yeniPin"}]
      /\ mountOf' \in [Hosts -> 0..mount]
  BY DEF Start, TypeOK
<1>5. \A h \in Hosts : ws'[h] = "none" <=> h > made'
  BY <1>1, <1>2 DEF TypeOK, Hosts
<1> QED BY <1>1, <1>2, <1>3, <1>4, <1>5

-------------------------------------------------------------------------------
(* What holds of all presses *)

LEMMA ScreenInit == Init => ScreenInv
<1> SUFFICES ASSUME Init PROVE ScreenInv
  OBVIOUS
<1> USE ScreenAssumption
<1>1. TypeOK
  <2>1. /\ made \in 0..MaxHosts /\ mount \in 0..MaxHosts
        /\ ws \in SocketMaps /\ starter \in [Hosts -> {"none", "effect", "yeniPin"}]
        /\ mountOf \in [Hosts -> 0..mount] /\ iptal \subseteq 1..made /\ lost \subseteq 1..made
        /\ due \in {"nothing", "setup", "cleanup"}
    BY DEF Init, SocketMaps, States
  <2>2. view \in Views /\ next \in Views
    BY DEF Init, Menu, Views
  <2>3. /\ \A h \in Hosts : ws[h] = "none" <=> h > made
        /\ \A v \in {view, next} : v.durum = "calisiyor" => v.host # NoHost
    BY DEF Init, Hosts, Menu
  <2>4. hasty \in BOOLEAN
    BY Zenon DEF Init
  <2> QED BY <2>1, <2>2, <2>3, <2>4 DEF TypeOK, SocketMaps, States
<1>2. /\ DueInv /\ MenuInv /\ RoomInv
      /\ EffectsLive /\ CancelledStop /\ StartedInv /\ ReadyUnlessLost
  BY DEF Init, Menu, DueInv, MenuInv, RoomInv, EffectsLive, CancelledStop, StartedInv,
         ReadyUnlessLost
<1>3. Unhurried
  BY DEF Init, Unhurried, ComingInv, OneComing, SetupInv, MenuServes, OnlyThisPin, Coming,
         Serving
<1> QED BY <1>1, <1>2, <1>3 DEF ScreenInv, AnyPress

LEMMA PressTypes == ASSUME TypeOK, Press PROVE hasty' \in BOOLEAN
BY Zenon DEF Press

(* Nothing of what holds of all presses is about hasty. *)
LEMMA SocketStep ==
  ASSUME AnyPress, NEW h \in Hosts, StartResolves(h) \/ StartRejects(h) \/ Closes(h)
  PROVE  AnyPress'
<1> USE ScreenAssumption, HostNumbers
<1>1. ASSUME StartResolves(h) PROVE AnyPress'
  <2>1. CASE Cancelled(h)
    <3>1. /\ ws' = [ws EXCEPT ![h] = "closing"] /\ ws[h] = "connecting"
          /\ UNCHANGED <<made, starter, mountOf, iptal, mount, view, next, due, hasty, lost>>
      BY <1>1, <2>1 DEF StartResolves, history
    <3> QED BY <3>1 DEF AnyPress, TypeOK, DueInv, MenuInv, RoomInv, EffectsLive,
                        CancelledStop, StartedInv, ReadyUnlessLost, Serving
  <2>2. CASE ~Cancelled(h)
    <3>1. /\ ws' = [ws EXCEPT ![h] = "open"] /\ ws[h] = "connecting"
          /\ UNCHANGED <<made, starter, mountOf, iptal, mount, view, due, hasty, lost>>
          /\ h \notin iptal
      BY <1>1, <2>2 DEF StartResolves, history, Cancelled
    <3>2. Shows(h, "calisiyor", h)
      BY <1>1, <2>2 DEF StartResolves
    <3>3. /\ next' \in Views /\ next'.role = next.role
          /\ next'.durum = "calisiyor" => next'.host # NoHost
          /\ next' = next \/ (view.role = "controlled" /\ next'.host = h)
      BY <3>2, ShowsFields DEF AnyPress
    <3>4. TypeOK'
      BY <3>1, <3>3 DEF AnyPress, TypeOK
    <3>5. DueInv' /\ MenuInv' /\ RoomInv' /\ EffectsLive' /\ CancelledStop' /\ StartedInv'
      BY <3>1, <3>3 DEF AnyPress, TypeOK, DueInv, MenuInv, RoomInv, EffectsLive,
                        CancelledStop, StartedInv, Serving
    <3>6. ReadyUnlessLost'
      BY <3>1, <3>3 DEF AnyPress, TypeOK, ReadyUnlessLost, Serving, Views
    <3> QED BY <3>4, <3>5, <3>6 DEF AnyPress
  <2> QED BY <2>1, <2>2
<1>2. ASSUME StartRejects(h) PROVE AnyPress'
  <2>1. /\ ws' = [ws EXCEPT ![h] = "closed"] /\ ws[h] = "connecting"
        /\ UNCHANGED <<made, starter, mountOf, iptal, mount, view, due, hasty, lost>>
    BY <1>2 DEF StartRejects, history
  <2>2. /\ next' \in Views /\ next'.role = next.role
        /\ next'.durum = "calisiyor" => next'.host # NoHost
        /\ next' = next \/ (view.role = "controlled" /\ next'.durum = "hata")
    <3>1. next.host \in Hosts \cup {NoHost}
      BY DEF AnyPress, TypeOK, Views
    <3>2. CASE next' = next
      BY <3>2 DEF AnyPress, TypeOK
    <3>3. CASE Shows(h, "hata", next.host)
      BY <3>1, <3>3, ShowsFields DEF AnyPress
    <3> QED BY <1>2, <3>2, <3>3 DEF StartRejects, Failed
  <2>3. TypeOK'
    BY <2>1, <2>2 DEF AnyPress, TypeOK
  <2>4. DueInv' /\ MenuInv' /\ RoomInv' /\ EffectsLive' /\ CancelledStop' /\ StartedInv'
    BY <2>1, <2>2 DEF AnyPress, TypeOK, DueInv, MenuInv, RoomInv, EffectsLive,
                      CancelledStop, StartedInv, Serving
  <2>5. ReadyUnlessLost'
    BY <2>1, <2>2 DEF AnyPress, TypeOK, ReadyUnlessLost, Serving, Views
  <2> QED BY <2>3, <2>4, <2>5 DEF AnyPress
<1>3. ASSUME Closes(h) PROVE AnyPress'
  <2>1. /\ ws' = [ws EXCEPT ![h] = "closed"] /\ ws[h] \in {"open", "closing"}
        /\ UNCHANGED <<made, starter, mountOf, iptal, mount, view, next, due, hasty>>
        /\ lost' = IF Serving(h) THEN lost \cup {h} ELSE lost
    BY <1>3 DEF Closes
  <2>2. TypeOK'
    BY <2>1 DEF AnyPress, TypeOK, Hosts
  <2> QED BY <2>1, <2>2 DEF AnyPress, TypeOK, DueInv, MenuInv, RoomInv, EffectsLive,
                            CancelledStop, StartedInv, ReadyUnlessLost, Serving
<1> QED BY <1>1, <1>2, <1>3

LEMMA ButtonStep ==
  ASSUME AnyPress, PickControlled \/ Durdur \/ YeniPin
  PROVE  AnyPress'
<1> USE ScreenAssumption, HostNumbers
<1>h. hasty' \in BOOLEAN
  BY PressTypes DEF AnyPress, PickControlled, Durdur, YeniPin
<1>v. view.host \in Hosts \cup {NoHost}
  BY DEF AnyPress, TypeOK, Views
<1>1. ASSUME PickControlled PROVE AnyPress'
  <2>1. /\ view.role = "menu" /\ made + 2 <= MaxHosts
        /\ next' = [next EXCEPT !.role = "controlled"]
        /\ UNCHANGED <<made, ws, starter, mountOf, iptal, mount, view, due, lost>>
    BY <1>1 DEF PickControlled, hosts
  <2>2. TypeOK'
    BY <1>h, <2>1 DEF AnyPress, TypeOK, Views
  <2> QED BY <2>1, <2>2 DEF AnyPress, TypeOK, DueInv, MenuInv, RoomInv, EffectsLive,
                            CancelledStop, StartedInv, ReadyUnlessLost, Serving, Views
<1>2. ASSUME Durdur PROVE AnyPress'
  <2>1. /\ view.role = "controlled" /\ view.durum = "calisiyor"
        /\ ws' = Stopped(view.host) /\ next' = [next EXCEPT !.role = "menu"]
        /\ UNCHANGED <<made, starter, mountOf, iptal, mount, view, due, lost>>
    BY <1>2 DEF Durdur, AnaMenuyeDon
  <2>2. /\ ws' \in SocketMaps
        /\ \A h \in Hosts : /\ ws'[h] = "none" <=> h > made
                            /\ ws'[h] = "open" => ws[h] = "open"
    BY <1>v, <2>1, StoppedSockets DEF AnyPress, TypeOK, Serving
  <2>3. next' \in Views /\ next'.role = "menu"
        /\ next'.durum = next.durum /\ next'.host = next.host
    BY <2>1 DEF AnyPress, TypeOK, Views
  <2>4. TypeOK'
    BY <1>h, <2>1, <2>2, <2>3 DEF AnyPress, TypeOK, SocketMaps, States
  <2>5. EffectsLive' /\ CancelledStop' /\ StartedInv'
    BY <2>1, <2>2 DEF AnyPress, TypeOK, EffectsLive, CancelledStop, StartedInv, Serving, Hosts
  <2> QED BY <2>1, <2>3, <2>4, <2>5 DEF AnyPress, DueInv, MenuInv, RoomInv, ReadyUnlessLost
<1>3. ASSUME YeniPin PROVE AnyPress'
  <2>1. /\ view.role = "controlled" /\ view.durum = "calisiyor" /\ made + 1 <= MaxHosts
        /\ next' = [next EXCEPT !.durum = "basliyor", !.host = NoHost]
        /\ UNCHANGED <<iptal, mount, view, due, lost>>
    BY <1>3 DEF YeniPin, Restarting, AnyPress, TypeOK
  <2>2. /\ Stopped(view.host) \in SocketMaps
        /\ \A h \in Hosts : Stopped(view.host)[h] = "none" <=> h > made
        /\ \A h \in Hosts : Stopped(view.host)[h] = "open" => Serving(h)
    BY <1>v, StoppedSockets DEF AnyPress, TypeOK, Serving
  <2>3. /\ made' = made + 1 /\ made' \in 0..MaxHosts /\ ws' \in SocketMaps
        /\ \A h \in Hosts : ws'[h] = "none" <=> h > made'
        /\ starter' \in [Hosts -> {"none", "effect", "yeniPin"}]
        /\ mountOf' \in [Hosts -> 0..mount]
        /\ \A h \in Hosts : h \in made + 1 .. made + 1 =>
             ws'[h] = "connecting" /\ starter'[h] = "yeniPin" /\ mountOf'[h] = mount
        /\ \A h \in Hosts : h \notin made + 1 .. made + 1 =>
             /\ ws'[h] = Stopped(view.host)[h]
             /\ starter'[h] = starter[h] /\ mountOf'[h] = mountOf[h]
    BY <1>3, <2>1, <2>2, StartFields DEF YeniPin, AnyPress
  <2>4. TypeOK'
    <3>1. next' \in Views /\ next'.durum # "calisiyor"
      BY <2>1 DEF AnyPress, TypeOK, Views
    <3>2. iptal' \subseteq 1..made' /\ lost' \subseteq 1..made'
      BY <2>1, <2>3 DEF AnyPress, TypeOK
    <3> QED BY <1>h, <2>1, <2>3, <3>1, <3>2 DEF AnyPress, TypeOK, SocketMaps, States
  <2>5. due # "setup"
    BY <2>1 DEF AnyPress, DueInv
  <2>6. RoomInv' /\ DueInv' /\ MenuInv'
    BY <2>1, <2>3, <2>5 DEF AnyPress, TypeOK, RoomInv, DueInv, MenuInv
  <2>7. EffectsLive' /\ CancelledStop' /\ StartedInv'
    <3>1. \A h \in Hosts : h \in made + 1 .. made + 1 \/ starter'[h] = "none" \/ h <= made
      BY <2>3 DEF AnyPress, StartedInv
    <3>2. StartedInv'
      BY <2>3, <3>1 DEF AnyPress, TypeOK, StartedInv, Hosts
    <3>3. EffectsLive'
      BY <2>1, <2>3 DEF AnyPress, EffectsLive
    <3>4. \A h \in iptal : h \in Hosts /\ h \notin made + 1 .. made + 1 /\ ws[h] # "open"
      BY DEF AnyPress, TypeOK, CancelledStop, Serving, Hosts
    <3>5. CancelledStop'
      BY <2>1, <2>2, <2>3, <3>4 DEF CancelledStop, Serving
    <3> QED BY <3>2, <3>3, <3>5
  <2>8. ReadyUnlessLost'
    BY <2>1 DEF AnyPress, TypeOK, ReadyUnlessLost, Views
  <2> QED BY <2>4, <2>6, <2>7, <2>8 DEF AnyPress
<1> QED BY <1>1, <1>2, <1>3

LEMMA ReactStep ==
  ASSUME AnyPress, Commit \/ RunEffects
  PROVE  AnyPress'
<1> USE ScreenAssumption, HostNumbers
<1>1. ASSUME Commit PROVE AnyPress'
  <2>1. due = "nothing" /\ UNCHANGED <<made, ws, starter, mountOf, iptal, hasty, lost>>
    BY <1>1 DEF Commit, hosts, history
  <2>2. CASE next.role = view.role /\ view' = next /\ UNCHANGED <<next, mount, due>>
    BY <2>1, <2>2 DEF AnyPress, TypeOK, DueInv, MenuInv, RoomInv, EffectsLive,
                      CancelledStop, StartedInv, ReadyUnlessLost, Serving, Views, Menu
  <2>3. CASE /\ next.role = "controlled" /\ view.role = "menu"
             /\ view' = next /\ mount' = mount + 1 /\ due' = "setup" /\ UNCHANGED next
    <3>1. made + 2 <= MaxHosts /\ mount <= made
      BY <2>1, <2>3 DEF AnyPress, RoomInv
    <3>2. TypeOK'
      BY <2>1, <2>3, <3>1 DEF AnyPress, TypeOK
    <3>3. \A h \in Hosts : starter[h] = "effect" => h \in iptal
      BY <2>1, <2>3 DEF AnyPress, EffectsLive
    <3>4. EffectsLive'
      BY <2>1, <3>3 DEF EffectsLive
    <3>5. RoomInv'
      BY <2>1, <2>3, <3>1 DEF AnyPress, TypeOK, RoomInv
    <3> QED BY <2>1, <2>3, <3>2, <3>4, <3>5
            DEF AnyPress, DueInv, MenuInv, CancelledStop, StartedInv, ReadyUnlessLost, Serving
  <2>4. CASE /\ next.role = "menu" /\ view.role = "controlled"
             /\ view' = Menu /\ next' = Menu /\ due' = "cleanup" /\ UNCHANGED mount
    <3>1. TypeOK'
      BY <2>1, <2>4 DEF AnyPress, TypeOK, Views, Menu
    <3> QED BY <2>1, <2>4, <3>1 DEF AnyPress, DueInv, MenuInv, RoomInv, EffectsLive,
                                    CancelledStop, StartedInv, ReadyUnlessLost, Serving, Menu
  <2> QED BY <1>1, <2>2, <2>3, <2>4 DEF Commit
<1>2. ASSUME RunEffects, SetUp PROVE AnyPress'
  <2>1. /\ due = "setup" /\ due' = "nothing" /\ UNCHANGED <<mount, view, next, hasty, lost>>
        /\ made + 2 <= MaxHosts
    BY <1>2 DEF RunEffects, SetUp, history, AnyPress, RoomInv
  <2>2. PICK n \in 1..2 :
          Start(n, "effect", ws) /\ iptal' = iptal \cup (made + 1 .. made + n - 1)
    <3>1. CASE StrictMode
      BY <1>2, <3>1 DEF SetUp, AnyPress, TypeOK
    <3>2. CASE ~StrictMode
      BY <1>2, <3>2 DEF SetUp, AnyPress, TypeOK
    <3> QED BY <3>1, <3>2
  <2>3. /\ made' = made + n /\ made' \in 0..MaxHosts /\ ws' \in SocketMaps
        /\ \A h \in Hosts : ws'[h] = "none" <=> h > made'
        /\ starter' \in [Hosts -> {"none", "effect", "yeniPin"}]
        /\ mountOf' \in [Hosts -> 0..mount]
        /\ \A h \in Hosts : h \in made + 1 .. made + n =>
             ws'[h] = "connecting" /\ starter'[h] = "effect" /\ mountOf'[h] = mount
        /\ \A h \in Hosts : h \notin made + 1 .. made + n =>
             ws'[h] = ws[h] /\ starter'[h] = starter[h] /\ mountOf'[h] = mountOf[h]
    <3>1. ws \in SocketMaps /\ \A h \in Hosts : ws[h] = "none" <=> h > made
      BY DEF AnyPress, TypeOK, SocketMaps, States
    <3>2. made + n <= MaxHosts
      BY <2>1, <2>2 DEF AnyPress, TypeOK
    <3> QED BY <2>2, <3>1, <3>2, StartFields DEF AnyPress
  <2>4. TypeOK'
    BY <2>1, <2>2, <2>3 DEF AnyPress, TypeOK, SocketMaps, States
  <2>5. view.role = "controlled" /\ view.durum = "basliyor"
    BY <2>1 DEF AnyPress, DueInv
  <2>6. RoomInv' /\ DueInv' /\ MenuInv'
    BY <2>1, <2>3, <2>5 DEF AnyPress, TypeOK, RoomInv, DueInv, MenuInv
  <2>7. EffectsLive' /\ CancelledStop' /\ StartedInv'
    <3>1. StartedInv'
      BY <2>3 DEF AnyPress, TypeOK, StartedInv, Hosts
    <3>2. EffectsLive'
      BY <2>1, <2>2, <2>3, <2>5 DEF AnyPress, EffectsLive
    <3>3. \A h \in iptal : h \in Hosts /\ h \notin made + 1 .. made + n /\ ws[h] # "open"
      BY DEF AnyPress, TypeOK, CancelledStop, Serving, Hosts
    <3>4. \A h \in made + 1 .. made + n - 1 : h \in Hosts /\ ws'[h] # "open"
      BY <2>1, <2>3 DEF AnyPress, TypeOK, Hosts
    <3>5. CancelledStop'
      BY <2>2, <2>3, <3>3, <3>4 DEF CancelledStop, Serving
    <3> QED BY <3>1, <3>2, <3>5
  <2>8. ReadyUnlessLost'
    <3>1. \A h \in Hosts : ws[h] = "open" => ws'[h] = "open"
      BY <2>3 DEF AnyPress, TypeOK, Hosts
    <3> QED BY <2>1, <3>1 DEF AnyPress, TypeOK, ReadyUnlessLost, Serving, Views
  <2> QED BY <2>4, <2>6, <2>7, <2>8 DEF AnyPress
<1>3. ASSUME RunEffects, CleanUp PROVE AnyPress'
  <2>1. /\ due = "cleanup" /\ due' = "nothing" /\ iptal' = iptal \cup Effects(mount)
        /\ UNCHANGED <<made, starter, mountOf, mount, view, next, hasty, lost>>
    BY <1>3 DEF RunEffects, CleanUp, history
  <2>2. /\ ws' \in SocketMaps
        /\ \A h \in Hosts : ws'[h] = ws[h] \/ (Serving(h) /\ ws'[h] = "closing")
        /\ \A h \in Effects(mount) : ws'[h] # "open"
    <3>1. /\ \A h \in Hosts : \/ Stopped(h)[h] = ws[h] /\ ws[h] # "open"
                              \/ Serving(h) /\ Stopped(h)[h] = "closing"
      <4>1. ASSUME NEW h \in Hosts
            PROVE  IF Serving(h) THEN Stopped(h)[h] = "closing" ELSE Stopped(h) = ws
        BY HostNumbers DEF AnyPress, TypeOK, Stopped
      <4> QED BY <4>1 DEF Serving
    <3>2. /\ ws' = [h \in Hosts |-> IF h \in Effects(mount) THEN Stopped(h)[h] ELSE ws[h]]
          /\ Effects(mount) \subseteq Hosts
      BY <1>3 DEF CleanUp, Effects
    <3> QED BY <3>1, <3>2 DEF AnyPress, TypeOK, SocketMaps, States
  <2>3. view.role = "menu" /\ next.durum = "basliyor"
    BY <2>1 DEF AnyPress, DueInv, MenuInv
  <2>4. TypeOK'
    <3>1. Effects(mount) \subseteq 1..made
      BY DEF Effects, AnyPress, TypeOK, StartedInv, Hosts
    <3> QED BY <2>1, <2>2, <3>1 DEF AnyPress, TypeOK, SocketMaps, States, Serving
  <2>5. EffectsLive' /\ CancelledStop' /\ StartedInv'
    <3>1. EffectsLive' /\ StartedInv'
      BY <2>1 DEF AnyPress, EffectsLive, StartedInv, Effects
    <3>2. \A h \in iptal : h \in Hosts /\ ws[h] # "open"
      BY DEF AnyPress, TypeOK, CancelledStop, Serving, Hosts
    <3>3. CancelledStop'
      BY <2>1, <2>2, <3>2 DEF CancelledStop, Serving
    <3> QED BY <3>1, <3>3
  <2> QED BY <2>1, <2>3, <2>4, <2>5
          DEF AnyPress, DueInv, MenuInv, RoomInv, ReadyUnlessLost
<1> QED BY <1>1, <1>2, <1>3 DEF RunEffects

LEMMA AnyPressKept == AnyPress /\ [Next]_vars => AnyPress'
<1> SUFFICES ASSUME AnyPress, [Next]_vars PROVE AnyPress'
  OBVIOUS
<1>1. CASE UNCHANGED vars
  BY <1>1 DEF vars, hosts, history, AnyPress, TypeOK, DueInv, MenuInv, RoomInv, EffectsLive,
              CancelledStop, StartedInv, ReadyUnlessLost, Serving
<1> QED BY <1>1, SocketStep, ButtonStep, ReactStep DEF Next

-------------------------------------------------------------------------------
(* What holds as long as no button is pressed before the last press was    *)
(* rendered                                                                *)

LEMMA UnhurriedSocket ==
  ASSUME ScreenInv, ~hasty', NEW h \in Hosts,
         StartResolves(h) \/ StartRejects(h) \/ Closes(h)
  PROVE  Unhurried'
<1> USE HostNumbers
<1>1. TypeOK /\ CancelledStop /\ Unhurried /\ ~hasty
  BY DEF ScreenInv, AnyPress, StartResolves, StartRejects, Closes, history
<1>2. ASSUME StartResolves(h), ~Cancelled(h) PROVE Unhurried'
  <2>1. /\ ws' = [ws EXCEPT ![h] = "open"] /\ ws[h] = "connecting" /\ h \notin iptal
        /\ Shows(h, "calisiyor", h)
        /\ UNCHANGED <<made, starter, mountOf, iptal, mount, view, due, hasty, lost>>
    BY <1>2 DEF StartResolves, history, Cancelled
  <2>2. /\ mountOf[h] = mount /\ due # "setup" /\ view.role = "controlled"
        /\ next.role = "controlled" /\ next.host = NoHost
    BY <1>1, <2>1 DEF Unhurried, ComingInv, Coming
  <2>3. next'.role = "controlled" /\ next'.host = h
    BY <1>1, <2>1, <2>2, ShowsFields
  <2>4. \A g \in Hosts : ~Serving(g) /\ (Coming(g) => g = h)
    BY <1>1, <2>1, <2>2 DEF Unhurried, OnlyThisPin, OneComing, Coming
  <2>5. \A g \in Hosts : ~Coming(g)' /\ (Serving(g)' => g = h)
    BY <1>1, <2>1, <2>4 DEF TypeOK, Coming, Serving
  <2> QED BY <2>1, <2>2, <2>3, <2>5
          DEF Unhurried, ComingInv, OneComing, SetupInv, MenuServes, OnlyThisPin
<1>3. ASSUME (StartResolves(h) /\ Cancelled(h)) \/ StartRejects(h) \/ Closes(h)
      PROVE  Unhurried'
  <2>1. /\ UNCHANGED <<made, starter, mountOf, iptal, mount, view, due, hasty>>
        /\ ws' \in {[ws EXCEPT ![h] = "closing"], [ws EXCEPT ![h] = "closed"]}
    BY <1>3 DEF StartResolves, StartRejects, Closes, history
  <2>2. \A g \in Hosts : (Serving(g)' => Serving(g)) /\ (Coming(g)' => Coming(g) /\ g # h)
    BY <1>1, <2>1 DEF TypeOK, Serving, Coming
  <2>3. CASE next' = next
    BY <1>1, <2>1, <2>2, <2>3
    DEF Unhurried, ComingInv, OneComing, SetupInv, MenuServes, OnlyThisPin
  <2>4. CASE StartRejects(h) /\ ~Cancelled(h)
    <3>1. Coming(h)
      BY <2>4 DEF StartRejects, Cancelled, Coming
    <3>2. due # "setup" /\ \A g \in Hosts : ~Coming(g)'
      BY <1>1, <2>2, <3>1 DEF Unhurried, ComingInv, OneComing
    <3>3. next.host \in Hosts \cup {NoHost}
      BY <1>1 DEF TypeOK, Views
    <3>4. Shows(h, "hata", next.host)
      BY <2>4 DEF StartRejects, Failed
    <3>5. next'.role = next.role /\ (next' = next \/ next'.host = next.host)
      BY <1>1, <3>3, <3>4, ShowsFields
    <3> QED BY <1>1, <2>1, <2>2, <3>2, <3>5
            DEF Unhurried, ComingInv, OneComing, SetupInv, MenuServes, OnlyThisPin
  <2> QED BY <1>3, <2>3, <2>4 DEF StartResolves, StartRejects, Closes, Failed
<1> QED BY <1>2, <1>3

(* A button pressed on what is rendered of the last press *)
LEMMA UnhurriedButton ==
  ASSUME ScreenInv, ~hasty', PickControlled \/ Durdur \/ YeniPin
  PROVE  Unhurried'
<1> USE HostNumbers
<1>1. /\ TypeOK /\ DueInv /\ RoomInv /\ CancelledStop /\ Unhurried
      /\ ~hasty /\ next = view
  BY DEF ScreenInv, AnyPress, PickControlled, Durdur, YeniPin, Press
<1>2. ASSUME PickControlled PROVE Unhurried'
  <2>1. /\ view.role = "menu" /\ next'.role = "controlled"
        /\ UNCHANGED <<made, ws, starter, mountOf, iptal, mount, view, due, lost>>
    BY <1>1, <1>2 DEF PickControlled, hosts, TypeOK, Views
  <2>2. \A h \in Hosts : ~Serving(h) /\ ~Coming(h)
    BY <1>1, <2>1 DEF Unhurried, MenuServes, ComingInv
  <2>3. due # "setup"
    BY <1>1, <2>1 DEF DueInv
  <2> QED BY <2>1, <2>2, <2>3 DEF Unhurried, ComingInv, OneComing, SetupInv, MenuServes,
                                  OnlyThisPin, Coming, Serving
<1>3. ASSUME Durdur \/ YeniPin
      PROVE  /\ due # "setup" /\ view.role = "controlled"
             /\ view.host \in Hosts \cup {NoHost}
             /\ \A h \in Hosts : ~Coming(h) /\ Stopped(view.host)[h] # "open"
                                 /\ Stopped(view.host)[h] \in {ws[h], "closing"}
  <2>1. view.role = "controlled" /\ view.durum = "calisiyor"
    BY <1>3 DEF Durdur, YeniPin
  <2>2. due # "setup" /\ \A h \in Hosts : ~Coming(h) /\ (Serving(h) => h = view.host)
    BY <1>1, <2>1 DEF DueInv, Unhurried, ComingInv, OnlyThisPin
  <2>3. view.host \in Hosts \cup {NoHost}
    BY <1>1 DEF TypeOK, Views
  <2>4. \A h \in Hosts : /\ Stopped(view.host)[h] # "open"
                         /\ Stopped(view.host)[h] \in {ws[h], "closing"}
    BY <1>1, <2>2, <2>3 DEF TypeOK, Stopped, Serving
  <2> QED BY <2>1, <2>2, <2>3, <2>4
<1>4. ASSUME Durdur PROVE Unhurried'
  <2>1. /\ ws' = Stopped(view.host)
        /\ UNCHANGED <<made, starter, mountOf, iptal, mount, view, due, lost>>
    BY <1>4 DEF Durdur
  <2>2. \A h \in Hosts : ~Coming(h)' /\ ~Serving(h)'
    BY <1>3, <1>4, <2>1 DEF Coming, Serving
  <2>3. due' # "setup"
    BY <1>3, <1>4, <2>1
  <2> QED BY <2>2, <2>3
          DEF Unhurried, ComingInv, OneComing, SetupInv, MenuServes, OnlyThisPin
<1>5. ASSUME YeniPin PROVE Unhurried'
  <2>1. /\ made + 1 <= MaxHosts /\ Start(1, "yeniPin", Stopped(view.host))
        /\ next'.role = "controlled" /\ next'.durum = "basliyor" /\ next'.host = NoHost
        /\ UNCHANGED <<iptal, mount, view, due, lost>>
    BY <1>1, <1>3, <1>5, ScreenAssumption DEF YeniPin, Restarting, TypeOK, Views
  <2>2. \A h \in Hosts : IF h \in made + 1 .. made + 1
                         THEN ws'[h] = "connecting" /\ mountOf'[h] = mount
                         ELSE ws'[h] = Stopped(view.host)[h]
    BY <2>1 DEF Start
  <2>3. \A h \in Hosts : ~Serving(h)' /\ (Coming(h)' => h = made + 1 /\ mountOf'[h] = mount)
    BY <1>1, <1>3, <1>5, <2>1, <2>2 DEF TypeOK, Coming, Serving
  <2>4. due' # "setup" /\ view'.role = "controlled"
    BY <1>3, <1>5, <2>1
  <2> QED BY <2>1, <2>3, <2>4
          DEF Unhurried, ComingInv, OneComing, SetupInv, MenuServes, OnlyThisPin
<1> QED BY <1>2, <1>4, <1>5

LEMMA UnhurriedReact ==
  ASSUME ScreenInv, ~hasty', Commit \/ RunEffects
  PROVE  Unhurried'
<1> USE HostNumbers
<1>1. /\ TypeOK /\ DueInv /\ MenuInv /\ RoomInv /\ CancelledStop /\ Unhurried
      /\ ~hasty
  BY DEF ScreenInv, AnyPress, Commit, RunEffects, history
<1>2. ASSUME Commit PROVE Unhurried'
  <2>1. due = "nothing" /\ UNCHANGED <<made, ws, starter, mountOf, iptal, hasty, lost>>
    BY <1>2 DEF Commit, hosts, history
  <2>2. \A h \in Hosts : (Coming(h)' <=> Coming(h)) /\ (Serving(h)' <=> Serving(h))
    BY <2>1 DEF Coming, Serving
  <2>3. CASE next.role = view.role /\ view' = next /\ UNCHANGED <<next, mount, due>>
    BY <1>1, <2>1, <2>2, <2>3
    DEF Unhurried, ComingInv, OneComing, SetupInv, MenuServes, OnlyThisPin
  <2>4. CASE /\ next.role = "controlled" /\ view.role = "menu"
             /\ view' = next /\ mount' = mount + 1 /\ due' = "setup" /\ UNCHANGED next
    <3>1. \A h \in Hosts : ~Coming(h)
      BY <1>1, <2>4 DEF Unhurried, ComingInv
    <3>2. next.durum = "basliyor" /\ next.host = NoHost
      BY <1>1, <2>4 DEF MenuInv
    <3> QED BY <1>1, <2>1, <2>2, <2>4, <3>1, <3>2
            DEF Unhurried, ComingInv, OneComing, SetupInv, MenuServes, OnlyThisPin
  <2>5. CASE /\ next.role = "menu" /\ view.role = "controlled"
             /\ view' = Menu /\ next' = Menu /\ due' = "cleanup" /\ UNCHANGED mount
    <3>1. \A h \in Hosts : ~Coming(h) /\ ~Serving(h)
      BY <1>1, <2>5 DEF Unhurried, ComingInv, MenuServes
    <3> QED BY <2>2, <2>5, <3>1
            DEF Unhurried, ComingInv, OneComing, SetupInv, MenuServes, OnlyThisPin
  <2> QED BY <1>2, <2>3, <2>4, <2>5 DEF Commit
<1>3. ASSUME RunEffects, SetUp PROVE Unhurried'
  <2>1. /\ due = "setup" /\ due' = "nothing" /\ UNCHANGED <<mount, view, next, hasty, lost>>
    BY <1>3 DEF RunEffects, SetUp, history
  <2>2. /\ view.role = "controlled" /\ next.role = "controlled"
        /\ next.durum = "basliyor" /\ next.host = NoHost
        /\ \A h \in Hosts : ~Coming(h)
    BY <1>1, <2>1 DEF DueInv, Unhurried, SetupInv, ComingInv
  <2>3. PICK n \in 1..2 :
          Start(n, "effect", ws) /\ iptal' = iptal \cup (made + 1 .. made + n - 1)
    <3>1. CASE StrictMode
      BY <1>1, <1>3, <3>1 DEF SetUp, TypeOK
    <3>2. CASE ~StrictMode
      BY <1>1, <1>3, <3>2 DEF SetUp, TypeOK
    <3> QED BY <3>1, <3>2
  <2>4. \A h \in Hosts : IF h \in made + 1 .. made + n
                         THEN ws'[h] = "connecting" /\ mountOf'[h] = mount
                         ELSE ws'[h] = ws[h]
    BY <2>3 DEF Start
  <2>5. \A h \in Hosts : Serving(h)' => Serving(h)
    BY <2>4 DEF Serving
  <2>6. \A h \in Hosts : Coming(h)' => h = made + n /\ mountOf'[h] = mount
    BY <1>1, <2>2, <2>3, <2>4 DEF TypeOK, Coming
  <2> QED BY <1>1, <2>1, <2>2, <2>5, <2>6
          DEF Unhurried, ComingInv, OneComing, SetupInv, MenuServes, OnlyThisPin
<1>4. ASSUME RunEffects, CleanUp PROVE Unhurried'
  <2>1. /\ due = "cleanup" /\ due' = "nothing" /\ iptal' = iptal \cup Effects(mount)
        /\ UNCHANGED <<mount, view, next, hasty>>
    BY <1>4 DEF RunEffects, CleanUp, history
  <2>2. \A h \in Hosts : ws'[h] \in {ws[h], "closing"}
    BY <1>1, <1>4 DEF CleanUp, Stopped, TypeOK
  <2>3. \A h \in Hosts : ~Coming(h) /\ ~Coming(h)' /\ (Serving(h)' => Serving(h))
    BY <1>1, <2>1, <2>2 DEF DueInv, Unhurried, ComingInv, Coming, Serving
  <2> QED BY <1>1, <2>1, <2>3
          DEF Unhurried, ComingInv, OneComing, SetupInv, MenuServes, OnlyThisPin
<1> QED BY <1>2, <1>3, <1>4 DEF RunEffects

LEMMA UnhurriedKept == ScreenInv /\ [Next]_vars => Unhurried'
<1> SUFFICES ASSUME ScreenInv, [Next]_vars PROVE Unhurried'
  OBVIOUS
<1>1. CASE hasty'
  BY <1>1 DEF Unhurried, ComingInv, OneComing, SetupInv, MenuServes, OnlyThisPin
<1>2. CASE UNCHANGED vars
  BY <1>2 DEF ScreenInv, vars, hosts, history, Unhurried, ComingInv, OneComing, SetupInv,
              MenuServes, OnlyThisPin, Coming, Serving
<1> QED BY <1>1, <1>2, UnhurriedSocket, UnhurriedButton, UnhurriedReact DEF Next

LEMMA ScreenInvariant == Spec => []ScreenInv
<1>1. ScreenInv /\ [Next]_vars => ScreenInv'
  BY AnyPressKept, UnhurriedKept DEF ScreenInv
<1> QED BY ScreenInit, <1>1, PTL DEF Spec

-------------------------------------------------------------------------------
(* The types, and: what is not started is no host, and a screen that says  *)
(* "Hazır" shows one.                                                      *)
THEOREM ScreenTypeCorrect == Spec => []TypeOK
<1>1. ScreenInv => TypeOK
  BY DEF ScreenInv, AnyPress
<1> QED BY <1>1, ScreenInvariant, PTL

(* What an effect started serves only while its screen is mounted, or      *)
(* until its cleanup has run, whatever is pressed and whenever connections *)
(* come up (ControlledScreen.tsx:41, 52-55).                               *)
THEOREM EffectHostsStayOnScreen == Spec => []EffectHostIsOnScreen
<1>1. ScreenInv => EffectHostIsOnScreen
  BY DEF ScreenInv, AnyPress, EffectsLive, CancelledStop, EffectHostIsOnScreen
<1> QED BY <1>1, ScreenInvariant, PTL

(* As long as no button is pressed before the last press was rendered, the *)
(* host whose PIN the screen shows is the only one that serves             *)
(* (ControlledScreen.tsx:103).                                             *)
THEOREM OnlyShownPinServes == Spec => []OnlyThisPin
<1>1. ScreenInv => OnlyThisPin
  BY DEF ScreenInv, Unhurried
<1> QED BY <1>1, ScreenInvariant, PTL

(* A screen that says "Hazır" belongs to a host that serves, unless its    *)
(* connection ended from outside (ControlledScreen.tsx:108).               *)
THEOREM ReadyMeansServed == Spec => []ReadyUnlessLost
<1>1. ScreenInv => ReadyUnlessLost
  BY DEF ScreenInv, AnyPress
<1> QED BY <1>1, ScreenInvariant, PTL

===============================================================================
