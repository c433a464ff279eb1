--------------------------- MODULE ControlledScreen ----------------------------
(***************************************************************************)
(* The controlled device's screen and the connections it starts: the       *)
(* component ControlledScreen, the part of App that mounts it, and the     *)
(* life of the RelayHosts (app/src/server/relay-host.ts) that its effect   *)
(* and its button "Yeni PIN" start.                                        *)
(*                                                                         *)
(* A handler runs to its end in one step, with the continuations of the    *)
(* promises it settles.  What its setters ask for is rendered by a later   *)
(* step (Commit), and effects run after that (RunEffects); a button        *)
(* pressed before works with what was rendered.  RelayHosts are numbered,  *)
(* and so are the PINs they draw; host and pin are always set together,    *)
(* so that one field stands for both.                                      *)
(***************************************************************************)
EXTENDS Naturals

CONSTANTS
  StrictMode,  \* a development build: main.tsx asks for every effect twice
  MaxHosts     \* bound: RelayHosts ever started

NoHost == 0
Hosts  == 1..MaxHosts

ASSUME ScreenAssumption == StrictMode \in BOOLEAN /\ MaxHosts \in Nat

VARIABLES
  made,     \* how many RelayHosts were started
  ws,       \* ws[h]: readyState of the socket of host h
  starter,  \* starter[h]: what started it, "effect" or "yeniPin"
  mountOf,  \* mountOf[h]: on which mount of the screen
  iptal,    \* the hosts of effects that were cleaned up
  mount,    \* how often the screen was mounted
  view,     \* what is rendered: App's role, the screen's durum and host
  next,     \* what the setters called so far will make of it
  due,      \* "setup" or "cleanup", effects still to run, or "nothing"
  hasty,    \* history: was a button pressed before the last press was rendered?
  lost      \* history: hosts whose open connection ended from outside

hosts   == <<made, ws, starter, mountOf>>
history == <<hasty, lost>>
vars    == <<hosts, iptal, mount, view, next, due, history>>

Menu == [role |-> "menu", durum |-> "basliyor", host |-> NoHost]

Init ==
  /\ made = 0
  /\ ws = [h \in Hosts |-> "none"]
  /\ starter = [h \in Hosts |-> "none"]
  /\ mountOf = [h \in Hosts |-> 0]
  /\ iptal = {} /\ mount = 0
  /\ view = Menu /\ next = Menu /\ due = "nothing"
  /\ hasty = FALSE /\ lost = {}

-------------------------------------------------------------------------------
(* RelayHost *)

Serving(h) == ws[h] = "open"

(* The sockets once stop was called on host h, which the screen knows of   *)
(* only since its connection was open.                                     *)
Stopped_NulledFirst(h) == ws
Stopped(h) ==
  IF h # NoHost /\ Serving(h) THEN [ws EXCEPT ![h] = "closing"] ELSE ws

(* start, on n new hosts, the sockets being s otherwise *)
Start(n, by, s) ==
  LET new == made + 1 .. made + n IN
  /\ made' = made + n
  /\ ws' = [h \in Hosts |-> IF h \in new THEN "connecting" ELSE s[h]]
  /\ starter' = [h \in Hosts |-> IF h \in new THEN by ELSE starter[h]]
  /\ mountOf' = [h \in Hosts |-> IF h \in new THEN mount ELSE mountOf[h]]

-------------------------------------------------------------------------------
(* The screen.  Setters of a screen no longer mounted do nothing. *)

Shows(h, durum, host) ==
  next' = IF view.role = "controlled" /\ mountOf[h] = mount
          THEN [next EXCEPT !.durum = durum, !.host = host] ELSE next

Cancelled_Unchecked(h) == FALSE
Cancelled(h) == h \in iptal

(* start resolves.  The effect asks first whether it was cleaned up. *)
StartResolves(h) ==
  /\ ws[h] = "connecting"
  /\ IF Cancelled(h)
     THEN ws' = [ws EXCEPT ![h] = "closing"] /\ UNCHANGED next
     ELSE ws' = [ws EXCEPT ![h] = "open"] /\ Shows(h, "calisiyor", h)
  /\ UNCHANGED <<made, starter, mountOf, iptal, mount, view, due, history>>

(* start rejects: no connection, or no socket at all. *)
Failed_Unhandled(h) == UNCHANGED next
Failed(h) == IF Cancelled(h) THEN UNCHANGED next ELSE Shows(h, "hata", next.host)

StartRejects(h) ==
  /\ ws[h] = "connecting"
  /\ ws' = [ws EXCEPT ![h] = "closed"]
  /\ Failed(h)
  /\ UNCHANGED <<made, starter, mountOf, iptal, mount, view, due, history>>

(* onclose of a RelayHost tells nobody. *)
Closes(h) ==
  /\ ws[h] \in {"open", "closing"}
  /\ ws' = [ws EXCEPT ![h] = "closed"]
  /\ lost' = IF Serving(h) THEN lost \cup {h} ELSE lost
  /\ UNCHANGED <<made, starter, mountOf, iptal, mount, view, next, due, hasty>>

-------------------------------------------------------------------------------
(* The buttons, those of the screen only in "calisiyor" *)

Press == hasty' = (hasty \/ next # view)

PickControlled ==
  /\ view.role = "menu"
  /\ made + 2 <= MaxHosts
  /\ next' = [next EXCEPT !.role = "controlled"]
  /\ Press
  /\ UNCHANGED <<hosts, iptal, mount, view, due, lost>>

AnaMenuyeDon == [next EXCEPT !.role = "menu"]

Durdur ==
  /\ view.role = "controlled" /\ view.durum = "calisiyor"
  /\ ws' = Stopped(view.host)
  /\ next' = AnaMenuyeDon
  /\ Press
  /\ UNCHANGED <<made, starter, mountOf, iptal, mount, view, due, lost>>

Restarting_AsBefore == next
Restarting_StillReady == [next EXCEPT !.host = NoHost]
Restarting == [next EXCEPT !.durum = "basliyor", !.host = NoHost]

YeniPin ==
  /\ view.role = "controlled" /\ view.durum = "calisiyor"
  /\ made < MaxHosts
  /\ Start(1, "yeniPin", Stopped(view.host))
  /\ next' = Restarting
  /\ Press
  /\ UNCHANGED <<iptal, mount, view, due, lost>>

-------------------------------------------------------------------------------
(* React *)

Commit ==
  /\ due = "nothing" /\ next # view
  /\ \/ /\ next.role = view.role
        /\ view' = next
        /\ UNCHANGED <<next, mount, due>>
     \/ /\ next.role = "controlled" /\ view.role = "menu"
        /\ view' = next
        /\ mount' = mount + 1
        /\ due' = "setup"
        /\ UNCHANGED next
     \/ /\ next.role = "menu" /\ view.role = "controlled"
        /\ view' = Menu /\ next' = Menu
        /\ due' = "cleanup"
        /\ UNCHANGED mount
  /\ UNCHANGED <<hosts, iptal, history>>

(* In StrictMode the first of the two effects is cleaned up at once. *)
SetUp ==
  /\ due = "setup"
  /\ IF StrictMode
     THEN Start(2, "effect", ws) /\ iptal' = iptal \cup {made + 1}
     ELSE Start(1, "effect", ws) /\ UNCHANGED iptal

(* The host that is up, baslatilan, is stopped; one still starting is left *)
(* to the continuation of its effect.                                      *)
Effects(m) == {h \in Hosts : starter[h] = "effect" /\ mountOf[h] = m}

CleanUp ==
  /\ due = "cleanup"
  /\ iptal' = iptal \cup Effects(mount)
  /\ ws' = [h \in Hosts |-> IF h \in Effects(mount) THEN Stopped(h)[h] ELSE ws[h]]
  /\ UNCHANGED <<made, starter, mountOf>>

RunEffects ==
  /\ SetUp \/ CleanUp
  /\ due' = "nothing"
  /\ UNCHANGED <<mount, view, next, history>>

Next ==
  \/ PickControlled \/ Durdur \/ YeniPin
  \/ Commit \/ RunEffects
  \/ \E h \in Hosts : StartResolves(h) \/ StartRejects(h) \/ Closes(h)

(* React renders and runs effects; the browser concludes an attempt.  *)
Fairness ==
  /\ WF_vars(Commit) /\ WF_vars(RunEffects)
  /\ \A h \in Hosts : WF_vars(StartResolves(h) \/ StartRejects(h))

Spec == Init /\ [][Next]_vars /\ Fairness

-------------------------------------------------------------------------------
(* What must hold of it *)

Views == [role : {"menu", "controlled"}, durum : {"basliyor", "calisiyor", "hata"},
          host : Hosts \cup {NoHost}]

TypeOK ==
  /\ made \in 0..MaxHosts
  /\ ws \in [Hosts -> {"none", "connecting", "open", "closing", "closed"}]
  /\ starter \in [Hosts -> {"none", "effect", "yeniPin"}]
  /\ mountOf \in [Hosts -> 0..mount]
  /\ iptal \subseteq 1..made /\ lost \subseteq 1..made
  /\ mount \in 0..MaxHosts
  /\ view \in Views /\ next \in Views
  /\ due \in {"nothing", "setup", "cleanup"}
  /\ hasty \in BOOLEAN
  /\ \A h \in Hosts : ws[h] = "none" <=> h > made
  /\ \A v \in {view, next} : v.durum = "calisiyor" => v.host # NoHost

(* What an effect started serves only while its screen is mounted, or      *)
(* until its cleanup has run, whenever the connection comes up and         *)
(* whatever else was pressed (ControlledScreen.tsx:41, 52-55).             *)
EffectHostIsOnScreen ==
  \A h \in Hosts :
    Serving(h) /\ starter[h] = "effect" =>
      /\ h \notin iptal
      /\ mountOf[h] = mount
      /\ view.role = "controlled" \/ due = "cleanup"

(* "Bağlanacak kişi yalnızca bu ekrandaki PIN ile oturum açabilir."        *)
(* (ControlledScreen.tsx:103): the host of the screen is the only one that *)
(* serves, unless two buttons were pressed on one rendering: yeniPin       *)
(* forgets what runs beside it and does not ask whether it is unmounted.   *)
OnlyThisPin ==
  ~hasty => \A h \in Hosts : Serving(h) => h = next.host

(* A screen that says "Hazır" belongs to a host that serves, unless the    *)
(* relay or the network ended its connection, which nobody hears of        *)
(* (ControlledScreen.tsx:108, relay-host.ts:77).                           *)
ReadyUnlessLost ==
  next.role = "controlled" /\ next.durum = "calisiyor" =>
    Serving(next.host) \/ next.host \in lost

(* The screen does not stay in "Hazırlanıyor": whatever starts overlap,    *)
(* the last of them to settle shows a PIN or an error.                     *)
Starting == view.role = "controlled" /\ view.durum = "basliyor"
StartSettles == Starting ~> ~Starting

===============================================================================
