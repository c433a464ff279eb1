----------------------------- MODULE ConnectScreen -----------------------------
(***************************************************************************)
(* The controller's way to a session as the app offers it: App in the role *)
(* "controller" and its ConnectScreen around the Transport, until the      *)
(* state "ready" replaces that screen by the ControlScreen (ControlPanel). *)
(* The app's copy of the Transport's state is taken to be up to date.      *)
(* The address of the relay, error texts and toasts are left out.          *)
(***************************************************************************)
EXTENDS Transport

CONSTANT NoPin  \* the input field holds no six digits

VARIABLES
  role,     \* App's role, "controlled" apart (ControlledScreen)
  entered   \* the PIN in the input field of the ConnectScreen, or NoPin

appVars == <<vars, role, entered>>

AppInit == Init /\ role = "menu" /\ entered = NoPin

Mounted == role = "controller" /\ state # "ready"

PickController ==
  /\ role = "menu"
  /\ role' = "controller"
  /\ entered' = NoPin
  /\ UNCHANGED vars

Type ==
  /\ Mounted /\ entered = NoPin
  /\ entered' \in Pins
  /\ UNCHANGED <<vars, role>>

(* The button is disabled in some states, the Enter key is not.  An        *)
(* address that is no WebSocket URL is refused and changes nothing.        *)
Baglaniyor == state \in {"connecting", "pin_sent", "pin_ok", "keyx_sent"}
Baglan ==
  /\ Mounted /\ entered # NoPin
  /\ Connect("relay")
  /\ UNCHANGED <<role, entered>>

(* "Bağlantıyı iptal et", "Bağlantıyı kes" and "Rol seçime dön" *)
Leave ==
  /\ role = "controller"
  /\ Disconnect
  /\ role' \in {"controller", "menu"}
  /\ UNCHANGED entered

(* An honest device has no more to say than its challenge before it was    *)
(* sent a PIN.  The screen loses its fields when "ready" unmounts it.      *)
Challenge == {ChallengeFrame(s) : s \in Salts}
Answers   == IF pairingSecret = NoSecret THEN Challenge ELSE ServerFrames

TransportEvent ==
  /\ \/ HelloTimer
     \/ \E n \in Conns : \/ OnOpen(n) \/ OnClose(n)
                         \/ \E f \in Answers : OnMessage(n, f)
  /\ entered' = IF state' = "ready" THEN NoPin ELSE entered
  /\ UNCHANGED role

AppNext == PickController \/ Type \/ Baglan \/ Leave \/ TransportEvent

(* Beside the timers and the browser, the user: typing the PIN, pressing   *)
(* the button whenever it is enabled.                                      *)
AppSpec ==
  /\ AppInit /\ [][AppNext]_appVars
  /\ Fairness /\ WF_appVars(Type) /\ WF_appVars(Baglan /\ ~Baglaniyor)

-------------------------------------------------------------------------------
(* "4. kontrolcü PIN ile `pin_verify` yollar" (ARCHITECTURE.md:81): once   *)
(* the device has sent its challenge and the user has typed the PIN, the   *)
(* PIN is submitted, or the attempt ends.                                  *)
Challenged == Mounted /\ entered # NoPin /\ state = "challenge"
PinIsSent == Challenged ~> state \in {"pin_sent", "disconnected", "error"}

===============================================================================
