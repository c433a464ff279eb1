# Çaldır in TLA+

Çaldır lets one device (the *controller*, a web panel) operate another (the
*controlled device*, an Android shell or a Node server). The two meet through a
public relay, or directly, under a six-digit PIN shown on the controlled device;
the PIN and an X25519 exchange give both a session key, and commands and answers
then travel in counted, sealed payloads. This directory specifies the parts of
that system whose correctness depends on the order of events, checks them with
TLC on small instances, and proves the main safety properties with TLAPS.

## 1. Inventory

| Part | Source | State | Operations | Hard behaviour |
|---|---|---|---|---|
| PIN slot | `shared/src/pairing.ts` | `pending`: salt, verifier, secret, attempts, deadline | `beginPairing`, `cancelPairing`, `verifyPin`, `consumePending` | shared by all sessions; two reads of the clock around slow hashing; the guess limit |
| Peer list | `shared/src/pairing.ts`, `server/src/pairing-node.ts` | `peers`, a JSON file | `registerPeer`, `removePeer`, `reload`, `save` | non-atomic file write, swallowed errors |
| Session | `shared/src/session.ts` | `hs` (keys, secret, counters), `sessionKey` | `handleFrame` and its handlers, `sendEvent` | state read after an `await`; handshake restarted under a live key; repeated frames |
| Secure server | `server/src/server.ts` | one session per connection, a frame counter | connect, message, close | concurrent sessions; socket gone when a command ends |
| Relay | `relay/src/index.ts` | Map from PIN to room (host, guest, creation time) | connect, message, close, sweep | room objects outlive their Map entry; late close handlers |
| Transport | `app/src/lib/transport.ts` | socket, state, keys, counters, pending requests, hello timer | `connect`, `connectRelay`, `disconnect`, `submitPin`, `sendCommand`, handlers, timers | one object over many sockets; events of old sockets; timeouts against answers |
| Client façade | `app/src/lib/client.ts` | none | one method per command | error answers that are not looked at |
| Control screen | `app/src/screens/ControlScreen.tsx` | one card each: what it shows, `busy`, a debounce timer | switches, slider, buttons, effects | answers that come after newer input; effects that answers trigger; timeouts of commands that are carried out later |
| Command dispatch | `session.ts:211-270`, `platform.ts`, `node-stub.ts` | platform state | one per command | partial failure of a command |
| Relay host | `app/src/server/relay-host.ts` | one socket, one session for all guests | `start`, `stop`, socket events | a session that outlives its guest; a close nobody hears of |
| Android host | `app/src/server/capacitor-host.ts` | sessions by connection | `start`, `stop`, plugin events | events before the listeners are bound; no caller |
| Controlled screen | `app/src/App.tsx`, `ControlledScreen.tsx` | role, PIN, host, state of the start | effect, "Yeni PIN", "Kapat" | overlapping starts and stops; buttons that work with an earlier rendering; starts that end after unmount |
| Connect screen | `app/src/App.tsx`, `ConnectScreen.tsx` | role, typed PIN | connect, cancel, back to the menu | follows a state that the Transport changes by itself |
| Build, smoke test | `scripts/`, `test/` | none | | none |

**Interaction.** The relay carries text frames between the guest (a Transport) and
the host (a RelayHost that feeds a Session); without it a Transport talks to the
secure server. All sessions of a device call the same PairingManager
synchronously. The platform is called asynchronously by `handleEncrypted`, which
goes on whenever the command settles. The UI calls the Transport and gets
callbacks for its state.

**What makes each part correct.** The PIN slot: one displayed PIN pairs one
session, while it is valid, within its budget of guesses. The session: no counter of a fresh key
opens twice, a reply is sealed under the key its request came under. The relay:
sockets keep their slot, frames stay in the room, no entry outlives its room, the
two sockets of a PIN meet. The Transport: nothing of one connection reaches the
next, no counter is sealed twice, requests do not leak, attempts end. The control screen:
what it shows when it is at rest is what the device has, no card stays disabled. The
controlled screen: only the host whose PIN it shows serves, and it shows the outcome
of every start. Both ends together, with a network that loses, delays and misdirects but
does not rewrite frames: they derive one key, and a command runs once, for the one who was
paired.

`PROJECT.json` lists every hazard at its line, with the properties that cover it.

## 2. Modules

| Module | Models | Uses |
|---|---|---|
| `Protocol` | frames, messages, `hashPin` and `deriveSessionKey` | |
| `PairingManager` | the PIN slot | `Protocol` |
| `DeviceHost` | all sessions of a device with its PIN slot, its commands and its connections | `PairingManager` |
| `DeviceHostProofs` | theorems about `DeviceHost` | |
| `Relay` | the relay | |
| `RelayProofs` | theorems about `Relay` | |
| `Transport` | the controller's end | `Protocol` |
| `TransportProofs` | theorems about `Transport` | |
| `ControlPanel` | the cards of the control screen, the client façade, dispatch and platform | |
| `ControlPanelProofs` | theorems about `ControlPanel` | |
| `RemoteControl` | what the two ends promise together, as an abstract specification | |
| `EndToEnd` | the Transport and the device's sessions, joined by queues of frames; implements `RemoteControl` | `TransportProofs` (with `Transport`), `DeviceHostProofs` (with `DeviceHost`) and `RemoteControl` as instances |
| `EndToEndProofs` | theorems about `EndToEnd`: what holds of every frame and call | `EndToEnd` |
| `AgreementProofs` | theorems about `EndToEnd`: what the two ends agree on | `EndToEndProofs` |
| `ControlledScreen` | the controlled screen, its part of `App`, and the life of the RelayHosts | |
| `ControlledScreenProofs` | theorems about `ControlledScreen` | |
| `ConnectScreen` | `App` in the controller's role and its connect screen | `Transport` |
| `PeerStore` | the list of paired devices and its file | |
| `MCDeviceHost`, `MCRelay`, `MCTransport`, `MCControlPanel`, `MCEndToEnd` | symmetry and views of the runs | |

### How the models stand for the code

* **Cryptography.** `hashPin` and `deriveSessionKey` are injective: a digest is the
  record of its arguments. A payload opens under exactly the key it was sealed
  under. Its counter is not part of what is sealed (`crypto.ts:108-110`) and nobody looks at its
  type, so a payload may come with any counter or none: `NoSeq` is a missing one, after which
  `Stale` refuses nothing (`undefined <= n` and `n <= undefined` are false in JavaScript). Salts and key pairs are numbered in the order they are drawn, so two draws
  never agree.
* **Steps.** JavaScript runs a handler to its end or to its first `await`; that is
  one action. `handleEncrypted` of the session awaits the platform: `PayloadOpened`
  is the part before, `Settle` the part after, and any number of other steps come
  between. `handlePinVerify` is one action too, but the clock may advance inside it
  (`HashingTakesTime`), because `verifyPin` and `consumePending` each read it.
* **The other end** is arbitrary: a session receives every frame of `ClientFrames`
  at any moment, a Transport every frame of `ServerFrames`. Nothing is assumed of
  the order; repeated frames, known payloads under another counter or without one, malformed
  keys and challenges without a usable salt are included.
* **DeviceHost.** A session is a connection of `server.ts`. Frames are sent only
  while the socket is OPEN, but are still handled while it is CLOSING, and commands
  settle after it has closed: `server.ts` does not listen to the close. `cancelPairing` and
  `sendEvent` are modelled although nothing in `src/` calls them yet.
* **Relay.** Rooms are objects with an identity apart from the Map entry, since
  handlers keep `myRoom`. A socket becomes CLOSED and runs its close handler in one
  step (the ws library emits `close` where it sets the state).
* **Transport.** Sockets are numbered by the connect call; `ws` is the current one
  or 0. A socket's handlers name only their own socket in the first line of `OnOpen`
  and `OnClose` and work on `this.ws` after that, as in the code. `promise` is what
  the callers of `sendCommand` see, `pendingRes` what the Transport remembers, `armed` the timeouts
  that have not fired.
* **ControlPanel.** The Transport and the session are one list, `calls`, of what was sent and
  not yet answered. `session.ts:189` awaits each command without a queue, so commands are
  carried out in any order (`DispatchCommand`) and answered in any order (`Answer`); an answer
  finds its promise by the id of its command (`Requester`, `Answered`). Only NodeStubPlatform, chosen
  by `Stub`, keeps the order: its methods never wait. A promise may be rejected by its
  timeout while its command is still on the way, and the command may be carried out long after.
  The stub obeys; the Android platform may refuse, leave a radio as it is and say so, set
  another level and mute a stream at any level. React commits state before the next event. The
  model covers one mount of the screen, during which the session stays ready. The battery card,
  a lone read, is left out.
* **EndToEnd.** Nothing invents or rewrites frames here, counters included: a handler of one end consumes the frame the
  other has sent. `up[n]` and `down[s]` are the whole way between them. A direct
  connection has a session of its own (`server.ts`); through the relay all connections
  meet the one session of the RelayHost (`SessionOf`), so that frames on their way to
  one guest may reach the next (`Receives` looks at who is joined now). Frames are lost
  with a connection (`Closes`, `Lost`) and kept in order otherwise. The relay's rooms
  are reduced to whether host and guest are joined (`Relay` has them in full). The PIN
  is submitted in the state `challenge`, as the protocol means it; that the app's
  screens do not do so is the subject of `ConnectScreen`.
* **RemoteControl** knows only connections, PIN slots and calls: a slot is given to at most one
  connection (`Pair`), a call is made on a connection (`Ask`) or refused, its command runs at
  most once, and only if that connection was given a slot (`Run`), it returns only after that
  (`Return`) and may fail at any time (`Fail`).
* **ControlledScreen.** `next` is what the setters have asked for, `view` what is
  rendered; `Commit` and `RunEffects` are React's steps between them. Handlers use the
  `host` of the rendering they belong to (`view.host`), as closures do; setters of an
  unmounted screen do nothing. `StrictMode` runs every effect of a mount twice, as
  `main.tsx` asks in development builds. A host is known to the screen only once its
  start has resolved, so `stop` never meets a socket that is connecting.
* **ConnectScreen** follows the Transport's state directly. The device is taken to be honest:
  before a PIN it has only its challenge to send.
* **PeerStore.** `writeFileSync` is two steps, opening (which empties the file) and
  writing; the process may end at any step. Nothing else of the manager runs meanwhile.
* **Rate limits** (`server.ts:45-48`, `index.ts:114-117`) are abstracted: a socket
  may be closed for the policy at any of its frames.

### History variables

`wrong` and `accepted` in `DeviceHost`, `swept` in `Relay`, `sealed` and `spoilt` in
`Transport`, `tried`, `moved` and `chosen` in `ControlPanel`, `offered`,
`bond`, `asked` and `runs` in `EndToEnd`, `hasty` and `lost` in `ControlledScreen`, `old` and
`new` in `PeerStore` record the past for the properties; no guard reads them. `sent` and
`forwarded` hold what the latest step put on the wire.

## 3. Runs

| Run | Result | What it asks |
|---|---|---|
| `device_host` | passes | the PIN slot against racing sessions; replies and counters against new handshakes |
| `device_replays` | violated | the receiver "can reject replays before decryption; the counter is also authenticated via the tag" (`crypto.ts:98-100`) |
| `relay` | passes | slots, Map entries and forwarding against closes and sweeps in any order |
| `relay_paired_by_pin` | violated | the relay pairs host and guest by the PIN (`ARCHITECTURE.md:35`) |
| `transport` | passes | keys and counters across repeated handshakes and several sockets; requests leave `pendingRes`; attempts through the relay end |
| `transport_hello` | violated | "After the relay bridge is established we send the standard Çaldır `hello` frame" (`transport.ts:124-126`) |
| `control_panel` | passes | what the cards show and whether they stay usable, with late, overtaking, refused and missing answers |
| `panel_level_sticks` | violated | the volume levels can be set, each by itself (`ControlScreen.tsx:177`) |
| `end_to_end` | passes | do both ends get one key; is an honest command ever refused; does the whole implement `RemoteControl` |
| `controlled_screen` | passes | which hosts serve, whatever starts, stops, renderings and unmounts overlap, and what the screen says of them |
| `pin_is_sent` | violated | "kontrolcü PIN ile `pin_verify` yollar" (`ARCHITECTURE.md:81`) |
| `peer_store` | violated | a store "must atomically replace the whole peer list" (`pairing.ts:29-30`) |

**Bounds.** `device_host`: two sessions and two PIN slots give every race for a slot
and a slot that replaces another; `MaxAttempts = 2` makes a first wrong guess differ
from the last; `Ttl = 0` with a clock of two instants lets a slot expire both between two
frames and between the two reads of the clock; two server keys allow a second
handshake, two counters and the missing one a replay, a successor and a check that is switched
off, one running command an answer that crosses a new handshake. `device_replays` needs one
session, and two commands running so that both copies can be seen. `relay`: four sockets are two generations of host and
guest of one PIN; three room objects let a swept room, its successor and another
PIN's room coexist; the clock runs far enough for two sweeps of one PIN. `transport`:
three connections are what it takes for an orphan (a socket the Transport has lost
because an older one closed late) to open while another is current; two hellos
tell a first retry from the last; two commands give a counter used after a repeated `keyx`, one
counter of the other end and the missing one an answer that is opened and one that is
opened unchecked. A second server key changes only which `keyx` is refused; the theorems
cover any number of them. `control_panel`: the mount submits a volume and loads a
directory by itself, and two acts of the user follow, with two commands on the way at a time, so
that each card meets two commands of its own, carried out and answered in either order, with a
timeout, and two cards meet each other; two radios share the busy flag, two streams and two levels
let an answer contradict the slider. One directory suffices: no property tells items apart. Of
the cards with one button the run has lock, whose method drops the response, and location,
whose method does not; notify is like lock. Answers may never come. `panel_level_sticks` needs one act of the user and a device that
obeys and answers in time. `end_to_end`: two connections and two sessions give a guest that follows
another and frames of the earlier one; two slots a PIN that replaces the one a client was
challenged for; two hellos a retry that crosses the handshake; one command suffices
for it to be repeated, delayed, misdirected or answered late, since every other command
is told apart from it by counter and id alone, as `device_host` checks with two counters and
`transport` with two commands; the run starts over both ways of connecting. `controlled_screen`: six hosts are two
mounts of two effects each and two presses of "Yeni PIN". `pin_is_sent` and
`peer_store` need one and two of everything. Deadlock is not checked: in each model sockets and
bounded counters are used up, and the program may simply be idle.

**Views.** `MCDeviceHost`, `MCTransport`, `MCControlPanel` and `MCEndToEnd` merge states that differ only in what no action, fairness condition or
property of the run reads, so that the merged states have the same successors up to the
same difference; each names what it leaves out. That makes them sound for the safety properties. For the
liveness properties of `transport` and `control_panel` two more things matter: no step that fairness is about
(a timer, a socket event, a timeout) leaves the view as it was, so none is mistaken for a
stutter, and whether it is enabled can be told from the view.

**Fairness**: in `ControlPanel` the timers fire (`SubmitDebounced`, `Timeout`), as the browser
guarantees; that the device answers is assumed only with `Prompt`. In `Transport` timers fire (`HelloTimer`,
`CommandTimeout`), and the browser concludes what a socket is doing, by opening or
failing it, or by finishing a closing handshake. Nothing else is assumed of the UI, of
the relay or of the device. In `ControlledScreen` React renders and runs effects, and the
browser concludes an attempt to connect. `ConnectScreen` adds the user to the Transport's
fairness: the PIN is typed, and the button pressed whenever it is enabled. `EndToEnd` and
`PeerStore` are about safety only.

**What the refinement says.** `EndToEnd` implements `RemoteControl` with `asker` the key pair a
call was made under and `fate` the promise its caller holds. A command the abstract
specification runs once is there a frame that crossed a queue, passed the counter and the key
of the session, and may have been meant for a session whose guest has left.

**The violations.**

* `device_replays`: `seal` encrypts the text alone and writes the counter beside it; `open` and
  `handleEncrypted` compare that number with `recvSeq` and nothing else. A sealed command that
  comes again with a higher counter is opened and dispatched again; one that comes without a
  counter is opened too, and `recvSeq` becomes `undefined`, after which nothing is refused until
  the next `hello`. `transport.ts:381-388` does the same with the frames of the device, where a second
  answer settles nothing, since its id has left `pendingRes`. What the counter does keep out is a
  frame repeated as it was: `NoCounterTwice`.

* `pin_is_sent`: `baglan` uses the PIN to join the room (`ConnectScreen.tsx:61`); `submitPin`
  (`client.ts:54`) has no caller in `app/src`. Neither the challenge nor a second press leads to
  `pin_verify`: the press connects anew, to the next challenge. The bound on connections
  ends the trace in a challenge; more of them only make it longer.
* `peer_store`: `save` rewrites the file in place (`pairing-node.ts:26`), and `load` takes what a
  failed write leaves for an empty list, so every paired device is forgotten.
* `relay_paired_by_pin`: the handler deletes by PIN. A socket of a swept room that
  closes late deletes the entry of the newer room of that PIN, and the next
  socket gets a room of its own. `PairedUnlessSwept` (passing, and proved) shows that
  this is the only way two open sockets of one PIN can miss each other.
  Another sentence about rooms disagrees with the code without a run of its own: "The relay forgets the room as
  soon as either party disconnects" (`index.ts:10-11`). The handler deletes the entry only when both are gone
  (`index.ts:127`), so a PIN stays in use while one party remains, and the next socket joins it.
  `EndToEnd` relies on that, as the app does: the host stays while guests come and go.
* `transport_hello`: a close event that arrives after the next connect call sets
  `this.ws` to null; the new socket opens and `hello` goes nowhere. The panel can meet
  this whenever it reconnects before the closing handshake of the previous socket
  has ended, for instance after `relay_timeout`.
* `panel_level_sticks`: the answer to a `volume.set` moves the slider
  (`ControlScreen.tsx:147`); if the user has moved it since, the effect cancels the newer
  level and sends the old one again. The trace needs a single move while the command of
  the mount is on its way. With two acts of the user two levels can even chase each other
  for ever, each answer undoing the other's. What does hold is `QuietShowsDevice`: if the card
  comes to rest, the slider shows what the device has, for the stream that was selected when the level
  changed last. Choosing another stream sends nothing (the effect depends on the level alone), so
  nothing can be said of the stream selected since.

One more comment is contradicted without a run: "The methods [...] throw on CommandErr" (`client.ts:4-5`);
`ring`, `lock` and `notify` drop the response (`client.ts:78-89,109-113`), so their cards report
success of a command the device refused (`Unchecked` models it).

**Where a property has an exception.** `NoCounterTwice` speaks of a fresh key and of a handshake in which every payload came
with a counter: `handleHello` resets the counters but keeps the session key
(`session.ts:95-101`), so between a `hello` and the next `keyx` the old key is in use with counters
from zero, and a missing counter ends the check. `ReplaysRejected` has no such precondition, and fails.
`RelayAttemptEnds` exempts an attempt that met a challenge without a usable salt (`spoilt`): it clears the
retry and then throws (`transport.ts:285-286`), and the state stays `connecting` with no timer. `ShownIsReal` exempts a
radio for which a toggle that had timed out was carried out with no other one to follow ("overtaken"): the switch is
then wrong until the next toggle. `QuietShowsDevice` exempts what follows on a `volume.set` that failed
or timed out, until the level changes again. Two loads of the files card may be answered in
the other order, and the items of the older one then stay (`ListSettles`); no property excludes it, since
nothing in the code does. `SameKey` names one: a second `beginPairing` between
challenge and `pin_verify` whose PIN is entered leaves both ends ready with keys that differ in the salt;
the app draws one PIN for each PairingManager, only the secure server can be given
another. `OnlyThisPin` speaks of presses that each wait for the rendering of the one
before: without `~hasty` TLC finds a double press of "Yeni PIN", after which a host
serves under a PIN that is not shown, and neither "Kapat" nor unmounting stops it
(`ControlledScreen.tsx:63-77` looks only at the `host` of its rendering and has no
`iptal`). `ReadyUnlessLost` exempts connections ended by the relay or the network:
`relay-host.ts:77` tells nobody, and the screen goes on showing the PIN as "Hazır".
`EffectHostIsOnScreen` and `StartSettles` hold of all presses.

`SameKey` and `HonestIsHeard` speak of a Transport with no open socket but the current one
(`SoleSocket`). The handlers of an older socket that is still open, an orphan, act on the
same object (`transport.ts:243`): `onMessage` takes its frames for those of the current
connection, and with three connections or more that matters. Directly, the challenge, the
`pin_ack`, `keyx` and `ready` of an older session can bring the Transport to
`ready` with a key no session has; through the relay, a `pin_nack` that is lost with
its connection and a socket that opens late do the same. The controller then shows
itself ready and every command is refused. What cannot happen even then is what `RemoteControl`
says, and that is proved without the precondition.

**Mutants.** Each property of a passing run has one in `PROJECT.json`: a changed
definition (a dropped re-check, an off-by-one, a forgotten reset) under which TLC
finds that property violated. The changed forms stand beside the originals, named
`Original_Change`.

## 4. Proofs

`tlapm` proves the theorems of `DeviceHostProofs`, `RelayProofs`, `TransportProofs`,
`ControlPanelProofs`, `ControlledScreenProofs`, `EndToEndProofs` and `AgreementProofs` for all values of the
constants that satisfy the named assumptions:

* **Device.** `DeviceInv` is inductive. Beyond the types it says: the wrong guesses
  counted against the pending slot are its `attempts`, and the pending slot is the
  latest one minted (`SlotInv`); the secrets a session holds, in its handshake or in its key, come
  from slots already minted and no longer pending (`HeldInv`), and no two sessions hold
  one of the same slot (`DisjointInv`); a session key is no younger than the
  handshake beside it, and one made from the handshake's secret is that handshake's key
  (`KeyInv`); a running command's key is the session's or one of an older slot
  (`RunningInv`); unless a counter was missing, none above `recvSeq` was opened under the key pair
  of the current handshake, and none under a later one (`AcceptedInv`). The
  properties are not inductive by themselves: `OneSessionPerPin` depends on a consumed slot never
  being pending again, `NoCounterTwice` on key pairs never being drawn twice.
  From it follow `OnePinOneSession`, `GuessesBounded`, `RepliesKeepTheirKey`,
  `PairedByALivePin` and `CountersTakenOnce`.
* **Relay.** The invariant ties the three views of a room together: what a socket
  entered (`PinsAgree`), what the room's slots hold (`SlotsFilled`, `Occupied`), and where
  the Map leads (`Registered`, for PINs no sweep has touched). From it follow
  `SlotsAreKept`, `NoRoomLeaks`, `PairedUntilSwept` and `FramesStayInTheirRoom`.
* **Transport.** `TransportInv` adds to the types that the key pair in use is the latest drawn
  (`LatestInv`) and that the counters sealed under it do not exceed the current one
  (`SealedBelow`). The steps fall into six kinds by what they do to keys, counters and
  logs (`Effects`), and the invariant is shown for each kind. From it follow `KeysStayWithTheirConnection`
  and `CountersSealedOnce`.
* **Control panel.** `PanelInv` takes the commands in any order. Of the connectivity card it says that one
  toggle waits while the card is busy (`RadioOne`), that it is the latest of its radio (`TogglePending`), and that once it is
  carried out the radio is as its answer says, unless an abandoned one was carried out since (`ToggleDone`). Of the
  volume card: what waits to be sent is what the slider shows (`TimerShows`); and as long as each `volume.set`
  was answered, none is abandoned, and when nothing waits to be sent the device has the slider's level, or a
  command is still to be carried out for that stream, or an answer is still to move the slider
  (`LevelFollows`, `ToCome`). The last two cases are what a card in motion lives on: an answer that
  finds the slider elsewhere moves it, and the move sends a command again. Every step changes `calls` in one of four
  ways (it grows, one is carried out, one leaves wherever it stands, one expires and stays), and each card is shown to
  keep its part under each; an answer and a timeout share their lemmas. From it follow `PanelTypeCorrect`,
  `BusyMeansOneWaits`, `SwitchesShowRadios` and `SliderShowsDevice`, for both platforms and with answers in time or not.
* **Controlled screen.** `ScreenInv` has two halves. What holds of all presses (`AnyPress`): the
  effects not cleaned up are those of the mounted screen (`EffectsLive`), no host of one
  that was cleaned up serves (`CancelledStop`), and in the menu no screen exists
  (`MenuInv`). What holds as long as every press works with the rendering of the last one
  (`Unhurried`): a start still under way is the only one, and the screen it belongs to
  shows no other host (`ComingInv`, `OneComing`); an effect about to run finds none
  (`SetupInv`); nothing serves once the menu was asked for (`MenuServes`). `OnlyThisPin` needs
  them since a host is stopped only if the screen knows it. From it follow
  `EffectHostsStayOnScreen`, `OnlyShownPinServes` and `ReadyMeansServed`, with and without
  StrictMode, although the run checks the former only.

* **Both ends.** `EndsInv` contains `TransportInv` and `DeviceInv`: what each end keeps
  against an arbitrary other it keeps against the real one, once the frames on their way are known to be
  among those it was proved for (`DownWellFormed`, `UpReadable`). To them it adds what only the two
  together have. A slot was given away at most once, and the connection it was given to is the one whose
  key pair stands in the handshake and in the key of the session that holds its secret
  (`BondInv`). A frame on its way from a connection is its own, and a command among them was asked for there and
  has not run (`UpInv`), of which there is one copy (`OneCopy`). What is under way at
  the platform, or answered, has run (`RanInv`). A call not yet made has no past (`CallsInv`).
  `EndToEndImplementsRemoteControl` needs all of it: that a command that opens under a session's key
  has not run and comes from a paired connection, and that a call that gets an answer
  has run, wherever the frames went. Each handler of a session is shown to do one of three things
  (`Handled`): it pairs one connection, starts one command, or neither.
* **What they agree on** (`AgreementProofs`). `SameKey` and `HonestIsHeard` are about a handshake that
  is in four places at once: the queue to the device, the session, the queue back and the
  controller. `AgreementInv` says, besides `EndsInv`, which frames can be under way at each stage.
  `WorldInv`: nothing knows of a connection that did not open, a direct session hears only its own
  connection, and the RelayHost draws one PIN. `Order`, of one session and the connections it may hear from: no
  key before the PIN is accepted, one `pin_ack`, no challenge after it, and neither once the
  controller has answered it. `Exclusive`, direct only: there is one `hello`, PIN, challenge or
  refusal at a time, since each is answered before the user can cause the next. `Handshaking`, of the current socket:
  the salt in use was the last one offered (`Salted`); the PIN the controller holds is the last it
  sent (`Typed`), and the one the session accepted unless a refusal or another PIN is still under
  way (`AckComing`); after `pin_ack` one `keyx` goes and one `keyx` and `ready`
  come back, in this order, with the session's key pair (`Acked`); a ready controller has the key of the
  session's handshake (`IsAgreed`); its commands are sealed under that key, with increasing counters
  above the session's (`Heard`).
  A handshake need not run in step: through the relay a guest's retried `hello` crosses the
  challenge, frames for an earlier guest reach the next, and frames are lost with a guest. What keeps
  the agreement is that a slot is used up by the PIN it accepts (`SlotUsed`), so that no `hello` or
  PIN that is late can restart a paired session. Directly a slot can be replaced, and there it is `Exclusive` that does it.
  The proof has one lemma for each way a session answers (`Refuses`, `Welcomes`, `Accepts`, `Derives`,
  `Decrypts`) and for each thing the Transport does, and under it one step for each conjunct. A step of
  the controller never makes an orphan the only socket (`SoleKept`), so the precondition `SoleSocket` is carried through every step but
  `connect`, after which everything starts anew (`ConnectStarts`). From it follow `BothEndsHaveOneKey` and
  `HonestCommandsAreHeard`.

The assumptions (`PairingAssumption`, `DeviceAssumption`, `RelayAssumption`,
`TransportAssumption`, `PanelAssumption`, `ScreenAssumption`, `EndToEndAssumption`) only say that bounds are natural numbers (the limits of attempts and
hellos positive ones), that nulls differ from values, and, of the panel, that its first stream and directory exist
and that the cards with one button are among the three that the screen has. TLC evaluates them in every run.

**Only model-checked**: `NoSlotLeaks`, `RelayAttemptEnds`, `StartSettles` and
`BusyEnds` (liveness under fairness and
ENABLED are beyond the prover), and the violations, `ReplaysRejected` among them. The prover cannot do
induction over data nor use RECURSIVE operators; no module has needed either.

## 5. Plan

Done: `Relay`, `DeviceHost`, `Transport`, `ControlPanel` and `ControlledScreen` with their proofs,
`EndToEnd` with `RemoteControl`, the proof of its refinement and of what the two ends agree on, `ConnectScreen`, `PeerStore`. Next, in order of importance:

1. **FrameLimiter**: the fixed window of server and relay; at most `Max` frames per window, at most
   twice that in any sliding window of the same length, proved.

## 6. Not modelled

`capacitor-host.ts` and the plugins it calls: it has no caller, and the plugins are native
code outside the repository. `server/src/main.ts` but for what `PeerStore` takes from it:
straight-line start-up. The primitives of tweetnacl; formatting and parsing of PINs, URLs and JSON beyond the
outcome; device names, texts and logs; rendering; the relay's health answer and its
shutdown; `scripts/` and `test/`; the compiled copies `shared/src/*.js` and `*.d.ts`.
