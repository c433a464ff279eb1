----------------------------- MODULE ControlPanel -----------------------------
(***************************************************************************)
(* The cards of app/src/screens/ControlScreen.tsx over the façade          *)
(* app/src/lib/client.ts, from mount to unmount, and the platform of the   *)
(* device they operate (dispatchCommand of shared/src/session.ts with      *)
(* NodeStubPlatform or AndroidShellPlatform).  The session is ready        *)
(* throughout: App shows this screen only then.                            *)
(*                                                                         *)
(* A card calls a method of the client and awaits it; other events come    *)
(* between.  The session awaits every command by itself, so that Android   *)
(* may carry commands out and answer them in any order; NodeStubPlatform   *)
(* never waits, which keeps them in the order they came.  A promise that   *)
(* waits for 15 seconds is rejected while its command may still be on the  *)
(* way.  React commits what a handler set before the next event.           *)
(***************************************************************************)
EXTENDS Integers, SequencesExt

CONSTANTS
  Radios,       \* the switches of the connectivity card
  Streams,      \* VolumeStream
  FirstStream,  \* the stream selected when the card is mounted
  MaxLevel,     \* 100, the upper end of the slider
  FirstLevel,   \* 70, where the slider stands when the card is mounted
  Buttons,      \* the commands of the cards with one button
  Paths,        \* directories
  Root,         \* the one that is listed on mount
  Stub,         \* is the platform NodeStubPlatform?
  Prompt,       \* does every answer come within 15 seconds?
  MaxCalls,     \* bound: commands on the way at a time
  MaxMoves      \* bound: what the user does

Levels       == 0..MaxLevel
VolumeStates == [level : Levels, muted : BOOLEAN]
VolumeState(l) == [level |-> l, muted |-> l = 0]  \* of NodeStubPlatform
NoTimer      == [level |-> -1, stream |-> FirstStream]
NoRadio      == "none"

ASSUME PanelAssumption ==
  /\ MaxLevel \in Nat \ {0} /\ FirstLevel \in Levels
  /\ FirstStream \in Streams
  /\ Buttons \subseteq {"device.lock", "location.get", "notify.send"}
  /\ Root \in Paths
  /\ NoRadio \notin Radios
  /\ Stub \in BOOLEAN /\ Prompt \in BOOLEAN
  /\ MaxCalls \in Nat \ {0} /\ MaxMoves \in Nat

VARIABLES
  radio,      \* device: the switches
  volumes,    \* device: volumes[s], a VolumeState
  calls,      \* commands and answers on the way, in the order of the calls
  shown,      \* connectivity card: wifi, cell, bt
  radioBusy,  \* connectivity card: busy, a radio or NoRadio
  stream,     \* volume card: the selected stream
  volume,     \* volume card: level and muted
  timer,      \* volume card: what the debounced submit will send
  volumeBusy, \* volume card: busy
  button,     \* cards with one button: busy and message
  listing,    \* files card: the directory whose items are shown, or "none"
  filesBusy,  \* files card: busy
  moves,      \* how often the user did something
  tried,      \* history: how the latest call for each radio ended, or that
              \* an earlier one was carried out after it
  moved,      \* history: the stream selected when the level changed last, and
              \* whether every volume.set since then is sure to be answered
  chosen      \* history: where the user put the slider last, and for which stream

device       == <<radio, volumes>>
connectivity == <<shown, radioBusy, tried>>
volumeCard   == <<stream, volume, timer, volumeBusy, moved, chosen>>
filesCard    == <<listing, filesBusy>>
vars         == <<device, calls, connectivity, volumeCard, button, filesCard, moves>>

-------------------------------------------------------------------------------
(* Commands and answers *)

RadioSet(r, on)     == [cmd |-> "radio.set", radio |-> r, on |-> on]
VolumeSet(l, s)     == [cmd |-> "volume.set", level |-> l, stream |-> s]
FileList(path)      == [cmd |-> "file.list", path |-> path]
Plain(cmd)          == [cmd |-> cmd]

Requests == [cmd : {"radio.set"}, radio : Radios, on : BOOLEAN]
              \cup [cmd : {"volume.set"}, level : Levels, stream : Streams]
              \cup [cmd : {"file.list"}, path : Paths]
              \cup [cmd : Buttons \cup {"device.ring"}]

NoAnswer    == [type |-> "none"]
Err         == [type |-> "err"]
TimedOut    == [type |-> "timeout"]
Ok          == [type |-> "ok"]
OkRadio(on) == [type |-> "ok", enabled |-> on]
OkVolume(v) == [type |-> "ok", volume |-> v]
OkList(path) == [type |-> "ok", path |-> path]  \* its entries

Answers == {NoAnswer, Err, Ok} \cup {OkRadio(on) : on \in BOOLEAN}
             \cup {OkVolume(v) : v \in VolumeStates}
             \cup {OkList(path) : path \in Paths}

Sent(req) == [req |-> req, answer |-> NoAnswer, waiting |-> TRUE]
Call(req) == /\ Len(calls) < MaxCalls
             /\ calls' = Append(calls, Sent(req))

UserActs == moves < MaxMoves /\ moves' = moves + 1

Carried(i) == calls[i].answer # NoAnswer

(* ring, lock and notify drop the response, so an err does not make them   *)
(* throw; the other methods hand it to unwrap or obj.                      *)
Unchecked == {"device.ring", "device.lock", "notify.send"}
Throws(req, answer) ==
  \/ answer.type = "timeout"
  \/ answer.type = "err" /\ req.cmd \notin Unchecked

-------------------------------------------------------------------------------
(* On mount the volume card submits where its slider stands, and the files *)
(* card loads the root.                                                    *)

Init ==
  /\ \E on \in BOOLEAN : radio = [r \in Radios |-> on]
  /\ \E v \in VolumeStates : /\ Stub => v = VolumeState(v.level)
                             /\ volumes = [s \in Streams |-> v]
  /\ calls = <<Sent(FileList(Root))>>
  /\ shown = [r \in Radios |-> "unknown"] /\ radioBusy = NoRadio
  /\ stream = FirstStream
  /\ volume = [level |-> FirstLevel, muted |-> FALSE]
  /\ timer = [level |-> FirstLevel, stream |-> FirstStream]
  /\ volumeBusy = FALSE
  /\ button = [b \in Buttons |-> [busy |-> FALSE, msg |-> "none"]]
  /\ listing = "none" /\ filesBusy = TRUE
  /\ moves = 0
  /\ tried = [r \in Radios |-> "never"]
  /\ moved = [stream |-> FirstStream, sure |-> TRUE]
  /\ chosen = [level |-> FirstLevel, stream |-> FirstStream]

-------------------------------------------------------------------------------
(* The connectivity card *)

Idle_ForThisRadio(r) == radioBusy # r
Idle(r) == radioBusy = NoRadio

Toggle(r) ==
  /\ Idle(r)
  /\ UserActs
  /\ Call(RadioSet(r, shown[r] # "on"))
  /\ radioBusy' = r
  /\ tried' = [tried EXCEPT ![r] = "pending"]
  /\ UNCHANGED <<device, shown, volumeCard, button, filesCard>>

(* How a toggle ended does not matter any more once it was overtaken. *)
Tried(r, result) ==
  tried' = [tried EXCEPT ![r] = IF @ = "overtaken" THEN @ ELSE result]

(* The card shows the value it asked for, not the one in the answer. *)
ToggleSettles(req, answer) ==
  /\ radioBusy' = NoRadio
  /\ IF Throws(req, answer)
     THEN /\ Tried(req.radio, "failed")
          /\ UNCHANGED shown
     ELSE /\ shown' = [shown EXCEPT ![req.radio] = IF req.on THEN "on" ELSE "off"]
          /\ Tried(req.radio, IF answer.enabled = req.on THEN "ok" ELSE "disobeyed")
  /\ UNCHANGED <<volumeCard, button, filesCard>>

-------------------------------------------------------------------------------
(* The volume card.  Its effect depends on the level alone: a level that   *)
(* changes, by the user or by an answer, starts the 350 ms again, with the *)
(* stream selected at that moment.                                         *)

Restart_OnMountOnly(l) == UNCHANGED timer
Restart(l) == timer' = IF l # volume.level
                       THEN [level |-> l, stream |-> stream] ELSE timer

(* A timeout leaves a volume.set behind that may still be carried out. *)
Abandoned(cmd) ==
  {i \in DOMAIN calls : calls[i].req.cmd = cmd /\ ~calls[i].waiting /\ ~Carried(i)}

Moved == moved' = [stream |-> stream, sure |-> Abandoned("volume.set") = {}]

MoveSlider(l) ==
  /\ l # volume.level
  /\ UserActs
  /\ volume' = [volume EXCEPT !.level = l]
  /\ Restart(l)
  /\ Moved
  /\ chosen' = [level |-> l, stream |-> stream]
  /\ UNCHANGED <<device, calls, connectivity, stream, volumeBusy, button, filesCard>>

SelectStream(s) ==
  /\ s # stream
  /\ UserActs
  /\ stream' = s
  /\ UNCHANGED <<device, calls, connectivity, volume, timer, volumeBusy,
                 moved, chosen, button, filesCard>>

Submit(l, s) ==
  /\ Call(VolumeSet(l, s))
  /\ volumeBusy' = TRUE
  /\ UNCHANGED <<device, connectivity, stream, volume, moved, button, filesCard>>

SubmitDebounced ==
  /\ timer # NoTimer
  /\ Submit(timer.level, timer.stream)
  /\ timer' = NoTimer
  /\ UNCHANGED <<chosen, moves>>

Apply ==
  /\ ~volumeBusy
  /\ UserActs
  /\ Submit(volume.level, stream)
  /\ chosen' = [level |-> volume.level, stream |-> stream]
  /\ UNCHANGED timer

Ring ==
  /\ ~volumeBusy
  /\ UserActs
  /\ Call(Plain("device.ring"))
  /\ volumeBusy' = TRUE
  /\ UNCHANGED <<device, connectivity, stream, volume, timer, moved, chosen,
                 button, filesCard>>

VolumeSettles(req, answer) ==
  /\ volumeBusy' = FALSE
  /\ IF Throws(req, answer)
     THEN /\ moved' = [moved EXCEPT !.sure = FALSE]
          /\ UNCHANGED <<volume, timer>>
     ELSE /\ volume' = answer.volume
          /\ Restart(answer.volume.level)
          /\ IF answer.volume.level # volume.level THEN Moved ELSE UNCHANGED moved
  /\ UNCHANGED <<stream, chosen, connectivity, button, filesCard>>

RingSettles ==
  /\ volumeBusy' = FALSE
  /\ UNCHANGED <<stream, volume, timer, moved, chosen, connectivity, button, filesCard>>

-------------------------------------------------------------------------------
(* The cards with one button: lock, location, notification *)

Press(b) ==
  /\ ~button[b].busy
  /\ UserActs
  /\ Call(Plain(b))
  /\ button' = [button EXCEPT ![b] =
       [busy |-> TRUE,
        msg  |-> IF b # "device.lock" /\ @.msg = "failed" THEN "none" ELSE @.msg]]
  /\ UNCHANGED <<device, connectivity, volumeCard, filesCard>>

(* The finally clause, on success and on failure *)
BusyAfter_Failure(failed) == failed
BusyAfter(failed) == FALSE

PressSettles(req, answer) ==
  /\ button' = [button EXCEPT ![req.cmd] =
       [busy |-> BusyAfter(Throws(req, answer)),
        msg  |-> IF Throws(req, answer) THEN "failed" ELSE "done"]]
  /\ UNCHANGED <<connectivity, volumeCard, filesCard>>

(* The message disappears after 2.5 or 1.8 seconds. *)
Fade(b) ==
  /\ \/ b = "device.lock" /\ button[b].msg # "none"
     \/ b = "notify.send" /\ button[b].msg = "done"
  /\ button' = [button EXCEPT ![b].msg = "none"]
  /\ UNCHANGED <<device, calls, connectivity, volumeCard, filesCard, moves>>

-------------------------------------------------------------------------------
(* The files card.  The Enter key does not ask whether it is busy. *)

List(path) ==
  /\ UserActs
  /\ Call(FileList(path))
  /\ filesBusy' = TRUE
  /\ UNCHANGED <<device, connectivity, volumeCard, button, listing>>

(* The items of whichever load is answered last are shown. *)
ListSettles(req, answer) ==
  /\ filesBusy' = FALSE
  /\ listing' = IF Throws(req, answer) THEN listing ELSE answer.path
  /\ UNCHANGED <<connectivity, volumeCard, button>>

-------------------------------------------------------------------------------
(* The device.  NodeStubPlatform does what it is asked.  The Android       *)
(* plugin may refuse, leave a radio as it is and say so, round a level to  *)
(* the steps of the system, and mute a stream at any level.                *)

Refuse(answer) ==
  /\ ~Stub
  /\ answer = Err
  /\ UNCHANGED device

SetRadio(req, answer) ==
  /\ req.cmd = "radio.set"
  /\ \E on \in IF Stub THEN {req.on} ELSE {req.on, radio[req.radio]} :
       /\ radio' = [radio EXCEPT ![req.radio] = on]
       /\ answer = OkRadio(on)
  /\ UNCHANGED volumes

SetVolume(req, answer) ==
  /\ req.cmd = "volume.set"
  /\ \E v \in IF Stub THEN {VolumeState(req.level)} ELSE VolumeStates :
       /\ volumes' = [volumes EXCEPT ![req.stream] = v]
       /\ answer = OkVolume(v)
  /\ UNCHANGED radio

ListFiles(req, answer) ==
  /\ req.cmd = "file.list"
  /\ answer = OkList(req.path)
  /\ UNCHANGED device

OneShot(req, answer) ==
  /\ req.cmd \in Buttons \cup {"device.ring"}
  /\ answer = Ok
  /\ UNCHANGED device

ExecCommand(req, answer) ==
  \/ Refuse(answer)
  \/ SetRadio(req, answer)
  \/ SetVolume(req, answer)
  \/ ListFiles(req, answer)
  \/ OneShot(req, answer)

(* An abandoned toggle that is carried out when no other one of its radio  *)
(* is to follow has overtaken what the card was told.                      *)
Overtaken(i) ==
  LET req == calls[i].req
      follows == {j \in DOMAIN calls : /\ calls[j].waiting /\ ~Carried(j)
                                       /\ calls[j].req.cmd = "radio.set"
                                       /\ calls[j].req.radio = req.radio}
  IN tried' = IF req.cmd = "radio.set" /\ ~calls[i].waiting /\ follows = {}
              THEN [tried EXCEPT ![req.radio] = "overtaken"] ELSE tried

(* handleEncrypted answers with the id its command came with. *)
Requester_Latest(i) == Len(calls)
Requester(i) == i

DispatchCommand ==
  \E i \in DOMAIN calls :
    /\ ~Carried(i)
    /\ Stub => \A j \in 1..(i - 1) : Carried(j)
    /\ \E answer \in Answers :
         /\ ExecCommand(calls[i].req, answer)
         /\ calls' = [calls EXCEPT ![Requester(i)].answer = answer]
    /\ Overtaken(i)
    /\ UNCHANGED <<shown, radioBusy, volumeCard, button, filesCard, moves>>

-------------------------------------------------------------------------------
(* How a promise settles, and what its card does then *)

Settles(i, answer) ==
  LET req == calls[i].req IN
  \/ req.cmd = "radio.set" /\ ToggleSettles(req, answer)
  \/ req.cmd = "volume.set" /\ VolumeSettles(req, answer)
  \/ req.cmd = "device.ring" /\ RingSettles
  \/ req.cmd \in Buttons /\ PressSettles(req, answer)
  \/ req.cmd = "file.list" /\ ListSettles(req, answer)

(* An answer carries the id of its command: it settles the promise of that *)
(* one, if it still waits, and no other.                                   *)
Answered_FirstWaiting(i) ==
  LET waiting == {j \in DOMAIN calls : calls[j].waiting
                                        /\ calls[j].req.cmd = calls[i].req.cmd}
  IN IF waiting = {} THEN i ELSE CHOOSE j \in waiting : \A k \in waiting : j <= k
Answered(i) == i

Answer ==
  /\ \E i \in DOMAIN calls :
       /\ Carried(i)
       /\ Stub => i = 1
       /\ LET a == Answered(i) IN
            \/ /\ calls[a].waiting
               /\ Settles(a, calls[i].answer)
               /\ calls' = RemoveAt([calls EXCEPT ![a].waiting = FALSE], i)
            \/ /\ ~calls[a].waiting
               /\ calls' = RemoveAt(calls, i)
               /\ UNCHANGED <<connectivity, volumeCard, button, filesCard>>
  /\ UNCHANGED <<device, moves>>

(* All timeouts are 15 seconds, so they fire in the order they were set. *)
Timeout ==
  /\ ~Prompt
  /\ \E i \in DOMAIN calls :
       /\ calls[i].waiting /\ \A j \in 1..(i - 1) : ~calls[j].waiting
       /\ Settles(i, TimedOut)
       /\ calls' = [calls EXCEPT ![i].waiting = FALSE]
  /\ UNCHANGED <<device, moves>>

-------------------------------------------------------------------------------
User ==
  \/ \E r \in Radios : Toggle(r)
  \/ \E l \in Levels : MoveSlider(l)
  \/ \E s \in Streams : SelectStream(s)
  \/ Apply
  \/ Ring
  \/ \E b \in Buttons : Press(b)
  \/ \E path \in Paths : List(path)

Next ==
  \/ User
  \/ SubmitDebounced
  \/ \E b \in Buttons : Fade(b)
  \/ DispatchCommand
  \/ Answer
  \/ Timeout

(* Timers fire.  The device is fair only if it answers in time. *)
Fairness ==
  /\ WF_vars(SubmitDebounced)
  /\ WF_vars(Timeout)
  /\ WF_vars(Prompt /\ DispatchCommand)
  /\ WF_vars(Prompt /\ Answer)

Spec == Init /\ [][Next]_vars /\ Fairness
-------------------------------------------------------------------------------
(* Properties *)

(* Cards, commands and platform hold values of their kinds, and a command  *)
(* that was carried out an answer of its own kind (session.ts 189-197); in *)
(* the stub a stream is muted exactly at level 0 (node-stub.ts 36).        *)
Fitting(req) ==
  {Err} \cup (CASE req.cmd = "radio.set"  -> {OkRadio(on) : on \in BOOLEAN}
                [] req.cmd = "volume.set" -> {OkVolume(v) : v \in VolumeStates}
                [] req.cmd = "file.list"  -> {OkList(req.path)}
                [] OTHER                  -> {Ok})

TypeOK ==
  /\ radio \in [Radios -> BOOLEAN]
  /\ volumes \in [Streams -> VolumeStates]
  /\ Stub => \A s \in Streams : volumes[s] = VolumeState(volumes[s].level)
  /\ calls \in Seq([req : Requests, answer : Answers, waiting : BOOLEAN])
  /\ Len(calls) <= MaxCalls
  /\ \A i \in DOMAIN calls : Carried(i) => calls[i].answer \in Fitting(calls[i].req)
  /\ shown \in [Radios -> {"unknown", "on", "off"}]
  /\ radioBusy \in Radios \cup {NoRadio}
  /\ stream \in Streams
  /\ volume \in VolumeStates
  /\ timer \in [level : Levels, stream : Streams] \cup {NoTimer}
  /\ volumeBusy \in BOOLEAN
  /\ button \in [Buttons -> [busy : BOOLEAN, msg : {"none", "done", "failed"}]]
  /\ listing \in Paths \cup {"none"}
  /\ filesBusy \in BOOLEAN
  /\ moves \in 0..MaxMoves
  /\ tried \in [Radios -> {"never", "pending", "ok", "disobeyed", "failed", "overtaken"}]
  /\ moved \in [stream : Streams, sure : BOOLEAN]
  /\ chosen \in [level : Levels, stream : Streams]

WaitingFor(cmds) == {i \in DOMAIN calls : calls[i].waiting /\ calls[i].req.cmd \in cmds}

(* A card that disables itself while it is busy (connectivity, lock,       *)
(* location, notification) has one promise open while it is busy and none  *)
(* otherwise, so that no command of it is ever sent beside another.        *)
OneAtATime ==
  /\ IF radioBusy = NoRadio
     THEN WaitingFor({"radio.set"}) = {}
     ELSE \E i \in DOMAIN calls : /\ WaitingFor({"radio.set"}) = {i}
                                 /\ calls[i].req.radio = radioBusy
  /\ \A b \in Buttons :
       IF button[b].busy THEN \E i \in DOMAIN calls : WaitingFor({b}) = {i}
                         ELSE WaitingFor({b}) = {}

(* What a switch shows is what the radio is, once the latest toggle has    *)
(* succeeded and the platform has done as it was told, in whatever order   *)
(* commands are carried out and answered: no late answer of a toggle that  *)
(* timed out is taken for it.  What nothing prevents is that such a toggle *)
(* is itself carried out later: then the switch is wrong until the next    *)
(* toggle, and only this case is left out.                                 *)
ShownIsReal ==
  \A r \in Radios :
    tried[r] = "ok" => shown[r] = IF radio[r] THEN "on" ELSE "off"

(* Slider and device agree whenever the volume card has come to rest,      *)
(* although answers come in any order and move the slider, and the moved   *)
(* slider sends commands: the stream selected when the level changed last  *)
(* has the level the slider shows.  Left out is what follows on a          *)
(* volume.set that failed or timed out, until the level changes again, and *)
(* no longer with a timed-out one still to come.                           *)
QuietShowsDevice ==
  timer = NoTimer /\ WaitingFor({"volume.set"}) = {} /\ moved.sure
    => volumes[moved.stream].level = volume.level

(* No card stays disabled: a command that is never answered frees it when  *)
(* its 15 seconds are over.                                                *)
BusyEnds ==
  /\ radioBusy # NoRadio ~> radioBusy = NoRadio
  /\ volumeBusy ~> ~volumeBusy
  /\ filesBusy ~> ~filesBusy
  /\ \A b \in Buttons : button[b].busy ~> ~button[b].busy

(* ControlScreen.tsx 177: the levels of the streams can be set, each by    *)
(* itself.  When the user is done, the device stays at the level the       *)
(* slider was put to last, for the stream selected then.  False: an        *)
(* answer moves the slider back and cancels the level that waited.         *)
LevelSticks == <>[](volumes[chosen.stream].level = chosen.level)
===============================================================================
