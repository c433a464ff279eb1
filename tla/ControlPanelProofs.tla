-------------------------- MODULE ControlPanelProofs --------------------------
(***************************************************************************)
(* Theorems about ControlPanel, for any radios, streams, levels, paths and *)
(* any number of commands on the way, by NodeStubPlatform or the Android   *)
(* plugin, carried out and answered in any order, in time or not.          *)
(***************************************************************************)
EXTENDS ControlPanel, TLAPS

Is(i, cmd) == calls[i].req.cmd = cmd
Open(i, cmd) == calls[i].waiting /\ Is(i, cmd)

(* A busy connectivity card has one promise open, that of its radio. *)
RadioOne ==
  /\ \A i \in DOMAIN calls : Open(i, "radio.set") => calls[i].req.radio = radioBusy
  /\ \A i, j \in DOMAIN calls : Open(i, "radio.set") /\ Open(j, "radio.set") => i = j
  /\ radioBusy # NoRadio => \E i \in DOMAIN calls : Open(i, "radio.set")

(* A toggle that waits is the latest of its radio, which is as its answer  *)
(* says unless an abandoned one was carried out since.                     *)
TogglePending ==
  \A i \in DOMAIN calls :
    Open(i, "radio.set") => tried[calls[i].req.radio] \in {"pending", "overtaken"}
ToggleDone ==
  \A i \in DOMAIN calls :
    (/\ Open(i, "radio.set") /\ calls[i].answer.type = "ok"
     /\ tried[calls[i].req.radio] = "pending")
      => radio[calls[i].req.radio] = calls[i].answer.enabled

RadioInv == RadioOne /\ TogglePending /\ ToggleDone /\ ShownIsReal

(* So for the cards with one button. *)
ButtonInv ==
  \A b \in Buttons :
    /\ \A i \in DOMAIN calls : Open(i, b) => button[b].busy
    /\ \A i, j \in DOMAIN calls : Open(i, b) /\ Open(j, b) => i = j
    /\ button[b].busy => \E i \in DOMAIN calls : Open(i, b)

(* What waits to be sent is what the slider shows, for the stream of the   *)
(* latest change.  When nothing waits to be sent, the device has that      *)
(* level, or a command is to be carried out for that stream, or an answer  *)
(* is to move the slider.  This holds as long as each volume.set is        *)
(* answered: an abandoned one would change the level and say so to nobody. *)
TimerShows ==
  timer # NoTimer => timer.level = volume.level /\ timer.stream = moved.stream
NoneAbandoned ==
  \A i \in DOMAIN calls : Is(i, "volume.set") => calls[i].waiting \/ Carried(i)
ToCome(i) ==
  /\ Open(i, "volume.set")
  /\ IF Carried(i)
     THEN calls[i].answer.type = "err" \/ calls[i].answer.volume.level # volume.level
     ELSE calls[i].req.stream = moved.stream
LevelFollows ==
  timer = NoTimer =>
    \/ volumes[moved.stream].level = volume.level
    \/ \E i \in DOMAIN calls : ToCome(i)

VolumeInv == TimerShows /\ (moved.sure => NoneAbandoned /\ LevelFollows)

PanelInv == TypeOK /\ RadioInv /\ ButtonInv /\ VolumeInv

-------------------------------------------------------------------------------
(* Commands, answers, and what becomes of the queue *)

Entries == [req : Requests, answer : Answers, waiting : BOOLEAN]

LEMMA RequestFields ==
  ASSUME NEW q \in Requests
  PROVE  /\ q.cmd \in {"radio.set", "volume.set", "file.list", "device.ring"} \cup Buttons
         /\ q.cmd = "radio.set" => q.radio \in Radios /\ q.on \in BOOLEAN
         /\ q.cmd = "volume.set" => q.level \in Levels /\ q.stream \in Streams
         /\ q.cmd = "file.list" => q.path \in Paths
BY PanelAssumption DEF Requests

LEMMA FittingAnswers ==
  ASSUME NEW q \in Requests
  PROVE  /\ Err \in Fitting(q)
         /\ q.cmd = "radio.set" => \A on \in BOOLEAN : OkRadio(on) \in Fitting(q)
         /\ q.cmd = "volume.set" => \A v \in VolumeStates : OkVolume(v) \in Fitting(q)
         /\ q.cmd = "file.list" => OkList(q.path) \in Fitting(q)
         /\ q.cmd \in Buttons \cup {"device.ring"} => Ok \in Fitting(q)
BY PanelAssumption DEF Fitting

LEMMA FitFields ==
  ASSUME NEW q \in Requests, NEW a \in Fitting(q)
  PROVE  /\ a = Err \/ a.type = "ok"
         /\ a.type = "ok" /\ q.cmd = "radio.set" => a.enabled \in BOOLEAN
         /\ a.type = "ok" /\ q.cmd = "volume.set" => a.volume \in VolumeStates
         /\ a.type = "ok" /\ q.cmd = "file.list" => a.path = q.path
<1>1. a = Err => a.type = "err"
  BY DEF Err
<1>2. CASE q.cmd = "radio.set"
  <2>1. a = Err \/ \E on \in BOOLEAN : a = OkRadio(on)
    BY <1>2 DEF Fitting
  <2> QED BY <1>1, <1>2, <2>1 DEF OkRadio
<1>3. CASE q.cmd = "volume.set"
  <2>1. a = Err \/ \E v \in VolumeStates : a = OkVolume(v)
    BY <1>3 DEF Fitting
  <2> QED BY <1>1, <1>3, <2>1 DEF OkVolume
<1>4. CASE q.cmd = "file.list"
  BY <1>1, <1>4 DEF Fitting, OkList
<1>5. CASE q.cmd \in Buttons \cup {"device.ring"}
  BY <1>1, <1>5, PanelAssumption DEF Fitting, Ok
<1> QED BY <1>2, <1>3, <1>4, <1>5, RequestFields

(* A command is sent behind all others. *)
Grown(q) ==
  /\ Len(calls') = Len(calls) + 1
  /\ \A i \in 1..Len(calls) : calls'[i] = calls[i]
  /\ LET new == calls'[Len(calls) + 1]
     IN  new.req = q /\ new.answer = NoAnswer /\ new.waiting

(* The device answers a command that has no answer. *)
Worked(i, a) ==
  /\ i \in DOMAIN calls /\ ~Carried(i)
  /\ DOMAIN calls' = DOMAIN calls
  /\ \A j \in DOMAIN calls : /\ calls'[j].req = calls[j].req
                             /\ calls'[j].waiting = calls[j].waiting
                             /\ j # i => calls'[j] = calls[j]
  /\ calls'[i].answer = a /\ a \in Answers /\ a # NoAnswer

(* The promise of a command waits no longer; the command itself may have   *)
(* left the queue.  from[k] is where the k-th that remains was before.     *)
Left(i, from) ==
  /\ i \in DOMAIN calls
  /\ from \in [DOMAIN calls' -> DOMAIN calls]
  /\ \A k, l \in DOMAIN calls' : from[k] = from[l] => k = l
  /\ \A m \in DOMAIN calls : m # i => \E k \in DOMAIN calls' : from[k] = m
  /\ \A k \in DOMAIN calls' :
       /\ calls'[k].req = calls[from[k]].req /\ calls'[k].answer = calls[from[k]].answer
       /\ IF from[k] = i THEN ~calls'[k].waiting
                         ELSE calls'[k].waiting = calls[from[k]].waiting

CallsOK ==
  /\ calls \in Seq(Entries) /\ Len(calls) <= MaxCalls
  /\ \A i \in DOMAIN calls : Carried(i) => calls[i].answer \in Fitting(calls[i].req)

LEMMA CallsTyped == TypeOK => CallsOK
BY DEF TypeOK, CallsOK, Entries

LEMMA CallFields ==
  ASSUME CallsOK, NEW i \in DOMAIN calls
  PROVE  /\ calls[i].req \in Requests /\ calls[i].answer \in Answers
         /\ Is(i, "radio.set") => calls[i].req.radio \in Radios
         /\ Is(i, "volume.set") => calls[i].req.stream \in Streams
         /\ Is(i, "file.list") => calls[i].req.path \in Paths
<1>1. calls[i] \in Entries
  BY DEF CallsOK
<1>2. calls[i].req \in Requests /\ calls[i].answer \in Answers
  BY <1>1 DEF Entries
<1> QED BY <1>2, RequestFields DEF Is

LEMMA CallGrows ==
  ASSUME CallsOK, NEW q \in Requests, Call(q)
  PROVE  Grown(q) /\ CallsOK'
<1>1. Sent(q) \in Entries
  BY DEF Sent, Entries, Answers
<1>2. calls' = Append(calls, Sent(q)) /\ Len(calls) < MaxCalls
  BY DEF Call
<1>3. Grown(q)
  BY <1>2 DEF CallsOK, Grown, Sent
<1>4. calls' \in Seq(Entries) /\ Len(calls') <= MaxCalls
  BY <1>1, <1>2, PanelAssumption DEF CallsOK
<1>5. \A i \in DOMAIN calls' : Carried(i)' => i \in DOMAIN calls /\ calls'[i] = calls[i]
  BY <1>3, <1>4 DEF CallsOK, Grown, Carried
<1>6. CallsOK'
  BY <1>4, <1>5 DEF CallsOK, Carried
<1> QED BY <1>3, <1>6

(* Where the commands of a queue that has grown come from *)
LEMMA GrownFrom ==
  ASSUME CallsOK, CallsOK', NEW q, Grown(q)
  PROVE  \E n \in DOMAIN calls' :
           /\ n \notin DOMAIN calls /\ DOMAIN calls' = DOMAIN calls \cup {n}
           /\ calls'[n].req = q /\ calls'[n].answer = NoAnswer /\ calls'[n].waiting
           /\ \A i \in DOMAIN calls : calls'[i] = calls[i]
<1>1. /\ DOMAIN calls' = 1..(Len(calls) + 1) /\ DOMAIN calls = 1..Len(calls)
      /\ Len(calls) \in Nat
  BY DEF CallsOK, Grown
<1> WITNESS Len(calls) + 1 \in DOMAIN calls'
<1> QED BY <1>1 DEF Grown

LEMMA CallReplaced ==
  ASSUME calls \in Seq(Entries), NEW i \in DOMAIN calls, NEW e \in Entries,
         calls' = [calls EXCEPT ![i] = e]
  PROVE  /\ calls' \in Seq(Entries) /\ Len(calls') = Len(calls)
         /\ DOMAIN calls' = DOMAIN calls
         /\ calls'[i] = e /\ \A j \in DOMAIN calls : j # i => calls'[j] = calls[j]
OBVIOUS

LEMMA AnswerWorks ==
  ASSUME CallsOK, NEW i \in DOMAIN calls, NEW a \in Answers, a # NoAnswer,
         a \in Fitting(calls[i].req), ~Carried(i),
         calls' = [calls EXCEPT ![i].answer = a]
  PROVE  Worked(i, a) /\ CallsOK'
<1> DEFINE e == [calls[i] EXCEPT !.answer = a]
<1>1. calls[i] \in Entries
  BY DEF CallsOK
<1>2. /\ e \in Entries
      /\ e.req = calls[i].req /\ e.waiting = calls[i].waiting /\ e.answer = a
  BY <1>1, Zenon DEF Entries
<1>3. calls' = [calls EXCEPT ![i] = e]
  OBVIOUS
<1> HIDE DEF e
<1>4. /\ calls' \in Seq(Entries) /\ Len(calls') = Len(calls) /\ DOMAIN calls' = DOMAIN calls
      /\ calls'[i] = e /\ \A j \in DOMAIN calls : j # i => calls'[j] = calls[j]
  BY <1>2, <1>3, CallReplaced DEF CallsOK
<1>5. Worked(i, a)
  BY <1>2, <1>4 DEF Worked
<1>6. \A j \in DOMAIN calls' : Carried(j)' => calls'[j].answer \in Fitting(calls'[j].req)
  BY <1>2, <1>4 DEF CallsOK, Carried
<1> QED BY <1>4, <1>5, <1>6 DEF CallsOK

LEMMA WaitExpires ==
  ASSUME CallsOK, NEW i \in DOMAIN calls, calls' = [calls EXCEPT ![i].waiting = FALSE]
  PROVE  Left(i, [k \in DOMAIN calls' |-> k]) /\ CallsOK'
<1> DEFINE e == [calls[i] EXCEPT !.waiting = FALSE]
<1>1. calls[i] \in Entries
  BY DEF CallsOK
<1>2. e \in Entries /\ e.req = calls[i].req /\ e.answer = calls[i].answer /\ ~e.waiting
  BY <1>1, Zenon DEF Entries
<1>3. calls' = [calls EXCEPT ![i] = e]
  OBVIOUS
<1> HIDE DEF e
<1>4. /\ calls' \in Seq(Entries) /\ Len(calls') = Len(calls) /\ DOMAIN calls' = DOMAIN calls
      /\ calls'[i] = e /\ \A j \in DOMAIN calls : j # i => calls'[j] = calls[j]
  BY <1>2, <1>3, CallReplaced DEF CallsOK
<1>5. Left(i, [k \in DOMAIN calls' |-> k])
  BY <1>2, <1>4 DEF Left
<1>6. CallsOK'
  BY <1>2, <1>4 DEF CallsOK, Carried
<1> QED BY <1>5, <1>6

LEMMA RemovedAt ==
  ASSUME NEW S, NEW s \in Seq(S), NEW i \in DOMAIN s
  PROVE  /\ RemoveAt(s, i) \in Seq(S) /\ Len(RemoveAt(s, i)) = Len(s) - 1
         /\ \A k \in 1..(Len(s) - 1) :
              RemoveAt(s, i)[k] = IF k < i THEN s[k] ELSE s[k + 1]
<1>1. i \in 1..Len(s) /\ Len(s) \in Nat
  OBVIOUS
<1>2. ASSUME NEW p \in Seq(S), NEW t \in Seq(S)
      PROVE  /\ p \o t \in Seq(S) /\ Len(p \o t) = Len(p) + Len(t)
             /\ \A k \in 1..(Len(p) + Len(t)) :
                  (p \o t)[k] = IF k <= Len(p) THEN p[k] ELSE t[k - Len(p)]
  OBVIOUS
<1> DEFINE p == SubSeq(s, 1, i - 1)
           t == SubSeq(s, i + 1, Len(s))
<1>3. p \in Seq(S) /\ Len(p) = i - 1 /\ \A k \in 1..(i - 1) : p[k] = s[k]
  BY <1>1
<1>4. /\ t \in Seq(S) /\ Len(t) = Len(s) - i
      /\ \A k \in 1..(Len(s) - i) : t[k] = s[k + i]
  BY <1>1
<1>5. RemoveAt(s, i) = p \o t
  BY DEF RemoveAt
<1> HIDE DEF p, t
<1>6. p \o t \in Seq(S) /\ Len(p \o t) = Len(s) - 1
  BY <1>1, <1>2, <1>3, <1>4
<1>7. ASSUME NEW k \in 1..(Len(s) - 1)
      PROVE  (p \o t)[k] = IF k < i THEN s[k] ELSE s[k + 1]
  <2>1. k \in Nat /\ k \in 1..(Len(p) + Len(t))
    BY <1>1, <1>3, <1>4
  <2>2. (p \o t)[k] = IF k <= Len(p) THEN p[k] ELSE t[k - Len(p)]
    BY <1>2, <2>1
  <2>3. CASE k < i
    <3>1. k \in 1..(i - 1) /\ k <= Len(p)
      BY <1>1, <1>3, <2>1, <2>3
    <3> QED BY <1>3, <2>2, <2>3, <3>1
  <2>4. CASE ~(k < i)
    <3>1. k - Len(p) \in 1..(Len(s) - i) /\ k - Len(p) + i = k + 1 /\ ~(k <= Len(p))
      BY <1>1, <1>3, <2>1, <2>4
    <3> QED BY <1>4, <2>2, <2>4, <3>1
  <2> QED BY <2>3, <2>4
<1> QED BY <1>5, <1>6, <1>7

LEMMA CallLeaves ==
  ASSUME CallsOK, NEW i \in DOMAIN calls,
         \/ calls' = RemoveAt(calls, i)
         \/ calls' = RemoveAt([calls EXCEPT ![i].waiting = FALSE], i)
  PROVE  /\ Left(i, [k \in DOMAIN calls' |-> IF k < i THEN k ELSE k + 1])
         /\ \A k \in DOMAIN calls' : (IF k < i THEN k ELSE k + 1) # i
         /\ CallsOK'
<1>1. PICK s : /\ calls' = RemoveAt(s, i)
               /\ s = calls \/ s = [calls EXCEPT ![i].waiting = FALSE]
  OBVIOUS
<1>2. /\ s \in Seq(Entries) /\ Len(s) = Len(calls) /\ DOMAIN s = DOMAIN calls
      /\ \A j \in DOMAIN calls : j # i => s[j] = calls[j]
  <2> DEFINE e == [calls[i] EXCEPT !.waiting = FALSE]
  <2>1. calls[i] \in Entries
    BY DEF CallsOK
  <2>2. e \in Entries
    BY <2>1, Zenon DEF Entries
  <2>3. s = calls \/ s = [calls EXCEPT ![i] = e]
    BY <1>1
  <2> HIDE DEF e
  <2> QED BY <2>2, <2>3 DEF CallsOK
<1>3. /\ calls' \in Seq(Entries) /\ Len(calls') = Len(calls) - 1
      /\ DOMAIN calls = 1..Len(calls) /\ DOMAIN calls' = 1..(Len(calls) - 1)
      /\ Len(calls) \in Nat
      /\ \A k \in DOMAIN calls' : calls'[k] = IF k < i THEN s[k] ELSE s[k + 1]
  <2>1. /\ RemoveAt(s, i) \in Seq(Entries) /\ Len(RemoveAt(s, i)) = Len(s) - 1
        /\ \A k \in 1..(Len(s) - 1) :
             RemoveAt(s, i)[k] = IF k < i THEN s[k] ELSE s[k + 1]
    BY <1>2, RemovedAt
  <2>2. DOMAIN calls = 1..Len(calls) /\ Len(calls) \in Nat /\ Len(calls') \in Nat
    BY <1>1, <2>1 DEF CallsOK
  <2>3. DOMAIN calls' = 1..Len(calls')
    BY <1>1, <2>1
  <2> QED BY <1>1, <1>2, <2>1, <2>2, <2>3
<1> DEFINE from == [k \in DOMAIN calls' |-> IF k < i THEN k ELSE k + 1]
<1>4. \A k \in DOMAIN calls' :
        from[k] \in DOMAIN calls /\ from[k] # i /\ calls'[k] = calls[from[k]]
  BY <1>2, <1>3
<1>5. \A k, l \in DOMAIN calls' : from[k] = from[l] => k = l
  BY <1>3
<1>6. \A m \in DOMAIN calls : m # i => \E k \in DOMAIN calls' : from[k] = m
  <2> TAKE m \in DOMAIN calls
  <2>1. CASE m < i
    <3>1. m \in DOMAIN calls' /\ from[m] = m
      BY <1>3, <2>1
    <3> QED BY <3>1
  <2>2. CASE m > i
    <3>1. m - 1 \in DOMAIN calls' /\ from[m - 1] = m
      BY <1>3, <2>2
    <3> QED BY <3>1
  <2> QED BY <1>3, <2>1, <2>2
<1>7. Left(i, from)
  <2>1. from \in [DOMAIN calls' -> DOMAIN calls]
    BY <1>4
  <2> HIDE DEF from
  <2> QED BY <1>4, <1>5, <1>6, <2>1 DEF Left
<1>8. CallsOK'
  <2> HIDE DEF from
  <2>1. Len(calls') <= MaxCalls
    BY <1>3, PanelAssumption DEF CallsOK
  <2>2. \A k \in DOMAIN calls' : Carried(k)' => calls'[k].answer \in Fitting(calls'[k].req)
    BY <1>4 DEF CallsOK, Carried
  <2> QED BY <1>3, <2>1, <2>2 DEF CallsOK
<1>9. \A k \in DOMAIN calls' : (IF k < i THEN k ELSE k + 1) # i
  BY <1>3
<1> QED BY <1>7, <1>8, <1>9

LEMMA VolumeStatesOK == \A l \in Levels : VolumeState(l) \in VolumeStates
<1> TAKE l \in Levels
<1>1. (l = 0) \in BOOLEAN
  OBVIOUS
<1> QED BY <1>1 DEF VolumeState, VolumeStates

LEMMA DeviceActs ==
  ASSUME TypeOK, NEW q \in Requests, NEW a \in Answers, ExecCommand(q, a)
  PROVE  /\ a # NoAnswer /\ a \in Fitting(q)
         /\ radio' \in [Radios -> BOOLEAN]
         /\ volumes' \in [Streams -> VolumeStates]
         /\ Stub => \A s \in Streams : volumes'[s] = VolumeState(volumes'[s].level)
         /\ \A r \in Radios : q.cmd # "radio.set" \/ q.radio # r => radio'[r] = radio[r]
         /\ q.cmd = "radio.set" /\ a.type = "ok" => radio'[q.radio] = a.enabled
         /\ q.cmd # "volume.set" => volumes' = volumes
         /\ \A s \in Streams : q.stream # s => volumes'[s] = volumes[s]
         /\ q.cmd = "volume.set" /\ a.type = "ok" => volumes'[q.stream] = a.volume
         /\ a.type # "ok" => UNCHANGED device
<1> USE FittingAnswers
<1>1. CASE Refuse(a)
  BY <1>1 DEF Refuse, TypeOK, device, NoAnswer, Err
<1>2. CASE SetRadio(q, a)
  <2>1. q.cmd = "radio.set" /\ q.radio \in Radios /\ q.on \in BOOLEAN /\ volumes' = volumes
    BY <1>2, RequestFields DEF SetRadio
  <2>2. PICK on \in BOOLEAN :
          radio' = [radio EXCEPT ![q.radio] = on] /\ a = OkRadio(on)
    <3>1. PICK on \in IF Stub THEN {q.on} ELSE {q.on, radio[q.radio]} :
            radio' = [radio EXCEPT ![q.radio] = on] /\ a = OkRadio(on)
      BY <1>2 DEF SetRadio
    <3>2. radio[q.radio] \in BOOLEAN
      BY <2>1 DEF TypeOK
    <3>3. on = q.on \/ on = radio[q.radio]
      OBVIOUS
    <3>4. on \in BOOLEAN
      BY <2>1, <3>2, <3>3, Zenon
    <3> QED BY <3>1, <3>4
  <2>3. a.type = "ok" /\ a.enabled = on /\ a # NoAnswer
    BY <2>2 DEF OkRadio, NoAnswer
  <2>4. a \in Fitting(q)
    BY <2>1, <2>2
  <2>5. /\ radio' \in [Radios -> BOOLEAN] /\ radio'[q.radio] = on
        /\ \A r \in Radios : r # q.radio => radio'[r] = radio[r]
    BY <2>1, <2>2 DEF TypeOK
  <2> QED BY <2>1, <2>3, <2>4, <2>5 DEF TypeOK
<1>3. CASE SetVolume(q, a)
  <2>1. q.cmd = "volume.set" /\ q.stream \in Streams /\ q.level \in Levels /\ radio' = radio
    BY <1>3, RequestFields DEF SetVolume
  <2>2. PICK v : /\ v \in IF Stub THEN {VolumeState(q.level)} ELSE VolumeStates
                 /\ volumes' = [volumes EXCEPT ![q.stream] = v] /\ a = OkVolume(v)
    BY <1>3 DEF SetVolume
  <2>3. v \in VolumeStates /\ (Stub => v = VolumeState(v.level))
    <3>1. VolumeState(q.level) \in VolumeStates /\ VolumeState(q.level).level = q.level
      BY <2>1, VolumeStatesOK DEF VolumeState
    <3> QED BY <2>2, <3>1
  <2>4. a.type = "ok" /\ a.volume = v /\ a # NoAnswer
    BY <2>2 DEF OkVolume, NoAnswer
  <2>5. a \in Fitting(q)
    BY <2>1, <2>2, <2>3
  <2>6. /\ volumes' \in [Streams -> VolumeStates] /\ volumes'[q.stream] = v
        /\ \A s \in Streams : q.stream # s => volumes'[s] = volumes[s]
    BY <2>1, <2>2, <2>3 DEF TypeOK
  <2>7. Stub => \A s \in Streams : volumes'[s] = VolumeState(volumes'[s].level)
    BY <2>3, <2>6 DEF TypeOK
  <2> QED BY <2>1, <2>4, <2>5, <2>6, <2>7 DEF TypeOK
<1>4. CASE ListFiles(q, a)
  BY <1>4 DEF ListFiles, TypeOK, device, NoAnswer, OkList
<1>5. CASE OneShot(q, a)
  BY <1>5, PanelAssumption DEF OneShot, TypeOK, device, NoAnswer, Ok
<1> QED BY <1>1, <1>2, <1>3, <1>4, <1>5 DEF ExecCommand

(* What the settling of a promise does not concern, it leaves alone. *)
LEMMA SettlesCards ==
  ASSUME NEW i \in DOMAIN calls, NEW a, Settles(i, a)
  PROVE  /\ IF Is(i, "radio.set") THEN ToggleSettles(calls[i].req, a)
                                  ELSE UNCHANGED connectivity
         /\ IF Is(i, "volume.set") THEN VolumeSettles(calls[i].req, a)
                                   ELSE UNCHANGED <<volume, timer, moved>>
         /\ UNCHANGED <<stream, chosen>> /\ volumeBusy' \in {volumeBusy, FALSE}
         /\ IF calls[i].req.cmd \in Buttons THEN PressSettles(calls[i].req, a)
                                            ELSE UNCHANGED button
         /\ IF Is(i, "file.list") THEN ListSettles(calls[i].req, a)
                                  ELSE UNCHANGED filesCard
<1> USE PanelAssumption DEF Is, connectivity, volumeCard, filesCard
<1>1. CASE calls[i].req.cmd = "radio.set" /\ ToggleSettles(calls[i].req, a)
  BY <1>1 DEF ToggleSettles
<1>2. CASE calls[i].req.cmd = "volume.set" /\ VolumeSettles(calls[i].req, a)
  BY <1>2 DEF VolumeSettles
<1>3. CASE calls[i].req.cmd = "device.ring" /\ RingSettles
  BY <1>3 DEF RingSettles
<1>4. CASE calls[i].req.cmd \in Buttons /\ PressSettles(calls[i].req, a)
  BY <1>4 DEF PressSettles
<1>5. CASE calls[i].req.cmd = "file.list" /\ ListSettles(calls[i].req, a)
  BY <1>5 DEF ListSettles
<1> QED BY <1>1, <1>2, <1>3, <1>4, <1>5 DEF Settles

(* An answer takes its command from the queue, a timeout leaves it there;  *)
(* either way the promise of the command settles if it waits.              *)
Leaves(i, from, a) ==
  /\ Left(i, from) /\ CallsOK' /\ UNCHANGED <<device, moves>>
  /\ \/ a = calls[i].answer /\ Carried(i) /\ \A k \in DOMAIN calls' : from[k] # i
     \/ a = TimedOut /\ calls[i].waiting
  /\ IF calls[i].waiting
     THEN Settles(i, a)
     ELSE UNCHANGED <<connectivity, volumeCard, button, filesCard>>

LEMMA AnswerStep ==
  ASSUME CallsOK, Answer
  PROVE  \E i, from, a : Leaves(i, from, a)
<1>1. PICK i \in DOMAIN calls :
        /\ Carried(i)
        /\ LET b == Answered(i) IN
             \/ /\ calls[b].waiting
                /\ Settles(b, calls[i].answer)
                /\ calls' = RemoveAt([calls EXCEPT ![b].waiting = FALSE], i)
             \/ /\ ~calls[b].waiting
                /\ calls' = RemoveAt(calls, i)
                /\ UNCHANGED <<connectivity, volumeCard, button, filesCard>>
  BY DEF Answer
<1>2. /\ IF calls[i].waiting
         THEN Settles(i, calls[i].answer)
         ELSE UNCHANGED <<connectivity, volumeCard, button, filesCard>>
      /\ \/ calls' = RemoveAt([calls EXCEPT ![i].waiting = FALSE], i)
         \/ calls' = RemoveAt(calls, i)
  BY <1>1 DEF Answered
<1>3. UNCHANGED <<device, moves>>
  BY DEF Answer
<1> DEFINE from == [k \in DOMAIN calls' |-> IF k < i THEN k ELSE k + 1]
<1>4. Left(i, from) /\ CallsOK' /\ \A k \in DOMAIN calls' : from[k] # i
  BY <1>2, CallLeaves
<1> HIDE DEF from
<1>5. Leaves(i, from, calls[i].answer)
  BY <1>1, <1>2, <1>3, <1>4 DEF Leaves
<1> QED BY <1>5

LEMMA TimeoutStep ==
  ASSUME CallsOK, Timeout
  PROVE  \E i, from, a : Leaves(i, from, a)
<1>1. PICK i \in DOMAIN calls :
        /\ calls[i].waiting
        /\ Settles(i, TimedOut)
        /\ calls' = [calls EXCEPT ![i].waiting = FALSE]
  BY DEF Timeout
<1>2. UNCHANGED <<device, moves>>
  BY DEF Timeout
<1>3. Left(i, [k \in DOMAIN calls' |-> k]) /\ CallsOK'
  BY <1>1, WaitExpires
<1>4. Leaves(i, [k \in DOMAIN calls' |-> k], TimedOut)
  BY <1>1, <1>2, <1>3 DEF Leaves
<1> QED BY <1>4

LEMMA DispatchStep ==
  ASSUME TypeOK, DispatchCommand
  PROVE  \E i \in DOMAIN calls, a \in Answers :
           /\ calls[i].req \in Requests /\ ExecCommand(calls[i].req, a)
           /\ Worked(i, a) /\ CallsOK' /\ Overtaken(i)
           /\ UNCHANGED <<shown, radioBusy, volumeCard, button, filesCard, moves>>
<1>1. PICK i \in DOMAIN calls :
        /\ ~Carried(i)
        /\ \E a \in Answers : /\ ExecCommand(calls[i].req, a)
                              /\ calls' = [calls EXCEPT ![Requester(i)].answer = a]
        /\ Overtaken(i)
        /\ UNCHANGED <<shown, radioBusy, volumeCard, button, filesCard, moves>>
  BY DEF DispatchCommand
<1>2. PICK a \in Answers : /\ ExecCommand(calls[i].req, a)
                           /\ calls' = [calls EXCEPT ![i].answer = a]
  BY <1>1 DEF Requester
<1>3. calls[i].req \in Requests /\ CallsOK
  BY CallsTyped, CallFields
<1>4. a # NoAnswer /\ a \in Fitting(calls[i].req)
  BY <1>2, <1>3, DeviceActs
<1> QED BY <1>1, <1>2, <1>3, <1>4, AnswerWorks

(* A request that a card sends is one.  Buttons has no other card's. *)
LEMMA RequestsOK ==
  /\ \A r \in Radios : \A on \in BOOLEAN : RadioSet(r, on) \in Requests
  /\ \A l \in Levels : \A s \in Streams : VolumeSet(l, s) \in Requests
  /\ \A path \in Paths : FileList(path) \in Requests
  /\ \A cmd \in Buttons \cup {"device.ring"} : Plain(cmd) \in Requests
BY DEF RadioSet, VolumeSet, FileList, Plain, Requests

-------------------------------------------------------------------------------
(* The connectivity card *)

LEMMA RadioGrows ==
  ASSUME CallsOK, CallsOK', RadioInv, NEW q \in Requests, Grown(q),
         q.cmd # "radio.set", UNCHANGED <<connectivity, radio>>
  PROVE  RadioInv'
<1>1. UNCHANGED <<shown, radioBusy, tried, radio>>
  BY DEF connectivity
<1>2. /\ \A i \in DOMAIN calls : calls'[i] = calls[i] /\ i \in DOMAIN calls'
      /\ \A i \in DOMAIN calls' : Is(i, "radio.set")' => i \in DOMAIN calls
  BY GrownFrom DEF Is
<1>3. RadioOne'
  BY <1>1, <1>2 DEF RadioInv, RadioOne, Open, Is
<1>4. TogglePending' /\ ToggleDone'
  BY <1>1, <1>2 DEF RadioInv, TogglePending, ToggleDone, Open, Is
<1>5. ShownIsReal'
  BY <1>1 DEF RadioInv, ShownIsReal
<1> QED BY <1>3, <1>4, <1>5 DEF RadioInv

LEMMA RadioToggles ==
  ASSUME TypeOK, CallsOK', RadioInv, NEW r \in Radios, Toggle(r)
  PROVE  RadioInv'
<1>1. /\ radioBusy = NoRadio /\ radioBusy' = r /\ r # NoRadio
      /\ tried' = [tried EXCEPT ![r] = "pending"] /\ UNCHANGED <<shown, radio>>
  BY PanelAssumption DEF Toggle, Idle, device
<1>2. PICK q \in Requests : q.cmd = "radio.set" /\ q.radio = r /\ Grown(q)
  <2>1. (shown[r] # "on") \in BOOLEAN
    OBVIOUS
  <2>2. RadioSet(r, shown[r] # "on") \in Requests
    BY <2>1, RequestsOK, Zenon
  <2>3. RadioSet(r, shown[r] # "on").cmd = "radio.set"
        /\ RadioSet(r, shown[r] # "on").radio = r
    BY DEF RadioSet
  <2> QED BY <2>2, <2>3, CallsTyped, CallGrows DEF Toggle
<1>3. PICK n \in DOMAIN calls' :
        /\ n \notin DOMAIN calls /\ DOMAIN calls' = DOMAIN calls \cup {n}
        /\ calls'[n].req = q /\ calls'[n].answer = NoAnswer /\ calls'[n].waiting
        /\ \A i \in DOMAIN calls : calls'[i] = calls[i]
  BY <1>2, CallsTyped, GrownFrom
<1>4. \A i \in DOMAIN calls : ~Open(i, "radio.set")
  <2>1. \A i \in DOMAIN calls : Is(i, "radio.set") => calls[i].req.radio \in Radios
    BY CallsTyped, CallFields
  <2> QED BY <1>1, <2>1, PanelAssumption DEF RadioInv, RadioOne, Open
<1>5. \A i \in DOMAIN calls' : Open(i, "radio.set")' <=> i = n
  BY <1>2, <1>3, <1>4 DEF Open, Is
<1>6. RadioOne'
  BY <1>1, <1>2, <1>3, <1>5 DEF RadioOne
<1>7. \A s \in Radios : tried'[s] = IF s = r THEN "pending" ELSE tried[s]
  BY <1>1 DEF TypeOK
<1>8. TogglePending'
  BY <1>2, <1>3, <1>5, <1>7 DEF TogglePending
<1>9. ToggleDone'
  BY <1>3, <1>5 DEF ToggleDone, NoAnswer
<1>10. ShownIsReal'
  BY <1>1, <1>7 DEF RadioInv, ShownIsReal
<1> QED BY <1>6, <1>8, <1>9, <1>10 DEF RadioInv

(* A toggle is carried out: the one that waits, so that the radio is as    *)
(* its answer says, or an abandoned one, before that one or instead of it. *)
LEMMA RadioWorks ==
  ASSUME TypeOK, RadioInv, NEW i \in DOMAIN calls, NEW a \in Answers,
         calls[i].req \in Requests, ExecCommand(calls[i].req, a), Worked(i, a),
         Overtaken(i), UNCHANGED <<shown, radioBusy>>
  PROVE  RadioInv'
<1> DEFINE r == calls[i].req.radio
           follows == {j \in DOMAIN calls : /\ calls[j].waiting /\ ~Carried(j)
                                            /\ calls[j].req.cmd = "radio.set"
                                            /\ calls[j].req.radio = r}
           late == Is(i, "radio.set") /\ ~calls[i].waiting /\ follows = {}
<1>1. /\ DOMAIN calls' = DOMAIN calls
      /\ \A j \in DOMAIN calls : /\ calls'[j].req = calls[j].req
                                 /\ calls'[j].waiting = calls[j].waiting
                                 /\ j # i => calls'[j].answer = calls[j].answer
      /\ calls'[i].answer = a /\ a # NoAnswer /\ ~Carried(i)
  BY DEF Worked
<1>2. \A j \in DOMAIN calls : Is(j, "radio.set") => calls[j].req.radio \in Radios
  BY CallsTyped, CallFields
<1>3. tried' = IF late THEN [tried EXCEPT ![r] = "overtaken"] ELSE tried
  BY DEF Overtaken, Is
<1>4. ~late => \/ ~Is(i, "radio.set") \/ calls[i].waiting
               \/ \E j \in DOMAIN calls :
                    Open(j, "radio.set") /\ ~Carried(j) /\ calls[j].req.radio = r
  BY DEF Open, Is
<1> HIDE DEF late, follows
<1>5. late => Is(i, "radio.set")
  BY DEF late
<1>6. /\ \A s \in Radios : tried'[s] = tried[s] \/ tried'[s] = "overtaken"
      /\ late => tried'[r] = "overtaken"
      /\ ~late => tried' = tried
  BY <1>2, <1>3, <1>5 DEF TypeOK
<1>7. \A s \in Radios : radio'[s] = radio[s] \/ (Is(i, "radio.set") /\ s = r)
  BY DeviceActs DEF Is
<1>8. RadioOne'
  BY <1>1 DEF RadioInv, RadioOne, Open, Is
<1>9. TogglePending'
  BY <1>1, <1>2, <1>6 DEF RadioInv, TogglePending, Open, Is
<1>10. ToggleDone'
  <2> SUFFICES ASSUME NEW j \in DOMAIN calls, Open(j, "radio.set"),
                      calls'[j].answer.type = "ok", tried'[calls[j].req.radio] = "pending"
               PROVE  radio'[calls[j].req.radio] = calls'[j].answer.enabled
    BY <1>1 DEF ToggleDone, Open, Is
  <2>1. calls[j].req.radio \in Radios /\ tried[calls[j].req.radio] = "pending"
    BY <1>2, <1>6 DEF Open
  <2>2. CASE j = i
    BY <1>1, <2>2, DeviceActs DEF Open, Is
  <2>3. CASE j # i
    <3>1. Carried(j) /\ radio[calls[j].req.radio] = calls[j].answer.enabled
      BY <1>1, <2>1, <2>3 DEF RadioInv, ToggleDone, Carried, NoAnswer
    <3>2. ~(Is(i, "radio.set") /\ calls[j].req.radio = r)
      <4> SUFFICES ASSUME Is(i, "radio.set"), calls[j].req.radio = r PROVE FALSE
        OBVIOUS
      <4>1. ~late
        BY <1>6
      <4>2. ~calls[i].waiting
        BY <2>3 DEF RadioInv, RadioOne, Open
      <4>3. PICK k \in DOMAIN calls : Open(k, "radio.set") /\ ~Carried(k)
        BY <1>4, <4>1, <4>2
      <4> QED BY <3>1, <4>3 DEF RadioInv, RadioOne
    <3> QED BY <1>1, <1>7, <2>1, <2>3, <3>1, <3>2
  <2> QED BY <2>2, <2>3
<1>11. ShownIsReal'
  <2> SUFFICES ASSUME NEW s \in Radios, tried'[s] = "ok"
               PROVE  shown[s] = IF radio'[s] THEN "on" ELSE "off"
    BY DEF ShownIsReal
  <2>1. tried[s] = "ok"
    BY <1>6
  <2>2. ~(Is(i, "radio.set") /\ s = r)
    <3> SUFFICES ASSUME Is(i, "radio.set"), s = r PROVE FALSE
      OBVIOUS
    <3>1. ~late
      BY <1>6
    <3>2. PICK k \in DOMAIN calls : Open(k, "radio.set") /\ calls[k].req.radio = r
      BY <1>4, <3>1 DEF Open
    <3> QED BY <2>1, <3>2 DEF RadioInv, TogglePending
  <2>3. radio'[s] = radio[s]
    BY <1>7, <2>2
  <2> QED BY <2>1, <2>3 DEF RadioInv, ShownIsReal
<1> QED BY <1>8, <1>9, <1>10, <1>11 DEF RadioInv

LEMMA RadioLeaves ==
  ASSUME RadioInv, NEW i, NEW from, Left(i, from), ~Open(i, "radio.set"),
         UNCHANGED <<connectivity, radio>>
  PROVE  RadioInv'
<1>1. UNCHANGED <<shown, radioBusy, tried, radio>>
  BY DEF connectivity
<1>2. \A k \in DOMAIN calls' : Open(k, "radio.set")' =>
        from[k] \in DOMAIN calls /\ from[k] # i /\ Open(from[k], "radio.set")
  BY DEF Left, Open, Is
<1>3. RadioOne'
  <2>1. radioBusy # NoRadio => \E k \in DOMAIN calls' : Open(k, "radio.set")'
    <3> SUFFICES ASSUME radioBusy # NoRadio
                 PROVE  \E k \in DOMAIN calls' : Open(k, "radio.set")'
      OBVIOUS
    <3>1. PICK m \in DOMAIN calls : Open(m, "radio.set")
      BY DEF RadioInv, RadioOne
    <3>2. PICK k \in DOMAIN calls' : from[k] = m
      BY <3>1 DEF Left
    <3>3. Open(k, "radio.set")'
      BY <3>1, <3>2 DEF Left, Open, Is
    <3> QED BY <3>3
  <2> QED BY <1>1, <1>2, <2>1 DEF RadioInv, RadioOne, Left
<1>4. TogglePending' /\ ToggleDone'
  BY <1>1, <1>2 DEF RadioInv, TogglePending, ToggleDone, Left
<1>5. ShownIsReal'
  BY <1>1 DEF RadioInv, ShownIsReal
<1> QED BY <1>3, <1>4, <1>5 DEF RadioInv

LEMMA RadioSettles ==
  ASSUME TypeOK, RadioInv, NEW i, NEW from, NEW a, Left(i, from),
         Open(i, "radio.set"), ToggleSettles(calls[i].req, a), UNCHANGED radio,
         (a = calls[i].answer /\ Carried(i)) \/ a = TimedOut
  PROVE  RadioInv'
<1> DEFINE q == calls[i].req
           r == q.radio
<1>1. i \in DOMAIN calls /\ q \in Requests /\ q.cmd = "radio.set" /\ r \in Radios
      /\ q.on \in BOOLEAN
  BY CallsTyped, CallFields, RequestFields DEF Left, Open, Is
<1>2. radioBusy' = NoRadio
  BY DEF ToggleSettles
<1>3. \A k \in DOMAIN calls' : ~Open(k, "radio.set")'
  BY <1>1 DEF RadioInv, RadioOne, Left, Open, Is
<1>4. RadioOne' /\ TogglePending' /\ ToggleDone'
  BY <1>2, <1>3 DEF RadioOne, TogglePending, ToggleDone
<1>5. tried[r] \in {"pending", "overtaken"}
  BY <1>1 DEF RadioInv, TogglePending
<1>6. CASE Throws(q, a)
  <2>1. tried' = [tried EXCEPT ![r] = IF @ = "overtaken" THEN @ ELSE "failed"]
        /\ shown' = shown
    BY <1>6 DEF ToggleSettles, Tried
  <2>2. \A s \in Radios : tried'[s] = "ok" => tried[s] = "ok"
    BY <2>1 DEF TypeOK
  <2>3. ShownIsReal'
    BY <2>1, <2>2 DEF RadioInv, ShownIsReal
  <2> QED BY <1>4, <2>3 DEF RadioInv
<1>7. CASE ~Throws(q, a)
  <2>1. a = calls[i].answer /\ a.type = "ok"
    <3>1. a # TimedOut /\ a = calls[i].answer /\ Carried(i)
      BY <1>7 DEF Throws, TimedOut
    <3>2. a \in Fitting(q)
      BY <1>1, <3>1, CallsTyped DEF CallsOK
    <3> QED BY <1>1, <1>7, <3>1, <3>2, FitFields DEF Throws, Unchecked, Err
  <2>2. tried[r] = "pending" => radio[r] = a.enabled
    BY <1>1, <2>1 DEF RadioInv, ToggleDone
  <2>3. /\ shown' = [shown EXCEPT ![r] = IF q.on THEN "on" ELSE "off"]
        /\ tried' = [tried EXCEPT ![r] = IF @ = "overtaken" THEN @ ELSE
                                         IF a.enabled = q.on THEN "ok" ELSE "disobeyed"]
    BY <1>7 DEF ToggleSettles, Tried
  <2>4. \A s \in Radios : s # r => tried'[s] = tried[s] /\ shown'[s] = shown[s]
    BY <2>3 DEF TypeOK
  <2>5. tried'[r] = "ok" => tried[r] = "pending" /\ a.enabled = q.on
    BY <1>1, <1>5, <2>3 DEF TypeOK
  <2>6. shown'[r] = IF q.on THEN "on" ELSE "off"
    BY <1>1, <2>3 DEF TypeOK
  <2>7. ShownIsReal'
    <3> SUFFICES ASSUME NEW s \in Radios, tried'[s] = "ok"
                 PROVE  shown'[s] = IF radio[s] THEN "on" ELSE "off"
      BY DEF ShownIsReal
    <3>1. CASE s # r
      BY <2>4, <3>1 DEF RadioInv, ShownIsReal
    <3>2. CASE s = r
      <4>1. tried[r] = "pending" /\ a.enabled = q.on
        BY <2>5, <3>2
      <4>2. radio[r] = q.on
        BY <2>2, <4>1, Zenon
      <4> QED BY <2>6, <3>2, <4>2, Zenon
    <3> QED BY <3>1, <3>2
  <2> QED BY <1>4, <2>7 DEF RadioInv
<1> QED BY <1>6, <1>7

-------------------------------------------------------------------------------
(* The cards with one button *)

SameBusy == \A b \in Buttons : button'[b].busy <=> button[b].busy

LEMMA ButtonGrows ==
  ASSUME CallsOK, CallsOK', ButtonInv, NEW q \in Requests, Grown(q),
         q.cmd \notin Buttons, SameBusy
  PROVE  ButtonInv'
<1>1. PICK n \in DOMAIN calls' :
        /\ DOMAIN calls' = DOMAIN calls \cup {n} /\ calls'[n].req = q
        /\ \A i \in DOMAIN calls : calls'[i] = calls[i]
  BY GrownFrom
<1>2. /\ \A i \in DOMAIN calls : calls'[i] = calls[i] /\ i \in DOMAIN calls'
      /\ \A b \in Buttons : \A i \in DOMAIN calls' : Is(i, b)' => i \in DOMAIN calls
  BY <1>1 DEF Is
<1> QED BY <1>2 DEF ButtonInv, SameBusy, Open, Is

LEMMA ButtonPresses ==
  ASSUME TypeOK, CallsOK', ButtonInv, NEW b \in Buttons, Press(b)
  PROVE  ButtonInv'
<1>1. /\ ~button[b].busy /\ button'[b].busy
      /\ \A c \in Buttons : c # b => button'[c] = button[c]
  BY DEF Press, TypeOK
<1>2. Plain(b) \in Requests /\ Plain(b).cmd = b /\ Grown(Plain(b))
  <2>1. Plain(b) \in Requests /\ Plain(b).cmd = b
    BY RequestsOK DEF Plain
  <2> QED BY <2>1, CallsTyped, CallGrows DEF Press
<1>3. PICK n \in DOMAIN calls' :
        /\ n \notin DOMAIN calls /\ DOMAIN calls' = DOMAIN calls \cup {n}
        /\ calls'[n].req.cmd = b /\ calls'[n].waiting
        /\ \A i \in DOMAIN calls : calls'[i] = calls[i]
  BY <1>2, CallsTyped, GrownFrom
<1>4. \A i \in DOMAIN calls : ~Open(i, b)
  BY <1>1 DEF ButtonInv
<1> SUFFICES ASSUME NEW c \in Buttons
             PROVE  /\ \A i \in DOMAIN calls' : Open(i, c)' => button'[c].busy
                    /\ \A i, j \in DOMAIN calls' : Open(i, c)' /\ Open(j, c)' => i = j
                    /\ button'[c].busy => \E i \in DOMAIN calls' : Open(i, c)'
  BY DEF ButtonInv
<1>5. CASE c = b
  BY <1>1, <1>3, <1>4, <1>5 DEF Open, Is
<1>6. CASE c # b
  BY <1>1, <1>3, <1>6 DEF ButtonInv, Open, Is
<1> QED BY <1>5, <1>6

LEMMA ButtonWorks ==
  ASSUME ButtonInv, NEW i, NEW a, Worked(i, a), SameBusy
  PROVE  ButtonInv'
BY DEF ButtonInv, SameBusy, Worked, Open, Is

LEMMA ButtonLeaves ==
  ASSUME ButtonInv, NEW i, NEW from, Left(i, from),
         \A b \in Buttons : ~Open(i, b), SameBusy
  PROVE  ButtonInv'
<1> SUFFICES ASSUME NEW c \in Buttons
             PROVE  /\ \A k \in DOMAIN calls' : Open(k, c)' => button'[c].busy
                    /\ \A k, l \in DOMAIN calls' : Open(k, c)' /\ Open(l, c)' => k = l
                    /\ button'[c].busy => \E k \in DOMAIN calls' : Open(k, c)'
  BY DEF ButtonInv
<1>1. \A k \in DOMAIN calls' : Open(k, c)' => from[k] \in DOMAIN calls /\ Open(from[k], c)
  BY DEF Left, Open, Is
<1>2. \A m \in DOMAIN calls : Open(m, c) =>
        \E k \in DOMAIN calls' : from[k] = m /\ Open(k, c)'
  BY DEF Left, Open, Is
<1> QED BY <1>1, <1>2 DEF ButtonInv, SameBusy, Left

(* The button of a promise that settles is free, and no other is disturbed. *)
LEMMA ButtonSettles ==
  ASSUME TypeOK, ButtonInv, NEW i, NEW from, NEW a, Left(i, from),
         calls[i].waiting, calls[i].req.cmd \in Buttons, PressSettles(calls[i].req, a)
  PROVE  ButtonInv'
<1> DEFINE b == calls[i].req.cmd
<1>1. /\ ~button'[b].busy /\ \A c \in Buttons : c # b => button'[c] = button[c]
  BY DEF PressSettles, BusyAfter, TypeOK
<1> SUFFICES ASSUME NEW c \in Buttons
             PROVE  /\ \A k \in DOMAIN calls' : Open(k, c)' => button'[c].busy
                    /\ \A k, l \in DOMAIN calls' : Open(k, c)' /\ Open(l, c)' => k = l
                    /\ button'[c].busy => \E k \in DOMAIN calls' : Open(k, c)'
  BY DEF ButtonInv
<1>2. \A k \in DOMAIN calls' : Open(k, c)' =>
        from[k] \in DOMAIN calls /\ from[k] # i /\ Open(from[k], c)
  BY DEF Left, Open, Is
<1>3. CASE c = b
  <2>1. \A m \in DOMAIN calls : Open(m, c) => m = i
    BY <1>3 DEF ButtonInv, Left, Open, Is
  <2> QED BY <1>1, <1>2, <1>3, <2>1
<1>4. CASE c # b
  <2>1. \A m \in DOMAIN calls : Open(m, c) =>
          \E k \in DOMAIN calls' : from[k] = m /\ Open(k, c)'
    BY <1>4 DEF Left, Open, Is
  <2> QED BY <1>1, <1>2, <1>4, <2>1 DEF ButtonInv, Left
<1> QED BY <1>3, <1>4

-------------------------------------------------------------------------------
(* The volume card *)

LEMMA AbandonedNone == NoneAbandoned <=> Abandoned("volume.set") = {}
BY DEF NoneAbandoned, Abandoned, Is

(* A witness of LevelFollows is one as long as its command stays. *)
LEMMA LevelStays ==
  ASSUME LevelFollows, UNCHANGED <<volume, timer, moved, volumes>>,
         \A i \in DOMAIN calls : ToCome(i) =>
           \E k \in DOMAIN calls' : calls'[k] = calls[i]
  PROVE  LevelFollows'
BY DEF LevelFollows, ToCome, Open, Is, Carried

LEMMA VolumeGrows ==
  ASSUME CallsOK, CallsOK', VolumeInv, NEW q \in Requests, Grown(q),
         UNCHANGED <<volume, timer, moved, volumes>>
  PROVE  VolumeInv'
<1>1. PICK n \in DOMAIN calls' :
        /\ DOMAIN calls' = DOMAIN calls \cup {n} /\ calls'[n].waiting
        /\ \A i \in DOMAIN calls : calls'[i] = calls[i]
  BY GrownFrom
<1>2. TimerShows'
  BY DEF VolumeInv, TimerShows
<1>3. NoneAbandoned => NoneAbandoned'
  BY <1>1 DEF NoneAbandoned, Is, Carried
<1>4. LevelFollows => LevelFollows'
  BY <1>1, LevelStays
<1> QED BY <1>2, <1>3, <1>4 DEF VolumeInv

(* The debounced level is sent: what the slider shows, for moved.stream. *)
LEMMA VolumeSubmits ==
  ASSUME TypeOK, CallsOK', VolumeInv, NEW q \in Requests, Grown(q),
         q = VolumeSet(timer.level, timer.stream), timer # NoTimer, timer' = NoTimer,
         UNCHANGED <<volume, moved, volumes>>
  PROVE  VolumeInv'
<1>1. PICK n \in DOMAIN calls' :
        /\ DOMAIN calls' = DOMAIN calls \cup {n}
        /\ calls'[n].req = q /\ calls'[n].answer = NoAnswer /\ calls'[n].waiting
        /\ \A i \in DOMAIN calls : calls'[i] = calls[i]
  BY CallsTyped, GrownFrom
<1>2. NoneAbandoned => NoneAbandoned'
  BY <1>1 DEF NoneAbandoned, Is, Carried
<1>3. q.cmd = "volume.set" /\ q.stream = moved.stream
  BY DEF VolumeSet, VolumeInv, TimerShows
<1>4. ToCome(n)'
  BY <1>1, <1>3 DEF ToCome, Open, Is, Carried
<1> QED BY <1>1, <1>2, <1>4 DEF VolumeInv, TimerShows, LevelFollows

(* The level changes, and waits to be sent. *)
LEMMA VolumeMoves ==
  ASSUME timer' = [level |-> volume'.level, stream |-> stream], timer' # NoTimer, Moved,
         NoneAbandoned => NoneAbandoned'
  PROVE  VolumeInv'
<1>1. moved'.stream = stream /\ (moved'.sure => NoneAbandoned)
  BY AbandonedNone DEF Moved
<1> QED BY <1>1 DEF VolumeInv, TimerShows, LevelFollows

LEMMA VolumeWorks ==
  ASSUME TypeOK, VolumeInv, NEW i \in DOMAIN calls, NEW a \in Answers,
         calls[i].req \in Requests, ExecCommand(calls[i].req, a), Worked(i, a),
         UNCHANGED <<volume, timer, moved>>
  PROVE  VolumeInv'
<1> DEFINE s == moved.stream
<1>1. /\ DOMAIN calls' = DOMAIN calls
      /\ \A j \in DOMAIN calls : /\ calls'[j].req = calls[j].req
                                 /\ calls'[j].waiting = calls[j].waiting
                                 /\ j # i => calls'[j].answer = calls[j].answer
      /\ calls'[i].answer = a /\ a # NoAnswer /\ ~Carried(i)
  BY DEF Worked
<1>2. TimerShows'
  BY DEF VolumeInv, TimerShows
<1>3. NoneAbandoned => NoneAbandoned'
  BY <1>1 DEF NoneAbandoned, Is, Carried
<1>4. ASSUME NoneAbandoned, LevelFollows, timer = NoTimer
      PROVE  \/ volumes'[s].level = volume.level
             \/ \E j \in DOMAIN calls : ToCome(j)'
  <2>1. \A j \in DOMAIN calls : j # i /\ ToCome(j) => ToCome(j)'
    BY <1>1 DEF ToCome, Open, Is, Carried
  <2>2. CASE Is(i, "volume.set") /\ calls[i].req.stream = s
    <3>1. Open(i, "volume.set")'
      BY <1>1, <1>4, <2>2 DEF NoneAbandoned, Open, Is
    <3>2. a \in Fitting(calls[i].req) /\ Carried(i)'
      BY <1>1, DeviceActs DEF Carried
    <3>3. CASE a.type = "ok" /\ a.volume.level = volume.level
      BY <2>2, <3>3, DeviceActs DEF Is
    <3>4. CASE a.type = "ok" /\ a.volume.level # volume.level
      BY <1>1, <3>1, <3>2, <3>4 DEF ToCome
    <3>5. CASE a.type # "ok"
      BY <1>1, <3>1, <3>2, <3>5, FitFields DEF ToCome, Err
    <3> QED BY <3>3, <3>4, <3>5
  <2>3. CASE ~(Is(i, "volume.set") /\ calls[i].req.stream = s)
    <3>1. volumes'[s] = volumes[s]
      <4>1. s \in Streams
        BY DEF TypeOK
      <4> QED BY <2>3, <4>1, DeviceActs DEF Is
    <3>2. ~ToCome(i)
      BY <1>1, <2>3 DEF ToCome, Open
    <3> QED BY <1>4, <2>1, <3>1, <3>2 DEF LevelFollows
  <2> QED BY <2>2, <2>3
<1> QED BY <1>1, <1>2, <1>3, <1>4 DEF VolumeInv, LevelFollows

LEMMA AbandonedLeaves ==
  ASSUME NoneAbandoned, NEW i, NEW from, Left(i, from),
         ~Open(i, "volume.set") \/ Carried(i)
  PROVE  NoneAbandoned'
<1> SUFFICES ASSUME NEW k \in DOMAIN calls', Is(k, "volume.set")', ~calls'[k].waiting
             PROVE  Carried(k)'
  BY DEF NoneAbandoned
<1>1. /\ from[k] \in DOMAIN calls /\ Is(from[k], "volume.set")
      /\ calls'[k].answer = calls[from[k]].answer
      /\ from[k] # i => ~calls[from[k]].waiting
  BY DEF Left, Is
<1>2. CASE from[k] = i
  BY <1>1, <1>2 DEF NoneAbandoned, Open, Carried
<1>3. CASE from[k] # i
  BY <1>1, <1>3 DEF NoneAbandoned, Carried
<1> QED BY <1>2, <1>3

LEMMA LevelLeaves ==
  ASSUME LevelFollows, NEW i, NEW from, Left(i, from), ~ToCome(i),
         volume'.level = volume.level, UNCHANGED <<timer, moved, volumes>>
  PROVE  LevelFollows'
<1>1. ASSUME NEW m \in DOMAIN calls, ToCome(m)
      PROVE  \E k \in DOMAIN calls' : ToCome(k)'
  <2>1. PICK k \in DOMAIN calls' : from[k] = m /\ m # i
    BY <1>1 DEF Left
  <2>2. ToCome(k)'
    BY <1>1, <2>1 DEF Left, ToCome, Open, Is, Carried
  <2> QED BY <2>2
<1> QED BY <1>1 DEF LevelFollows

LEMMA VolumeLeaves ==
  ASSUME VolumeInv, NEW i, NEW from, Left(i, from), ~Open(i, "volume.set"),
         UNCHANGED <<volume, timer, moved, volumes>>
  PROVE  VolumeInv'
<1>1. TimerShows'
  BY DEF VolumeInv, TimerShows
<1>2. NoneAbandoned => NoneAbandoned'
  BY AbandonedLeaves
<1>3. LevelFollows => LevelFollows'
  <2>1. ~ToCome(i)
    BY DEF ToCome
  <2> QED BY <2>1, LevelLeaves
<1> QED BY <1>1, <1>2, <1>3 DEF VolumeInv

LEMMA VolumeSettled ==
  ASSUME TypeOK, VolumeInv, NEW i, NEW from, NEW a, Left(i, from),
         Open(i, "volume.set"), VolumeSettles(calls[i].req, a), UNCHANGED volumes,
         (a = calls[i].answer /\ Carried(i)) \/ a = TimedOut
  PROVE  VolumeInv'
<1> DEFINE q == calls[i].req
<1>1. i \in DOMAIN calls /\ q \in Requests /\ q.cmd = "volume.set"
  BY CallsTyped, CallFields DEF Left, Open, Is
<1>2. CASE Throws(q, a)
  <2>1. ~moved'.sure /\ moved'.stream = moved.stream /\ UNCHANGED <<volume, timer>>
    BY <1>2 DEF VolumeSettles, TypeOK
  <2> QED BY <2>1 DEF VolumeInv, TimerShows
<1>3. CASE ~Throws(q, a)
  <2>1. a = calls[i].answer /\ Carried(i) /\ a.type = "ok" /\ a.volume \in VolumeStates
    <3>1. a # TimedOut /\ a = calls[i].answer /\ Carried(i)
      BY <1>3 DEF Throws, TimedOut
    <3>2. a \in Fitting(q)
      BY <1>1, <3>1, CallsTyped DEF CallsOK
    <3> QED BY <1>1, <1>3, <3>1, <3>2, FitFields DEF Throws, Unchecked, Err
  <2>2. volume' = a.volume /\ Restart(a.volume.level)
        /\ IF a.volume.level # volume.level THEN Moved ELSE UNCHANGED moved
    BY <1>3 DEF VolumeSettles
  <2>3. NoneAbandoned => NoneAbandoned'
    BY <2>1, AbandonedLeaves
  <2>4. CASE a.volume.level # volume.level
    <3>1. timer' = [level |-> volume'.level, stream |-> stream] /\ Moved
      BY <2>2, <2>4 DEF Restart
    <3>2. timer' # NoTimer
      BY <2>1, <2>2, <3>1 DEF NoTimer, Levels, VolumeStates
    <3> QED BY <2>3, <3>1, <3>2, VolumeMoves
  <2>5. CASE a.volume.level = volume.level
    <3>1. volume'.level = volume.level /\ UNCHANGED <<timer, moved>>
      BY <2>2, <2>5 DEF Restart
    <3>2. ~ToCome(i)
      BY <2>1, <2>5 DEF ToCome
    <3>3. LevelFollows => LevelFollows'
      BY <3>1, <3>2, LevelLeaves
    <3>4. TimerShows'
      BY <3>1 DEF VolumeInv, TimerShows
    <3> QED BY <2>3, <3>1, <3>3, <3>4 DEF VolumeInv
  <2> QED BY <2>4, <2>5
<1> QED BY <1>2, <1>3

-------------------------------------------------------------------------------
(* Types, card by card *)

DeviceOK == /\ radio \in [Radios -> BOOLEAN] /\ volumes \in [Streams -> VolumeStates]
            /\ Stub => \A s \in Streams : volumes[s] = VolumeState(volumes[s].level)
RadioOK  == /\ shown \in [Radios -> {"unknown", "on", "off"}]
            /\ radioBusy \in Radios \cup {NoRadio}
            /\ tried \in [Radios ->
                 {"never", "pending", "ok", "disobeyed", "failed", "overtaken"}]
SliderOK == /\ stream \in Streams /\ volume \in VolumeStates
            /\ timer \in [level : Levels, stream : Streams] \cup {NoTimer}
            /\ moved \in [stream : Streams, sure : BOOLEAN]
            /\ chosen \in [level : Levels, stream : Streams]
VolumeOK == SliderOK /\ volumeBusy \in BOOLEAN
ButtonOK == button \in [Buttons -> [busy : BOOLEAN, msg : {"none", "done", "failed"}]]
FilesOK  == listing \in Paths \cup {"none"} /\ filesBusy \in BOOLEAN
MovesOK  == moves \in 0..MaxMoves

LEMMA TypeParts ==
  /\ TypeOK <=> DeviceOK /\ CallsOK /\ RadioOK /\ VolumeOK /\ ButtonOK /\ FilesOK /\ MovesOK
  /\ TypeOK' <=> DeviceOK' /\ CallsOK' /\ RadioOK' /\ VolumeOK' /\ ButtonOK' /\ FilesOK'
                   /\ MovesOK'
<1>1. TypeOK <=> DeviceOK /\ CallsOK /\ RadioOK /\ VolumeOK /\ ButtonOK /\ FilesOK /\ MovesOK
  BY Zenon DEF TypeOK, DeviceOK, CallsOK, Entries, RadioOK, SliderOK, VolumeOK, ButtonOK,
               FilesOK, MovesOK
<1>2. TypeOK' <=> DeviceOK' /\ CallsOK' /\ RadioOK' /\ VolumeOK' /\ ButtonOK' /\ FilesOK'
                   /\ MovesOK'
  BY Zenon DEF TypeOK, DeviceOK, CallsOK, Entries, RadioOK, SliderOK, VolumeOK, ButtonOK,
               FilesOK, MovesOK
<1> QED BY <1>1, <1>2

LEMMA TypesUnchanged ==
  ASSUME TypeOK
  PROVE  /\ UNCHANGED device => DeviceOK'
         /\ UNCHANGED calls => CallsOK'
         /\ UNCHANGED connectivity => RadioOK'
         /\ UNCHANGED volumeCard => VolumeOK'
         /\ UNCHANGED button => ButtonOK'
         /\ UNCHANGED filesCard => FilesOK'
         /\ UNCHANGED moves => MovesOK'
<1> USE TypeParts
<1>1. UNCHANGED device => DeviceOK'
  BY DEF device, DeviceOK
<1>2. UNCHANGED calls => CallsOK'
  BY DEF CallsOK, Carried
<1>3. UNCHANGED connectivity => RadioOK'
  BY DEF connectivity, RadioOK
<1>4. UNCHANGED volumeCard => VolumeOK'
  <2>1. UNCHANGED volumeCard => SliderOK' /\ volumeBusy' = volumeBusy
    BY DEF volumeCard, VolumeOK, SliderOK
  <2>2. UNCHANGED volumeCard => volumeBusy' \in BOOLEAN
    BY Zenon DEF volumeCard, VolumeOK
  <2> QED BY <2>1, <2>2 DEF VolumeOK
<1>5. UNCHANGED button => ButtonOK'
  BY DEF ButtonOK
<1>6. UNCHANGED filesCard => FilesOK'
  BY Zenon DEF filesCard, FilesOK
<1>7. UNCHANGED moves => MovesOK'
  BY DEF MovesOK
<1> QED BY <1>1, <1>2, <1>3, <1>4, <1>5, <1>6, <1>7

LEMMA UserCounted == TypeOK /\ UserActs => MovesOK'
BY PanelAssumption DEF TypeOK, UserActs, MovesOK

LEMMA MovedTyped == TypeOK /\ Moved => moved' \in [stream : Streams, sure : BOOLEAN]
<1>1. (Abandoned("volume.set") = {}) \in BOOLEAN
  OBVIOUS
<1> QED BY <1>1 DEF TypeOK, Moved

(* The settling of a promise leaves a card with values of its kinds. *)
LEMMA SettlesTyped ==
  ASSUME TypeOK, NEW i \in DOMAIN calls, NEW a, Settles(i, a),
         (a = calls[i].answer /\ Carried(i)) \/ a = TimedOut
  PROVE  RadioOK' /\ VolumeOK' /\ ButtonOK' /\ FilesOK'
<1> DEFINE q == calls[i].req
<1>1. q \in Requests /\ CallsOK
  BY CallsTyped, CallFields
<1>2. ASSUME ~Throws(q, a), q.cmd \in {"radio.set", "volume.set", "file.list"}
      PROVE  a \in Fitting(q) /\ a.type = "ok"
  <2>1. a # TimedOut
    BY <1>2 DEF Throws, TimedOut
  <2>2. a \in Fitting(q)
    BY <1>1, <2>1 DEF CallsOK
  <2> QED BY <1>1, <1>2, <2>2, FitFields DEF Throws, Unchecked, Err
<1>3. RadioOK'
  <2>1. CASE Is(i, "radio.set")
    <3>1. ToggleSettles(q, a) /\ q.radio \in Radios
      BY <1>1, <2>1, SettlesCards, RequestFields DEF Is
    <3> QED BY <3>1 DEF ToggleSettles, Tried, TypeOK, RadioOK
  <2>2. CASE ~Is(i, "radio.set")
    BY <1>1, <2>2, SettlesCards, TypesUnchanged
  <2> QED BY <2>1, <2>2
<1>4. VolumeOK'
  <2>1. volumeBusy' \in BOOLEAN
    <3>1. volumeBusy' = volumeBusy \/ volumeBusy' = FALSE
      BY <1>1, SettlesCards
    <3> QED BY <3>1, Zenon DEF TypeOK
  <2>2. SliderOK'
    <3>1. CASE Is(i, "volume.set")
      <4>1. VolumeSettles(q, a) /\ UNCHANGED <<stream, chosen>>
        BY <1>1, <3>1, SettlesCards
      <4>2. CASE Throws(q, a)
        BY <4>1, <4>2 DEF VolumeSettles, TypeOK, SliderOK
      <4>3. CASE ~Throws(q, a)
        <5>1. a.volume \in VolumeStates
          BY <1>1, <1>2, <3>1, <4>3, FitFields DEF Is
        <5>2. timer' \in [level : Levels, stream : Streams] \cup {NoTimer}
          BY <4>1, <4>3, <5>1 DEF VolumeSettles, Restart, TypeOK, VolumeStates
        <5>3. moved' \in [stream : Streams, sure : BOOLEAN]
          <6>1. Moved \/ UNCHANGED moved
            BY <4>1, <4>3 DEF VolumeSettles
          <6> QED BY <6>1, MovedTyped DEF TypeOK
        <5> QED BY <4>1, <4>3, <5>1, <5>2, <5>3 DEF VolumeSettles, TypeOK, SliderOK
      <4> QED BY <4>2, <4>3
    <3>2. CASE ~Is(i, "volume.set")
      BY <1>1, <3>2, SettlesCards DEF TypeOK, SliderOK
    <3> QED BY <3>1, <3>2
  <2> QED BY <2>1, <2>2 DEF VolumeOK
<1>5. ButtonOK'
  <2>1. CASE q.cmd \in Buttons
    <3>1. PressSettles(q, a)
      BY <1>1, <2>1, SettlesCards
    <3> QED BY <2>1, <3>1 DEF PressSettles, BusyAfter, TypeOK, ButtonOK
  <2>2. CASE q.cmd \notin Buttons
    BY <1>1, <2>2, SettlesCards, TypesUnchanged
  <2> QED BY <2>1, <2>2
<1>6. FilesOK'
  <2>1. CASE Is(i, "file.list")
    <3>1. ListSettles(q, a) /\ q.path \in Paths
      BY <1>1, <2>1, SettlesCards, RequestFields DEF Is
    <3>2. ~Throws(q, a) => a.path \in Paths
      BY <1>1, <1>2, <2>1, <3>1, FitFields DEF Is
    <3>3. filesBusy' \in BOOLEAN
      <4>1. filesBusy' = FALSE
        BY <3>1 DEF ListSettles
      <4> QED BY <4>1, Zenon
    <3> QED BY <3>1, <3>2, <3>3 DEF ListSettles, TypeOK, FilesOK
  <2>2. CASE ~Is(i, "file.list")
    BY <1>1, <2>2, SettlesCards, TypesUnchanged
  <2> QED BY <2>1, <2>2
<1> QED BY <1>3, <1>4, <1>5, <1>6

-------------------------------------------------------------------------------
(* The steps *)

LEMMA PanelInit == Init => PanelInv
<1> SUFFICES ASSUME Init PROVE PanelInv
  OBVIOUS
<1> USE PanelAssumption
<1>1. calls = <<Sent(FileList(Root))>> /\ Sent(FileList(Root)) \in Entries
  BY RequestsOK DEF Init, Sent, Entries, Answers
<1>2. /\ calls \in Seq(Entries) /\ Len(calls) = 1 /\ DOMAIN calls = {1}
      /\ Is(1, "file.list") /\ ~Carried(1)
  BY <1>1 DEF Is, Sent, FileList, Carried
<1>3. TypeOK
  <2>1. DeviceOK
    <3>1. PICK on \in BOOLEAN : radio = [r \in Radios |-> on]
      BY DEF Init
    <3>2. PICK v \in VolumeStates : /\ Stub => v = VolumeState(v.level)
                                    /\ volumes = [s \in Streams |-> v]
      BY DEF Init
    <3> QED BY <3>1, <3>2 DEF DeviceOK
  <2>2. RadioOK /\ ButtonOK /\ MovesOK
    BY DEF Init, RadioOK, ButtonOK, MovesOK
  <2>3. SliderOK
    BY DEF Init, SliderOK, VolumeStates
  <2>4. volumeBusy \in BOOLEAN /\ filesBusy \in BOOLEAN
    BY Zenon DEF Init
  <2>5. FilesOK
    BY <2>4 DEF Init, FilesOK
  <2>6. CallsOK
    BY <1>2 DEF CallsOK
  <2> QED BY <2>1, <2>2, <2>3, <2>4, <2>5, <2>6, TypeParts DEF VolumeOK
<1>4. RadioInv
  BY <1>2 DEF Init, RadioInv, RadioOne, TogglePending, ToggleDone, ShownIsReal, Open, Is
<1>5. ButtonInv
  BY <1>2 DEF Init, ButtonInv, Open, Is
<1>6. VolumeInv
  <2>1. timer # NoTimer
    BY DEF Init, NoTimer, Levels
  <2> QED BY <1>2, <2>1 DEF Init, VolumeInv, TimerShows, NoneAbandoned, LevelFollows, Is
<1> QED BY <1>3, <1>4, <1>5, <1>6 DEF PanelInv

(* The user, or the timer of the slider, sends a command. *)
LEMMA UserCalls ==
  ASSUME PanelInv,
         \/ \E r \in Radios : Toggle(r)
         \/ SubmitDebounced \/ Apply \/ Ring
         \/ \E b \in Buttons : Press(b)
         \/ \E path \in Paths : List(path)
  PROVE  PanelInv'
<1> USE PanelAssumption
<1>1. CallsOK /\ TypeOK /\ RadioInv /\ ButtonInv /\ VolumeInv
  BY CallsTyped DEF PanelInv
<1>2. ASSUME NEW r \in Radios, Toggle(r) PROVE PanelInv'
  <2>1. (shown[r] # "on") \in BOOLEAN
    OBVIOUS
  <2> DEFINE q == RadioSet(r, shown[r] # "on")
  <2>2. q \in Requests
    BY <2>1, RequestsOK, Zenon
  <2>3. q.cmd = "radio.set"
    BY DEF RadioSet
  <2>4. Call(q)
    BY <1>2 DEF Toggle
  <2> HIDE DEF q
  <2>5. Grown(q) /\ CallsOK'
    BY <1>1, <2>2, <2>4, CallGrows
  <2>6. UNCHANGED <<device, shown, volumeCard, button, filesCard>> /\ UserActs
        /\ radioBusy' = r /\ tried' = [tried EXCEPT ![r] = "pending"]
    BY <1>2 DEF Toggle
  <2>7. RadioOK'
    BY <1>1, <2>6 DEF TypeOK, RadioOK
  <2>8. TypeOK'
    BY <1>1, <2>5, <2>6, <2>7, TypeParts, TypesUnchanged, UserCounted
  <2>9. RadioInv'
    BY <1>1, <1>2, <2>5, RadioToggles
  <2>10. ButtonInv'
    BY <1>1, <2>2, <2>3, <2>5, <2>6, ButtonGrows DEF SameBusy
  <2>11. VolumeInv'
    BY <1>1, <2>2, <2>5, <2>6, VolumeGrows DEF volumeCard, device
  <2> QED BY <2>8, <2>9, <2>10, <2>11 DEF PanelInv
<1>3. ASSUME NEW l \in Levels, NEW s \in Streams, Submit(l, s), VolumeOK', MovesOK',
             Grown(VolumeSet(l, s)) /\ CallsOK' => VolumeInv'
      PROVE  PanelInv'
  <2> DEFINE q == VolumeSet(l, s)
  <2>1. q \in Requests /\ q.cmd = "volume.set"
    BY RequestsOK DEF VolumeSet
  <2>2. Call(q) /\ UNCHANGED <<device, connectivity, button, filesCard>>
    BY <1>3 DEF Submit
  <2>3. Grown(q) /\ CallsOK'
    BY <1>1, <2>1, <2>2, CallGrows
  <2>4. VolumeInv'
    BY <1>3, <2>3
  <2> HIDE DEF q
  <2>5. TypeOK'
    BY <1>1, <1>3, <2>2, <2>3, TypeParts, TypesUnchanged
  <2>6. RadioInv'
    BY <1>1, <2>1, <2>2, <2>3, RadioGrows DEF device
  <2>7. ButtonInv'
    BY <1>1, <2>1, <2>2, <2>3, ButtonGrows DEF SameBusy
  <2> QED BY <2>4, <2>5, <2>6, <2>7 DEF PanelInv
<1>4. ASSUME SubmitDebounced PROVE PanelInv'
  <2>1. timer.level \in Levels /\ timer.stream \in Streams
    BY <1>1, <1>4 DEF SubmitDebounced, TypeOK
  <2>2. /\ timer # NoTimer /\ timer' = NoTimer /\ UNCHANGED <<chosen, moves>>
        /\ Submit(timer.level, timer.stream)
    BY <1>4 DEF SubmitDebounced
  <2>3. UNCHANGED <<device, stream, volume, moved>> /\ volumeBusy' = TRUE
    BY <2>2 DEF Submit
  <2>4. SliderOK'
    BY <1>1, <2>2, <2>3 DEF TypeOK, SliderOK
  <2>5. volumeBusy' \in BOOLEAN
    BY <2>3, Zenon
  <2>6. VolumeSet(timer.level, timer.stream) \in Requests
    BY <2>1, RequestsOK
  <2>7. ASSUME Grown(VolumeSet(timer.level, timer.stream)), CallsOK' PROVE VolumeInv'
    BY <1>1, <2>2, <2>3, <2>6, <2>7, VolumeSubmits DEF device
  <2> QED BY <1>1, <1>3, <2>1, <2>2, <2>4, <2>5, <2>7, TypesUnchanged DEF VolumeOK
<1>5. ASSUME Apply PROVE PanelInv'
  <2>1. volume.level \in Levels /\ stream \in Streams
    BY <1>1 DEF TypeOK, VolumeStates
  <2>2. /\ Submit(volume.level, stream) /\ UserActs /\ timer' = timer
        /\ chosen' = [level |-> volume.level, stream |-> stream]
    BY <1>5 DEF Apply
  <2>3. UNCHANGED <<device, stream, volume, moved>> /\ volumeBusy' = TRUE
    BY <2>2 DEF Submit
  <2>4. SliderOK'
    BY <1>1, <2>1, <2>2, <2>3 DEF TypeOK, SliderOK
  <2>5. volumeBusy' \in BOOLEAN
    BY <2>3, Zenon
  <2>6. VolumeSet(volume.level, stream) \in Requests
    BY <2>1, RequestsOK
  <2>7. ASSUME Grown(VolumeSet(volume.level, stream)), CallsOK' PROVE VolumeInv'
    BY <1>1, <2>2, <2>3, <2>6, <2>7, VolumeGrows DEF device
  <2> QED BY <1>1, <1>3, <2>1, <2>2, <2>4, <2>5, <2>7, UserCounted DEF VolumeOK
<1>6. ASSUME NEW q \in Requests, Call(q), q.cmd \in {"device.ring", "file.list"} \cup Buttons,
             UserActs, UNCHANGED <<device, connectivity, volume, timer, moved>>,
             VolumeOK', ButtonOK', FilesOK', Grown(q) /\ CallsOK' => ButtonInv'
      PROVE  PanelInv'
  <2>1. Grown(q) /\ CallsOK'
    BY <1>1, <1>6, CallGrows
  <2>2. TypeOK'
    BY <1>1, <1>6, <2>1, TypeParts, TypesUnchanged, UserCounted
  <2>3. RadioInv'
    BY <1>1, <1>6, <2>1, RadioGrows DEF device
  <2>4. VolumeInv'
    BY <1>1, <1>6, <2>1, VolumeGrows DEF device
  <2> QED BY <1>6, <2>1, <2>2, <2>3, <2>4 DEF PanelInv
<1>7. ASSUME Ring PROVE PanelInv'
  <2> DEFINE q == Plain("device.ring")
  <2>1. q \in Requests /\ q.cmd = "device.ring"
    BY RequestsOK DEF Plain
  <2>2. /\ Call(q) /\ UserActs /\ volumeBusy' = TRUE
        /\ UNCHANGED <<device, connectivity, stream, volume, timer, moved, chosen,
                       button, filesCard>>
    BY <1>7 DEF Ring
  <2> HIDE DEF q
  <2>3. volumeBusy' \in BOOLEAN
    BY <2>2, Zenon
  <2>4. VolumeOK' /\ ButtonOK' /\ FilesOK'
    BY <1>1, <2>2, <2>3, TypesUnchanged DEF TypeOK, VolumeOK, SliderOK
  <2>5. Grown(q) /\ CallsOK' => ButtonInv'
    BY <1>1, <2>1, <2>2, ButtonGrows DEF SameBusy
  <2> QED BY <1>6, <2>1, <2>2, <2>4, <2>5
<1>8. ASSUME NEW b \in Buttons, Press(b) PROVE PanelInv'
  <2> DEFINE q == Plain(b)
  <2>1. q \in Requests /\ q.cmd = b
    BY RequestsOK DEF Plain
  <2>2. Call(q) /\ UserActs /\ UNCHANGED <<device, connectivity, volumeCard, filesCard>>
    BY <1>8 DEF Press
  <2> HIDE DEF q
  <2>3. CallsOK' => ButtonInv'
    BY <1>1, <1>8, ButtonPresses
  <2>4. ButtonOK'
    <3>1. [busy |-> TRUE,
           msg  |-> IF b # "device.lock" /\ button[b].msg = "failed"
                    THEN "none" ELSE button[b].msg]
            \in [busy : BOOLEAN, msg : {"none", "done", "failed"}]
      BY <1>1 DEF TypeOK
    <3> QED BY <1>1, <1>8, <3>1 DEF Press, TypeOK, ButtonOK
  <2>5. VolumeOK' /\ FilesOK'
    BY <1>1, <2>2, TypesUnchanged
  <2> QED BY <1>6, <2>1, <2>2, <2>3, <2>4, <2>5 DEF volumeCard
<1>9. ASSUME NEW path \in Paths, List(path) PROVE PanelInv'
  <2> DEFINE q == FileList(path)
  <2>1. q \in Requests /\ q.cmd = "file.list"
    BY RequestsOK DEF FileList
  <2>2. /\ Call(q) /\ UserActs /\ filesBusy' = TRUE
        /\ UNCHANGED <<device, connectivity, volumeCard, button, listing>>
    BY <1>9 DEF List
  <2> HIDE DEF q
  <2>3. filesBusy' \in BOOLEAN
    BY <2>2, Zenon
  <2>4. FilesOK' /\ VolumeOK' /\ ButtonOK'
    BY <1>1, <2>2, <2>3, TypesUnchanged DEF TypeOK, FilesOK
  <2>5. Grown(q) /\ CallsOK' => ButtonInv'
    BY <1>1, <2>1, <2>2, ButtonGrows DEF SameBusy
  <2> QED BY <1>6, <2>1, <2>2, <2>4, <2>5 DEF volumeCard
<1> QED BY <1>2, <1>4, <1>5, <1>7, <1>8, <1>9

(* The user moves the slider or selects a stream; a message disappears. *)
LEMMA QuietStep ==
  ASSUME PanelInv,
         \/ \E l \in Levels : MoveSlider(l)
         \/ \E s \in Streams : SelectStream(s)
         \/ \E b \in Buttons : Fade(b)
  PROVE  PanelInv'
<1> USE PanelAssumption
<1>1. CallsOK /\ TypeOK /\ RadioInv /\ ButtonInv /\ VolumeInv
  BY CallsTyped DEF PanelInv
<1>2. UNCHANGED <<device, calls, connectivity, filesCard>>
  BY DEF MoveSlider, SelectStream, Fade
<1>3. RadioInv'
  BY <1>1, <1>2 DEF device, connectivity, RadioInv, RadioOne, TogglePending, ToggleDone,
                    ShownIsReal, Open, Is
<1>4. SameBusy => ButtonInv'
  BY <1>1, <1>2 DEF SameBusy, ButtonInv, Open, Is
<1>5. NoneAbandoned => NoneAbandoned'
  BY <1>2 DEF NoneAbandoned, Is, Carried
<1>6. UNCHANGED <<volume, timer, moved>> => VolumeInv'
  BY <1>1, <1>2, <1>5 DEF device, VolumeInv, TimerShows, LevelFollows, ToCome, Open, Is, Carried
<1>7. VolumeOK' /\ ButtonOK' /\ MovesOK' => TypeOK'
  BY <1>1, <1>2, TypeParts, TypesUnchanged
<1>8. ASSUME NEW l \in Levels, MoveSlider(l) PROVE PanelInv'
  <2>1. /\ UserActs /\ UNCHANGED <<stream, volumeBusy, button>> /\ Moved
        /\ volume' = [volume EXCEPT !.level = l]
        /\ timer' = [level |-> l, stream |-> stream]
        /\ chosen' = [level |-> l, stream |-> stream]
    BY <1>8 DEF MoveSlider, Restart
  <2>2. timer' # NoTimer
    BY <2>1 DEF NoTimer, Levels
  <2>3. volume' \in VolumeStates /\ volume'.level = l
    BY <1>1, <2>1 DEF TypeOK, VolumeStates
  <2>4. SliderOK'
    BY <1>1, <2>1, <2>3, MovedTyped DEF TypeOK, SliderOK
  <2>5. volumeBusy' \in BOOLEAN
    BY <1>1, <2>1, Zenon DEF TypeOK
  <2>6. TypeOK'
    BY <1>1, <1>7, <2>1, <2>4, <2>5, UserCounted, TypesUnchanged DEF VolumeOK
  <2>7. VolumeInv'
    BY <1>5, <2>1, <2>2, <2>3, VolumeMoves
  <2>8. SameBusy
    BY <2>1 DEF SameBusy
  <2> QED BY <1>3, <1>4, <2>6, <2>7, <2>8 DEF PanelInv
<1>9. ASSUME NEW s \in Streams, SelectStream(s) PROVE PanelInv'
  <2>1. /\ UserActs /\ stream' = s
        /\ UNCHANGED <<volume, timer, volumeBusy, moved, chosen, button>>
    BY <1>9 DEF SelectStream
  <2>2. SliderOK'
    BY <1>1, <2>1 DEF TypeOK, SliderOK
  <2>3. volumeBusy' \in BOOLEAN
    BY <1>1, <2>1, Zenon DEF TypeOK
  <2>4. TypeOK'
    BY <1>1, <1>7, <2>1, <2>2, <2>3, UserCounted, TypesUnchanged DEF VolumeOK
  <2>5. SameBusy
    BY <2>1 DEF SameBusy
  <2> QED BY <1>3, <1>4, <1>6, <2>1, <2>4, <2>5 DEF PanelInv
<1>10. ASSUME NEW b \in Buttons, Fade(b) PROVE PanelInv'
  <2>1. button' = [button EXCEPT ![b].msg = "none"] /\ UNCHANGED <<volumeCard, moves>>
    BY <1>10 DEF Fade
  <2>2. ButtonOK' /\ SameBusy
    BY <1>1, <2>1 DEF TypeOK, ButtonOK, SameBusy
  <2>3. TypeOK'
    BY <1>1, <1>7, <2>1, <2>2, TypesUnchanged
  <2> QED BY <1>3, <1>4, <1>6, <2>1, <2>2, <2>3 DEF PanelInv, volumeCard
<1> QED BY <1>8, <1>9, <1>10

LEMMA DeviceWorks ==
  ASSUME PanelInv, DispatchCommand
  PROVE  PanelInv'
<1>1. CallsOK /\ TypeOK /\ RadioInv /\ ButtonInv /\ VolumeInv
  BY CallsTyped DEF PanelInv
<1>2. PICK i \in DOMAIN calls, a \in Answers :
        /\ calls[i].req \in Requests /\ ExecCommand(calls[i].req, a)
        /\ Worked(i, a) /\ CallsOK' /\ Overtaken(i)
        /\ UNCHANGED <<shown, radioBusy, volumeCard, button, filesCard, moves>>
  BY <1>1, DispatchStep
<1>3. DeviceOK'
  BY <1>1, <1>2, DeviceActs DEF DeviceOK
<1>4. RadioOK'
  <2>1. \/ tried' = tried
        \/ tried' = [tried EXCEPT ![calls[i].req.radio] = "overtaken"]
    BY <1>2 DEF Overtaken
  <2> QED BY <1>1, <1>2, <2>1 DEF TypeOK, RadioOK
<1>5. TypeOK'
  BY <1>1, <1>2, <1>3, <1>4, TypeParts, TypesUnchanged
<1>6. RadioInv'
  BY <1>1, <1>2, RadioWorks
<1>7. ButtonInv'
  BY <1>1, <1>2, ButtonWorks DEF SameBusy
<1>8. VolumeInv'
  BY <1>1, <1>2, VolumeWorks DEF volumeCard
<1> QED BY <1>5, <1>6, <1>7, <1>8 DEF PanelInv

(* An answer comes, or its promise has waited for long enough. *)
LEMMA PromiseSettles ==
  ASSUME PanelInv, NEW i, NEW from, NEW a, Leaves(i, from, a)
  PROVE  PanelInv'
<1>1. CallsOK /\ TypeOK /\ RadioInv /\ ButtonInv /\ VolumeInv
  BY CallsTyped DEF PanelInv
<1>2. /\ i \in DOMAIN calls /\ Left(i, from) /\ CallsOK' /\ UNCHANGED <<device, moves>>
      /\ (a = calls[i].answer /\ Carried(i)) \/ a = TimedOut
      /\ IF calls[i].waiting
         THEN Settles(i, a)
         ELSE UNCHANGED <<connectivity, volumeCard, button, filesCard>>
  BY DEF Leaves, Left
<1>3. UNCHANGED <<radio, volumes>>
  BY <1>2 DEF device
<1>4. CASE ~calls[i].waiting
  <2>1. TypeOK'
    BY <1>1, <1>2, <1>4, TypeParts, TypesUnchanged
  <2>2. RadioInv'
    BY <1>1, <1>2, <1>3, <1>4, RadioLeaves DEF Open
  <2>3. ButtonInv'
    BY <1>1, <1>2, <1>4, ButtonLeaves DEF SameBusy, Open
  <2>4. VolumeInv'
    BY <1>1, <1>2, <1>3, <1>4, VolumeLeaves DEF volumeCard, Open
  <2> QED BY <2>1, <2>2, <2>3, <2>4 DEF PanelInv
<1>5. CASE calls[i].waiting
  <2>1. Settles(i, a)
    BY <1>2, <1>5
  <2>2. TypeOK'
    <3>1. RadioOK' /\ VolumeOK' /\ ButtonOK' /\ FilesOK'
      BY <1>1, <1>2, <2>1, SettlesTyped
    <3> QED BY <1>1, <1>2, <3>1, TypeParts, TypesUnchanged
  <2>3. RadioInv'
    <3>1. CASE Is(i, "radio.set")
      <4>1. ToggleSettles(calls[i].req, a)
        BY <1>2, <2>1, <3>1, SettlesCards
      <4> QED BY <1>1, <1>2, <1>3, <1>5, <3>1, <4>1, RadioSettles DEF Open
    <3>2. CASE ~Is(i, "radio.set")
      <4>1. UNCHANGED connectivity
        BY <1>2, <2>1, <3>2, SettlesCards
      <4> QED BY <1>1, <1>2, <1>3, <3>2, <4>1, RadioLeaves DEF Open
    <3> QED BY <3>1, <3>2
  <2>4. ButtonInv'
    <3>1. CASE calls[i].req.cmd \in Buttons
      <4>1. PressSettles(calls[i].req, a)
        BY <1>2, <2>1, <3>1, SettlesCards
      <4> QED BY <1>1, <1>2, <1>5, <3>1, <4>1, ButtonSettles
    <3>2. CASE calls[i].req.cmd \notin Buttons
      <4>1. UNCHANGED button /\ \A b \in Buttons : ~Open(i, b)
        BY <1>2, <2>1, <3>2, SettlesCards DEF Open, Is
      <4> QED BY <1>1, <1>2, <4>1, ButtonLeaves DEF SameBusy
    <3> QED BY <3>1, <3>2
  <2>5. VolumeInv'
    <3>1. CASE Is(i, "volume.set")
      <4>1. VolumeSettles(calls[i].req, a)
        BY <1>2, <2>1, <3>1, SettlesCards
      <4> QED BY <1>1, <1>2, <1>3, <1>5, <3>1, <4>1, VolumeSettled DEF Open
    <3>2. CASE ~Is(i, "volume.set")
      <4>1. UNCHANGED <<volume, timer, moved>>
        BY <1>2, <2>1, <3>2, SettlesCards
      <4> QED BY <1>1, <1>2, <1>3, <3>2, <4>1, VolumeLeaves DEF Open
    <3> QED BY <3>1, <3>2
  <2> QED BY <2>2, <2>3, <2>4, <2>5 DEF PanelInv
<1> QED BY <1>4, <1>5

LEMMA PanelKept == PanelInv /\ [Next]_vars => PanelInv'
<1> SUFFICES ASSUME PanelInv, [Next]_vars PROVE PanelInv'
  OBVIOUS
<1>1. CASE UNCHANGED vars
  <2>1. UNCHANGED <<device, calls, connectivity, volumeCard, button, filesCard, moves>>
    BY <1>1 DEF vars
  <2>2. TypeOK'
    BY <2>1, TypeParts, TypesUnchanged DEF PanelInv
  <2>3. ButtonInv'
    BY <2>1 DEF PanelInv, ButtonInv, Open, Is
  <2>4. RadioInv'
    BY <2>1 DEF PanelInv, device, connectivity, RadioInv, RadioOne, TogglePending,
                ToggleDone, ShownIsReal, Open, Is
  <2>5. VolumeInv'
    BY <2>1 DEF PanelInv, device, volumeCard, VolumeInv, TimerShows, NoneAbandoned,
                LevelFollows, ToCome, Open, Is, Carried
  <2> QED BY <2>2, <2>3, <2>4, <2>5 DEF PanelInv
<1>2. CASE Answer
  BY <1>2, CallsTyped, AnswerStep, PromiseSettles DEF PanelInv
<1>3. CASE Timeout
  BY <1>3, CallsTyped, TimeoutStep, PromiseSettles DEF PanelInv
<1> QED BY <1>1, <1>2, <1>3, UserCalls, QuietStep, DeviceWorks DEF Next, User

LEMMA PanelInvariant == Spec => []PanelInv
BY PanelInit, PanelKept, PTL DEF Spec

-------------------------------------------------------------------------------
(* Cards, commands and platform hold values of their kinds, and a command  *)
(* that was carried out has an answer of its own kind, however many are    *)
(* under way, in whatever order they are carried out, and however late.    *)
THEOREM PanelTypeCorrect == Spec => []TypeOK
<1>1. PanelInv => TypeOK
  BY DEF PanelInv
<1> QED BY <1>1, PanelInvariant, PTL

(* A card that disables itself while it is busy never has two commands of  *)
(* it waiting, and is not left busy when none waits (ControlScreen.tsx's   *)
(* guards on busy and its finally clauses).                                *)
THEOREM BusyMeansOneWaits == Spec => []OneAtATime
<1>1. ASSUME PanelInv PROVE OneAtATime
  <2>1. RadioOne /\ ButtonInv /\ TypeOK
    BY <1>1 DEF PanelInv, RadioInv
  <2>2. \A c : \A i : i \in WaitingFor({c}) <=> i \in DOMAIN calls /\ Open(i, c)
    BY DEF WaitingFor, Open, Is
  <2>3. IF radioBusy = NoRadio
        THEN WaitingFor({"radio.set"}) = {}
        ELSE \E i \in DOMAIN calls : /\ WaitingFor({"radio.set"}) = {i}
                                     /\ calls[i].req.radio = radioBusy
    <3>1. CASE radioBusy = NoRadio
      <4>1. \A i \in DOMAIN calls : Is(i, "radio.set") => calls[i].req.radio # NoRadio
        BY <2>1, CallsTyped, CallFields, PanelAssumption
      <4>2. \A i : i \notin WaitingFor({"radio.set"})
        BY <2>1, <2>2, <3>1, <4>1 DEF RadioOne, Open
      <4> QED BY <3>1, <4>2
    <3>2. CASE radioBusy # NoRadio
      <4>1. PICK i \in DOMAIN calls : Open(i, "radio.set")
        BY <2>1, <3>2 DEF RadioOne
      <4>2. WaitingFor({"radio.set"}) = {i} /\ calls[i].req.radio = radioBusy
        BY <2>1, <2>2, <4>1 DEF RadioOne
      <4> QED BY <3>2, <4>2
    <3> QED BY <3>1, <3>2
  <2>4. ASSUME NEW b \in Buttons
        PROVE  IF button[b].busy THEN \E i \in DOMAIN calls : WaitingFor({b}) = {i}
                                 ELSE WaitingFor({b}) = {}
    <3>1. CASE ~button[b].busy
      <4>1. \A i : i \notin WaitingFor({b})
        BY <2>1, <2>2, <3>1 DEF ButtonInv
      <4> QED BY <3>1, <4>1
    <3>2. CASE button[b].busy
      <4>1. PICK i \in DOMAIN calls : Open(i, b)
        BY <2>1, <3>2 DEF ButtonInv
      <4>2. WaitingFor({b}) = {i}
        BY <2>1, <2>2, <4>1 DEF ButtonInv
      <4> QED BY <3>2, <4>2
    <3> QED BY <3>1, <3>2
  <2> QED BY <2>3, <2>4 DEF OneAtATime
<1> QED BY <1>1, PanelInvariant, PTL

(* A switch whose latest toggle succeeded shows what the radio is, in any  *)
(* order of execution and answers, until a toggle that had timed out       *)
(* before is carried out after it: no answer to another toggle is taken    *)
(* for that of the latest one, and none is applied after it settled.       *)
THEOREM SwitchesShowRadios == Spec => []ShownIsReal
<1>1. PanelInv => ShownIsReal
  BY DEF PanelInv, RadioInv
<1> QED BY <1>1, PanelInvariant, PTL

(* When the volume card has come to rest, slider and device agree on the   *)
(* stream of the latest change, in any order of execution and answers,     *)
(* with any rounding of levels by the platform, unless a volume.set failed *)
(* or timed out.                                                           *)
THEOREM SliderShowsDevice == Spec => []QuietShowsDevice
<1>1. ASSUME PanelInv PROVE QuietShowsDevice
  <2> SUFFICES ASSUME timer = NoTimer, WaitingFor({"volume.set"}) = {}, moved.sure
               PROVE  volumes[moved.stream].level = volume.level
    BY DEF QuietShowsDevice
  <2>1. LevelFollows
    BY <1>1 DEF PanelInv, VolumeInv
  <2>2. \A i \in DOMAIN calls : ~ToCome(i)
    BY DEF WaitingFor, ToCome, Open, Is
  <2> QED BY <2>1, <2>2 DEF LevelFollows
<1> QED BY <1>1, PanelInvariant, PTL

===============================================================================
