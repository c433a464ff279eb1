------------------------------- MODULE PeerStore -------------------------------
(***************************************************************************)
(* The list of paired devices: the Map `peers` of the PairingManager and   *)
(* the file FsPairingStore keeps it in (server/src/pairing-node.ts).  A    *)
(* record is its random client id, a number here.                          *)
(*                                                                         *)
(* writeFileSync empties the file when it opens it and writes the text     *)
(* then; both can fail, and the process can die between them.  A part of   *)
(* the text is no JSON, and load takes such a file for an empty list.      *)
(***************************************************************************)
EXTENDS Naturals

CONSTANTS
  NoList,   \* no save is under way
  Torn,     \* the file holds no JSON
  MaxPeers  \* bound: records ever registered

Clients == 1..MaxPeers

VARIABLES
  up,          \* is the server's process running?
  peers,       \* the Map of the PairingManager, by its keys
  file,        \* peers.json: a list, empty if there is no file, or Torn
  registered,  \* how many records were registered
  writing,     \* the list persist is writing, or NoList
  old, new     \* history: what the latest save was to replace by what

vars == <<up, peers, file, registered, writing, old, new>>

(* load, which ignores a corrupt store *)
Load(f) == IF f = Torn THEN {} ELSE f

Init ==
  /\ up = TRUE /\ peers = {} /\ file = {} /\ registered = 0
  /\ writing = NoList /\ old = {} /\ new = {}

-------------------------------------------------------------------------------
(* The methods of the PairingManager run while no save is under way. *)
Idle == up /\ writing = NoList

(* persist, to where writeFileSync has opened the file; an error there is  *)
(* swallowed.                                                              *)
Persist(list) ==
  /\ peers' = list
  /\ old' = Load(file) /\ new' = list
  /\ \/ file' = Torn /\ writing' = list
     \/ UNCHANGED <<file, writing>>
  /\ UNCHANGED up

RegisterPeer ==
  /\ Idle /\ registered < MaxPeers
  /\ registered' = registered + 1
  /\ Persist(peers \cup {registered + 1})

RemovePeer ==
  /\ Idle
  /\ \E c \in Clients : Persist(peers \ {c})
  /\ UNCHANGED registered

Reload ==
  /\ Idle
  /\ peers' = Load(file)
  /\ UNCHANGED <<up, file, registered, writing, old, new>>

(* The rest of persist: the text is written, or only a part of it. *)
SaveEnds ==
  /\ up /\ writing # NoList
  /\ file' \in {writing, Torn}
  /\ writing' = NoList
  /\ UNCHANGED <<up, peers, registered, old, new>>

Crash ==
  /\ up
  /\ up' = FALSE /\ peers' = {} /\ writing' = NoList
  /\ UNCHANGED <<file, registered, old, new>>

(* The constructor of the PairingManager loads the store. *)
Restart ==
  /\ ~up
  /\ up' = TRUE
  /\ peers' = Load(file)
  /\ UNCHANGED <<file, registered, writing, old, new>>

Next == RegisterPeer \/ RemovePeer \/ Reload \/ SaveEnds \/ Crash \/ Restart

Spec == Init /\ [][Next]_vars

-------------------------------------------------------------------------------
(* "The store is opaque to the manager; it must atomically replace the     *)
(* whole peer list." (pairing.ts:29-30)  Whatever fails, the next load     *)
(* gives the list of before the latest save or the one that was to be      *)
(* saved.                                                                  *)
AtomicReplace == writing = NoList => Load(file) \in {old, new}

===============================================================================
