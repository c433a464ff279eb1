---------------------------- MODULE MCDeviceHost ------------------------------
EXTENDS DeviceHost, TLC

Symmetry == Permutations(Sessions) \cup Permutations(Pins)
              \cup Permutations(ClientPubs)

(* No action and no property reads what the latest step sent, nor, but for *)
(* its type, what was opened under the keys of an earlier handshake, or    *)
(* with which counters once one was missing.                               *)
OpenedNow(s) ==
  IF hs[s] = NoHandshake THEN {}
  ELSE IF Counted(s) THEN {e \in accepted[s] : e[1].server = hs[s].serverKeys}
  ELSE {NoSeq}

View == <<pairingVars, link, sessionVars, wrong, [s \in Sessions |-> OpenedNow(s)]>>
===============================================================================
