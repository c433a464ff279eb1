------------------------------ MODULE MCEndToEnd -------------------------------
EXTENDS EndToEnd

Symmetry == Permutations(Pins)

(* No action reads what the latest step sent nor the histories of the two  *)
(* ends, and of the properties only TypeOK does.                           *)
View == <<sock, made, ws, state, clientKeys, serverPub, salt, pairingSecret,
          clientKey, sendSeq, recvSeq, pendingRes, timer, attempts, promise, armed,
          pending, minted, now, link, hs, deviceKey, keyed, running,
          network, history>>
===============================================================================
