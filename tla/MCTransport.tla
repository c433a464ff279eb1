------------------------------ MODULE MCTransport ------------------------------
EXTENDS Transport

(* What neither an action nor a property of the run tells apart: which way *)
(* a closed socket was opened, the frame just sent, how settled promises   *)
(* ended, the counters of earlier key pairs, and a recvSeq of NoSeq from   *)
(* one of 0, since both precede all counters.                              *)
Sockets  == [n \in Conns |-> IF sock[n].state = "closed" THEN "closed" ELSE sock[n]]
LastSeq  == IF recvSeq = NoSeq THEN 0 ELSE recvSeq
Requests == <<Len(promise), [id \in pendingRes |-> promise[id]], armed>>
InUse    == {c \in Range(sealed) : c[1].client = made}

View == <<Sockets, made, ws, state, handshake, sendSeq, LastSeq, hellos, Requests,
          InUse, spoilt>>
===============================================================================
