----------------------------- MODULE RemoteControl -----------------------------
(***************************************************************************)
(* What Çaldır promises, without frames, keys or sockets: a displayed PIN  *)
(* is given to one connection, and a command that was asked for runs at    *)
(* most once, on the device only if its connection was given a PIN.  Its   *)
(* call returns after it ran, or fails, in which case it may still run.    *)
(***************************************************************************)
EXTENDS Naturals

CONSTANTS
  Slots,  \* the PINs that are displayed, in order
  Conns,  \* connections of the controller
  Calls,  \* calls of sendCommand
  None    \* no connection

VARIABLES
  bond,   \* bond[p]: the connection that was given PIN p, or None
  asker,  \* asker[c]: the connection call c was made on, or None
  fate,   \* fate[c]: what became of it for its caller
  runs    \* runs[c]: how often the device carried it out

vars == <<bond, asker, fate, runs>>

Init ==
  /\ bond = [p \in Slots |-> None]
  /\ asker = [c \in Calls |-> None]
  /\ fate = [c \in Calls |-> "idle"]
  /\ runs = [c \in Calls |-> 0]

Pair(p, n) ==
  /\ bond[p] = None
  /\ bond' = [bond EXCEPT ![p] = n]
  /\ UNCHANGED <<asker, fate, runs>>

Ask(c, n) ==
  /\ fate[c] = "idle"
  /\ asker' = [asker EXCEPT ![c] = n]
  /\ fate' = [fate EXCEPT ![c] = "pending"]
  /\ UNCHANGED <<bond, runs>>

Refuse(c) ==
  /\ fate[c] = "idle"
  /\ fate' = [fate EXCEPT ![c] = "rejected"]
  /\ UNCHANGED <<bond, asker, runs>>

Run(c) ==
  /\ asker[c] # None
  /\ \E p \in Slots : bond[p] = asker[c]
  /\ runs[c] = 0
  /\ runs' = [runs EXCEPT ![c] = 1]
  /\ UNCHANGED <<bond, asker, fate>>

Return(c) ==
  /\ fate[c] = "pending"
  /\ runs[c] = 1
  /\ fate' = [fate EXCEPT ![c] = "resolved"]
  /\ UNCHANGED <<bond, asker, runs>>

Fail(c) ==
  /\ fate[c] = "pending"
  /\ fate' = [fate EXCEPT ![c] = "rejected"]
  /\ UNCHANGED <<bond, asker, runs>>

Next ==
  \/ \E p \in Slots, n \in Conns : Pair(p, n)
  \/ \E c \in Calls :
       \/ \E n \in Conns : Ask(c, n)
       \/ Refuse(c) \/ Run(c) \/ Return(c) \/ Fail(c)

Spec == Init /\ [][Next]_vars

===============================================================================
