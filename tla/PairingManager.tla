---------------------------- MODULE PairingManager ----------------------------
(***************************************************************************)
(* The pairing slot of shared/src/pairing.ts: one pending PIN at a time,   *)
(* shared by every session of the device.  The peer list of the same class *)
(* is not part of this module.                                             *)
(*                                                                         *)
(* A salt is the number of the slot it was drawn for: randomBytes never    *)
(* repeats one.  The verifier and the pairing secret of a slot are two     *)
(* digests of the same PIN and salt, so one field stands for both.  The    *)
(* slot's nonce is published and never read again; it is left out.         *)
(***************************************************************************)
EXTENDS Protocol

CONSTANTS
  Pins,         \* the PINs: what /^\d{6}$/ accepts
  Malformed,    \* a candidate the regular expression refuses
  NoSlot,       \* the null of `pending`
  MaxAttempts,  \* MAX_PIN_ATTEMPTS
  Ttl,          \* PIN_TTL_MS, in ticks of the clock
  MaxSlots,     \* bound: slots ever minted
  MaxTime       \* bound: last instant of the clock

Salts   == 1..MaxSlots
Secrets == [pin : Pins, salt : Salts]
Slots   == [salt : Salts, secret : Secrets, attempts : Nat, expiresAt : Nat]

ASSUME PairingAssumption ==
  /\ MaxAttempts \in Nat \ {0}
  /\ Ttl \in Nat /\ MaxSlots \in Nat /\ MaxTime \in Nat
  /\ Malformed \notin Pins
  /\ NoSlot \notin Slots

VARIABLES
  pending,  \* PairingManager.pending
  minted,   \* how many slots beginPairing has made
  now       \* Date.now()

pairingVars == <<pending, minted, now>>

PairingInit ==
  /\ pending = NoSlot
  /\ minted = 0
  /\ now = 0

PairingTypeOK ==
  /\ pending \in Slots \cup {NoSlot}
  /\ minted \in 0..MaxSlots
  /\ now \in 0..MaxTime

-------------------------------------------------------------------------------
Expired(slot, t) == t > slot.expiresAt

(* A new slot replaces whatever was pending, used or not. *)
BeginPairing ==
  /\ minted < MaxSlots
  /\ minted' = minted + 1
  /\ \E pin \in Pins :
       pending' = [salt      |-> minted + 1,
                   secret    |-> HashPin(pin, minted + 1),
                   attempts  |-> 0,
                   expiresAt |-> now + Ttl]
  /\ UNCHANGED now

CancelPairing ==
  /\ pending' = NoSlot
  /\ UNCHANGED <<minted, now>>

(* verifyPin(candidate) returns true; it then changes nothing. *)
PinMatches_AnyDigits(candidate) ==
  pending # NoSlot /\ ~Expired(pending, now) /\ candidate \in Pins
PinMatches(candidate) ==
  /\ pending # NoSlot
  /\ ~Expired(pending, now)
  /\ candidate \in Pins
  /\ HashPin(candidate, pending.salt) = pending.secret

(* The slot after one more wrong candidate: gone at the third. *)
WrongAttempt_OneMore(slot) ==
  IF slot.attempts >= MaxAttempts THEN NoSlot
  ELSE [slot EXCEPT !.attempts = @ + 1]
WrongAttempt(slot) ==
  IF slot.attempts + 1 >= MaxAttempts THEN NoSlot
  ELSE [slot EXCEPT !.attempts = @ + 1]

(* verifyPin(candidate) returns false.  An expired slot is dropped without *)
(* counting; only a well-formed wrong candidate counts.                    *)
PinFails(candidate) ==
  /\ ~PinMatches(candidate)
  /\ pending' = IF pending = NoSlot \/ Expired(pending, now) THEN NoSlot
                ELSE IF candidate \in Pins THEN WrongAttempt(pending)
                ELSE pending

(* consumePending reads the clock again, after the hashing that verifyPin  *)
(* did: `now'` may be later than the `now` that verifyPin compared.        *)
AfterConsume_Kept(slot) == slot
AfterConsume(slot) == NoSlot

ConsumePending == pending' = AfterConsume(pending)

(* The value consumePending hands out, against null when it expired. *)
Consumable_NoRecheck == pending # NoSlot
Consumable == pending # NoSlot /\ ~Expired(pending, now')

HashingTakesTime == now' \in now..(now + 1) /\ now' <= MaxTime

Tick ==
  /\ now < MaxTime
  /\ now' = now + 1
  /\ UNCHANGED <<pending, minted>>

===============================================================================
