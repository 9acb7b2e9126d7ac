------------------------------ MODULE HoldStore -----------------------------
(***************************************************************************)
(* Redis as package cache uses it: one key per hold and one key per seat   *)
(* lock, both with a time to live.                                         *)
(*                                                                         *)
(* Each POST /holds request draws at most one random hold token and one    *)
(* random lock value, so the request itself (a member of Creators) names   *)
(* both.  holds[t] is the payload stored under hold:<t>, lock[s] the       *)
(* request whose value is stored under lock:seat:<s>.                      *)
(*                                                                         *)
(* Time is not counted: a key that has a time to live may disappear at any *)
(* moment.  A hold has one only if HOLD_TTL_SECONDS is positive, because   *)
(* the client sends SET without PX/EX for a duration of zero or less.      *)
(***************************************************************************)
EXTENDS Legs

CONSTANTS
  SeatIds,        \* every seat id a request may name
  Creators,       \* POST /holds requests
  HoldTTL,        \* HOLD_TTL_SECONDS
  NoHold, NoOwner

VARIABLES holds, lock

\* holdPayload; the fare is in cents.
Payload == [seat : SeatIds, leg : Leg, fare : Nat]

ASSUME HoldStoreAssumption == /\ HoldTTL \in Int
                              /\ NoHold \notin Payload
                              /\ NoOwner \notin Creators

StoreTypeOK == /\ holds \in [Creators -> Payload \cup {NoHold}]
               /\ lock \in [SeatIds -> Creators \cup {NoOwner}]

StoreInit == /\ holds = [t \in Creators |-> NoHold]
             /\ lock = [s \in SeatIds |-> NoOwner]

Live(t) == holds[t] # NoHold
LiveTokens == {t \in Creators : Live(t)}

-----------------------------------------------------------------------------
(* HoldStore.Create, Cancel and the expiry of a hold *)

SetHold(t, payload) == holds' = [holds EXCEPT ![t] = payload]

DeleteHold(t) == holds' = [holds EXCEPT ![t] = NoHold]

HoldLapses(t) == HoldTTL > 0 /\ Live(t) /\ DeleteHold(t)

-----------------------------------------------------------------------------
(* HoldStore.Lock, unlockScript and the expiry of a lock *)

\* Mutant: SET instead of SET NX.
SetLock(s, c) == lock' = [lock EXCEPT ![s] = c]

SetLockNX(s, c) == /\ lock[s] = NoOwner
                   /\ lock' = [lock EXCEPT ![s] = c]

\* Mutant: a plain DEL.
DeleteAnyLock(s, c) == lock' = [lock EXCEPT ![s] = NoOwner]

CompareAndDelete(s, c) ==
  lock' = IF lock[s] = c THEN [lock EXCEPT ![s] = NoOwner] ELSE lock

LockLapses(s) == /\ lock[s] # NoOwner
                 /\ lock' = [lock EXCEPT ![s] = NoOwner]
=============================================================================
