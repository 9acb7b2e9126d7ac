------------------------------ MODULE SeatMutex -----------------------------
(***************************************************************************)
(* What a lock per seat promises to those who work under it: a free seat   *)
(* is given to one worker, who may not learn of it; the owner works alone  *)
(* and may leave without giving the seat back; and a seat is taken back by *)
(* time only when nobody works there.  BookingSystem implements it call by *)
(* call, SeatLock tick by tick.                                            *)
(***************************************************************************)
CONSTANTS Seats, Workers, Nobody

VARIABLES
  owner,    \* of each seat
  inside    \* the workers on each seat

MutexInit == /\ owner = [s \in Seats |-> Nobody]
             /\ inside = [s \in Seats |-> {}]

Take(s, w) == /\ owner[s] = Nobody
              /\ owner' = [owner EXCEPT ![s] = w]
              /\ \/ inside' = [inside EXCEPT ![s] = {w}]
                 \/ UNCHANGED inside

Leave(s, w) == /\ owner[s] = w /\ inside[s] = {w}
               /\ inside' = [inside EXCEPT ![s] = {}]
               /\ \/ owner' = [owner EXCEPT ![s] = Nobody]
                  \/ UNCHANGED owner

Lapse(s) == /\ inside[s] = {}
            /\ owner' = [owner EXCEPT ![s] = Nobody]
            /\ UNCHANGED inside

MutexNext == \E s \in Seats : Lapse(s) \/ \E w \in Workers : Take(s, w) \/ Leave(s, w)

MutexSpec == MutexInit /\ [][MutexNext]_<<owner, inside>>
=============================================================================
