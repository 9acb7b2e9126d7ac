----------------------------- MODULE BookingTable ---------------------------
(***************************************************************************)
(* The Postgres table of bookings: rows are only ever inserted, and an     *)
(* INSERT is refused when the exclusion constraint finds a row for the     *)
(* same seat, date and direction whose segment range overlaps.             *)
(* A row's id is the request that inserted it.                             *)
(***************************************************************************)
EXTENDS Legs

CONSTANTS Finalizers      \* POST /bookings requests

VARIABLE bookings

\* Repo.BookingsForSeats for one seat: all its legs, on any date.
BookedLegs(s) == {b.leg : b \in {r \in bookings : r.seat = s}}

\* Mutant: the two sequence arguments of Insert are swapped.
SwappedRow(id, hold) ==
  [id |-> id, seat |-> hold.seat, fare |-> hold.fare,
   leg |-> [hold.leg EXCEPT !.origin = hold.leg.destination, !.destination = hold.leg.origin]]

\* Repo.Insert stores what the hold says, the locked-in fare included.
BookingRow(id, hold) == [id |-> id, seat |-> hold.seat, leg |-> hold.leg, fare |-> hold.fare]

\* EXCLUDE USING gist (seat_id WITH =, travel_date WITH =,
\*                     is_outbound WITH =, segment WITH &&)
Violates(row) == \E b \in bookings : b.seat = row.seat /\ Excludes(b.leg, row.leg)

\* Mutant: no exclusion constraint.
InsertUnchecked(row) == bookings' = bookings \cup {row}

InsertRow(row) == ~ Violates(row) /\ bookings' = bookings \cup {row}
=============================================================================
