-------------------------------- MODULE Legs --------------------------------
(***************************************************************************)
(* Legs of a journey on one line of stations, and the two definitions of   *)
(* "these two legs cannot share a seat" that the system relies on: the Go  *)
(* method BookedRange.Overlaps, which decides availability and prices      *)
(* neighbours, and the Postgres exclusion constraint on bookings, which    *)
(* rejects the losing INSERT.                                              *)
(*                                                                         *)
(* A station is its sequence number, a date a member of Dates.  Dates are  *)
(* the travel dates a request may still name (today or later).             *)
(***************************************************************************)
EXTENDS Integers

CONSTANTS FirstSeq, LastSeq, Dates

ASSUME LegsAssumption == /\ FirstSeq \in Int
                         /\ LastSeq \in Int
                         /\ FirstSeq < LastSeq

Stations == FirstSeq .. LastSeq

\* A resolved leg: two different stations of the line, in travel order.
Leg == {l \in [date : Dates, origin : Stations, destination : Stations] :
          l.origin # l.destination}

-----------------------------------------------------------------------------
(* seats.BookedRange *)

Outbound(l) == l.origin < l.destination
LegMin(l) == IF Outbound(l) THEN l.origin ELSE l.destination
LegMax(l) == IF Outbound(l) THEN l.destination ELSE l.origin

SameTimeline(a, b) == a.date = b.date /\ Outbound(a) = Outbound(b)

\* Mutant: ranges closed at both ends, as the comment on BookedRange.Overlaps reads.
OverlapsClosed(a, b) == /\ SameTimeline(a, b)
                        /\ LegMin(a) <= LegMax(b)
                        /\ LegMin(b) <= LegMax(a)

Overlaps(a, b) == /\ SameTimeline(a, b)
                  /\ LegMin(a) < LegMax(b)
                  /\ LegMin(b) < LegMax(a)

-----------------------------------------------------------------------------
(* The columns of the bookings table.  int4range(lo, hi, '[)') is the set  *)
(* of integers it contains; Postgres' && on two ranges is "they share one".*)

Segment(l) == LegMin(l) .. (LegMax(l) - 1)

\* Mutant: only a leg inside another conflicts with it.
ExcludesInside(a, b) == SameTimeline(a, b) /\ Segment(a) \subseteq Segment(b)

Excludes(a, b) == /\ SameTimeline(a, b)
                  /\ Segment(a) \cap Segment(b) # {}

\* What a leg on a seat uses up, independently of both definitions: the
\* stretches between neighbouring stations, on one date in one direction.
Cells(seat, l) == {<<seat, l.date, Outbound(l), u>> : u \in Segment(l)}
=============================================================================
