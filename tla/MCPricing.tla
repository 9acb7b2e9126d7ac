------------------------------ MODULE MCPricing -----------------------------
(***************************************************************************)
(* One seat whose legs are taken and given back one at a time: every set   *)
(* of at most MaxTaken legs that requests, served in sequence, can put on  *)
(* the seat.  In each of them Pricing's operators are compared with        *)
(* definitions written from the cells a leg uses, for every leg.           *)
(***************************************************************************)
EXTENDS Pricing, TLC

CONSTANTS MaxTaken   \* bound on the legs on the seat at one time

VARIABLE taken       \* legs booked or held on the seat

DateSymmetry == Permutations(Dates)

MCDistance == [s \in Stations |-> CASE s = 0 -> 0 [] s = 1 -> 3 [] s = 2 -> 4
                                    [] s = 3 -> 9 [] s = 4 -> 11 [] OTHER -> 18]

Available(l) == Status(l, taken, {}) = "available"

Init == taken = {}

TakeLeg(l) == /\ Cardinality(taken) < MaxTaken
              /\ Available(l)
              /\ taken' = taken \cup {l}

GiveBack(l) == taken' = taken \ {l}

Next == \/ \E l \in Leg : TakeLeg(l)
        \/ \E l \in taken : GiveBack(l)

Spec == Init /\ [][Next]_taken

-----------------------------------------------------------------------------
SeatCells(legs) == UNION {Cells("seat", m) : m \in legs}

\* A leg is offered exactly when none of its cells is taken, and however the
\* taken legs are divided between bookings and holds a refused leg that meets
\* a booking is "booked", never "pending" (priceOne's order of the two loops).
\* A station is no cell: legs that meet at one and share no stretch are free of
\* each other, as README "Segment model" says, and not in conflict, as the
\* comment on BookedRange.Overlaps ("sharing at least one station") would have it.
StatusMatchesCells ==
  \A l \in Leg : \A b \in SUBSET taken :
    LET meets(legs) == Cells("seat", l) \cap SeatCells(legs) # {}
    IN  Status(l, b, taken \ b) = IF meets(b) THEN "booked"
                                  ELSE IF meets(taken \ b) THEN "pending"
                                  ELSE "available"

\* The station stretches a leg boxes in, written without bounds: free
\* stretches that connect to the leg and are closed off by a taken one.
BoxedIn(l) ==
  LET busy == {u \in FirstSeq .. LastSeq - 1 :
                 <<"seat", l.date, Outbound(l), u>> \in SeatCells(taken)}
      before == {u \in FirstSeq .. LegMin(l) - 1 : /\ (u .. LegMin(l) - 1) \cap busy = {}
                                                   /\ \E w \in busy : w < u}
      after == {u \in LegMax(l) .. LastSeq - 1 : /\ (LegMax(l) .. u) \cap busy = {}
                                                 /\ \E w \in busy : w > u}
  IN  before \cup after

\* Kilometres of a set of stretches, added up along the line.
Km(units) ==
  LET upTo[s \in Stations] ==
        IF s = FirstSeq THEN 0
        ELSE upTo[s - 1] + IF s - 1 \in units THEN DistanceBySeq[s] - DistanceBySeq[s - 1] ELSE 0
  IN  upTo[LastSeq]

\* The fare of an available leg is the distance fare plus the fragmentation
\* share of exactly the stretches it strands between two passengers, rounded
\* half up to a cent (README "Fare model"; CalculateFare).
FareMatchesBoxedIn ==
  \A l \in Leg : Available(l) =>
    LET hundredths == 100 * RatePerKm * Km(Segment(l))
                      + FragmentationPercent * RatePerKm * Km(BoxedIn(l))
    IN  /\ 100 * CalculateFare(l, taken) - hundredths \in -49 .. 50

\* Nobody saves money by buying a leg in two pieces, in either order, although
\* each piece is priced separately and the second sees the first as its
\* neighbour.
SplittingNeverCheaper ==
  \A l \in Leg : Available(l) => \A m \in LegMin(l) + 1 .. LegMax(l) - 1 :
    LET first == [l EXCEPT !.destination = m]
        second == [l EXCEPT !.origin = m]
        whole == CalculateFare(l, taken)
    IN  /\ CalculateFare(first, taken) + CalculateFare(second, taken \cup {first}) >= whole
        /\ CalculateFare(second, taken) + CalculateFare(first, taken \cup {second}) >= whole

\* Travelling on never costs less than boarding a station later or getting
\* off a station earlier, although the longer leg leaves a smaller gap to pay
\* for; true as long as FRAGMENTATION_RATE is at most 1.
TravellingFurtherNeverCheaper ==
  \A l \in Leg : (Available(l) /\ LegMax(l) - LegMin(l) > 1) =>
    LET step == IF Outbound(l) THEN 1 ELSE -1
        whole == CalculateFare(l, taken)
    IN  /\ CalculateFare([l EXCEPT !.destination = @ - step], taken) <= whole
        /\ CalculateFare([l EXCEPT !.origin = @ + step], taken) <= whole
=============================================================================
