------------------------------- MODULE Pricing ------------------------------
(***************************************************************************)
(* Status and fare of one seat for one leg: seats.Service.priceOne and     *)
(* seats.CalculateFare.                                                    *)
(*                                                                         *)
(* Money is integer: RatePerKm is in cents, FragmentationPercent is        *)
(* FRAGMENTATION_RATE * 100, so an unrounded fare is a whole number of     *)
(* hundredths of a cent and math.Round(fare*100)/100 is RoundToCents.      *)
(* A seat's neighbours are a set of legs: CalculateFare takes a maximum    *)
(* and a minimum over them, so neither order nor repetition matters.       *)
(***************************************************************************)
EXTENDS Legs, FiniteSetsExt

CONSTANTS
  DistanceBySeq,        \* cumulative kilometres of each station
  RatePerKm,
  FragmentationPercent

ASSUME PricingAssumption ==
  /\ DistanceBySeq \in [Stations -> Nat]
  /\ \A s, t \in Stations : s < t => DistanceBySeq[s] <= DistanceBySeq[t]
  /\ RatePerKm \in Nat
  /\ FragmentationPercent \in Nat

-----------------------------------------------------------------------------
(* seats.CalculateFare *)

\* The nearest neighbour that ends at or before the leg, or the line's start.
LeftBound(l, neighbours) ==
  Max({FirstSeq} \cup {LegMax(n) : n \in {m \in neighbours :
                         SameTimeline(m, l) /\ LegMax(m) <= LegMin(l)}})

\* The nearest neighbour that starts at or after its end, or the line's end.
RightBound(l, neighbours) ==
  Min({LastSeq} \cup {LegMin(n) : n \in {m \in neighbours :
                        SameTimeline(m, l) /\ LegMin(m) >= LegMax(l)}})

\* A side bounded by the line's own end is not boxed in.
LeftGapKm(l, neighbours) ==
  LET left == LeftBound(l, neighbours)
  IN  IF left # FirstSeq /\ left < LegMin(l)
        THEN DistanceBySeq[LegMin(l)] - DistanceBySeq[left] ELSE 0

\* Mutant: open capacity up to the terminus is charged too.
RightGapToTerminus(l, neighbours) ==
  DistanceBySeq[RightBound(l, neighbours)] - DistanceBySeq[LegMax(l)]

RightGapKm(l, neighbours) ==
  LET right == RightBound(l, neighbours)
  IN  IF right # LastSeq /\ right > LegMax(l)
        THEN DistanceBySeq[right] - DistanceBySeq[LegMax(l)] ELSE 0

\* Mutant: the last station is left out.
BaseKmToPreviousStop(l) ==
  DistanceBySeq[IF LegMax(l) - 1 > LegMin(l) THEN LegMax(l) - 1 ELSE LegMax(l)]
    - DistanceBySeq[LegMin(l)]

BaseKm(l) == DistanceBySeq[LegMax(l)] - DistanceBySeq[LegMin(l)]

RoundToCents(hundredths) == (hundredths + 50) \div 100

\* Mutant: the surcharge comes on top of the full rate for the gap.
FareChargingWholeGap(l, neighbours) ==
  RoundToCents(RatePerKm * (100 * BaseKm(l)
     + (100 + FragmentationPercent) * (LeftGapKm(l, neighbours) + RightGapKm(l, neighbours))))

CalculateFare(l, neighbours) ==
  RoundToCents(RatePerKm * (100 * BaseKm(l)
     + FragmentationPercent * (LeftGapKm(l, neighbours) + RightGapKm(l, neighbours))))

-----------------------------------------------------------------------------
(* seats.Service.priceOne: a booking beats a hold for the status, both are *)
(* neighbours for the fare.                                                *)

\* Mutant: holds are not looked at.
StatusOfBookings(l, bookedLegs, heldLegs) ==
  IF \E b \in bookedLegs : Overlaps(b, l) THEN "booked" ELSE "available"

Status(l, bookedLegs, heldLegs) ==
  IF \E b \in bookedLegs : Overlaps(b, l) THEN "booked"
  ELSE IF \E h \in heldLegs : Overlaps(h, l) THEN "pending"
  ELSE "available"

Fare(l, bookedLegs, heldLegs) == CalculateFare(l, bookedLegs \cup heldLegs)
=============================================================================
