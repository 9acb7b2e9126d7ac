--------------------------- MODULE PricingTheorems --------------------------
(***************************************************************************)
(* Facts about legs and fares.  Two legs conflict for Go exactly when they *)
(* conflict for Postgres, and that is exactly when they need a common      *)
(* stretch of the line.  The bounds of a fare's gaps are stations of the   *)
(* line and a fare is a natural number of cents, never negative.           *)
(***************************************************************************)
EXTENDS Pricing, TLAPS, WellFoundedInduction

\* Two ranges meet if each starts before the other ends.
LEMMA OverlapsMeansCommonUnit ==
  ASSUME NEW a \in Leg, NEW b \in Leg
  PROVE  (LegMin(a) < LegMax(b) /\ LegMin(b) < LegMax(a))
           <=> Segment(a) \cap Segment(b) # {}
<1>. USE LegsAssumption DEF Leg, Stations, Outbound, LegMin, LegMax
<1>. DEFINE u == IF LegMin(a) < LegMin(b) THEN LegMin(b) ELSE LegMin(a)
<1>1. LegMin(a) \in Int /\ LegMax(a) \in Int /\ LegMin(b) \in Int /\ LegMax(b) \in Int
  OBVIOUS
<1>2. LegMin(a) < LegMax(a) /\ LegMin(b) < LegMax(b)
  OBVIOUS
<1>. HIDE DEF LegMin, LegMax
<1>3. ASSUME LegMin(a) < LegMax(b), LegMin(b) < LegMax(a)
      PROVE  u \in Segment(a) \cap Segment(b)
  BY <1>1, <1>2, <1>3 DEF Segment
<1>4. ASSUME NEW w \in Segment(a) \cap Segment(b)
      PROVE  LegMin(a) < LegMax(b) /\ LegMin(b) < LegMax(a)
  BY <1>1, <1>4 DEF Segment
<1>. QED  BY <1>3, <1>4

\* The application's test and the database's are the same relation.
THEOREM OverlapsIffExcludes ==
  ASSUME NEW a \in Leg, NEW b \in Leg
  PROVE  Overlaps(a, b) <=> Excludes(a, b)
BY OverlapsMeansCommonUnit DEF Overlaps, Excludes

\* Both say that the legs, on one seat, need a cell in common.
THEOREM OverlapsIffCellsMeet ==
  ASSUME NEW a \in Leg, NEW b \in Leg, NEW seat
  PROVE  Overlaps(a, b) <=> Cells(seat, a) \cap Cells(seat, b) # {}
<1>1. Excludes(a, b) => Cells(seat, a) \cap Cells(seat, b) # {}
  <2>1. SUFFICES ASSUME SameTimeline(a, b), NEW u \in Segment(a) \cap Segment(b)
                 PROVE  Cells(seat, a) \cap Cells(seat, b) # {}
    BY DEF Excludes
  <2>2. <<seat, a.date, Outbound(a), u>> \in Cells(seat, a) \cap Cells(seat, b)
    BY <2>1 DEF Cells, SameTimeline
  <2>. QED  BY <2>2
<1>2. ASSUME NEW x \in Cells(seat, a) \cap Cells(seat, b)
      PROVE  Excludes(a, b)
  BY <1>2 DEF Cells, Excludes, SameTimeline
<1>. QED  BY <1>1, <1>2, OverlapsIffExcludes

\* Legs on different seats never meet.
LEMMA CellsOfDifferentSeats ==
  ASSUME NEW a, NEW b, NEW s, NEW t, s # t
  PROVE  Cells(s, a) \cap Cells(t, b) = {}
BY DEF Cells

\* A leg conflicts with itself, which is what makes a second INSERT of the
\* same hold fail; and conflicts are mutual.
LEMMA OverlapsReflexive ==
  ASSUME NEW a \in Leg
  PROVE  Overlaps(a, a)
BY LegsAssumption DEF Overlaps, SameTimeline, Leg, Stations, Outbound, LegMin, LegMax

LEMMA OverlapsSymmetric ==
  ASSUME NEW a, NEW b, Overlaps(a, b)
  PROVE  Overlaps(b, a)
BY DEF Overlaps, SameTimeline

-----------------------------------------------------------------------------
LEMMA NatHasMin ==
  ASSUME NEW T \in SUBSET Nat, T # {}
  PROVE  \E x \in T : \A y \in T : x <= y
<1>1. IsWellFoundedOn(OpToRel(<, Nat), Nat)
  BY NatLessThanWellFounded
<1>2. PICK x \in T : \A y \in T : <<y, x>> \notin OpToRel(<, Nat)
  BY <1>1, WFMin
<1>3. \A y \in T : ~ (y < x)
  BY <1>2 DEF OpToRel
<1>. QED  BY <1>3

LEMMA StationsHaveMax ==
  ASSUME NEW T \in SUBSET Stations, T # {}
  PROVE  Max(T) \in T /\ \A y \in T : y <= Max(T)
<1>. USE LegsAssumption DEF Stations
<1>. DEFINE D == {LastSeq - x : x \in T}
<1>1. D \in SUBSET Nat /\ D # {}
  OBVIOUS
<1>2. PICK d \in D : \A e \in D : d <= e
  BY <1>1, NatHasMin
<1>3. PICK x \in T : d = LastSeq - x
  BY <1>2
<1>4. \A y \in T : x >= y
  <2>. TAKE y \in T
  <2>1. d <= LastSeq - y
    BY <1>2
  <2>. QED  BY <1>3, <2>1
<1>. QED  BY <1>4 DEF Max

LEMMA StationsHaveMin ==
  ASSUME NEW T \in SUBSET Stations, T # {}
  PROVE  Min(T) \in T /\ \A y \in T : Min(T) <= y
<1>. USE LegsAssumption DEF Stations
<1>. DEFINE D == {x - FirstSeq : x \in T}
<1>1. D \in SUBSET Nat /\ D # {}
  OBVIOUS
<1>2. PICK d \in D : \A e \in D : d <= e
  BY <1>1, NatHasMin
<1>3. PICK x \in T : d = x - FirstSeq
  BY <1>2
<1>4. \A y \in T : x =< y
  <2>. TAKE y \in T
  <2>1. d <= y - FirstSeq
    BY <1>2
  <2>. QED  BY <1>3, <2>1
<1>. QED  BY <1>4 DEF Min

LEMMA LegBounds ==
  ASSUME NEW l \in Leg
  PROVE  LegMin(l) \in Stations /\ LegMax(l) \in Stations /\ LegMin(l) < LegMax(l)
BY LegsAssumption DEF Leg, Stations, LegMin, LegMax, Outbound

LEMMA BoundsAreStations ==
  ASSUME NEW l \in Leg, NEW ns \in SUBSET Leg
  PROVE  LeftBound(l, ns) \in Stations /\ RightBound(l, ns) \in Stations
<1>. DEFINE ends == {FirstSeq} \cup {LegMax(n) : n \in {m \in ns :
                         SameTimeline(m, l) /\ LegMax(m) <= LegMin(l)}}
            starts == {LastSeq} \cup {LegMin(n) : n \in {m \in ns :
                        SameTimeline(m, l) /\ LegMin(m) >= LegMax(l)}}
<1>1. FirstSeq \in Stations /\ LastSeq \in Stations
  BY LegsAssumption DEF Stations
<1>2. ends \in SUBSET Stations /\ starts \in SUBSET Stations
  BY <1>1, LegBounds
<1>. HIDE DEF ends, starts
<1>3. Max(ends) \in ends /\ Min(starts) \in starts
  <2>1. ends # {} /\ starts # {}
    BY DEF ends, starts
  <2>. QED  BY <1>2, <2>1, StationsHaveMax, StationsHaveMin
<1>4. LeftBound(l, ns) = Max(ends) /\ RightBound(l, ns) = Min(starts)
  BY DEF LeftBound, RightBound, ends, starts
<1>. QED  BY <1>2, <1>3, <1>4

LEMMA KmBetween ==
  ASSUME NEW s \in Stations, NEW t \in Stations, s <= t
  PROVE  DistanceBySeq[t] - DistanceBySeq[s] \in Nat
<1>. USE LegsAssumption, PricingAssumption DEF Stations
<1>1. DistanceBySeq[s] \in Nat /\ DistanceBySeq[t] \in Nat
  OBVIOUS
<1>2. DistanceBySeq[s] <= DistanceBySeq[t]
  <2>1. CASE s = t
    BY <2>1, <1>1
  <2>2. CASE s < t
    BY <2>2
  <2>. QED  BY <2>1, <2>2
<1>. QED  BY <1>1, <1>2

\* A fare is a natural number of cents whatever legs surround the candidate:
\* no gap is ever negative, so a surcharge never becomes a discount.
THEOREM FareIsNat ==
  ASSUME NEW l \in Leg, NEW ns \in SUBSET Leg
  PROVE  CalculateFare(l, ns) \in Nat
<1>1. BaseKm(l) \in Nat
  BY LegBounds, KmBetween, LegsAssumption DEF BaseKm, Stations
<1>2. LeftGapKm(l, ns) \in Nat
  BY LegBounds, BoundsAreStations, KmBetween, LegsAssumption DEF LeftGapKm, Stations
<1>3. RightGapKm(l, ns) \in Nat
  BY LegBounds, BoundsAreStations, KmBetween, LegsAssumption DEF RightGapKm, Stations
<1>. DEFINE gaps == LeftGapKm(l, ns) + RightGapKm(l, ns)
            base == BaseKm(l)
            hundredths == RatePerKm * (100 * base + FragmentationPercent * gaps)
<1>4. gaps \in Nat /\ base \in Nat
  BY <1>1, <1>2, <1>3
<1>. HIDE DEF gaps, base
<1>5. FragmentationPercent * gaps \in Nat
  BY <1>4, PricingAssumption
<1>6. 100 * base + FragmentationPercent * gaps \in Nat
  BY <1>4, <1>5
<1>7. hundredths \in Nat
  BY <1>6, PricingAssumption
<1>. HIDE DEF hundredths
<1>8. (hundredths + 50) \div 100 \in Nat
  BY <1>7
<1>. QED  BY <1>8 DEF CalculateFare, RoundToCents, hundredths, gaps, base
=============================================================================
