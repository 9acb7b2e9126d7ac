---------------------------- MODULE FareTheorems ----------------------------
(***************************************************************************)
(* Pricing on any line, with any legs on the seat: the status of a leg is  *)
(* that of the stretches it needs, its fare is for its distance and a      *)
(* share of the stretches it boxes in, nobody saves by buying a journey in *)
(* two pieces, and, with a fragmentation rate of at most one, nobody pays  *)
(* more for a part of a journey than for all of it.                        *)
(***************************************************************************)
EXTENDS MCPricing, PricingTheorems

-----------------------------------------------------------------------------
(* Arithmetic of fares *)

LEMMA RoundingIsMonotone ==
  ASSUME NEW x \in Int, NEW y \in Int, x <= y
  PROVE  RoundToCents(x) <= RoundToCents(y)
BY DEF RoundToCents

LEMMA WholeCentsRoundAway ==
  ASSUME NEW n \in Int, NEW x \in Int
  PROVE  RoundToCents(100 * n + x) = n + RoundToCents(x)
BY DEF RoundToCents

LEMMA RoundedIsNat ==
  ASSUME NEW x \in Nat
  PROVE  RoundToCents(x) \in Nat
BY DEF RoundToCents

LEMMA ProductIsMonotone ==
  ASSUME NEW a \in Nat, NEW x \in Nat, NEW y \in Nat, x <= y
  PROVE  a * x \in Nat /\ a * y \in Nat /\ a * x <= a * y
<1>1. PICK d \in Nat : y = x + d
  <2>1. y - x \in Nat /\ y = x + (y - x)
    OBVIOUS
  <2>. QED  BY <2>1
<1>2. a * y = a * x + a * d
  BY <1>1
<1>3. a * x \in Nat /\ a * d \in Nat
  OBVIOUS
<1>. QED  BY <1>2, <1>3

\* The surcharge of a leg, in hundredths of a cent.
Surcharge(l, ns) == RatePerKm * (FragmentationPercent * (LeftGapKm(l, ns) + RightGapKm(l, ns)))

LEMMA Lengths ==
  ASSUME NEW l \in Leg, NEW ns \in SUBSET Leg
  PROVE  BaseKm(l) \in Nat /\ LeftGapKm(l, ns) \in Nat /\ RightGapKm(l, ns) \in Nat
<1>1. BaseKm(l) \in Nat
  BY LegBounds, KmBetween, LegsAssumption DEF BaseKm, Stations
<1>2. LeftGapKm(l, ns) \in Nat
  BY LegBounds, BoundsAreStations, KmBetween, LegsAssumption DEF LeftGapKm, Stations
<1>3. RightGapKm(l, ns) \in Nat
  BY LegBounds, BoundsAreStations, KmBetween, LegsAssumption DEF RightGapKm, Stations
<1>. QED  BY <1>1, <1>2, <1>3

\* A fare is whole cents for the distance and the rounded surcharge.
LEMMA FareInTwoParts ==
  ASSUME NEW l \in Leg, NEW ns \in SUBSET Leg
  PROVE  /\ RatePerKm * BaseKm(l) \in Nat /\ Surcharge(l, ns) \in Nat
         /\ CalculateFare(l, ns) = RatePerKm * BaseKm(l) + RoundToCents(Surcharge(l, ns))
<1>. DEFINE b == BaseKm(l)
            g == FragmentationPercent * (LeftGapKm(l, ns) + RightGapKm(l, ns))
<1>1. b \in Nat /\ g \in Nat
  BY Lengths, PricingAssumption
<1>2. CalculateFare(l, ns) = RoundToCents(RatePerKm * (100 * b + g)) /\ Surcharge(l, ns) = RatePerKm * g
  BY DEF CalculateFare, Surcharge
<1>. HIDE DEF b, g
<1>3. RatePerKm * b \in Nat /\ RatePerKm * g \in Nat
  BY <1>1, PricingAssumption
<1>4. RatePerKm * (100 * b + g) = 100 * (RatePerKm * b) + RatePerKm * g
  BY <1>1, PricingAssumption
<1>5. CalculateFare(l, ns) = RatePerKm * b + RoundToCents(RatePerKm * g)
  BY <1>2, <1>3, <1>4, WholeCentsRoundAway
<1>. QED  BY <1>2, <1>3, <1>5 DEF b

-----------------------------------------------------------------------------
(* A part of a leg among the neighbours of the leg *)

PartOf(s, l) == /\ SameTimeline(s, l)
                /\ LegMin(l) <= LegMin(s) /\ LegMax(s) <= LegMax(l)

FreeAmong(l, ns) == \A n \in ns : ~ Overlaps(n, l)

\* What bounds a leg's gaps bounds those of its parts.
LEMMA PartHasSameBounds ==
  ASSUME NEW l \in Leg, NEW s \in Leg, NEW ns \in SUBSET Leg,
         PartOf(s, l), FreeAmong(l, ns)
  PROVE  LeftBound(s, ns) = LeftBound(l, ns) /\ RightBound(s, ns) = RightBound(l, ns)
<1>1. ASSUME NEW n \in ns
      PROVE  /\ SameTimeline(n, s) <=> SameTimeline(n, l)
             /\ SameTimeline(n, l) => (LegMax(n) <= LegMin(s) <=> LegMax(n) <= LegMin(l))
             /\ SameTimeline(n, l) => (LegMin(n) >= LegMax(s) <=> LegMin(n) >= LegMax(l))
  <2>1. SameTimeline(n, s) <=> SameTimeline(n, l)
    BY DEF PartOf, SameTimeline
  <2>2. /\ LegMin(n) \in Int /\ LegMax(n) \in Int /\ LegMin(n) < LegMax(n)
        /\ LegMin(s) \in Int /\ LegMax(s) \in Int /\ LegMin(s) < LegMax(s)
        /\ LegMin(l) \in Int /\ LegMax(l) \in Int /\ LegMin(l) < LegMax(l)
    BY LegBounds, LegsAssumption DEF Stations
  <2>3. SameTimeline(n, l) => LegMin(n) >= LegMax(l) \/ LegMin(l) >= LegMax(n)
    BY <2>2 DEF FreeAmong, Overlaps
  <2>. QED  BY <2>1, <2>2, <2>3 DEF PartOf
<1>2. {m \in ns : SameTimeline(m, s) /\ LegMax(m) <= LegMin(s)}
        = {m \in ns : SameTimeline(m, l) /\ LegMax(m) <= LegMin(l)}
  BY <1>1
<1>3. {m \in ns : SameTimeline(m, s) /\ LegMin(m) >= LegMax(s)}
        = {m \in ns : SameTimeline(m, l) /\ LegMin(m) >= LegMax(l)}
  BY <1>1
<1>. QED  BY <1>2, <1>3 DEF LeftBound, RightBound

\* Its nearest neighbour is not beyond the end of a leg.
LEMMA BoundsAreOutside ==
  ASSUME NEW l \in Leg, NEW ns \in SUBSET Leg
  PROVE  LeftBound(l, ns) <= LegMin(l) /\ LegMax(l) <= RightBound(l, ns)
<1>. DEFINE ends == {FirstSeq} \cup {LegMax(n) : n \in {m \in ns :
                         SameTimeline(m, l) /\ LegMax(m) <= LegMin(l)}}
            starts == {LastSeq} \cup {LegMin(n) : n \in {m \in ns :
                        SameTimeline(m, l) /\ LegMin(m) >= LegMax(l)}}
<1>1. FirstSeq \in Stations /\ LastSeq \in Stations
  BY LegsAssumption DEF Stations
<1>2. ends \in SUBSET Stations /\ starts \in SUBSET Stations
  BY <1>1, LegBounds
<1>3. \A e \in ends : e <= LegMin(l)
  BY LegBounds, LegsAssumption DEF Stations
<1>4. \A e \in starts : LegMax(l) <= e
  BY LegBounds, LegsAssumption DEF Stations
<1>5. LeftBound(l, ns) = Max(ends) /\ RightBound(l, ns) = Min(starts)
  BY DEF LeftBound, RightBound
<1>6. ends # {} /\ starts # {}
  OBVIOUS
<1>. HIDE DEF ends, starts
<1>7. Max(ends) \in ends /\ Min(starts) \in starts
  BY <1>2, <1>6, StationsHaveMax, StationsHaveMin
<1>. QED  BY <1>3, <1>4, <1>5, <1>7

\* The gaps of a part are those of the leg, longer by at most what the part
\* leaves out of it.
LEMMA PartGaps ==
  ASSUME NEW l \in Leg, NEW s \in Leg, NEW ns \in SUBSET Leg,
         PartOf(s, l), FreeAmong(l, ns)
  PROVE  /\ LeftGapKm(l, ns) <= LeftGapKm(s, ns)
         /\ RightGapKm(l, ns) <= RightGapKm(s, ns)
         /\ LeftGapKm(s, ns) + RightGapKm(s, ns) + BaseKm(s)
              <= LeftGapKm(l, ns) + RightGapKm(l, ns) + BaseKm(l)
         /\ BaseKm(s) <= BaseKm(l)
<1>. DEFINE D == DistanceBySeq
            L == LeftBound(l, ns)
            R == RightBound(l, ns)
<1>1. LeftBound(s, ns) = L /\ RightBound(s, ns) = R
  BY PartHasSameBounds
<1>2. /\ L \in Stations /\ R \in Stations /\ L <= LegMin(l) /\ LegMax(l) <= R
      /\ LegMin(l) \in Stations /\ LegMax(l) \in Stations
      /\ LegMin(s) \in Stations /\ LegMax(s) \in Stations
      /\ LegMin(l) <= LegMin(s) /\ LegMin(s) < LegMax(s) /\ LegMax(s) <= LegMax(l)
  BY LegBounds, BoundsAreStations, BoundsAreOutside DEF PartOf
<1>3. /\ L \in Int /\ R \in Int /\ LegMin(l) \in Int /\ LegMax(l) \in Int
      /\ LegMin(s) \in Int /\ LegMax(s) \in Int
  BY <1>2, LegsAssumption DEF Stations
<1>4. /\ D[L] \in Nat /\ D[R] \in Nat /\ D[LegMin(l)] \in Nat /\ D[LegMax(l)] \in Nat
      /\ D[LegMin(s)] \in Nat /\ D[LegMax(s)] \in Nat
  BY <1>2, PricingAssumption
<1>5. D[LegMin(l)] <= D[LegMin(s)] /\ D[LegMax(s)] <= D[LegMax(l)] /\ D[LegMin(s)] <= D[LegMax(s)]
  <2>1. D[LegMin(s)] - D[LegMin(l)] \in Nat
    BY <1>2, KmBetween
  <2>2. D[LegMax(l)] - D[LegMax(s)] \in Nat
    BY <1>2, KmBetween
  <2>3. D[LegMax(s)] - D[LegMin(s)] \in Nat
    BY <1>2, <1>3, KmBetween
  <2>. QED  BY <1>4, <2>1, <2>2, <2>3
<1>. DEFINE lg == LeftGapKm(l, ns)
            ls == LeftGapKm(s, ns)
            rg == RightGapKm(l, ns)
            rs == RightGapKm(s, ns)
<1>6. lg <= ls /\ ls <= lg + (D[LegMin(s)] - D[LegMin(l)])
  BY <1>1, <1>2, <1>3, <1>4, <1>5 DEF LeftGapKm
<1>7. rg <= rs /\ rs <= rg + (D[LegMax(l)] - D[LegMax(s)])
  BY <1>1, <1>2, <1>3, <1>4, <1>5 DEF RightGapKm
<1>8. BaseKm(l) = D[LegMax(l)] - D[LegMin(l)] /\ BaseKm(s) = D[LegMax(s)] - D[LegMin(s)]
  BY DEF BaseKm
<1>9. lg \in Nat /\ ls \in Nat /\ rg \in Nat /\ rs \in Nat
  BY Lengths
<1>. HIDE DEF lg, ls, rg, rs
<1>10. lg <= ls /\ rg <= rs /\ ls + rs + BaseKm(s) <= lg + rg + BaseKm(l) /\ BaseKm(s) <= BaseKm(l)
  BY <1>4, <1>5, <1>6, <1>7, <1>8, <1>9
<1>. QED  BY <1>10 DEF lg, ls, rg, rs

-----------------------------------------------------------------------------
(* Fares of parts *)

\* What a part costs beyond its distance is at least what the leg does.
LEMMA PartPaysSurcharge ==
  ASSUME NEW l \in Leg, NEW s \in Leg, NEW ns \in SUBSET Leg,
         PartOf(s, l), FreeAmong(l, ns)
  PROVE  CalculateFare(s, ns) >= RatePerKm * BaseKm(s) + RoundToCents(Surcharge(l, ns))
<1>. DEFINE gl == LeftGapKm(l, ns) + RightGapKm(l, ns)
            gs == LeftGapKm(s, ns) + RightGapKm(s, ns)
<1>1. gl \in Nat /\ gs \in Nat /\ gl <= gs
  BY Lengths, PartGaps
<1>2. Surcharge(l, ns) = RatePerKm * (FragmentationPercent * gl)
      /\ Surcharge(s, ns) = RatePerKm * (FragmentationPercent * gs)
  BY DEF Surcharge
<1>. HIDE DEF gl, gs
<1>3. /\ FragmentationPercent * gl \in Nat /\ FragmentationPercent * gs \in Nat
      /\ FragmentationPercent * gl <= FragmentationPercent * gs
  BY <1>1, ProductIsMonotone, PricingAssumption
<1>4. Surcharge(l, ns) <= Surcharge(s, ns)
  BY <1>2, <1>3, ProductIsMonotone, PricingAssumption
<1>5. RoundToCents(Surcharge(l, ns)) <= RoundToCents(Surcharge(s, ns))
  BY <1>4, FareInTwoParts, RoundingIsMonotone
<1>. QED  BY <1>5, FareInTwoParts, RoundedIsNat

\* With a rate of at most one, a part costs no more than the leg.
LEMMA PartNotDearer ==
  ASSUME NEW l \in Leg, NEW s \in Leg, NEW ns \in SUBSET Leg,
         PartOf(s, l), FreeAmong(l, ns), FragmentationPercent <= 100
  PROVE  CalculateFare(s, ns) <= CalculateFare(l, ns)
<1>. DEFINE gl == LeftGapKm(l, ns) + RightGapKm(l, ns)
            gs == LeftGapKm(s, ns) + RightGapKm(s, ns)
            bl == BaseKm(l)
            bs == BaseKm(s)
            F == FragmentationPercent
<1>1. gl \in Nat /\ gs \in Nat /\ bl \in Nat /\ bs \in Nat
      /\ gl <= gs /\ gs + bs <= gl + bl /\ bs <= bl
  BY Lengths, PartGaps
<1>2. /\ CalculateFare(l, ns) = RoundToCents(RatePerKm * (100 * bl + F * gl))
      /\ CalculateFare(s, ns) = RoundToCents(RatePerKm * (100 * bs + F * gs))
  BY DEF CalculateFare
<1>. HIDE DEF gl, gs, bl, bs
<1>3. PICK d \in Nat : gs = gl + d
  <2>1. gs - gl \in Nat /\ gs = gl + (gs - gl)
    BY <1>1
  <2>. QED  BY <2>1
<1>4. d <= bl - bs
  BY <1>1, <1>3
<1>5. F * gs = F * gl + F * d /\ F * gl \in Nat /\ F * gs \in Nat
  BY <1>1, <1>3, PricingAssumption
<1>6. F * d <= 100 * d
  <2>1. d * F <= d * 100
    BY ProductIsMonotone, PricingAssumption
  <2>. QED  BY <2>1, PricingAssumption
<1>. DEFINE hl == 100 * bl + F * gl
            hs == 100 * bs + F * gs
<1>7. hs \in Nat /\ hl \in Nat /\ hs <= hl
  <2>. DEFINE fl == F * gl
              fs == F * gs
              fd == F * d
  <2>1. fs = fl + fd /\ fl \in Nat /\ fs \in Nat /\ fd <= 100 * d
    BY <1>5, <1>6
  <2>2. fd = fs - fl
    <3>1. fd \in Int
      BY PricingAssumption
    <3>. QED  BY <2>1, <3>1
  <2>3. hl = 100 * bl + fl /\ hs = 100 * bs + fs
    OBVIOUS
  <2>. HIDE DEF fl, fs, fd, hl, hs
  <2>. QED  BY <1>1, <1>4, <2>1, <2>2, <2>3
<1>. HIDE DEF hl, hs
<1>8. RatePerKm * hs \in Nat /\ RatePerKm * hl \in Nat /\ RatePerKm * hs <= RatePerKm * hl
  BY <1>7, ProductIsMonotone, PricingAssumption
<1>. QED  BY <1>2, <1>8, RoundingIsMonotone DEF hl, hs

-----------------------------------------------------------------------------
(* The legs on the seat *)

LEMMA SpecTakenAreLegs == Spec => [](taken \in SUBSET Leg)
<1>1. Init => taken \in SUBSET Leg
  BY DEF Init
<1>2. taken \in SUBSET Leg /\ [Next]_taken => (taken \in SUBSET Leg)'
  BY DEF Next, TakeLeg, GiveBack
<1>. QED  BY <1>1, <1>2, PTL DEF Spec

LEMMA AvailableIsFree ==
  ASSUME NEW l, Available(l)
  PROVE  FreeAmong(l, taken)
BY DEF Available, Status, FreeAmong

\* Status says of every leg, and of every division of the taken legs into
\* bookings and holds, what the stretches it needs say.
THEOREM SpecStatusMatchesCells == Spec => []StatusMatchesCells
<1>1. taken \in SUBSET Leg => StatusMatchesCells
  <2>. SUFFICES ASSUME taken \in SUBSET Leg, NEW l \in Leg, NEW b \in SUBSET taken
                PROVE  LET meets(legs) == Cells("seat", l) \cap SeatCells(legs) # {}
                       IN  Status(l, b, taken \ b) = IF meets(b) THEN "booked"
                                                     ELSE IF meets(taken \ b) THEN "pending"
                                                     ELSE "available"
    BY DEF StatusMatchesCells
  <2>1. ASSUME NEW legs \in SUBSET Leg
        PROVE  (\E m \in legs : Overlaps(m, l)) <=> Cells("seat", l) \cap SeatCells(legs) # {}
    <3>1. \A m \in legs : Overlaps(m, l) <=> Cells("seat", m) \cap Cells("seat", l) # {}
      BY OverlapsIffCellsMeet
    <3>. QED  BY <3>1 DEF SeatCells
  <2>2. b \in SUBSET Leg /\ taken \ b \in SUBSET Leg
    OBVIOUS
  <2>3. /\ (\E m \in b : Overlaps(m, l)) <=> Cells("seat", l) \cap SeatCells(b) # {}
        /\ (\E m \in taken \ b : Overlaps(m, l)) <=> Cells("seat", l) \cap SeatCells(taken \ b) # {}
    BY <2>1, <2>2
  <2>. QED  BY <2>3 DEF Status
<1>. QED  BY <1>1, SpecTakenAreLegs, PTL

\* Two pieces cost at least the whole: the one bought first pays the whole
\* leg's surcharge, since it strands no less, and each pays its distance.
THEOREM SpecSplittingNeverCheaper == Spec => []SplittingNeverCheaper
<1>1. taken \in SUBSET Leg => SplittingNeverCheaper
  <2>. SUFFICES ASSUME taken \in SUBSET Leg, NEW l \in Leg, Available(l),
                       NEW m \in LegMin(l) + 1 .. LegMax(l) - 1
                PROVE  LET first == [l EXCEPT !.destination = m]
                           second == [l EXCEPT !.origin = m]
                           whole == CalculateFare(l, taken)
                       IN  /\ CalculateFare(first, taken) + CalculateFare(second, taken \cup {first}) >= whole
                           /\ CalculateFare(second, taken) + CalculateFare(first, taken \cup {second}) >= whole
    BY DEF SplittingNeverCheaper
  <2>. DEFINE first == [l EXCEPT !.destination = m]
              second == [l EXCEPT !.origin = m]
  <2>1. /\ first \in Leg /\ PartOf(first, l)
        /\ second \in Leg /\ PartOf(second, l)
        /\ (LegMin(first) = LegMin(l) /\ LegMax(first) = m /\ LegMin(second) = m /\ LegMax(second) = LegMax(l))
             \/ (LegMin(second) = LegMin(l) /\ LegMax(second) = m /\ LegMin(first) = m /\ LegMax(first) = LegMax(l))
    BY LegsAssumption DEF PartOf, SameTimeline, Leg, Stations, Outbound, LegMin, LegMax
  <2>2. m \in Stations /\ LegMin(l) \in Stations /\ LegMax(l) \in Stations
    BY LegBounds, LegsAssumption DEF Stations
  <2>3. BaseKm(l) = BaseKm(first) + BaseKm(second)
    <3>1. DistanceBySeq[m] \in Nat /\ DistanceBySeq[LegMin(l)] \in Nat /\ DistanceBySeq[LegMax(l)] \in Nat
      BY <2>2, PricingAssumption
    <3>. HIDE DEF first, second
    <3>. QED  BY <2>1, <3>1 DEF BaseKm
  <2>. HIDE DEF first, second
  <2>4. FreeAmong(l, taken)
    BY AvailableIsFree
  <2>5. ASSUME NEW a \in Leg, NEW b \in Leg, PartOf(a, l), BaseKm(l) = BaseKm(a) + BaseKm(b)
        PROVE  CalculateFare(a, taken) + CalculateFare(b, taken \cup {a}) >= CalculateFare(l, taken)
    <3>. DEFINE sur == RoundToCents(Surcharge(l, taken))
                sb == RoundToCents(Surcharge(b, taken \cup {a}))
                ra == RatePerKm * BaseKm(a)
                rb == RatePerKm * BaseKm(b)
    <3>1. taken \cup {a} \in SUBSET Leg
      OBVIOUS
    <3>2. CalculateFare(a, taken) >= ra + sur
      BY <2>4, <2>5, PartPaysSurcharge
    <3>3. CalculateFare(b, taken \cup {a}) = rb + sb /\ sb \in Nat /\ rb \in Nat
      BY <3>1, FareInTwoParts, RoundedIsNat
    <3>4. CalculateFare(l, taken) = RatePerKm * BaseKm(l) + sur /\ sur \in Nat
      BY FareInTwoParts, RoundedIsNat
    <3>5. RatePerKm * BaseKm(l) = ra + rb
      <4>1. BaseKm(a) \in Nat /\ BaseKm(b) \in Nat
        BY Lengths
      <4>. QED  BY <2>5, <4>1, PricingAssumption
    <3>6. CalculateFare(a, taken) \in Nat /\ ra \in Nat
      BY FareIsNat, FareInTwoParts
    <3>. HIDE DEF sur, sb, ra, rb
    <3>. QED  BY <3>2, <3>3, <3>4, <3>5, <3>6
  <2>6. BaseKm(l) = BaseKm(second) + BaseKm(first)
    BY <2>1, <2>3, Lengths
  <2>7. CalculateFare(first, taken) + CalculateFare(second, taken \cup {first}) >= CalculateFare(l, taken)
    BY <2>1, <2>3, <2>5
  <2>8. CalculateFare(second, taken) + CalculateFare(first, taken \cup {second}) >= CalculateFare(l, taken)
    BY <2>1, <2>5, <2>6
  <2>. QED  BY <2>7, <2>8 DEF first, second
<1>. QED  BY <1>1, SpecTakenAreLegs, PTL

\* Boarding a station later or getting off a station earlier costs no more,
\* if FRAGMENTATION_RATE is at most 1.
THEOREM SpecTravellingFurtherNeverCheaper ==
  ASSUME FragmentationPercent <= 100
  PROVE  Spec => []TravellingFurtherNeverCheaper
<1>1. taken \in SUBSET Leg => TravellingFurtherNeverCheaper
  <2>. SUFFICES ASSUME taken \in SUBSET Leg, NEW l \in Leg, Available(l), LegMax(l) - LegMin(l) > 1
                PROVE  LET step == IF Outbound(l) THEN 1 ELSE -1
                           whole == CalculateFare(l, taken)
                       IN  /\ CalculateFare([l EXCEPT !.destination = @ - step], taken) <= whole
                           /\ CalculateFare([l EXCEPT !.origin = @ + step], taken) <= whole
    BY DEF TravellingFurtherNeverCheaper
  <2>. DEFINE step == IF Outbound(l) THEN 1 ELSE -1
              sooner == [l EXCEPT !.destination = @ - step]
              later == [l EXCEPT !.origin = @ + step]
  <2>1. sooner \in Leg /\ PartOf(sooner, l) /\ later \in Leg /\ PartOf(later, l)
    BY LegsAssumption DEF PartOf, SameTimeline, Leg, Stations, Outbound, LegMin, LegMax
  <2>2. FreeAmong(l, taken)
    BY AvailableIsFree
  <2>. HIDE DEF sooner, later
  <2>3. /\ CalculateFare(sooner, taken) <= CalculateFare(l, taken)
        /\ CalculateFare(later, taken) <= CalculateFare(l, taken)
    BY <2>1, <2>2, PartNotDearer
  <2>. QED  BY <2>3 DEF sooner, later
<1>. QED  BY <1>1, SpecTakenAreLegs, PTL

-----------------------------------------------------------------------------
(* Kilometres of stretches *)

\* What Km adds up, as an equation for the function of its LET.
AddsUp(f, units) ==
  f = [s \in Stations |->
         IF s = FirstSeq THEN 0
         ELSE f[s - 1] + IF s - 1 \in units THEN DistanceBySeq[s] - DistanceBySeq[s - 1] ELSE 0]

\* A function that adds up is the only one.
LEMMA KmIsTotal ==
  ASSUME NEW units, NEW f, AddsUp(f, units)
  PROVE  Km(units) = f[LastSeq]
<1>. DEFINE g == CHOOSE h : AddsUp(h, units)
<1>1. AddsUp(g, units)
  OBVIOUS
<1>2. Km(units) = g[LastSeq]
  BY DEF Km, AddsUp
<1>. HIDE DEF g
<1>. DEFINE Bad == {n \in Nat : FirstSeq + n \in Stations /\ g[FirstSeq + n] # f[FirstSeq + n]}
<1>3. ASSUME Bad # {}
      PROVE  FALSE
  <2>1. PICK n \in Bad : \A m \in Bad : n <= m
    BY <1>3, NatHasMin
  <2>2. n \in Nat /\ FirstSeq + n \in Stations /\ g[FirstSeq + n] # f[FirstSeq + n]
    BY <2>1
  <2>3. CASE n = 0
    <3>1. g[FirstSeq] = 0 /\ f[FirstSeq] = 0
      BY <1>1, LegsAssumption DEF AddsUp, Stations
    <3>. QED  BY <2>2, <2>3, <3>1, LegsAssumption
  <2>4. CASE n # 0
    <3>. DEFINE s == FirstSeq + n
    <3>1. s \in Stations /\ s # FirstSeq /\ s - 1 \in Stations /\ s - 1 = FirstSeq + (n - 1) /\ n - 1 \in Nat
      BY <2>2, <2>4, LegsAssumption DEF Stations
    <3>2. g[s - 1] = f[s - 1]
      <4>1. n - 1 \notin Bad
        BY <2>1, <2>2, <2>4
      <4>. QED  BY <3>1, <4>1
    <3>. HIDE DEF s
    <3>3. /\ g[s] = g[s - 1] + IF s - 1 \in units THEN DistanceBySeq[s] - DistanceBySeq[s - 1] ELSE 0
          /\ f[s] = f[s - 1] + IF s - 1 \in units THEN DistanceBySeq[s] - DistanceBySeq[s - 1] ELSE 0
      BY <1>1, <3>1 DEF AddsUp
    <3>. QED  BY <2>2, <3>2, <3>3 DEF s
  <2>. QED  BY <2>3, <2>4
<1>4. LastSeq - FirstSeq \in Nat /\ FirstSeq + (LastSeq - FirstSeq) = LastSeq /\ LastSeq \in Stations
  BY LegsAssumption DEF Stations
<1>5. LastSeq - FirstSeq \notin Bad
  BY <1>3
<1>6. g[LastSeq] = f[LastSeq]
  BY <1>4, <1>5
<1>. QED  BY <1>2, <1>6

\* How much of the stretches from a to b lies before s.
SpanUpTo(a, b, s) == IF s <= a THEN 0
                     ELSE IF s <= b THEN DistanceBySeq[s] - DistanceBySeq[a]
                     ELSE DistanceBySeq[b] - DistanceBySeq[a]

\* Two separate spans are as long as the distances between their ends.
LEMMA KmOfTwoSpans ==
  ASSUME NEW a \in Stations, NEW b \in Stations, NEW c \in Stations, NEW d \in Stations,
         a <= b, b <= c, c <= d
  PROVE  Km((a .. b - 1) \cup (c .. d - 1))
           = DistanceBySeq[b] - DistanceBySeq[a] + (DistanceBySeq[d] - DistanceBySeq[c])
<1>. USE LegsAssumption DEF Stations
<1>. DEFINE units == (a .. b - 1) \cup (c .. d - 1)
            f == [s \in Stations |-> SpanUpTo(a, b, s) + SpanUpTo(c, d, s)]
<1>1. \A s \in Stations : DistanceBySeq[s] \in Int
  BY PricingAssumption
<1>2. ASSUME NEW s \in Stations
      PROVE  f[s] = IF s = FirstSeq THEN 0
                    ELSE f[s - 1] + IF s - 1 \in units THEN DistanceBySeq[s] - DistanceBySeq[s - 1] ELSE 0
  <2>1. CASE s = FirstSeq
    BY <2>1 DEF SpanUpTo
  <2>2. CASE s # FirstSeq
    <3>1. s - 1 \in Stations /\ s \in Int
      BY <2>2
    <3>2. f[s] = SpanUpTo(a, b, s) + SpanUpTo(c, d, s) /\ f[s - 1] = SpanUpTo(a, b, s - 1) + SpanUpTo(c, d, s - 1)
      BY <3>1
    <3>3. ASSUME NEW x \in Stations, NEW y \in Stations, x <= y
          PROVE  /\ SpanUpTo(x, y, s) \in Int /\ SpanUpTo(x, y, s - 1) \in Int
                 /\ SpanUpTo(x, y, s) = SpanUpTo(x, y, s - 1)
                      + IF s - 1 \in x .. y - 1 THEN DistanceBySeq[s] - DistanceBySeq[s - 1] ELSE 0
      <4>1. /\ DistanceBySeq[s] \in Int /\ DistanceBySeq[s - 1] \in Int
            /\ DistanceBySeq[x] \in Int /\ DistanceBySeq[y] \in Int
        BY <1>1, <3>1, <3>3
      <4>2. CASE s <= x
        BY <3>1, <3>3, <4>1, <4>2 DEF SpanUpTo
      <4>3. CASE s = x + 1 /\ x < y
        BY <3>1, <3>3, <4>1, <4>3 DEF SpanUpTo
      <4>4. CASE s > x + 1 /\ s <= y
        BY <3>1, <3>3, <4>1, <4>4 DEF SpanUpTo
      <4>5. CASE s = y + 1
        BY <3>1, <3>3, <4>1, <4>5 DEF SpanUpTo
      <4>6. CASE s > y + 1
        BY <3>1, <3>3, <4>1, <4>6 DEF SpanUpTo
      <4>. QED  BY <3>1, <3>3, <4>2, <4>3, <4>4, <4>5, <4>6
    <3>4. s - 1 \in units <=> (s - 1 \in a .. b - 1 \/ s - 1 \in c .. d - 1)
      OBVIOUS
    <3>5. ~ (s - 1 \in a .. b - 1 /\ s - 1 \in c .. d - 1)
      BY <3>1
    <3>6. DistanceBySeq[s] - DistanceBySeq[s - 1] \in Int
      BY <1>1, <3>1
    <3>. HIDE DEF units, f
    <3>7. /\ SpanUpTo(a, b, s) \in Int /\ SpanUpTo(a, b, s - 1) \in Int
          /\ SpanUpTo(a, b, s) = SpanUpTo(a, b, s - 1)
               + IF s - 1 \in a .. b - 1 THEN DistanceBySeq[s] - DistanceBySeq[s - 1] ELSE 0
      BY <3>3
    <3>8. /\ SpanUpTo(c, d, s) \in Int /\ SpanUpTo(c, d, s - 1) \in Int
          /\ SpanUpTo(c, d, s) = SpanUpTo(c, d, s - 1)
               + IF s - 1 \in c .. d - 1 THEN DistanceBySeq[s] - DistanceBySeq[s - 1] ELSE 0
      BY <3>3
    <3>. QED  BY <2>2, <3>2, <3>4, <3>5, <3>6, <3>7, <3>8
  <2>. QED  BY <2>1, <2>2
<1>3. AddsUp(f, units)
  <2>1. f = [s \in Stations |->
               IF s = FirstSeq THEN 0
               ELSE f[s - 1] + IF s - 1 \in units THEN DistanceBySeq[s] - DistanceBySeq[s - 1] ELSE 0]
    <3>. HIDE DEF units
    <3>. QED  BY <1>2
  <2>. HIDE DEF f, units
  <2>. QED  BY <2>1 DEF AddsUp
<1>4. Km(units) = f[LastSeq]
  <2>. HIDE DEF f, units
  <2>. QED  BY <1>3, KmIsTotal
<1>5. f[LastSeq] = DistanceBySeq[b] - DistanceBySeq[a] + (DistanceBySeq[d] - DistanceBySeq[c])
  <2>1. SpanUpTo(a, b, LastSeq) = DistanceBySeq[b] - DistanceBySeq[a]
    BY <1>1 DEF SpanUpTo
  <2>2. SpanUpTo(c, d, LastSeq) = DistanceBySeq[d] - DistanceBySeq[c]
    BY <1>1 DEF SpanUpTo
  <2>. QED  BY <2>1, <2>2
<1>. QED  BY <1>4, <1>5

-----------------------------------------------------------------------------
(* The stretches a leg boxes in *)

\* Stretches of the leg's timeline that the legs ns use, and the free ones
\* between two passengers, as in BoxedIn.
Busy(l, ns) == {u \in FirstSeq .. LastSeq - 1 :
                  <<"seat", l.date, Outbound(l), u>> \in SeatCells(ns)}

Before(l, ns) == {u \in FirstSeq .. LegMin(l) - 1 : /\ (u .. LegMin(l) - 1) \cap Busy(l, ns) = {}
                                                    /\ \E w \in Busy(l, ns) : w < u}

After(l, ns) == {u \in LegMax(l) .. LastSeq - 1 : /\ (LegMax(l) .. u) \cap Busy(l, ns) = {}
                                                  /\ \E w \in Busy(l, ns) : w > u}

LEMMA BusyMeansUsed ==
  ASSUME NEW l \in Leg, NEW ns \in SUBSET Leg, NEW u
  PROVE  u \in Busy(l, ns) <=> \E n \in ns : SameTimeline(n, l) /\ u \in LegMin(n) .. LegMax(n) - 1
<1>1. ASSUME u \in Busy(l, ns)
      PROVE  \E n \in ns : SameTimeline(n, l) /\ u \in LegMin(n) .. LegMax(n) - 1
  BY <1>1 DEF Busy, SeatCells, Cells, Segment, SameTimeline
<1>2. ASSUME NEW n \in ns, SameTimeline(n, l), u \in LegMin(n) .. LegMax(n) - 1
      PROVE  u \in Busy(l, ns)
  <2>1. u \in FirstSeq .. LastSeq - 1
    BY <1>2, LegBounds, LegsAssumption DEF Stations
  <2>2. <<"seat", l.date, Outbound(l), u>> \in Cells("seat", n)
    BY <1>2 DEF Cells, Segment, SameTimeline
  <2>. QED  BY <2>1, <2>2 DEF Busy, SeatCells
<1>. QED  BY <1>1, <1>2

\* Before the leg, what it boxes in reaches from its nearest neighbour to its
\* start, and that is the gap it pays for.
LEMMA BeforeIsLeftGap ==
  ASSUME NEW l \in Leg, NEW ns \in SUBSET Leg, FreeAmong(l, ns)
  PROVE  \E b \in Stations : /\ b <= LegMin(l)
                             /\ Before(l, ns) = b .. LegMin(l) - 1
                             /\ LeftGapKm(l, ns) = DistanceBySeq[LegMin(l)] - DistanceBySeq[b]
<1>. DEFINE ended == {m \in ns : SameTimeline(m, l) /\ LegMax(m) <= LegMin(l)}
            ends == {FirstSeq} \cup {LegMax(n) : n \in ended}
            L == LeftBound(l, ns)
<1>1. L = Max(ends)
  BY DEF LeftBound
<1>2. ends \in SUBSET Stations /\ FirstSeq \in ends
  <2>1. \A n \in ended : LegMax(n) \in Stations
    BY LegBounds
  <2>2. FirstSeq \in Stations
    BY LegsAssumption DEF Stations
  <2>. HIDE DEF ended
  <2>. QED  BY <2>1, <2>2
<1>3. L \in ends /\ \A e \in ends : e <= L
  <2>. HIDE DEF ends, L
  <2>. QED  BY <1>1, <1>2, StationsHaveMax
<1>4. LegMin(l) \in Stations /\ L \in Stations /\ L <= LegMin(l)
  BY LegBounds, BoundsAreStations, BoundsAreOutside
<1>5. ASSUME NEW w \in Busy(l, ns), w < LegMin(l)
      PROVE  w < L /\ ended # {}
  <2>1. PICK n \in ns : SameTimeline(n, l) /\ w \in LegMin(n) .. LegMax(n) - 1
    BY BusyMeansUsed
  <2>2. LegMin(n) \in Int /\ LegMax(n) \in Int /\ LegMin(l) \in Int /\ LegMax(l) \in Int /\ LegMin(l) < LegMax(l)
    BY LegBounds, LegsAssumption DEF Stations
  <2>3. LegMax(n) <= LegMin(l)
    BY <1>5, <2>1, <2>2 DEF FreeAmong, Overlaps
  <2>4. n \in ended
    BY <2>1, <2>3
  <2>5. LegMax(n) <= L
    BY <1>3, <2>4
  <2>. HIDE DEF L, ended
  <2>6. L \in Int
    BY <1>4, LegsAssumption DEF Stations
  <2>. QED  BY <2>1, <2>2, <2>4, <2>5, <2>6
<1>6. CASE ended = {}
  <2>1. Before(l, ns) = {}
    <3>. SUFFICES ASSUME NEW u \in Before(l, ns) PROVE FALSE
      OBVIOUS
    <3>1. PICK w \in Busy(l, ns) : w < u
      BY DEF Before
    <3>2. u \in FirstSeq .. LegMin(l) - 1 /\ w \in FirstSeq .. LastSeq - 1
      BY DEF Before, Busy
    <3>3. w < LegMin(l)
      BY <1>4, <3>1, <3>2, LegsAssumption DEF Stations
    <3>. QED  BY <1>5, <1>6, <3>3
  <2>2. L = FirstSeq
    BY <1>3, <1>6
  <2>3. LeftGapKm(l, ns) = 0
    BY <2>2 DEF LeftGapKm
  <2>4. DistanceBySeq[LegMin(l)] - DistanceBySeq[LegMin(l)] = 0
    BY <1>4, PricingAssumption
  <2>5. LegMin(l) .. LegMin(l) - 1 = {} /\ LegMin(l) <= LegMin(l)
    BY <1>4, LegsAssumption DEF Stations
  <2>. QED  BY <1>4, <2>1, <2>3, <2>4, <2>5
<1>7. CASE ended # {}
  <2>1. PICK m \in ended : TRUE
    BY <1>7
  <2>2. L > FirstSeq
    <3>1. LegMax(m) <= L
      BY <1>3
    <3>2. LegMin(m) \in Stations /\ LegMax(m) \in Stations /\ LegMin(m) < LegMax(m)
      BY LegBounds
    <3>. HIDE DEF L
    <3>. QED  BY <1>4, <3>1, <3>2, LegsAssumption DEF Stations
  <2>3. PICK n \in ended : L = LegMax(n)
    BY <1>3, <2>2, LegsAssumption
  <2>4. L - 1 \in Busy(l, ns)
    <3>1. LegMin(n) \in Int /\ LegMax(n) \in Int /\ LegMin(n) < LegMax(n)
      BY LegBounds, LegsAssumption DEF Stations
    <3>. HIDE DEF L
    <3>2. L - 1 \in LegMin(n) .. LegMax(n) - 1
      BY <2>3, <3>1
    <3>. QED  BY <3>2, BusyMeansUsed
  <2>5. Before(l, ns) = L .. LegMin(l) - 1
    <3>. HIDE DEF L, ended
    <3>1. FirstSeq \in Int /\ L \in Int /\ LegMin(l) \in Int /\ FirstSeq <= L
      BY <1>4, LegsAssumption DEF Stations
    <3>2. ASSUME NEW u \in Before(l, ns)
          PROVE  u \in L .. LegMin(l) - 1
      <4>1. u \in FirstSeq .. LegMin(l) - 1 /\ L - 1 \notin u .. LegMin(l) - 1
        BY <2>4 DEF Before
      <4>. QED  BY <1>4, <3>1, <4>1
    <3>3. ASSUME NEW u \in L .. LegMin(l) - 1
          PROVE  u \in Before(l, ns)
      <4>1. (u .. LegMin(l) - 1) \cap Busy(l, ns) = {}
        BY <1>5, <3>1
      <4>2. L - 1 < u /\ u \in FirstSeq .. LegMin(l) - 1
        BY <3>1
      <4>. QED  BY <2>4, <4>1, <4>2 DEF Before
    <3>. QED  BY <3>2, <3>3
  <2>6. LeftGapKm(l, ns) = DistanceBySeq[LegMin(l)] - DistanceBySeq[L]
    <3>. HIDE DEF L
    <3>1. L # FirstSeq
      BY <2>2, <1>4, LegsAssumption DEF Stations
    <3>2. CASE L < LegMin(l)
      BY <3>1, <3>2 DEF LeftGapKm, L
    <3>3. CASE ~ (L < LegMin(l))
      <4>1. L = LegMin(l)
        BY <1>4, <3>3, LegsAssumption DEF Stations
      <4>2. LeftGapKm(l, ns) = 0
        BY <3>3 DEF LeftGapKm, L
      <4>3. DistanceBySeq[LegMin(l)] \in Nat
        BY <1>4, PricingAssumption
      <4>. QED  BY <4>1, <4>2, <4>3
    <3>. QED  BY <3>2, <3>3
  <2>. QED  BY <1>4, <2>5, <2>6
<1>. QED  BY <1>6, <1>7

\* Likewise after it.
LEMMA AfterIsRightGap ==
  ASSUME NEW l \in Leg, NEW ns \in SUBSET Leg, FreeAmong(l, ns)
  PROVE  \E a \in Stations : /\ LegMax(l) <= a
                             /\ After(l, ns) = LegMax(l) .. a - 1
                             /\ RightGapKm(l, ns) = DistanceBySeq[a] - DistanceBySeq[LegMax(l)]
<1>. DEFINE begun == {m \in ns : SameTimeline(m, l) /\ LegMin(m) >= LegMax(l)}
            starts == {LastSeq} \cup {LegMin(n) : n \in begun}
            R == RightBound(l, ns)
<1>1. R = Min(starts)
  BY DEF RightBound
<1>2. starts \in SUBSET Stations /\ LastSeq \in starts
  <2>1. \A n \in begun : LegMin(n) \in Stations
    BY LegBounds
  <2>2. LastSeq \in Stations
    BY LegsAssumption DEF Stations
  <2>. HIDE DEF begun
  <2>. QED  BY <2>1, <2>2
<1>3. R \in starts /\ \A e \in starts : R <= e
  <2>. HIDE DEF starts, R
  <2>. QED  BY <1>1, <1>2, StationsHaveMin
<1>4. LegMax(l) \in Stations /\ R \in Stations /\ LegMax(l) <= R
  BY LegBounds, BoundsAreStations, BoundsAreOutside
<1>5. ASSUME NEW w \in Busy(l, ns), w >= LegMax(l)
      PROVE  w >= R /\ begun # {}
  <2>1. PICK n \in ns : SameTimeline(n, l) /\ w \in LegMin(n) .. LegMax(n) - 1
    BY BusyMeansUsed
  <2>2. LegMin(n) \in Int /\ LegMax(n) \in Int /\ LegMin(l) \in Int /\ LegMax(l) \in Int /\ LegMin(l) < LegMax(l)
    BY LegBounds, LegsAssumption DEF Stations
  <2>3. LegMin(n) >= LegMax(l)
    BY <1>5, <2>1, <2>2 DEF FreeAmong, Overlaps
  <2>4. n \in begun
    BY <2>1, <2>3
  <2>5. R <= LegMin(n)
    BY <1>3, <2>4
  <2>. HIDE DEF R, begun
  <2>6. R \in Int
    BY <1>4, LegsAssumption DEF Stations
  <2>. QED  BY <2>1, <2>2, <2>4, <2>5, <2>6
<1>6. CASE begun = {}
  <2>1. After(l, ns) = {}
    <3>. SUFFICES ASSUME NEW u \in After(l, ns) PROVE FALSE
      OBVIOUS
    <3>1. PICK w \in Busy(l, ns) : w > u
      BY DEF After
    <3>2. u \in LegMax(l) .. LastSeq - 1 /\ w \in FirstSeq .. LastSeq - 1
      BY DEF After, Busy
    <3>3. w >= LegMax(l)
      BY <1>4, <3>1, <3>2, LegsAssumption DEF Stations
    <3>. QED  BY <1>5, <1>6, <3>3
  <2>2. R = LastSeq
    BY <1>3, <1>6
  <2>3. RightGapKm(l, ns) = 0
    BY <2>2 DEF RightGapKm
  <2>4. DistanceBySeq[LegMax(l)] - DistanceBySeq[LegMax(l)] = 0
    BY <1>4, PricingAssumption
  <2>5. LegMax(l) .. LegMax(l) - 1 = {} /\ LegMax(l) <= LegMax(l)
    BY <1>4, LegsAssumption DEF Stations
  <2>. QED  BY <1>4, <2>1, <2>3, <2>4, <2>5
<1>7. CASE begun # {}
  <2>1. PICK m \in begun : TRUE
    BY <1>7
  <2>2. R < LastSeq
    <3>1. R <= LegMin(m)
      BY <1>3
    <3>2. LegMin(m) \in Stations /\ LegMax(m) \in Stations /\ LegMin(m) < LegMax(m)
      BY LegBounds
    <3>. HIDE DEF R
    <3>. QED  BY <1>4, <3>1, <3>2, LegsAssumption DEF Stations
  <2>3. PICK n \in begun : R = LegMin(n)
    BY <1>3, <2>2, LegsAssumption
  <2>4. R \in Busy(l, ns)
    <3>1. LegMin(n) \in Int /\ LegMax(n) \in Int /\ LegMin(n) < LegMax(n)
      BY LegBounds, LegsAssumption DEF Stations
    <3>. HIDE DEF R
    <3>2. R \in LegMin(n) .. LegMax(n) - 1
      BY <2>3, <3>1
    <3>. QED  BY <3>2, BusyMeansUsed
  <2>5. After(l, ns) = LegMax(l) .. R - 1
    <3>. HIDE DEF R, begun
    <3>1. LastSeq \in Int /\ R \in Int /\ LegMax(l) \in Int /\ R <= LastSeq
      BY <1>4, LegsAssumption DEF Stations
    <3>2. ASSUME NEW u \in After(l, ns)
          PROVE  u \in LegMax(l) .. R - 1
      <4>1. u \in LegMax(l) .. LastSeq - 1 /\ R \notin LegMax(l) .. u
        BY <2>4 DEF After
      <4>. QED  BY <1>4, <3>1, <4>1
    <3>3. ASSUME NEW u \in LegMax(l) .. R - 1
          PROVE  u \in After(l, ns)
      <4>1. (LegMax(l) .. u) \cap Busy(l, ns) = {}
        BY <1>5, <3>1
      <4>2. R > u /\ u \in LegMax(l) .. LastSeq - 1
        BY <3>1
      <4>. QED  BY <2>4, <4>1, <4>2 DEF After
    <3>. QED  BY <3>2, <3>3
  <2>6. RightGapKm(l, ns) = DistanceBySeq[R] - DistanceBySeq[LegMax(l)]
    <3>. HIDE DEF R
    <3>1. R # LastSeq
      BY <2>2, <1>4, LegsAssumption DEF Stations
    <3>2. CASE R > LegMax(l)
      BY <3>1, <3>2 DEF RightGapKm, R
    <3>3. CASE ~ (R > LegMax(l))
      <4>1. R = LegMax(l)
        BY <1>4, <3>3, LegsAssumption DEF Stations
      <4>2. RightGapKm(l, ns) = 0
        BY <3>3 DEF RightGapKm, R
      <4>3. DistanceBySeq[LegMax(l)] \in Nat
        BY <1>4, PricingAssumption
      <4>. QED  BY <4>1, <4>2, <4>3
    <3>. QED  BY <3>2, <3>3
  <2>. QED  BY <1>4, <2>5, <2>6
<1>. QED  BY <1>6, <1>7

-----------------------------------------------------------------------------
(* The fare and what the leg boxes in *)

LEMMA KmOfSegment ==
  ASSUME NEW l \in Leg
  PROVE  Km(Segment(l)) = BaseKm(l)
<1>1. /\ LegMin(l) \in Stations /\ LegMax(l) \in Stations /\ LastSeq \in Stations
      /\ LegMin(l) <= LegMax(l) /\ LegMax(l) <= LastSeq /\ LastSeq <= LastSeq
  BY LegBounds, LegsAssumption DEF Stations
<1>2. Segment(l) = (LegMin(l) .. LegMax(l) - 1) \cup (LastSeq .. LastSeq - 1)
  BY LegsAssumption DEF Segment
<1>3. Km(Segment(l)) = DistanceBySeq[LegMax(l)] - DistanceBySeq[LegMin(l)]
                        + (DistanceBySeq[LastSeq] - DistanceBySeq[LastSeq])
  BY <1>1, <1>2, KmOfTwoSpans
<1>4. /\ DistanceBySeq[LegMin(l)] \in Nat /\ DistanceBySeq[LegMax(l)] \in Nat
      /\ DistanceBySeq[LastSeq] \in Nat
  BY <1>1, PricingAssumption
<1>. QED  BY <1>3, <1>4 DEF BaseKm

\* The kilometres a leg strands between two passengers are its two gaps.
LEMMA KmOfBoxedIn ==
  ASSUME NEW l \in Leg, taken \in SUBSET Leg, FreeAmong(l, taken)
  PROVE  Km(BoxedIn(l)) = LeftGapKm(l, taken) + RightGapKm(l, taken)
<1>1. PICK b \in Stations : /\ b <= LegMin(l)
                            /\ Before(l, taken) = b .. LegMin(l) - 1
                            /\ LeftGapKm(l, taken) = DistanceBySeq[LegMin(l)] - DistanceBySeq[b]
  BY BeforeIsLeftGap
<1>2. PICK a \in Stations : /\ LegMax(l) <= a
                            /\ After(l, taken) = LegMax(l) .. a - 1
                            /\ RightGapKm(l, taken) = DistanceBySeq[a] - DistanceBySeq[LegMax(l)]
  BY AfterIsRightGap
<1>3. BoxedIn(l) = Before(l, taken) \cup After(l, taken)
  BY DEF BoxedIn, Before, After, Busy
<1>4. LegMin(l) \in Stations /\ LegMax(l) \in Stations /\ LegMin(l) <= LegMax(l)
  BY LegBounds, LegsAssumption DEF Stations
<1>. QED  BY <1>1, <1>2, <1>3, <1>4, KmOfTwoSpans

LEMMA RoundedWithinHalf ==
  ASSUME NEW x \in Int
  PROVE  100 * RoundToCents(x) - x \in -49 .. 50
BY DEF RoundToCents

\* The fare of an available leg is its distance plus the fragmentation share
\* of the stretches it boxes in, to the cent, for any line and any legs.
THEOREM SpecFareMatchesBoxedIn == Spec => []FareMatchesBoxedIn
<1>1. taken \in SUBSET Leg => FareMatchesBoxedIn
  <2>. SUFFICES ASSUME taken \in SUBSET Leg, NEW l \in Leg, Available(l)
                PROVE  100 * CalculateFare(l, taken)
                         - (100 * RatePerKm * Km(Segment(l))
                              + FragmentationPercent * RatePerKm * Km(BoxedIn(l))) \in -49 .. 50
    BY DEF FareMatchesBoxedIn
  <2>. DEFINE b == BaseKm(l)
              g == LeftGapKm(l, taken) + RightGapKm(l, taken)
  <2>1. Km(Segment(l)) = b /\ Km(BoxedIn(l)) = g
    BY AvailableIsFree, KmOfSegment, KmOfBoxedIn
  <2>2. b \in Nat /\ g \in Nat
    BY Lengths
  <2>3. CalculateFare(l, taken) = RoundToCents(RatePerKm * (100 * b + FragmentationPercent * g))
    BY DEF CalculateFare
  <2>. HIDE DEF b, g
  <2>4. RatePerKm * (100 * b + FragmentationPercent * g) \in Int
    BY <2>2, PricingAssumption
  <2>5. RatePerKm * (100 * b + FragmentationPercent * g)
          = 100 * RatePerKm * b + FragmentationPercent * RatePerKm * g
    BY <2>2, PricingAssumption
  <2>. QED  BY <2>1, <2>3, <2>4, <2>5, RoundedWithinHalf
<1>. QED  BY <1>1, SpecTakenAreLegs, PTL
=============================================================================
