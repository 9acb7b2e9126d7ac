CONSTANTS
  FirstSeq = 0
  LastSeq = 5
  Dates = {d1, d2}
  DistanceBySeq <- MCDistance
  RatePerKm = 7
  FragmentationPercent = 45
  MaxTaken = 3
SPECIFICATION Spec
INVARIANTS
  StatusMatchesCells
  FareMatchesBoxedIn
  SplittingNeverCheaper
  TravellingFurtherNeverCheaper
SYMMETRY DateSymmetry
