CONSTANTS
  FirstSeq = 0
  LastSeq = 3
  Dates = {d1}
  RatePerKm = 7
  FragmentationPercent = 45
  d1 = d1
  s1 = s1
  s2 = s2
  SeatIds = {s1, s2}
  ReservedSeats = {s1}
  Creators = {c1, c2}
  Finalizers = {f1, f2}
  NoHold = NoHold
  NoOwner = NoOwner
  NoRequest = NoRequest
  HoldTTL = 0
  MaxAttempts = 2
  MaxFaults = 0
  LockMayLapse = FALSE
  DistanceBySeq <- MCDistance
  Requests <- OverlappingRequests
SPECIFICATION Spec
SYMMETRY RequestSymmetry
CHECK_DEADLOCK FALSE
INVARIANTS
  HoldsOnlyOnUnbookedLegs
