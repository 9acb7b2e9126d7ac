CONSTANTS
  FirstSeq = 0
  LastSeq = 3
  Dates = {d1}
  RatePerKm = 7
  FragmentationPercent = 45
  d1 = d1
  s1 = s1
  s2 = s2
  SeatIds = {s1, s2}
  ReservedSeats = {s1}
  Creators = {c1, c2, c3}
  Finalizers = {f1}
  NoHold = NoHold
  NoOwner = NoOwner
  NoRequest = NoRequest
  HoldTTL = 300
  MaxAttempts = 2
  MaxFaults = 1
  LockMayLapse = FALSE
  DistanceBySeq <- MCDistance
  Requests <- OverlappingRequests
SPECIFICATION Spec
SYMMETRY RequestSymmetry
CHECK_DEADLOCK FALSE
INVARIANTS
  SectionsExclusive
  NoOverlappingHolds
PROPERTIES
  ImplementsRegister
  ImplementsMutex
