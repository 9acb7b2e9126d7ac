CONSTANTS
  FirstSeq = 0
  LastSeq = 3
  Dates = {d1}
  RatePerKm = 7
  FragmentationPercent = 45
  d1 = d1
  s1 = s1
  s2 = s2
  s3 = s3
  SeatIds = {s1, s2, s3}
  ReservedSeats = {s1, s2}
  Creators = {c1, c2}
  Finalizers = {f1}
  Searchers = {q1}
  NoHold = NoHold
  NoOwner = NoOwner
  NoRequest = NoRequest
  NoQuery = NoQuery
  HoldTTL = 300
  MaxAttempts = 2
  MaxFaults = 0
  LockMayLapse = TRUE
  DistanceBySeq <- MCDistance
  Requests <- MCRequests
  Queries <- MCQueries
SPECIFICATION ListingSpec
SYMMETRY CreatorSymmetry
CHECK_DEADLOCK FALSE
INVARIANTS
  ListingTypeOK
  SteadySeatsListedRight
  NoFreeSeatHidden
