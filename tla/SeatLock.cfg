CONSTANTS
  Requests = {r1, r2, r3}
  NoOwner = NoOwner
  LockTTL = 100
  RetryDelay = 1
  MaxAttempts = 20
  SectionMax = 4
  MaxLost = 1
SPECIFICATION Spec
SYMMETRY RequestSymmetry
CHECK_DEADLOCK FALSE
INVARIANTS
  TypeOK
  OwnersWorkAlone
  WaitersGetTheirTurn
PROPERTIES
  ImplementsMutex
